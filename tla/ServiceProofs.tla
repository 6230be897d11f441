--------------------------- MODULE ServiceProofs ----------------------------
(***************************************************************************)
(* What overtakes what, and what is cut short: why a migration that dies   *)
(* at any point loses nothing, why the last configuration asked for        *)
(* decides which backend is in use and a reload never takes one away, and  *)
(* why a recording nobody owns any more is followed by its cancel.         *)
(***************************************************************************)
EXTENDS ConfigMigration, BackendReload, Frontend, TLAPS

(* The time, in seconds, a leaf that names no prover gives to each.        *)
USE SMTT(30), ZenonT(30)

(* What a whole run makes of either file. *)
NewConfig(f) == IF f = NoFile THEN NoFile ELSE MigratedConfig(f)
NewConf(f) == IF f = NoFile THEN NoFile ELSE MigratedConf(f)

Seconds == 0..MaxSeconds

(* A file is the user's or what a run makes of it, a run is about to write *)
(* no third thing, and it writes nothing whose original is not saved.      *)
MigrationTypes ==
    /\ stage \in {"idle", "config_backup", "config_write", "conf_backup", "conf_write"}
    /\ second \in Seconds /\ ts \in Seconds
    /\ DOMAIN backups = {"config", "conf"}
    /\ DOMAIN backups.config = Seconds /\ DOMAIN backups.conf = Seconds

MigrationInv ==
    /\ MigrationTypes
    /\ was.config \in ConfigFiles \cup {NoFile}
    /\ config \in {was.config, NewConfig(was.config)}
    /\ conf \in {was.conf, NewConf(was.conf)}
    /\ stage # "idle" =>
         report = "none" /\ new.config = NewConfig(was.config) /\ new.conf = NewConf(was.conf)
    /\ stage = "config_write" => backups.config[ts] = was.config
    /\ stage = "conf_write" => backups.conf[ts] = was.conf
    /\ stage \in {"conf_backup", "conf_write"} => config = new.config
    /\ OriginalIsKept
    /\ report \in {"applied", "not needed"} => Satisfied(config) /\ ~HasOutdatedIniKeys(conf)

-----------------------------------------------------------------------------
Same(f, g, k) == (Has(f, k) <=> Has(g, k)) /\ (Has(f, k) => f[k] = g[k])

LEMMA Renames ==
    ASSUME NEW f, NEW v, NEW key, NEW to
    PROVE  ApplyAction(f, Rename(v, key, to))
             = IF Has(f, key) THEN Erased(IF Has(f, to) THEN f ELSE With(f, to, f[key]), key) ELSE f
BY DEF ApplyAction, Rename

LEMMA Removes ==
    ASSUME NEW f, NEW v, NEW key
    PROVE  ApplyAction(f, Remove(v, key)) = Erased(f, key)
BY DEF ApplyAction, Remove

LEMMA Ensures ==
    ASSUME NEW f, NEW v, NEW key, NEW value
    PROVE  ApplyAction(f, Ensure(v, key, value)) = IF Has(f, key) THEN f ELSE With(f, key, value)
BY DEF ApplyAction, Ensure

LEMMA Replaces ==
    ASSUME NEW f, NEW v, NEW key, NEW old, NEW value
    PROVE  ApplyAction(f, ReplaceIfDefault(v, key, old, value))
             = IF Has(f, key) /\ f[key] = old THEN With(f, key, value) ELSE f
BY DEF ApplyAction, ReplaceIfDefault

LEMMA WithOthers ==
    ASSUME NEW f, NEW key, NEW value, NEW k, k # key
    PROVE  Same(f, With(f, key, value), k) /\ Same(f, Erased(f, key), k)
BY DEF Same, With, Erased, Has

LEMMA RenameOthers ==
    ASSUME NEW f, NEW v, NEW key, NEW to, NEW k, k # key, k # to
    PROVE  Same(f, ApplyAction(f, Rename(v, key, to)), k)
  <1> DEFINE h == IF Has(f, to) THEN f ELSE With(f, to, f[key])
  <1>1. Same(f, h, k)
    BY WithOthers DEF Same
  <1> HIDE DEF h
  <1>2. Same(h, Erased(h, key), k)
    BY WithOthers
  <1>3. ApplyAction(f, Rename(v, key, to)) = IF Has(f, key) THEN Erased(h, key) ELSE f
    BY Renames DEF h
  <1> QED
    BY <1>1, <1>2, <1>3 DEF Same

LEMMA RenameCarries ==
    ASSUME NEW f, NEW v, NEW key, NEW to, key # to
    PROVE  LET g == ApplyAction(f, Rename(v, key, to))
           IN  /\ ~Has(g, key)
               /\ Has(f, to) => Has(g, to) /\ g[to] = f[to]
               /\ Has(f, key) /\ ~Has(f, to) => Has(g, to) /\ g[to] = f[key]
  <1> DEFINE h == IF Has(f, to) THEN f ELSE With(f, to, f[key])
             g == ApplyAction(f, Rename(v, key, to))
  <1>1. Has(f, to) => h = f
    OBVIOUS
  <1>2. ~Has(f, to) => Has(h, to) /\ h[to] = f[key]
    BY DEF With, Has
  <1>3. g = IF Has(f, key) THEN Erased(h, key) ELSE f
    BY Renames
  <1> HIDE DEF h, g
  <1>4. ~Has(g, key)
    BY <1>3 DEF Erased, Has
  <1>5. Same(h, Erased(h, key), to)
    BY WithOthers
  <1>6. Has(f, to) => Has(g, to) /\ g[to] = f[to]
    BY <1>1, <1>3, <1>5 DEF Same
  <1>7. Has(f, key) /\ ~Has(f, to) => Has(g, to) /\ g[to] = f[key]
    BY <1>2, <1>3, <1>5 DEF Same
  <1> QED
    BY <1>4, <1>6, <1>7 DEF g

-----------------------------------------------------------------------------
(* What a rule for config.json leaves alone. *)
Touched == << {"candidate_count", "count"}, {"adaptors", "adapters"}, {"show_raw", "raw_cand"},
              {"raw_prev"}, {"default_language"}, {"threshold"}, {"min_speech_duration"},
              {"min_silence_duration"}, {"speech_pad_ms"}, {"speech_pad_ms"} >>

LEMMA JsonRuleOthers ==
    ASSUME NEW f, NEW from, NEW i \in 1..10, NEW k, k \notin Touched[i]
    PROVE  Same(f, ApplyJsonRule(f, from, i), k)
  <1>0. Same(f, f, k)
    BY DEF Same
  <1>1. CASE i = 1
    <2>1. JsonRules[i] = Rename(V2_3_15, "candidate_count", "count")
          /\ Touched[i] = {"candidate_count", "count"}
      BY <1>1 DEF JsonRules, Touched
    <2> QED
      BY <1>0, <2>1, RenameOthers DEF ApplyJsonRule
  <1>2. CASE i = 2
    <2>1. JsonRules[i] = Rename(V2_3_15, "adaptors", "adapters")
          /\ Touched[i] = {"adaptors", "adapters"}
      BY <1>2 DEF JsonRules, Touched
    <2> QED
      BY <1>0, <2>1, RenameOthers DEF ApplyJsonRule
  <1>3. CASE i = 3
    <2>1. JsonRules[i] = Rename(V2_3_25, "show_raw", "raw_cand")
          /\ Touched[i] = {"show_raw", "raw_cand"}
      BY <1>3 DEF JsonRules, Touched
    <2> QED
      BY <1>0, <2>1, RenameOthers DEF ApplyJsonRule
  <1>4. CASE i = 4
    <2>1. JsonRules[i] = Ensure(V2_3_25, "raw_prev", 1) /\ Touched[i] = {"raw_prev"}
      BY <1>4 DEF JsonRules, Touched
    <2> QED
      BY <1>0, <2>1, Ensures, WithOthers DEF ApplyJsonRule
  <1>5. CASE i = 5
    <2>1. JsonRules[i] = Remove(V2_3_27, "default_language") /\ Touched[i] = {"default_language"}
      BY <1>5 DEF JsonRules, Touched
    <2> QED
      BY <1>0, <2>1, Removes, WithOthers DEF ApplyJsonRule
  <1>6. CASE i \in 6..10
    <2>1. PICK key, old, value :
            JsonRules[i] = ReplaceIfDefault(V2_4_0, key, old, value) /\ Touched[i] = {key}
      BY <1>6 DEF JsonRules, Touched
    <2> QED
      BY <1>0, <2>1, Replaces, WithOthers DEF ApplyJsonRule
  <1> QED
    BY <1>1, <1>2, <1>3, <1>4, <1>5, <1>6

LEMMA SameChain ==
    ASSUME NEW f, NEW g, NEW h, NEW k, Same(f, g, k), Same(g, h, k)
    PROVE  Same(f, h, k)
BY DEF Same

LEMMA CarriedThrough ==
    ASSUME NEW f, NEW g, NEW h, NEW v, NEW key, NEW to, key # to,
           Same(f, g, key), Same(f, g, to),
           Same(ApplyAction(g, Rename(v, key, to)), h, key),
           Same(ApplyAction(g, Rename(v, key, to)), h, to)
    PROVE  Carried(f, h, Rename(v, key, to))
  <1> DEFINE a == ApplyAction(g, Rename(v, key, to))
  <1>1. /\ ~Has(a, key)
        /\ Has(g, to) => Has(a, to) /\ a[to] = g[to]
        /\ Has(g, key) /\ ~Has(g, to) => Has(a, to) /\ a[to] = g[key]
    BY RenameCarries
  <1>2. Same(a, h, key) /\ Same(a, h, to)
    OBVIOUS
  <1> HIDE DEF a
  <1>3. ~Has(h, key)
    BY <1>1, <1>2 DEF Same
  <1>4. Has(f, to) => Has(h, to) /\ h[to] = f[to]
    BY <1>1, <1>2 DEF Same
  <1>5. Has(f, key) /\ ~Has(f, to) => Has(h, to) /\ h[to] = f[key]
    BY <1>1, <1>2 DEF Same
  <1>6. Rename(v, key, to).key = key /\ Rename(v, key, to).to = to
    BY DEF Rename
  <1> QED
    BY <1>3, <1>4, <1>5, <1>6 DEF Carried

(* The rules that follow one another touch different keys. *)
LEMMA RenamedIsCarried ==
    ASSUME NEW f, NEW i \in 1..3, LowerBound(f) < JsonRules[i].version
    PROVE  Carried(f, MigratedConfig(f), JsonRules[i])
  <1> DEFINE g1 == ApplyJsonRule(f, LowerBound(f), 1)
             g2 == ApplyJsonRule(g1, LowerBound(f), 2)
             g3 == ApplyJsonRule(g2, LowerBound(f), 3)
             g4 == ApplyJsonRule(g3, LowerBound(f), 4)
             g5 == ApplyJsonRule(g4, LowerBound(f), 5)
             g6 == ApplyJsonRule(g5, LowerBound(f), 6)
             g7 == ApplyJsonRule(g6, LowerBound(f), 7)
             g8 == ApplyJsonRule(g7, LowerBound(f), 8)
             g9 == ApplyJsonRule(g8, LowerBound(f), 9)
             g10 == ApplyJsonRule(g9, LowerBound(f), 10)
             h0 == Erased(g10, "vinput_version")
             h == With(h0, "version", Target)
  <1>1. MigratedConfig(f) = h
    BY DEF MigratedConfig
  <1>b1. \A k : k \notin Touched[1] => Same(f, g1, k)
    BY JsonRuleOthers
  <1>b2. \A k : k \notin Touched[2] => Same(g1, g2, k)
    BY JsonRuleOthers
  <1>b3. \A k : k \notin Touched[3] => Same(g2, g3, k)
    BY JsonRuleOthers
  <1>b4. \A k : k \notin Touched[4] => Same(g3, g4, k)
    BY JsonRuleOthers
  <1>b5. \A k : k \notin Touched[5] => Same(g4, g5, k)
    BY JsonRuleOthers
  <1>b6. \A k : k \notin Touched[6] => Same(g5, g6, k)
    BY JsonRuleOthers
  <1>b7. \A k : k \notin Touched[7] => Same(g6, g7, k)
    BY JsonRuleOthers
  <1>b8. \A k : k \notin Touched[8] => Same(g7, g8, k)
    BY JsonRuleOthers
  <1>b9. \A k : k \notin Touched[9] => Same(g8, g9, k)
    BY JsonRuleOthers
  <1>b10. \A k : k \notin Touched[10] => Same(g9, g10, k)
    BY JsonRuleOthers
  <1>2. \A k : k # "vinput_version" => Same(g10, h0, k)
    BY WithOthers
  <1>3. \A k : k # "version" => Same(h0, h, k)
    BY WithOthers
  <1>4. \A j \in 1..3 : LowerBound(f) < JsonRules[j].version =>
          \A g : ApplyJsonRule(g, LowerBound(f), j) = ApplyAction(g, JsonRules[j])
    BY DEF ApplyJsonRule
  <1> HIDE DEF g1, g2, g3, g4, g5, g6, g7, g8, g9, g10, h0, h
  <1>5. CASE i = 1
    <2>1. JsonRules[i] = Rename(V2_3_15, "candidate_count", "count")
      BY <1>5 DEF JsonRules
    <2>2. g1 = ApplyAction(f, JsonRules[i])
      BY <1>4, <1>5 DEF g1
    <2>3. ASSUME NEW k \in {"candidate_count", "count"} PROVE Same(f, f, k) /\ Same(g1, h, k)
      BY <1>b2, <1>b3, <1>b4, <1>b5, <1>b6, <1>b7, <1>b8, <1>b9, <1>b10, <1>2, <1>3
         DEF Touched, Same
    <2> QED
      BY <1>1, <2>1, <2>2, <2>3, CarriedThrough
  <1>6. CASE i = 2
    <2>1. JsonRules[i] = Rename(V2_3_15, "adaptors", "adapters")
      BY <1>6 DEF JsonRules
    <2>2. g2 = ApplyAction(g1, JsonRules[i])
      BY <1>4, <1>6 DEF g2
    <2>3. ASSUME NEW k \in {"adaptors", "adapters"} PROVE Same(f, g1, k) /\ Same(g2, h, k)
      BY <1>b1, <1>b3, <1>b4, <1>b5, <1>b6, <1>b7, <1>b8, <1>b9, <1>b10, <1>2, <1>3
         DEF Touched, Same
    <2> QED
      BY <1>1, <2>1, <2>2, <2>3, CarriedThrough
  <1>7. CASE i = 3
    <2>1. JsonRules[i] = Rename(V2_3_25, "show_raw", "raw_cand")
      BY <1>7 DEF JsonRules
    <2>2. g3 = ApplyAction(g2, JsonRules[i])
      BY <1>4, <1>7 DEF g3
    <2>3. ASSUME NEW k \in {"show_raw", "raw_cand"} PROVE Same(f, g2, k) /\ Same(g3, h, k)
      BY <1>b1, <1>b2, <1>b4, <1>b5, <1>b6, <1>b7, <1>b8, <1>b9, <1>b10, <1>2, <1>3
         DEF Touched, Same
    <2> QED
      BY <1>1, <2>1, <2>2, <2>3, CarriedThrough
  <1> QED
    BY <1>5, <1>6, <1>7

(* A migrated file is up to date, and a second run leaves it as it is. *)
LEMMA ConfigSettles ==
    ASSUME NEW f
    PROVE  Satisfied(MigratedConfig(f)) /\ MigratedConfig(MigratedConfig(f)) = MigratedConfig(f)
  <1>1. PICK g : MigratedConfig(f) = With(Erased(g, "vinput_version"), "version", Target)
    BY DEF MigratedConfig
  <1> DEFINE h == MigratedConfig(f)
  <1>2. /\ DOMAIN h = (DOMAIN g \ {"vinput_version"}) \cup {"version"}
        /\ h = [k \in DOMAIN h |-> h[k]] /\ h["version"] = Target
    BY <1>1 DEF With, Erased
  <1> HIDE DEF h
  <1>3. ~Has(h, "vinput_version") /\ Has(h, "version") /\ LowerBound(h) = Target
    BY <1>2 DEF Has, LowerBound
  <1>4. Satisfied(h)
    BY <1>3, VersionsAreNumbers DEF Satisfied, Target, V2_4_0
  <1>5. \A i \in 1..10 : ~(Target < JsonRules[i].version)
    BY DEF JsonRules, Rename, Remove, Ensure, ReplaceIfDefault, Target, V2_3_15, V2_3_25, V2_3_27,
           V2_4_0
  <1>6. \A i \in 1..10 : ApplyJsonRule(h, LowerBound(h), i) = h
    BY <1>3, <1>5 DEF ApplyJsonRule
  <1>7. MigratedConfig(h) = With(Erased(h, "vinput_version"), "version", Target)
    BY <1>6 DEF MigratedConfig
  <1>8. With(Erased(h, "vinput_version"), "version", Target) = h
    BY <1>2, <1>3 DEF With, Erased, Has
  <1> QED
    BY <1>4, <1>7, <1>8 DEF h

(* The same of vinput.conf. *)
LEMMA ConfSettles ==
    ASSUME NEW f
    PROVE  /\ ~HasOutdatedIniKeys(MigratedConf(f))
           /\ MigratedConf(MigratedConf(f)) = MigratedConf(f)
           /\ Carried(f, MigratedConf(f), IniRules[1])
  <1>1. /\ IniRules[1] = Rename(V2_3_15, "SceneMenuKey", "MenuKey")
        /\ IniRules[2] = Remove(V2_3_15, "AsrMenuKey")
        /\ IniRules[3] = Remove(V2_4_0, "HoldActivationDelay")
    BY DEF IniRules
  <1> DEFINE a(g) == ApplyAction(g, Rename(V2_3_15, "SceneMenuKey", "MenuKey"))
             h == MigratedConf(f)
             b == Erased(a(f), "AsrMenuKey")
  <1>2. \A g : MigratedConf(g) = Erased(Erased(a(g), "AsrMenuKey"), "HoldActivationDelay")
    BY <1>1, Removes DEF MigratedConf
  <1>3. ~Has(a(f), "SceneMenuKey")
    BY RenameCarries
  <1>4. h = Erased(b, "HoldActivationDelay")
    BY <1>2
  <1>c. /\ Same(a(f), b, "SceneMenuKey") /\ Same(a(f), b, "MenuKey")
        /\ Same(b, h, "SceneMenuKey") /\ Same(b, h, "MenuKey") /\ Same(b, h, "AsrMenuKey")
    BY <1>4, WithOthers
  <1>5. /\ ~Has(h, "SceneMenuKey") /\ ~Has(h, "AsrMenuKey") /\ ~Has(h, "HoldActivationDelay")
        /\ h = [k \in DOMAIN h |-> h[k]]
    <2>1. ~Has(b, "AsrMenuKey")
      BY DEF Erased, Has
    <2>2. ~Has(h, "HoldActivationDelay") /\ h = [k \in DOMAIN h |-> h[k]]
      <3> HIDE DEF b, h
      <3> QED
        BY <1>4 DEF Erased, Has
    <2> HIDE DEF a, b, h
    <2> QED
      BY <1>3, <1>c, <2>1, <2>2 DEF Same
  <1>6. ~HasOutdatedIniKeys(h)
    <2> HIDE DEF h
    <2> QED
      BY <1>5 DEF HasOutdatedIniKeys, OutdatedKeys, Has
  <1>7. MigratedConf(h) = h
    <2> HIDE DEF b, h
    <2>1. a(h) = h
      BY <1>5, Renames
    <2>2. Erased(h, "AsrMenuKey") = h /\ Erased(h, "HoldActivationDelay") = h
      BY <1>5 DEF Erased, Has
    <2> HIDE DEF a
    <2> QED
      BY <1>2, <2>1, <2>2
  <1>8. Carried(f, h, IniRules[1])
    <2>1. Same(f, f, "SceneMenuKey") /\ Same(f, f, "MenuKey")
      BY DEF Same
    <2>2. Same(a(f), h, "SceneMenuKey") /\ Same(a(f), h, "MenuKey")
      <3> HIDE DEF a, b, h
      <3> QED
        BY <1>c DEF Same
    <2> HIDE DEF h
    <2> QED
      BY <1>1, <2>1, <2>2, CarriedThrough
  <1> QED
    BY <1>6, <1>7, <1>8

-----------------------------------------------------------------------------
LEMMA NewConfigSettles ==
    ASSUME NEW f
    PROVE  NewConfig(NewConfig(f)) = NewConfig(f) /\ Satisfied(NewConfig(f))
  <1>1. CASE f = NoFile
    BY <1>1 DEF NewConfig, Satisfied
  <1>2. CASE f # NoFile
    BY <1>2, ConfigSettles DEF NewConfig
  <1> QED
    BY <1>1, <1>2

LEMMA NewConfSettles ==
    ASSUME NEW f
    PROVE  NewConf(NewConf(f)) = NewConf(f) /\ ~HasOutdatedIniKeys(NewConf(f))
  <1>1. CASE f = NoFile
    BY <1>1 DEF NewConf, HasOutdatedIniKeys
  <1>2. CASE f # NoFile
    BY <1>2, ConfSettles DEF NewConf
  <1> QED
    BY <1>1, <1>2

LEMMA MigrationInvInit == MigrationInit => MigrationInv
  <1> SUFFICES ASSUME MigrationInit PROVE MigrationInv
    OBVIOUS
  <1>1. MigrationTypes
    BY VersionsAreNumbers DEF MigrationInit, MigrationTypes, Seconds
  <1>2. was.config = config /\ was.conf = conf
    BY DEF MigrationInit
  <1> QED
    BY <1>1, <1>2 DEF MigrationInit, MigrationInv, OriginalIsKept

(* A run that begins reads either file, whoever has been there before.     *)
LEMMA StartKeepsInv ==
    ASSUME MigrationInv, NEW dryRun \in BOOLEAN, StartMigration(dryRun)
    PROVE  MigrationInv'
  <1>1. /\ stage = "idle" /\ UNCHANGED <<config, conf, backups, second, was>>
        /\ ts' = IF stage' = "idle" THEN 0 ELSE second
    BY ZenonT(30) DEF StartMigration
  <1>2. MigrationTypes /\ stage' \in {"idle", "config_backup"}
    BY ZenonT(30) DEF StartMigration, MigrationInv
  <1>3. MigrationTypes'
    BY <1>1, <1>2, VersionsAreNumbers DEF MigrationTypes, Seconds
  <1>4. OriginalIsKept'
    BY <1>1, ZenonT(30) DEF MigrationInv, OriginalIsKept
  <1>5. NewConfig(config) = NewConfig(was.config) /\ NewConf(conf) = NewConf(was.conf)
    BY NewConfigSettles, NewConfSettles, ZenonT(30) DEF MigrationInv
  <1>6. stage' # "idle" => /\ report' = "none" /\ new'.config = NewConfig(config)
                           /\ new'.conf = NewConf(conf)
    <2> SUFFICES ASSUME stage' # "idle" PROVE report' = "none" /\ new'.config = NewConfig(config)
                                              /\ new'.conf = NewConf(conf)
      OBVIOUS
    <2>1. report' = "none" /\ new' = [config |-> NewConfig(config), conf |-> NewConf(conf)]
      BY <1>1, ZenonT(30) DEF StartMigration, NewConfig, NewConf
    <2> QED
      BY <2>1
  <1>7. report' \in {"applied", "not needed"} => Satisfied(config) /\ ~HasOutdatedIniKeys(conf)
    <2>1. CASE FastPath
      BY <2>1, ZenonT(30) DEF FastPath
    <2>2. CASE ~FastPath /\ report' \in {"applied", "not needed"}
      <3>1. new' = [config |-> NewConfig(config), conf |-> NewConf(conf)]
            /\ new' = [config |-> config, conf |-> conf]
        BY <2>2, ZenonT(30) DEF StartMigration, NewConfig, NewConf
      <3>2. config = NewConfig(config) /\ conf = NewConf(conf)
        BY <3>1
      <3> QED
        BY <3>2, NewConfigSettles, NewConfSettles, ZenonT(30)
    <2> QED
      BY <2>1, <2>2, ZenonT(30)
  <1> QED
    BY <1>1, <1>2, <1>3, <1>4, <1>5, <1>6, <1>7, ZenonT(30) DEF MigrationInv

(* A backup is made of the user's file only: the other one is not written. *)
LEMMA BackUpConfigKeepsInv ==
    ASSUME MigrationInv, BackUpConfig
    PROVE  MigrationInv'
  <1>1. /\ stage = "config_backup" /\ UNCHANGED <<config, conf, second, ts, new, report, was>>
        /\ stage' \in {"config_write", "conf_backup"}
    BY DEF BackUpConfig
  <1>2. MigrationTypes /\ report = "none" /\ new.config = NewConfig(was.config)
        /\ config \in {was.config, NewConfig(was.config)}
    BY <1>1 DEF MigrationInv
  <1>3. CASE new.config = config
    <2>1. stage' = "conf_backup" /\ backups' = backups
      BY <1>3 DEF BackUpConfig
    <2>2. MigrationTypes'
      BY <1>1, <1>2, <2>1 DEF MigrationTypes
    <2>3. OriginalIsKept'
      BY <1>1, <2>1 DEF MigrationInv, OriginalIsKept
    <2> QED
      BY <1>1, <1>2, <1>3, <2>1, <2>2, <2>3 DEF MigrationInv
  <1>4. CASE new.config # config
    <2>1. stage' = "config_write" /\ backups' = [backups EXCEPT !.config[ts] = config]
      BY <1>4 DEF BackUpConfig
    <2>2. /\ DOMAIN backups' = {"config", "conf"} /\ backups'.conf = backups.conf
          /\ DOMAIN backups'.config = Seconds /\ backups'.config[ts] = config
      BY <1>2, <2>1 DEF MigrationTypes
    <2>3. MigrationTypes'
      BY <1>1, <1>2, <2>1, <2>2 DEF MigrationTypes
    <2>4. config = was.config
      BY <1>2, <1>4
    <2>5. OriginalIsKept'
      BY <1>1, <2>2, <2>4 DEF MigrationInv, OriginalIsKept
    <2> QED
      BY <1>1, <1>2, <2>1, <2>2, <2>3, <2>4, <2>5 DEF MigrationInv
  <1> QED
    BY <1>3, <1>4

LEMMA BackUpConfKeepsInv ==
    ASSUME MigrationInv, BackUpConf
    PROVE  MigrationInv'
  <1>1. stage = "conf_backup" /\ UNCHANGED <<config, conf, second, ts, new, was>>
    BY DEF BackUpConf
  <1>2. /\ MigrationTypes /\ report = "none" /\ new.conf = NewConf(was.conf)
        /\ conf \in {was.conf, NewConf(was.conf)}
        /\ config = NewConfig(was.config)
    BY <1>1 DEF MigrationInv
  <1>3. CASE new.conf = conf
    <2>1. stage' = "idle" /\ report' = "applied" /\ backups' = backups
      BY <1>3 DEF BackUpConf
    <2>2. MigrationTypes'
      BY <1>1, <1>2, <2>1, ZenonT(30) DEF MigrationTypes
    <2>3. OriginalIsKept'
      BY <1>1, <2>1 DEF MigrationInv, OriginalIsKept
    <2>4. Satisfied(config) /\ ~HasOutdatedIniKeys(conf)
      BY <1>2, <1>3, NewConfigSettles, NewConfSettles, ZenonT(30)
    <2> QED
      BY <1>1, <1>2, <1>3, <2>1, <2>2, <2>3, <2>4 DEF MigrationInv
  <1>4. CASE new.conf # conf
    <2>1. stage' = "conf_write" /\ report' = report /\ backups' = [backups EXCEPT !.conf[ts] = conf]
      BY <1>4 DEF BackUpConf
    <2>2. /\ DOMAIN backups' = {"config", "conf"} /\ backups'.config = backups.config
          /\ DOMAIN backups'.conf = Seconds /\ backups'.conf[ts] = conf
      BY <1>2, <2>1 DEF MigrationTypes
    <2>3. MigrationTypes'
      BY <1>1, <1>2, <2>1, <2>2 DEF MigrationTypes
    <2>4. conf = was.conf
      BY <1>2, <1>4
    <2>5. OriginalIsKept'
      BY <1>1, <2>2, <2>4 DEF MigrationInv, OriginalIsKept
    <2> QED
      BY <1>1, <1>2, <2>1, <2>2, <2>3, <2>4, <2>5 DEF MigrationInv
  <1> QED
    BY <1>3, <1>4

(* A write replaces a file that its backup holds. *)
LEMMA WriteKeepsInv ==
    ASSUME MigrationInv, WriteConfig \/ WriteConf
    PROVE  MigrationInv'
  <1>1. UNCHANGED <<second, ts, backups, new, was>> /\ MigrationTypes /\ ts \in 0..MaxSeconds
    BY ZenonT(30) DEF WriteConfig, WriteConf, MigrationInv, MigrationTypes, Seconds
  <1>2. CASE WriteConfig
    <2>1. /\ stage = "config_write" /\ stage' = "conf_backup" /\ UNCHANGED <<conf, report>>
          /\ config' = new.config /\ backups.config[ts] = was.config
      BY <1>2 DEF WriteConfig, MigrationInv
    <2>2. OriginalIsKept'
      BY <1>1, <2>1 DEF MigrationInv, OriginalIsKept
    <2>3. MigrationTypes'
      BY <1>1, <2>1 DEF MigrationTypes
    <2> QED
      BY <1>1, <2>1, <2>2, <2>3 DEF MigrationInv
  <1>3. CASE WriteConf
    <2>1. /\ stage = "conf_write" /\ stage' = "idle" /\ config' = config
          /\ conf' = new.conf /\ backups.conf[ts] = was.conf
      BY <1>3 DEF WriteConf, MigrationInv
    <2>2. OriginalIsKept'
      BY <1>1, <2>1 DEF MigrationInv, OriginalIsKept
    <2>3. MigrationTypes'
      BY <1>1, <2>1 DEF MigrationTypes
    <2>4. config' = NewConfig(was.config) /\ conf' = NewConf(was.conf)
      BY <2>1 DEF MigrationInv
    <2>5. Satisfied(config') /\ ~HasOutdatedIniKeys(conf')
      BY <2>4, NewConfigSettles, NewConfSettles
    <2> QED
      BY <1>1, <2>1, <2>2, <2>3, <2>4, <2>5, ZenonT(30) DEF MigrationInv
  <1> QED
    BY <1>2, <1>3

LEMMA MigrationInvStep == MigrationInv /\ [MigrationNext]_migrationVars => MigrationInv'
  <1> SUFFICES ASSUME MigrationInv, [MigrationNext]_migrationVars PROVE MigrationInv'
    OBVIOUS
  <1>1. CASE WriteFails \/ MigrationDies
    <2>1. /\ stage' = "idle" /\ report' = "error"
          /\ UNCHANGED <<second, ts, config, conf, backups, was>>
      BY <1>1 DEF WriteFails, MigrationDies
    <2>2. MigrationTypes' /\ OriginalIsKept'
      BY <2>1, ZenonT(30) DEF MigrationInv, MigrationTypes, OriginalIsKept
    <2> QED
      BY <2>1, <2>2, ZenonT(30) DEF MigrationInv
  <1>2. CASE Tick
    <2>1. UNCHANGED <<config, conf, backups, ts, stage, new, report, was>>
      BY <1>2 DEF Tick
    <2>2. MigrationTypes'
      <3>1. second \in Seconds /\ second < MaxSeconds /\ second' = second + 1
        BY <1>2, ZenonT(30) DEF Tick, MigrationInv, MigrationTypes
      <3>2. second' \in Seconds
        BY <3>1, VersionsAreNumbers DEF Seconds
      <3> QED
        BY <2>1, <3>2, ZenonT(30) DEF MigrationInv, MigrationTypes
    <2> QED
      BY <2>1, <2>2, ZenonT(30) DEF MigrationInv, OriginalIsKept
  <1>3. CASE UNCHANGED migrationVars
    BY <1>3, ZenonT(30) DEF migrationVars, MigrationInv, MigrationTypes, OriginalIsKept
  <1> QED
    BY <1>1, <1>2, <1>3, StartKeepsInv, BackUpConfigKeepsInv, BackUpConfKeepsInv, WriteKeepsInv
       DEF MigrationNext

LEMMA NotBelow == \A a, b, c \in Nat : a >= b /\ c <= b => ~(a < c)
OBVIOUS

LEMMA JsonRuleKinds ==
    ASSUME NEW i \in DOMAIN JsonRules
    PROVE  /\ JsonRules[i].action = "rename" => i \in 1..3
           /\ JsonRules[i].version \in Nat /\ JsonRules[i].version <= Target
  <1>1. DOMAIN JsonRules = 1..10
    BY DEF JsonRules
  <1>2. i \in 4..10 => JsonRules[i].action \in {"remove", "ensure", "replace"}
    BY DEF JsonRules, Remove, Ensure, ReplaceIfDefault
  <1>3. JsonRules[i].version \in {V2_3_15, V2_3_25, V2_3_27, V2_4_0}
    BY <1>1 DEF JsonRules, Rename, Remove, Ensure, ReplaceIfDefault
  <1>4. JsonRules[i].version \in Nat /\ JsonRules[i].version <= Target
    BY <1>3 DEF Target, V2_3_15, V2_3_25, V2_3_27, V2_4_0
  <1> QED
    BY <1>1, <1>2, <1>4

LEMMA DoneFromInv == MigrationInv => DoneMeansMigrated
  <1> SUFFICES ASSUME MigrationInv, report \in {"applied", "not needed"}
               PROVE  /\ Satisfied(config) /\ ~HasOutdatedIniKeys(conf)
                      /\ config # NoFile =>
                           \A i \in DOMAIN JsonRules :
                              JsonRules[i].action = "rename" /\ LowerBound(was.config) < JsonRules[i].version
                                => Carried(was.config, config, JsonRules[i])
                      /\ conf # NoFile => Carried(was.conf, conf, IniRules[1])
    BY ZenonT(30) DEF DoneMeansMigrated
  <1>1. Satisfied(config) /\ ~HasOutdatedIniKeys(conf)
    BY ZenonT(30) DEF MigrationInv
  <1>2. ASSUME config # NoFile, NEW i \in DOMAIN JsonRules, JsonRules[i].action = "rename",
               LowerBound(was.config) < JsonRules[i].version
        PROVE  Carried(was.config, config, JsonRules[i])
    <2>1. i \in 1..3 /\ JsonRules[i].version \in Nat /\ JsonRules[i].version <= Target
      BY <1>2, JsonRuleKinds, ZenonT(30)
    <2>2. CASE config = was.config
      <3>1. LowerBound(config) >= Target
        BY <1>1, <1>2, ZenonT(30) DEF Satisfied
      <3>2. LowerBound(config) \in Nat
        BY <1>2, <2>2, VersionsAreNumbers, ZenonT(30) DEF MigrationInv, LowerBound, Has
      <3>3. Target \in Nat
        BY ZenonT(30) DEF Target, V2_4_0
      <3>4. LowerBound(config) < JsonRules[i].version
        BY <1>2, <2>2, ZenonT(30)
      <3> QED
        BY <2>1, <3>1, <3>2, <3>3, <3>4, NotBelow, ZenonT(30)
    <2>3. CASE config # was.config
      <3>1. config = MigratedConfig(was.config)
        BY <1>2, <2>3, ZenonT(30) DEF MigrationInv, NewConfig
      <3> QED
        BY <1>2, <2>1, <3>1, RenamedIsCarried, ZenonT(30)
    <2> QED
      BY <2>2, <2>3, ZenonT(30)
  <1>3. ASSUME conf # NoFile
        PROVE  Carried(was.conf, conf, IniRules[1])
    <2>1. CASE conf = was.conf
      <3>1. IniRules[1].key = "SceneMenuKey" /\ IniRules[1].to = "MenuKey"
        BY ZenonT(30) DEF IniRules, Rename
      <3>2. ~Has(conf, "SceneMenuKey")
        BY <1>1, <1>3, ZenonT(30) DEF HasOutdatedIniKeys, OutdatedKeys, Has
      <3> QED
        BY <2>1, <3>1, <3>2, ZenonT(30) DEF Carried
    <2>2. CASE conf # was.conf
      <3>1. conf = MigratedConf(was.conf)
        BY <1>3, <2>2, ZenonT(30) DEF MigrationInv, NewConf
      <3> QED
        BY <3>1, ConfSettles, ZenonT(30)
    <2> QED
      BY <2>1, <2>2, ZenonT(30)
  <1> QED
    BY <1>1, <1>2, <1>3, ZenonT(30)

(* However often `vinput config migrate` is run, dies or fails to write,   *)
(* the user's own files are there, and a run that says it is done is       *)
(* right: a file is never anything but the user's or what a whole run      *)
(* makes of it, and a second run changes nothing in that.                  *)
THEOREM MigrationSafe == MigrationSpec => []MigrationIsSafe
  <1>1. MigrationInv => MigrationIsSafe
    BY DoneFromInv, ZenonT(30) DEF MigrationInv, MigrationIsSafe
  <1> QED
    BY <1>1, MigrationInvInit, MigrationInvStep, PTL DEF MigrationSpec

-----------------------------------------------------------------------------
ConstantsApart ==
    /\ NoProvider \notin Configs /\ None \notin Configs /\ NoProvider # None
    /\ MaxRequests \in Nat

Preparing == worker.at \in {"prepare", "apply"}

(* The thread exists exactly while running_ is set, until Shutdown(). *)
WorkerFollowsFlag ==
    caller.at \in {"new", "idle", "synchronize"} =>
      IF manager.running THEN worker.at \notin {"absent", "exited"} ELSE worker.at = "absent"

(* Only SynchronizeBackend() with a provider queues a reload. *)
QueuedHaveProvider ==
    /\ manager.requested => manager.pending \in Configs
    /\ Preparing => worker.settings \in Configs

CallerInHand ==
    /\ caller.at = "new" =>
         /\ history.wanted = NoProvider /\ effective = NoBackend /\ ~history.crossed
         /\ worker.at = "absent" /\ ~manager.requested
    /\ caller.at \in {"join", "gone"} => ~manager.requested
    /\ caller.at = "synchronize" => caller.settings = history.wanted /\ caller.settings \in Configs

(* What is queued, prepared or in use is filed under its own signature. *)
FiledAsBuilt ==
    /\ effective.backend = effective.signature
    /\ manager.requested => manager.pending = manager.target
    /\ Preparing => worker.settings = worker.signature /\ manager.inProgress

DisabledIsDisabled ==
    history.wanted = NoProvider => effective = NoBackend /\ ~manager.requested /\ ~Preparing

(* Where the last request is: queued, being prepared, in use, failed, or   *)
(* failed in Initialize().                                                 *)
RequestInPlace ==
    caller.at = "idle" /\ history.wanted # NoProvider =>
      \/ manager.requested /\ manager.target = history.wanted
      \/ ~manager.requested /\ Preparing
           /\ worker.settings = history.wanted /\ manager.target = history.wanted
      \/ ~manager.requested /\ ~Preparing /\ manager.target = history.wanted
           /\ (effective.backend = history.wanted
                \/ (manager.error /\ history.failed = history.wanted))
      \/ worker.at = "absent" /\ manager.target = None /\ manager.error /\ ~manager.requested

InUse == /\ TypeOK /\ WorkerFollowsFlag /\ QueuedHaveProvider /\ CallerInHand
Uncrossed == ~history.crossed => FiledAsBuilt /\ DisabledIsDisabled /\ RequestInPlace
ReloadInv == InUse /\ Uncrossed

(* The invariant holds when the manager is constructed. *)
LEMMA ReloadInit ==
    ASSUME ConstantsApart, Init
    PROVE  ReloadInv
    BY DEF ConstantsApart, Init, ReloadInv, InUse, TypeOK, WorkerFollowsFlag, QueuedHaveProvider,
           CallerInHand, Uncrossed, FiledAsBuilt, DisabledIsDisabled, RequestInPlace, Preparing,
           NoBackend

(* The types, one per variable. *)
ManagerType == [running : BOOLEAN, requested : BOOLEAN, inProgress : BOOLEAN,
                pending : Configs \cup {NoProvider}, target : Configs \cup {None},
                error : BOOLEAN]
EffectiveType == [backend : Configs \cup {None}, signature : Configs \cup {None}]
WorkerType == [at : {"absent", "wait", "prepare", "apply", "notify", "exited"},
               settings : Configs \cup {NoProvider}, signature : Configs \cup {None}]
CallerType == [at : {"new", "idle", "synchronize", "join", "gone"},
               settings : Configs \cup {NoProvider}]
HistoryType == [wanted : Configs \cup {NoProvider}, requests : 0..MaxRequests,
                failed : Configs \cup {None}, crossed : BOOLEAN]

(* TypeOK, one variable at a time, in a state and in the next. *)
LEMMA Typed ==
    /\ TypeOK <=> /\ manager \in ManagerType /\ effective \in EffectiveType
                  /\ worker \in WorkerType /\ caller \in CallerType /\ history \in HistoryType
    /\ TypeOK' <=> /\ manager' \in ManagerType /\ effective' \in EffectiveType
                   /\ worker' \in WorkerType /\ caller' \in CallerType /\ history' \in HistoryType
    BY DEF TypeOK, ManagerType, EffectiveType, WorkerType, CallerType, HistoryType

(* The backends the main thread installs are backends. *)
LEMMA BackendTyped ==
    /\ NoBackend \in EffectiveType
    /\ \A chosen \in Configs : Activated(chosen) \in EffectiveType
    BY DEF NoBackend, Activated, EffectiveType

(* Counting a request and noting whether it crossed a reload. *)
LEMMA RequestNoted ==
    ASSUME NEW h \in HistoryType, NEW chosen \in Configs \cup {NoProvider}, NEW n \in 0..MaxRequests,
           NEW crossed \in BOOLEAN
    PROVE  [h EXCEPT !.wanted = chosen, !.requests = n, !.crossed = crossed] \in HistoryType
    BY ZenonT(30) DEF HistoryType

(* Every step keeps the types. *)
LEMMA TypesKept ==
    ASSUME ConstantsApart, InUse, [Next]_vars
    PROVE  TypeOK'
  <1> /\ manager \in ManagerType /\ effective \in EffectiveType
      /\ worker \in WorkerType /\ caller \in CallerType /\ history \in HistoryType
    BY Typed DEF InUse
  <1> SUFFICES /\ manager' \in ManagerType /\ effective' \in EffectiveType
               /\ worker' \in WorkerType /\ caller' \in CallerType /\ history' \in HistoryType
    BY Typed
  <1>1. ASSUME NEW chosen \in Configs \cup {NoProvider}, Initialize(chosen)
        PROVE  /\ manager' \in ManagerType /\ effective' \in EffectiveType
               /\ worker' \in WorkerType /\ caller' \in CallerType /\ history' \in HistoryType
    <2>1. manager' \in ManagerType
      BY <1>1, ZenonT(30) DEF Initialize, DisabledState, ManagerType
    <2>2. effective' \in EffectiveType
      BY <1>1, BackendTyped DEF Initialize
    <2>3. worker' \in WorkerType
      BY <1>1 DEF Initialize, WorkerType
    <2>4. caller' \in CallerType
      BY <1>1 DEF Initialize, CallerType
    <2>5. history' \in HistoryType
      BY <1>1 DEF Initialize, HistoryType
    <2> QED
      BY <2>1, <2>2, <2>3, <2>4, <2>5
  <1>2. CASE SynchronizeDisabled
    <2>1. manager' \in ManagerType
      BY <1>2, ZenonT(30) DEF SynchronizeDisabled, DisabledState, ManagerType
    <2>2. effective' \in EffectiveType
      BY <1>2, BackendTyped DEF SynchronizeDisabled
    <2>3. history.requests + 1 \in 0..MaxRequests
      BY <1>2 DEF SynchronizeDisabled, HistoryType, ConstantsApart
    <2>4. (history.crossed \/ worker.at \in {"prepare", "apply"}) \in BOOLEAN
      OBVIOUS
    <2>5. history' \in HistoryType
      BY <1>2, <2>3, <2>4, RequestNoted, ZenonT(30) DEF SynchronizeDisabled
    <2>6. worker' = worker /\ caller' = caller
      BY <1>2 DEF SynchronizeDisabled
    <2> QED
      BY <2>1, <2>2, <2>5, <2>6
  <1>3. ASSUME NEW chosen \in Configs, EnsureReloadWorkerStarted(chosen)
        PROVE  /\ manager' \in ManagerType /\ effective' \in EffectiveType
               /\ worker' \in WorkerType /\ caller' \in CallerType /\ history' \in HistoryType
    <2>1. manager' \in ManagerType
      BY <1>3, ZenonT(30) DEF EnsureReloadWorkerStarted, ManagerType
    <2>2. worker' \in WorkerType
      BY <1>3 DEF EnsureReloadWorkerStarted, WorkerType
    <2>3. caller' \in CallerType
      BY <1>3 DEF EnsureReloadWorkerStarted, CallerType
    <2>4. history.requests + 1 \in 0..MaxRequests
      BY <1>3 DEF EnsureReloadWorkerStarted, HistoryType, ConstantsApart
    <2>5. history' = [history EXCEPT !.wanted = chosen, !.requests = history.requests + 1]
      BY <1>3 DEF EnsureReloadWorkerStarted
    <2>6. history' \in HistoryType
      BY <2>4, <2>5, ZenonT(30) DEF HistoryType
    <2>7. effective' = effective
      BY <1>3 DEF EnsureReloadWorkerStarted
    <2> QED
      BY <2>1, <2>2, <2>3, <2>6, <2>7
  <1>4. CASE SynchronizeBackend
    <2>1. caller.settings \in Configs
      BY <1>4 DEF SynchronizeBackend, InUse, CallerInHand
    <2>2. manager' \in ManagerType
      BY <1>4, <2>1, ZenonT(30) DEF SynchronizeBackend, ManagerType
    <2>3. caller' \in CallerType
      BY <1>4 DEF SynchronizeBackend, CallerType
    <2>4. (history.crossed \/ manager.requested) \in BOOLEAN
      OBVIOUS
    <2>5. \/ history' = [history EXCEPT !.crossed = history.crossed \/ manager.requested]
          \/ history' = history
      BY <1>4 DEF SynchronizeBackend
    <2>6. history' \in HistoryType
      BY <2>4, <2>5, ZenonT(30) DEF HistoryType
    <2>7. effective' = effective /\ worker' = worker
      BY <1>4 DEF SynchronizeBackend
    <2> QED
      BY <2>2, <2>3, <2>6, <2>7
  <1>5. CASE Shutdown \/ ShutdownJoin
    <2>1. manager' \in ManagerType
      BY <1>5, ZenonT(30) DEF Shutdown, ShutdownJoin, ManagerType
    <2>2. caller' \in CallerType
      BY <1>5 DEF Shutdown, ShutdownJoin, CallerType
    <2>3. (effective' = effective \/ effective' = NoBackend) /\ worker' = worker /\ history' = history
      BY <1>5 DEF Shutdown, ShutdownJoin
    <2> QED
      BY <2>1, <2>2, <2>3, BackendTyped
  <1>6. CASE ReloadWorkerTake
    <2>1. manager' \in ManagerType
      BY <1>6, ZenonT(30) DEF ReloadWorkerTake, ManagerType
    <2>2. worker' \in WorkerType
      BY <1>6 DEF ReloadWorkerTake, WorkerType, ManagerType
    <2>3. effective' = effective /\ caller' = caller /\ history' = history
      BY <1>6 DEF ReloadWorkerTake
    <2> QED
      BY <2>1, <2>2, <2>3
  <1>7. CASE PreparationFails \/ PreparationSucceeds
    <2>1. manager' \in ManagerType
      BY <1>7, ZenonT(30) DEF PreparationFails, PreparationSucceeds, ManagerType
    <2>2. worker' \in WorkerType
      BY <1>7 DEF PreparationFails, PreparationSucceeds, WorkerType
    <2>3. worker.settings \in Configs
      BY <1>7 DEF PreparationFails, PreparationSucceeds, InUse, QueuedHaveProvider, Preparing
    <2>4. history' \in HistoryType
      BY <1>7, <2>3 DEF PreparationFails, PreparationSucceeds, HistoryType
    <2>5. effective' = effective /\ caller' = caller
      BY <1>7 DEF PreparationFails, PreparationSucceeds
    <2> QED
      BY <2>1, <2>2, <2>4, <2>5
  <1>8. CASE ApplyBackend \/ NotifyReloadResult
    <2>1. manager' \in ManagerType
      BY <1>8, ZenonT(30) DEF ApplyBackend, NotifyReloadResult, Applied, ManagerType
    <2>2. worker' \in WorkerType
      BY <1>8 DEF ApplyBackend, NotifyReloadResult, WorkerType
    <2>3. worker.at = "apply" => worker.settings \in Configs
      BY DEF InUse, QueuedHaveProvider, Preparing
    <2>4. effective' \in EffectiveType
      BY <1>8, <2>3 DEF ApplyBackend, NotifyReloadResult, PreparedForReload, EffectiveType, WorkerType
    <2>5. caller' = caller /\ history' = history
      BY <1>8 DEF ApplyBackend, NotifyReloadResult
    <2> QED
      BY <2>1, <2>2, <2>4, <2>5
  <1>9. CASE UNCHANGED vars
    BY <1>9 DEF vars
  <1> QED
    BY <1>1, <1>2, <1>3, <1>4, <1>5, <1>6, <1>7, <1>8, <1>9 DEF Next, MainThread, ReloadWorkerMain

(* The thread follows running_, and only a configuration with a provider    *)
(* is ever queued or prepared.                                             *)
LEMMA FollowsKept ==
    ASSUME ConstantsApart, ReloadInv, [Next]_vars
    PROVE  WorkerFollowsFlag' /\ QueuedHaveProvider'
  <1> /\ manager \in ManagerType /\ effective \in EffectiveType
      /\ worker \in WorkerType /\ caller \in CallerType /\ history \in HistoryType
    BY Typed DEF ReloadInv, InUse
  <1> USE DEF ConstantsApart, ReloadInv, InUse, ManagerType, EffectiveType, WorkerType, CallerType,
              HistoryType, NoBackend, Preparing, WorkerFollowsFlag, QueuedHaveProvider, CallerInHand
  <1>1. ASSUME NEW chosen \in Configs \cup {NoProvider}, Initialize(chosen)
        PROVE  WorkerFollowsFlag' /\ QueuedHaveProvider'
    BY <1>1, ZenonT(30) DEF Initialize, DisabledState, Activated
  <1>2. CASE SynchronizeDisabled
    BY <1>2 DEF SynchronizeDisabled, DisabledState
  <1>3. ASSUME NEW chosen \in Configs, EnsureReloadWorkerStarted(chosen)
        PROVE  WorkerFollowsFlag' /\ QueuedHaveProvider'
    BY <1>3 DEF EnsureReloadWorkerStarted
  <1>4. CASE SynchronizeBackend
    BY <1>4, ZenonT(30) DEF SynchronizeBackend, AlreadyEffective
  <1>5. CASE Shutdown
    BY <1>5 DEF Shutdown
  <1>6. CASE ShutdownJoin
    BY <1>6 DEF ShutdownJoin
  <1>7. CASE ReloadWorkerTake
    <2>1. CASE manager.running
      <3>1. /\ worker'.at = "prepare" /\ worker'.settings = manager.pending
            /\ worker'.signature = manager.target
            /\ caller' = caller /\ effective' = effective /\ history' = history
        BY <1>7, <2>1 DEF ReloadWorkerTake
      <3>2. manager' = [manager EXCEPT !.requested = FALSE, !.inProgress = TRUE]
        BY <1>7, <2>1 DEF ReloadWorkerTake
      <3>3. /\ manager'.requested = FALSE /\ manager'.inProgress = TRUE
            /\ manager'.running = manager.running /\ manager'.target = manager.target
        BY <3>2
      <3>4. manager.requested
        BY <1>7, <2>1 DEF ReloadWorkerTake
      <3> QED
        BY <2>1, <3>1, <3>3, <3>4
    <2>2. CASE ~manager.running
      BY <1>7, <2>2 DEF ReloadWorkerTake
    <2> QED
      BY <2>1, <2>2
  <1>8. CASE PreparationFails
    BY <1>8 DEF PreparationFails
  <1>9. CASE PreparationSucceeds
    BY <1>9 DEF PreparationSucceeds
  <1>10. CASE ApplyBackend
    BY <1>10 DEF ApplyBackend, PreparedForReload, Applied
  <1>11. CASE NotifyReloadResult
    BY <1>11 DEF NotifyReloadResult
  <1>12. CASE UNCHANGED vars
    BY <1>12 DEF vars
  <1> QED
    BY <1>1, <1>2, <1>3, <1>4, <1>5, <1>6, <1>7, <1>8, <1>9, <1>10, <1>11, <1>12
    DEF Next, MainThread, ReloadWorkerMain

(* What the caller has in hand is the latest request. *)
LEMMA InHandKept ==
    ASSUME ConstantsApart, ReloadInv, [Next]_vars
    PROVE  CallerInHand'
  <1> /\ manager \in ManagerType /\ effective \in EffectiveType
      /\ worker \in WorkerType /\ caller \in CallerType /\ history \in HistoryType
    BY Typed DEF ReloadInv, InUse
  <1> USE DEF ConstantsApart, ReloadInv, InUse, ManagerType, EffectiveType, WorkerType, CallerType,
              HistoryType, NoBackend, Preparing, WorkerFollowsFlag, QueuedHaveProvider, CallerInHand
  <1>1. ASSUME NEW chosen \in Configs \cup {NoProvider}, Initialize(chosen)
        PROVE  CallerInHand'
    BY <1>1 DEF Initialize, DisabledState, Activated
  <1>2. CASE SynchronizeDisabled
    BY <1>2 DEF SynchronizeDisabled, DisabledState
  <1>3. ASSUME NEW chosen \in Configs, EnsureReloadWorkerStarted(chosen)
        PROVE  CallerInHand'
    BY <1>3 DEF EnsureReloadWorkerStarted
  <1>4. CASE SynchronizeBackend
    BY <1>4 DEF SynchronizeBackend, AlreadyEffective
  <1>5. CASE Shutdown
    BY <1>5 DEF Shutdown
  <1>6. CASE ShutdownJoin
    BY <1>6 DEF ShutdownJoin
  <1>7. CASE ReloadWorkerTake
    <2>1. CASE manager.running
      <3>1. /\ worker'.at = "prepare" /\ worker'.settings = manager.pending
            /\ worker'.signature = manager.target
            /\ caller' = caller /\ effective' = effective /\ history' = history
        BY <1>7, <2>1 DEF ReloadWorkerTake
      <3>2. manager' = [manager EXCEPT !.requested = FALSE, !.inProgress = TRUE]
        BY <1>7, <2>1 DEF ReloadWorkerTake
      <3>3. /\ manager'.requested = FALSE /\ manager'.inProgress = TRUE
            /\ manager'.running = manager.running /\ manager'.target = manager.target
        BY <3>2
      <3>4. manager.requested
        BY <1>7, <2>1 DEF ReloadWorkerTake
      <3> QED
        BY <2>1, <3>1, <3>3, <3>4
    <2>2. CASE ~manager.running
      BY <1>7, <2>2 DEF ReloadWorkerTake
    <2> QED
      BY <2>1, <2>2
  <1>8. CASE PreparationFails
    BY <1>8 DEF PreparationFails
  <1>9. CASE PreparationSucceeds
    BY <1>9 DEF PreparationSucceeds
  <1>10. CASE ApplyBackend
    BY <1>10 DEF ApplyBackend, PreparedForReload, Applied
  <1>11. CASE NotifyReloadResult
    BY <1>11 DEF NotifyReloadResult
  <1>12. CASE UNCHANGED vars
    BY <1>12 DEF vars
  <1> QED
    BY <1>1, <1>2, <1>3, <1>4, <1>5, <1>6, <1>7, <1>8, <1>9, <1>10, <1>11, <1>12
    DEF Next, MainThread, ReloadWorkerMain

(* Unless a request crossed a reload, a backend is filed under the          *)
(* configuration it was built from.  Disabling while a preparation runs    *)
(* is what breaks it: inProgress is reset under the worker.                *)
LEMMA FiledKept ==
    ASSUME ConstantsApart, ReloadInv, [Next]_vars
    PROVE  ~history'.crossed => FiledAsBuilt'
  <1> /\ manager \in ManagerType /\ effective \in EffectiveType
      /\ worker \in WorkerType /\ caller \in CallerType /\ history \in HistoryType
    BY Typed DEF ReloadInv, InUse
  <1> USE DEF ConstantsApart, ReloadInv, InUse, ManagerType, EffectiveType, WorkerType, CallerType,
              HistoryType, NoBackend, Preparing, WorkerFollowsFlag, QueuedHaveProvider, CallerInHand,
              Uncrossed, FiledAsBuilt, DisabledIsDisabled
  <1>1. ASSUME NEW chosen \in Configs \cup {NoProvider}, Initialize(chosen)
        PROVE  ~history'.crossed => FiledAsBuilt'
    <2> caller.at = "new" /\ caller'.at = "idle" /\ history'.wanted = chosen
      BY <1>1 DEF Initialize
    <2>1. CASE chosen = NoProvider
      BY <1>1, <2>1, ZenonT(30) DEF Initialize, DisabledState
    <2>2. CASE /\ chosen # NoProvider
               /\ manager' = [manager EXCEPT !.target = None, !.error = TRUE]
               /\ UNCHANGED <<effective, worker>>
      BY <2>2
    <2>3. CASE /\ chosen # NoProvider
               /\ effective' = Activated(chosen)
               /\ manager' = [manager EXCEPT !.target = chosen, !.error = FALSE, !.running = TRUE]
               /\ worker' = [worker EXCEPT !.at = "wait"]
      BY <2>3 DEF Activated
    <2> QED
      BY <1>1, <2>1, <2>2, <2>3 DEF Initialize
  <1>2. CASE SynchronizeDisabled
    BY <1>2 DEF SynchronizeDisabled, DisabledState
  <1>3. ASSUME NEW chosen \in Configs, EnsureReloadWorkerStarted(chosen)
        PROVE  ~history'.crossed => FiledAsBuilt'
    BY <1>3 DEF EnsureReloadWorkerStarted
  <1>4. CASE SynchronizeBackend
    BY <1>4, ZenonT(30) DEF SynchronizeBackend, AlreadyEffective
  <1>5. CASE Shutdown
    BY <1>5 DEF Shutdown
  <1>6. CASE ShutdownJoin
    BY <1>6 DEF ShutdownJoin
  <1>7. CASE ReloadWorkerTake
    <2>1. CASE manager.running
      <3>1. /\ worker'.at = "prepare" /\ worker'.settings = manager.pending
            /\ worker'.signature = manager.target
            /\ caller' = caller /\ effective' = effective /\ history' = history
        BY <1>7, <2>1 DEF ReloadWorkerTake
      <3>2. manager' = [manager EXCEPT !.requested = FALSE, !.inProgress = TRUE]
        BY <1>7, <2>1 DEF ReloadWorkerTake
      <3>3. /\ manager'.requested = FALSE /\ manager'.inProgress = TRUE
            /\ manager'.running = manager.running /\ manager'.target = manager.target
        BY <3>2
      <3>4. manager.requested
        BY <1>7, <2>1 DEF ReloadWorkerTake
      <3> QED
        BY <2>1, <3>1, <3>3, <3>4
    <2>2. CASE ~manager.running
      BY <1>7, <2>2 DEF ReloadWorkerTake
    <2> QED
      BY <2>1, <2>2
  <1>8. CASE PreparationFails
    BY <1>8 DEF PreparationFails
  <1>9. CASE PreparationSucceeds
    BY <1>9 DEF PreparationSucceeds
  <1>10. CASE ApplyBackend
    BY <1>10 DEF ApplyBackend, PreparedForReload, Applied
  <1>11. CASE NotifyReloadResult
    BY <1>11 DEF NotifyReloadResult
  <1>12. CASE UNCHANGED vars
    BY <1>12 DEF vars
  <1> QED
    BY <1>1, <1>2, <1>3, <1>4, <1>5, <1>6, <1>7, <1>8, <1>9, <1>10, <1>11, <1>12
    DEF Next, MainThread, ReloadWorkerMain

(* Unless a request crossed a reload, a disabled manager has nothing that  *)
(* could bring a backend back.                                             *)
LEMMA DisabledKept ==
    ASSUME ConstantsApart, ReloadInv, [Next]_vars
    PROVE  ~history'.crossed => DisabledIsDisabled'
  <1> /\ manager \in ManagerType /\ effective \in EffectiveType
      /\ worker \in WorkerType /\ caller \in CallerType /\ history \in HistoryType
    BY Typed DEF ReloadInv, InUse
  <1> USE DEF ConstantsApart, ReloadInv, InUse, ManagerType, EffectiveType, WorkerType, CallerType,
              HistoryType, NoBackend, Preparing, WorkerFollowsFlag, QueuedHaveProvider, CallerInHand,
              Uncrossed, FiledAsBuilt, DisabledIsDisabled
  <1>1. ASSUME NEW chosen \in Configs \cup {NoProvider}, Initialize(chosen)
        PROVE  ~history'.crossed => DisabledIsDisabled'
    <2> caller.at = "new" /\ caller'.at = "idle" /\ history'.wanted = chosen
      BY <1>1 DEF Initialize
    <2>1. CASE chosen = NoProvider
      BY <1>1, <2>1, ZenonT(30) DEF Initialize, DisabledState
    <2>2. CASE /\ chosen # NoProvider
               /\ manager' = [manager EXCEPT !.target = None, !.error = TRUE]
               /\ UNCHANGED <<effective, worker>>
      BY <2>2
    <2>3. CASE /\ chosen # NoProvider
               /\ effective' = Activated(chosen)
               /\ manager' = [manager EXCEPT !.target = chosen, !.error = FALSE, !.running = TRUE]
               /\ worker' = [worker EXCEPT !.at = "wait"]
      BY <2>3 DEF Activated
    <2> QED
      BY <1>1, <2>1, <2>2, <2>3 DEF Initialize
  <1>2. CASE SynchronizeDisabled
    BY <1>2 DEF SynchronizeDisabled, DisabledState
  <1>3. ASSUME NEW chosen \in Configs, EnsureReloadWorkerStarted(chosen)
        PROVE  ~history'.crossed => DisabledIsDisabled'
    BY <1>3 DEF EnsureReloadWorkerStarted
  <1>4. CASE SynchronizeBackend
    BY <1>4 DEF SynchronizeBackend, AlreadyEffective
  <1>5. CASE Shutdown
    BY <1>5 DEF Shutdown
  <1>6. CASE ShutdownJoin
    BY <1>6 DEF ShutdownJoin
  <1>7. CASE ReloadWorkerTake
    <2>1. CASE manager.running
      <3>1. /\ worker'.at = "prepare" /\ worker'.settings = manager.pending
            /\ worker'.signature = manager.target
            /\ caller' = caller /\ effective' = effective /\ history' = history
        BY <1>7, <2>1 DEF ReloadWorkerTake
      <3>2. manager' = [manager EXCEPT !.requested = FALSE, !.inProgress = TRUE]
        BY <1>7, <2>1 DEF ReloadWorkerTake
      <3>3. /\ manager'.requested = FALSE /\ manager'.inProgress = TRUE
            /\ manager'.running = manager.running /\ manager'.target = manager.target
        BY <3>2
      <3>4. manager.requested
        BY <1>7, <2>1 DEF ReloadWorkerTake
      <3> QED
        BY <2>1, <3>1, <3>3, <3>4
    <2>2. CASE ~manager.running
      BY <1>7, <2>2 DEF ReloadWorkerTake
    <2> QED
      BY <2>1, <2>2
  <1>8. CASE PreparationFails
    BY <1>8 DEF PreparationFails
  <1>9. CASE PreparationSucceeds
    BY <1>9 DEF PreparationSucceeds
  <1>10. CASE ApplyBackend
    BY <1>10 DEF ApplyBackend, PreparedForReload, Applied
  <1>11. CASE NotifyReloadResult
    BY <1>11 DEF NotifyReloadResult
  <1>12. CASE UNCHANGED vars
    BY <1>12 DEF vars
  <1> QED
    BY <1>1, <1>2, <1>3, <1>4, <1>5, <1>6, <1>7, <1>8, <1>9, <1>10, <1>11, <1>12
    DEF Next, MainThread, ReloadWorkerMain

(* Unless a request crossed a reload, the latest request is somewhere.      *)
LEMMA InPlaceKept ==
    ASSUME ConstantsApart, ReloadInv, [Next]_vars
    PROVE  ~history'.crossed => RequestInPlace'
  <1> /\ manager \in ManagerType /\ effective \in EffectiveType
      /\ worker \in WorkerType /\ caller \in CallerType /\ history \in HistoryType
    BY Typed DEF ReloadInv, InUse
  <1> USE DEF ConstantsApart, ReloadInv, InUse, ManagerType, EffectiveType, WorkerType, CallerType,
              HistoryType, NoBackend, Preparing, WorkerFollowsFlag, QueuedHaveProvider, CallerInHand,
              Uncrossed, FiledAsBuilt, DisabledIsDisabled, RequestInPlace
  <1>1. ASSUME NEW chosen \in Configs \cup {NoProvider}, Initialize(chosen)
        PROVE  ~history'.crossed => RequestInPlace'
    <2> caller.at = "new" /\ caller'.at = "idle" /\ history'.wanted = chosen
      BY <1>1 DEF Initialize
    <2>1. CASE chosen = NoProvider
      BY <1>1, <2>1 DEF Initialize, DisabledState
    <2>2. CASE /\ chosen # NoProvider
               /\ manager' = [manager EXCEPT !.target = None, !.error = TRUE]
               /\ UNCHANGED <<effective, worker>>
      BY <2>2
    <2>3. CASE /\ chosen # NoProvider
               /\ effective' = Activated(chosen)
               /\ manager' = [manager EXCEPT !.target = chosen, !.error = FALSE, !.running = TRUE]
               /\ worker' = [worker EXCEPT !.at = "wait"]
      BY <2>3 DEF Activated
    <2> QED
      BY <1>1, <2>1, <2>2, <2>3 DEF Initialize
  <1>2. CASE SynchronizeDisabled
    BY <1>2 DEF SynchronizeDisabled, DisabledState
  <1>3. ASSUME NEW chosen \in Configs, EnsureReloadWorkerStarted(chosen)
        PROVE  ~history'.crossed => RequestInPlace'
    BY <1>3 DEF EnsureReloadWorkerStarted
  <1>4. CASE SynchronizeBackend
    BY <1>4, ZenonT(30) DEF SynchronizeBackend, AlreadyEffective
  <1>5. CASE Shutdown
    BY <1>5 DEF Shutdown
  <1>6. CASE ShutdownJoin
    BY <1>6 DEF ShutdownJoin
  <1>7. CASE ReloadWorkerTake
    <2>1. CASE manager.running
      <3>1. /\ worker'.at = "prepare" /\ worker'.settings = manager.pending
            /\ worker'.signature = manager.target
            /\ caller' = caller /\ effective' = effective /\ history' = history
        BY <1>7, <2>1 DEF ReloadWorkerTake
      <3>2. manager' = [manager EXCEPT !.requested = FALSE, !.inProgress = TRUE]
        BY <1>7, <2>1 DEF ReloadWorkerTake
      <3>3. /\ manager'.requested = FALSE /\ manager'.inProgress = TRUE
            /\ manager'.running = manager.running /\ manager'.target = manager.target
        BY <3>2
      <3>4. manager.requested
        BY <1>7, <2>1 DEF ReloadWorkerTake
      <3> QED
        BY <2>1, <3>1, <3>3, <3>4
    <2>2. CASE ~manager.running
      BY <1>7, <2>2 DEF ReloadWorkerTake
    <2> QED
      BY <2>1, <2>2
  <1>8. CASE PreparationFails
    BY <1>8 DEF PreparationFails
  <1>9. CASE PreparationSucceeds
    BY <1>9 DEF PreparationSucceeds
  <1>10. CASE ApplyBackend
    BY <1>10 DEF ApplyBackend, PreparedForReload, Applied
  <1>11. CASE NotifyReloadResult
    BY <1>11 DEF NotifyReloadResult
  <1>12. CASE UNCHANGED vars
    BY <1>12 DEF vars
  <1> QED
    BY <1>1, <1>2, <1>3, <1>4, <1>5, <1>6, <1>7, <1>8, <1>9, <1>10, <1>11, <1>12, ZenonT(30)
       DEF Next, MainThread, ReloadWorkerMain

(* The whole invariant is inductive. *)
LEMMA ReloadStep ==
    ASSUME ConstantsApart, ReloadInv, [Next]_vars
    PROVE  ReloadInv'
    BY TypesKept, FollowsKept, InHandKept, FiledKept, DisabledKept, InPlaceKept
    DEF ReloadInv, InUse, Uncrossed

(* The invariant decides which backend is in use once nothing is under way. *)
LEMMA InvDecides ==
    ASSUME ConstantsApart, ReloadInv
    PROVE  LastRequestWins
  <1> SUFFICES ASSUME Quiet, ~history.crossed
               PROVE  CASE history.wanted = NoProvider -> effective = NoBackend
                        [] manager.target = history.wanted ->
                             \/ effective.backend = history.wanted
                             \/ manager.error /\ history.failed = history.wanted
                        [] OTHER -> manager.target = None /\ manager.error
    BY DEF LastRequestWins
  <1>1. ~Preparing /\ ~manager.requested /\ caller.at = "idle"
    BY DEF Quiet, Preparing
  <1>2. history.wanted = NoProvider => effective = NoBackend
    BY DEF ReloadInv, Uncrossed, DisabledIsDisabled
  <1>3. history.wanted # NoProvider =>
          \/ /\ manager.target = history.wanted
             /\ \/ effective.backend = history.wanted
                \/ manager.error /\ history.failed = history.wanted
          \/ manager.target = None /\ manager.error
    BY <1>1 DEF ReloadInv, Uncrossed, RequestInPlace
  <1>4. manager.target = history.wanted => history.wanted # NoProvider /\ history.wanted # None
    BY DEF ReloadInv, InUse, TypeOK, ConstantsApart
  <1> QED
    BY <1>2, <1>3, <1>4

(* A step takes the backend away only to disable ASR or to shut down. *)
LEMMA BackendStays ==
    ASSUME ConstantsApart, ReloadInv, [Next]_vars,
           effective.backend # None, effective'.backend = None
    PROVE  history'.wanted = NoProvider \/ caller'.at = "gone"
  <1> /\ caller \in CallerType /\ history \in HistoryType
    BY Typed DEF ReloadInv, InUse
  <1>1. ASSUME NEW chosen \in Configs \cup {NoProvider}, Initialize(chosen)
        PROVE  FALSE
    BY <1>1 DEF Initialize, ReloadInv, InUse, CallerInHand, NoBackend
  <1>2. CASE SynchronizeDisabled
    BY <1>2 DEF SynchronizeDisabled, HistoryType
  <1>3. CASE ShutdownJoin
    BY <1>3 DEF ShutdownJoin, CallerType
  <1>4. CASE ApplyBackend
    <2>1. worker.settings \in Configs
      BY <1>4 DEF ApplyBackend, ReloadInv, InUse, QueuedHaveProvider, Preparing
    <2> QED
      BY <1>4, <2>1 DEF ApplyBackend, PreparedForReload, ConstantsApart
  <1>5. effective' = effective \/ (\E chosen \in Configs \cup {NoProvider} : Initialize(chosen))
          \/ SynchronizeDisabled \/ ShutdownJoin \/ ApplyBackend
    BY ZenonT(30) DEF Next, MainThread, ReloadWorkerMain, EnsureReloadWorkerStarted, SynchronizeBackend,
           Shutdown, ReloadWorkerTake, PreparationFails, PreparationSucceeds, NotifyReloadResult, vars
  <1> QED
    BY <1>1, <1>2, <1>3, <1>4, <1>5

(* The inductive invariant holds of every behaviour. *)
THEOREM ReloadInvariant ==
    ASSUME ConstantsApart
    PROVE  Spec => []ReloadInv
  <1>1. Init => ReloadInv
    BY ReloadInit
  <1>2. ReloadInv /\ [Next]_vars => ReloadInv'
    BY ReloadStep
  <1> QED
    BY <1>1, <1>2, PTL DEF Spec

(* RecognitionSessionManager, for any configurations and any number of     *)
(* requests: as long as no request crossed a reload that was queued or     *)
(* running, the last configuration SynchronizeBackend() was called with    *)
(* decides which backend is in use once nothing is under way.              *)
THEOREM LastRequestDecides ==
    ASSUME ConstantsApart
    PROVE  Spec => []LastRequestWins
  <1>1. ReloadInv => LastRequestWins
    BY InvDecides
  <1> QED
    BY <1>1, ReloadInvariant, PTL

(* RecognitionSessionManager: however requests and reloads cross, only     *)
(* disabling ASR and Shutdown() take a working backend away.               *)
THEOREM BackendKept ==
    ASSUME ConstantsApart
    PROVE  Spec => WorkingBackendKept
  <1>1. ReloadInv /\ [Next]_vars
          => [effective.backend # None /\ effective'.backend = None
                => history'.wanted = NoProvider \/ caller'.at = "gone"]_vars
    BY BackendStays DEF vars
  <1> QED
    BY <1>1, ReloadInvariant, PTL DEF Spec, WorkingBackendKept

-----------------------------------------------------------------------------
(* The members of the engine, and the calls on their way to the daemon. *)
EngineFields ==
    {"phase", "ic", "trigger", "command", "released", "hold", "status_ic", "active", "held", "chord",
     "stop_timer", "sync_timer", "fresh", "known", "idle_since", "blocked", "out", "in"}

CallType == [call : {"start", "stop", "status", "cancel"}, heard : BOOLEAN]

IsEngine(s) == DOMAIN s = EngineFields /\ s.out \in Seq(CallType)

FrontTypes ==
    /\ IsEngine(e)
    /\ DOMAIN daemon = {"phase", "emits", "up", "crashes"} /\ daemon.up \in BOOLEAN
    /\ DOMAIN user = {"mode", "down", "focus", "events", "abandoned"} /\ user.abandoned \in BOOLEAN

(* Every start on its way, and a recording the daemon is at, is followed   *)
(* by a cancel.                                                            *)
Covered(out, phase) ==
    /\ phase = "recording" => \E j \in DOMAIN out : out[j].call = "cancel"
    /\ \A i \in DOMAIN out :
         out[i].call = "start" => \E j \in DOMAIN out : j > i /\ out[j].call = "cancel"

FrontInv ==
    /\ FrontTypes
    /\ ~daemon.up => daemon.phase # "recording"
    /\ user.abandoned => Covered(e.out, daemon.phase)

-----------------------------------------------------------------------------
(* The calls of t are those of s, some of them perhaps no longer heard,    *)
(* and further ones, none of which starts a recording.                     *)
NoStart(s, t) ==
    /\ IsEngine(t)
    /\ Len(s.out) <= Len(t.out)
    /\ \A i \in 1..Len(s.out) : t.out[i].call = s.out[i].call
    /\ \A i \in (Len(s.out) + 1)..Len(t.out) : t.out[i].call # "start"

CancelLast(s) == Len(s.out) > 0 /\ s.out[Len(s.out)].call = "cancel"

LEMMA NoStartRefl ==
    ASSUME NEW s, NEW t, IsEngine(s), DOMAIN t = DOMAIN s, t.out = s.out
    PROVE  IsEngine(t) /\ NoStart(s, t)
  BY DEF IsEngine, NoStart

LEMMA CancelStaysLast ==
    ASSUME NEW s, NEW t, IsEngine(s), NoStart(s, t), Len(t.out) = Len(s.out)
    PROVE  CancelLast(s) => CancelLast(t)
  <1>1. Len(s.out) \in Nat
    BY DEF IsEngine
  <1> QED
    BY <1>1 DEF CancelLast, NoStart

LEMMA NoStartTrans ==
    ASSUME NEW s, NEW t, NEW u, IsEngine(s), NoStart(s, t), NoStart(t, u)
    PROVE  NoStart(s, u)
  <1>1. Len(s.out) \in Nat /\ Len(t.out) \in Nat /\ Len(u.out) \in Nat
    BY DEF IsEngine, NoStart
  <1> QED
    BY <1>1 DEF NoStart

LEMMA MuteKeeps ==
    ASSUME NEW out \in Seq(CallType), NEW call \in {"start", "stop", "status"}
    PROVE  /\ Mute(out, call) \in Seq(CallType) /\ Len(Mute(out, call)) = Len(out)
           /\ \A i \in 1..Len(out) : Mute(out, call)[i].call = out[i].call
  <1> DEFINE f(i) == IF out[i].call = call THEN [call |-> call, heard |-> FALSE] ELSE out[i]
  <1>a. DOMAIN out = 1..Len(out) /\ Len(out) \in Nat /\ \A i \in 1..Len(out) : out[i] \in CallType
    OBVIOUS
  <1>b. ASSUME NEW m \in CallType
        PROVE  LET g == IF m.call = call THEN [call |-> call, heard |-> FALSE] ELSE m
               IN  g \in CallType /\ g.call = m.call
    BY DEF CallType
  <1>1. /\ DOMAIN out = 1..Len(out) /\ Len(out) \in Nat
        /\ \A i \in 1..Len(out) : f(i) \in CallType /\ f(i).call = out[i].call
    BY <1>a, <1>b, ZenonT(30)
  <1>2. Mute(out, call) = [i \in 1..Len(out) |-> f(i)]
    BY <1>1 DEF Mute
  <1> HIDE DEF f
  <1> QED
    BY <1>1, <1>2

LEMMA DropReplyKeeps ==
    ASSUME NEW s, IsEngine(s), NEW call \in {"start", "stop", "status"}
    PROVE  NoStart(s, DropReply(s, call)) /\ DropReply(s, call).phase = s.phase
  <1> DEFINE t == DropReply(s, call)
  <1>1. DOMAIN t = EngineFields /\ t.out = Mute(s.out, call) /\ t.phase = s.phase
    BY DEF DropReply, IsEngine, EngineFields
  <1> HIDE DEF t
  <1>2. NoStart(s, t)
    BY <1>1, MuteKeeps DEF IsEngine, NoStart
  <1> QED
    BY <1>1, <1>2 DEF t

LEMMA CallKeeps ==
    ASSUME NEW s, IsEngine(s), NEW m \in CallType, NEW t, t = [s EXCEPT !.out = Append(@, m)]
    PROVE  /\ IsEngine(t) /\ t.phase = s.phase /\ Len(t.out) = Len(s.out) + 1
           /\ t.out[Len(t.out)] = m
           /\ m.call # "start" => NoStart(s, t)
  <1>1. DOMAIN t = EngineFields /\ t.out = Append(s.out, m) /\ t.phase = s.phase
    BY DEF IsEngine, EngineFields
  <1>2. s.out \in Seq(CallType)
    BY DEF IsEngine
  <1> QED
    BY <1>1, <1>2 DEF IsEngine, NoStart

LEMMA CallAgainKeeps ==
    ASSUME NEW s, IsEngine(s), NEW call \in {"start", "stop"}
    PROVE  /\ IsEngine(CallAgain(s, call)) /\ CallAgain(s, call).phase = s.phase
           /\ call # "start" => NoStart(s, CallAgain(s, call))
  <1> DEFINE t == DropReply(s, call)
             m == [call |-> call, heard |-> TRUE]
             u == CallAgain(s, call)
  <1>1. NoStart(s, t) /\ IsEngine(t) /\ t.phase = s.phase
    BY DropReplyKeeps DEF NoStart
  <1>2. m \in CallType /\ m.call = call
    BY DEF CallType
  <1>3. u = [t EXCEPT !.out = Append(@, m)]
    BY DEF CallAgain, Call
  <1> HIDE DEF t, m, u
  <1>4. IsEngine(u) /\ u.phase = s.phase /\ (call # "start" => NoStart(t, u))
    BY <1>1, <1>2, <1>3, CallKeeps
  <1> QED
    BY <1>1, <1>4, NoStartTrans DEF u

LEMMA CancelKeeps ==
    ASSUME NEW s, IsEngine(s)
    PROVE  LET t == CallCancelOperation(s)
           IN  NoStart(s, t) /\ t.phase = s.phase /\ CancelLast(t)
  <1> DEFINE m == [call |-> "cancel", heard |-> FALSE]
             t == CallCancelOperation(s)
  <1>1. m \in CallType /\ m.call = "cancel"
    BY DEF CallType
  <1>2. t = [s EXCEPT !.out = Append(@, m)]
    BY DEF CallCancelOperation
  <1> HIDE DEF m, t
  <1>3. NoStart(s, t) /\ t.phase = s.phase /\ Len(t.out) = Len(s.out) + 1 /\ t.out[Len(t.out)] = m
    BY <1>1, <1>2, CallKeeps
  <1>4. Len(s.out) \in Nat
    BY DEF IsEngine
  <1> QED
    BY <1>1, <1>3, <1>4 DEF CancelLast, t

(* A cancel stays the last call when replies are dropped. *)
LEMMA FinishKeeps ==
    ASSUME NEW s, NEW ic, IsEngine(s)
    PROVE  LET t == FinishFrontendSession(s, ic)
           IN  NoStart(s, t) /\ t.phase = "none" /\ (CancelLast(s) => CancelLast(t))
  <1> DEFINE c == IF InSession(s) THEN s.ic ELSE IF ic # Nobody THEN ic ELSE s.status_ic
             left == IF s.status_ic = c THEN Nobody ELSE s.status_ic
             n == Invalidate([NoSession(s) EXCEPT !.status_ic = left])
             p == [n EXCEPT !.sync_timer = FALSE]
             t == FinishFrontendSession(s, ic)
  <1>1. t = StopStatusSyncIfIdle(n)
    BY DEF FinishFrontendSession
  <1>2. DOMAIN n = EngineFields /\ n.out = s.out /\ n.phase = "none"
    BY ZenonT(30) DEF Invalidate, NoSession, IsEngine, EngineFields
  <1> HIDE DEF n
  <1>3. DOMAIN p = EngineFields /\ p.out = s.out /\ p.phase = "none"
    BY <1>2 DEF EngineFields
  <1>4. t = n \/ t = DropReply(p, "status")
    BY <1>1 DEF StopStatusSyncIfIdle, CancelPoll
  <1> HIDE DEF p, t
  <1>5. CASE t = n
    <2>1. NoStart(s, t)
      BY <1>2, <1>5, NoStartRefl DEF IsEngine
    <2> QED
      BY <1>2, <1>5, <2>1 DEF CancelLast, t
  <1>6. CASE t = DropReply(p, "status")
    <2>1. IsEngine(p)
      BY <1>3 DEF IsEngine
    <2>2. NoStart(p, t) /\ t.phase = "none"
      BY <1>3, <1>6, <2>1, DropReplyKeeps
    <2>3. NoStart(s, t)
      BY <1>3, <2>2 DEF NoStart
    <2>4. Len(t.out) = Len(s.out)
      BY <1>3, <1>6, <2>1, MuteKeeps DEF IsEngine, DropReply, EngineFields
    <2>5. CancelLast(s) => CancelLast(t)
      <3>1. Len(s.out) \in Nat
        BY DEF IsEngine
      <3> QED
        BY <2>3, <2>4, <3>1 DEF CancelLast, NoStart
    <2> QED
      BY <2>2, <2>3, <2>5 DEF t
  <1> QED
    BY <1>4, <1>5, <1>6

LEMMA AbandonKeeps ==
    ASSUME NEW s, IsEngine(s)
    PROVE  LET t == Abandon(s) IN NoStart(s, t) /\ t.phase = "none" /\ CancelLast(t)
  <1> DEFINE c == CallCancelOperation(s)
             t == Abandon(s)
  <1>1. NoStart(s, c) /\ CancelLast(c) /\ IsEngine(c)
    BY CancelKeeps DEF NoStart
  <1>2. t = FinishFrontendSession(c, s.ic)
    BY DEF Abandon
  <1> HIDE DEF c, t
  <1>3. NoStart(c, t) /\ t.phase = "none" /\ CancelLast(t)
    BY <1>1, <1>2, FinishKeeps
  <1> QED
    BY <1>1, <1>3, NoStartTrans DEF t

(* Showing a session makes no call. *)
LEMMA ShowsKeeps ==
    ASSUME NEW s, IsEngine(s), NEW phase, NEW ic, NEW key, NEW command
    PROVE  /\ LET t == Shows(s, phase, ic, key, command)
              IN  IsEngine(t) /\ t.out = s.out /\ t.phase = phase
           /\ LET t == EnterPendingStartState(s, ic, key, command)
              IN  IsEngine(t) /\ t.out = s.out /\ t.phase = "PendingStart"
           /\ LET t == EnterRecordingState(s, ic, key, command)
              IN  IsEngine(t) /\ t.out = s.out /\ t.phase = "Recording"
           /\ LET t == EnterBusyState(s, phase, ic, command)
              IN  IsEngine(t) /\ t.out = s.out /\ t.phase = phase
  <1>1. ASSUME NEW p, NEW k
        PROVE  LET t == Shows(s, p, ic, k, command)
               IN  DOMAIN t = EngineFields /\ t.out = s.out /\ t.phase = p
    BY DEF Shows, EnsureStatusSync, IsEngine, EngineFields
  <1>2. ASSUME NEW t, DOMAIN t = EngineFields, t.out = s.out PROVE IsEngine(t)
    BY <1>2 DEF IsEngine
  <1>3. LET t == Shows(s, phase, ic, key, command)
        IN  IsEngine(t) /\ t.out = s.out /\ t.phase = phase
    BY <1>1, <1>2
  <1>4. LET t == EnterBusyState(s, phase, ic, command)
        IN  IsEngine(t) /\ t.out = s.out /\ t.phase = phase
    BY <1>1, <1>2 DEF EnterBusyState
  <1>5. LET t == EnterPendingStartState(s, ic, key, command)
        IN  IsEngine(t) /\ t.out = s.out /\ t.phase = "PendingStart"
    <2> DEFINE u == Shows(s, "PendingStart", ic, key, command)
    <2>1. DOMAIN u = EngineFields /\ u.out = s.out /\ u.phase = "PendingStart"
      BY <1>1
    <2> HIDE DEF u
    <2>2. /\ DOMAIN Invalidate(u) = EngineFields /\ Invalidate(u).out = s.out
          /\ Invalidate(u).phase = "PendingStart"
      BY <2>1 DEF Invalidate, EngineFields
    <2> QED
      BY <1>2, <2>2 DEF EnterPendingStartState, u
  <1>6. LET t == EnterRecordingState(s, ic, key, command)
        IN  IsEngine(t) /\ t.out = s.out /\ t.phase = "Recording"
    <2> DEFINE u == Shows(s, "Recording", ic, key, command)
               t == EnterRecordingState(s, ic, key, command)
    <2>1. DOMAIN u = EngineFields /\ u.out = s.out /\ u.phase = "Recording"
      BY <1>1
    <2>2. t = [u EXCEPT !.stop_timer = @ \/ StopAfterStart(s)]
      BY DEF EnterRecordingState
    <2> HIDE DEF u, t
    <2>3. DOMAIN t = EngineFields /\ t.out = s.out /\ t.phase = "Recording"
      BY <2>1, <2>2 DEF EngineFields
    <2> QED
      BY <1>2, <2>3 DEF t
  <1> QED
    BY <1>3, <1>4, <1>5, <1>6

LEMMA StatusKeeps ==
    ASSUME NEW s, IsEngine(s), NEW status, NEW fallback, NEW prefer
    PROVE  NoStart(s, ApplyDaemonStatusLocally(s, status, fallback, prefer))
  <1> DEFINE t == ApplyDaemonStatusLocally(s, status, fallback, prefer)
             ic == ResolveFrontendInputContext(s, fallback)
             command == IF InSession(s) THEN s.command ELSE prefer
  <1>1. \/ t = s
        \/ t = EnterRecordingState(s, ic, s.trigger, command)
        \/ t = EnterBusyState(s, "Inferring", ic, command)
        \/ t = EnterBusyState(s, "Postprocessing", ic, command)
        \/ t = FinishFrontendSession(s, ic)
    BY DEF ApplyDaemonStatusLocally
  <1> HIDE DEF t, ic, command
  <1>2. ASSUME NEW u, IsEngine(u), u.out = s.out PROVE NoStart(s, u)
    BY <1>2, NoStartRefl DEF IsEngine
  <1> QED
    BY <1>1, <1>2, ShowsKeeps, FinishKeeps DEF t

LEMMA StopKeeps ==
    ASSUME NEW s, IsEngine(s)
    PROVE  LET t == FinishStopRecording(s)
           IN  /\ NoStart(s, t)
               /\ t.phase = IF s.phase = "Recording" THEN "Inferring" ELSE s.phase
  <1> DEFINE t == FinishStopRecording(s)
             u == EnterBusyState(s, "Inferring", s.ic, s.command)
  <1>1. CASE s.phase # "Recording"
    <2>1. t = s
      BY <1>1 DEF FinishStopRecording
    <2> QED
      BY <1>1, <2>1, NoStartRefl
  <1>2. CASE s.phase = "Recording"
    <2>1. IsEngine(u) /\ u.out = s.out /\ u.phase = "Inferring"
      BY ShowsKeeps
    <2>2. t = u \/ t = CallAgain(u, "stop")
      BY <1>2 DEF FinishStopRecording, CallStopRecording
    <2> HIDE DEF t, u
    <2>3. NoStart(u, t) /\ t.phase = "Inferring"
      BY <2>1, <2>2, NoStartRefl, CallAgainKeeps
    <2>4. NoStart(s, t)
      BY <2>1, <2>3 DEF NoStart
    <2> QED
      BY <1>2, <2>3, <2>4 DEF t
  <1> QED
    BY <1>1, <1>2

(* A start is called for only by a session that begins. *)
LEMMA StartKeeps ==
    ASSUME NEW s, IsEngine(s), NEW ic, NEW key, NEW able
    PROVE  LET t == StartVoiceRecording(s, ic, key, able)
           IN  IsEngine(t) /\ (t.phase = "PendingStart" \/ NoStart(s, t))
  <1> DEFINE t == StartVoiceRecording(s, ic, key, able)
             u == [s EXCEPT !.stop_timer = FALSE]
             command == key = "command"
  <1>1. IsEngine(u) /\ u.out = s.out
    BY DEF IsEngine, EngineFields
  <1>2. \/ t = FinishStopRecording(EnterRecordingState(u, ic, key, FALSE))
        \/ t = ApplyDaemonStatusLocally(u, s.known, ic, command)
        \/ t = FinishFrontendSession(u, ic)
        \/ t = u
        \/ t = CallStartRecording(EnterPendingStartState(u, ic, key, command))
    BY ZenonT(30) DEF StartVoiceRecording
  <1> HIDE DEF t, u, command
  <1>3. ASSUME NEW v, IsEngine(v), v.out = s.out, NEW w, NoStart(v, w) PROVE NoStart(s, w)
    BY <1>3 DEF NoStart
  <1>4. ASSUME NEW v, NoStart(u, v) PROVE IsEngine(v) /\ NoStart(s, v)
    BY <1>1, <1>4 DEF NoStart
  <1>5. CASE t = FinishStopRecording(EnterRecordingState(u, ic, key, FALSE))
    <2> DEFINE normal == FALSE
               v == EnterRecordingState(u, ic, key, normal)
    <2>2. t = FinishStopRecording(v)
      BY <1>5
    <2> HIDE DEF normal
    <2>1. IsEngine(v) /\ v.out = s.out
      BY <1>1, ShowsKeeps
    <2> HIDE DEF v
    <2>4. NoStart(v, t)
      BY <2>1, <2>2, StopKeeps
    <2>3. NoStart(s, t) /\ IsEngine(t)
      BY <1>3, <2>1, <2>4 DEF NoStart
    <2> QED
      BY <2>3 DEF t
  <1>6. CASE t = ApplyDaemonStatusLocally(u, s.known, ic, command) \/ t = FinishFrontendSession(u, ic)
    BY <1>1, <1>4, <1>6, StatusKeeps, FinishKeeps DEF t
  <1>7. CASE t = u
    BY <1>1, <1>4, <1>7, NoStartRefl DEF t
  <1>8. CASE t = CallStartRecording(EnterPendingStartState(u, ic, key, command))
    <2> DEFINE v == EnterPendingStartState(u, ic, key, command)
    <2>1. IsEngine(v) /\ v.out = s.out /\ v.phase = "PendingStart"
      BY <1>1, ShowsKeeps
    <2> HIDE DEF v
    <2>2. t = FinishFrontendSession(v, v.ic) \/ t = CallAgain(v, "start")
      BY <1>8 DEF CallStartRecording, v
    <2>3. CASE t = CallAgain(v, "start")
      BY <2>1, <2>3, CallAgainKeeps DEF t
    <2>4. CASE t = FinishFrontendSession(v, v.ic)
      <3>1. NoStart(v, t)
        BY <2>1, <2>4, FinishKeeps
      <3>2. NoStart(s, t) /\ IsEngine(t)
        BY <1>3, <2>1, <3>1 DEF NoStart
      <3> QED
        BY <3>2 DEF t
    <2> QED
      BY <2>2, <2>3, <2>4
  <1> QED
    BY <1>2, <1>5, <1>6, <1>7, <1>8, ZenonT(30)

-----------------------------------------------------------------------------
(* What a handler of the engine does: it makes no call to start, or a      *)
(* session begins; and it ends a session that listens with a cancel.       *)
Handled(s, t) ==
    /\ IsEngine(t)
    /\ t.phase = "PendingStart" \/ NoStart(s, t)
    /\ Listening(s) /\ t.phase = "none" => CancelLast(t)

(* Members that decide neither are of no account. *)
LEMMA HandledFrom ==
    ASSUME NEW s, NEW u, NEW t, IsEngine(s), DOMAIN u = EngineFields, u.out = s.out,
           u.phase = s.phase,
           IsEngine(u) => Handled(u, t)
    PROVE  Handled(s, t)
  <1>1. IsEngine(u)
    BY DEF IsEngine
  <1> QED
    BY <1>1 DEF Handled, NoStart, Listening

LEMMA HandledTo ==
    ASSUME NEW s, NEW u, NEW t, Handled(s, u), DOMAIN t = EngineFields, t.out = u.out,
           t.phase = u.phase
    PROVE  Handled(s, t)
  BY DEF Handled, NoStart, IsEngine, CancelLast

LEMMA HandledSame ==
    ASSUME NEW s, NEW t, IsEngine(s), DOMAIN t = EngineFields, t.out = s.out, t.phase = s.phase
    PROVE  Handled(s, t)
  BY NoStartRefl DEF Handled, IsEngine, Listening

LEMMA PressWhileListeningHandled ==
    ASSUME NEW s, IsEngine(s), NEW key
    PROVE  Handled(s, PressWhileListening(s, key))
  <1> DEFINE t == PressWhileListening(s, key)
  <1>1. t = Abandon(s) \/ t = FinishStopRecording(s) \/ t = s
    BY DEF PressWhileListening
  <1> HIDE DEF t
  <1>2. CASE t = Abandon(s)
    BY <1>2, AbandonKeeps DEF Handled, NoStart, t
  <1>3. CASE t = FinishStopRecording(s)
    <2>1. NoStart(s, t) /\ t.phase = IF s.phase = "Recording" THEN "Inferring" ELSE s.phase
      BY <1>3, StopKeeps
    <2> QED
      BY <2>1 DEF Handled, NoStart, Listening, t
  <1>4. CASE t = s
    BY <1>4, HandledSame DEF IsEngine, t
  <1> QED
    BY <1>1, <1>2, <1>3, <1>4

(* A recording is started when none is listened to. *)
LEMMA StartedHandled ==
    ASSUME NEW s, IsEngine(s), ~Listening(s), NEW ic, NEW key, NEW able, NEW hold
    PROVE  Handled(s, Started(StartVoiceRecording(s, ic, key, able), hold))
  <1> DEFINE u == StartVoiceRecording(s, ic, key, able)
             t == Started(u, hold)
  <1>1. Handled(s, u)
    BY StartKeeps DEF Handled
  <1> HIDE DEF u
  <1>2. DOMAIN t = EngineFields /\ t.out = u.out /\ t.phase = u.phase
    BY <1>1 DEF Started, Handled, IsEngine, EngineFields
  <1> QED
    BY <1>1, <1>2, HandledTo DEF u

LEMMA PressHandled ==
    ASSUME NEW s, IsEngine(s), NEW ic, NEW key, NEW able
    PROVE  Handled(s, HandlePress(s, ic, key, able))
  <1> DEFINE t == [s EXCEPT !.stop_timer = FALSE, !.active = ic]
             kept == [t EXCEPT !.held = key, !.chord = FALSE]
             yes == TRUE
             r == HandlePress(s, ic, key, able)
  <1>1. DOMAIN t = EngineFields /\ t.out = s.out /\ t.phase = s.phase
    BY DEF IsEngine, EngineFields
  <1>2. DOMAIN kept = EngineFields /\ kept.out = s.out /\ kept.phase = s.phase
    BY DEF IsEngine, EngineFields
  <1>3. \/ Listening(t) /\ r = PressWhileListening(t, key)
        \/ ~Listening(t) /\ r = kept
        \/ ~Listening(t) /\ r = Started(StartVoiceRecording(kept, ic, key, able), yes)
    BY ZenonT(30) DEF HandlePress
  <1> HIDE DEF t, kept, yes, r
  <1>4. CASE r = PressWhileListening(t, key)
    BY <1>1, <1>4, PressWhileListeningHandled, HandledFrom DEF r
  <1>5. CASE r = kept
    BY <1>2, <1>5, HandledSame DEF r
  <1>6. CASE ~Listening(t) /\ r = Started(StartVoiceRecording(kept, ic, key, able), yes)
    <2>1. ~Listening(kept)
      BY <1>1, <1>2, <1>6 DEF Listening
    <2> QED
      BY <1>2, <1>6, <2>1, StartedHandled, HandledFrom DEF r
  <1> QED
    BY <1>3, <1>4, <1>5, <1>6

LEMMA ScheduleStopKeeps ==
    ASSUME NEW s, IsEngine(s)
    PROVE  LET t == ScheduleStop(s)
           IN  DOMAIN t = EngineFields /\ t.out = s.out /\ t.phase = s.phase
  BY DEF ScheduleStop, IsEngine, EngineFields

LEMMA ReleaseOfSessionKeeps ==
    ASSUME NEW s, IsEngine(s), NEW key
    PROVE  LET t == ReleaseOfSession(s, key)
           IN  DOMAIN t = EngineFields /\ t.out = s.out /\ t.phase = s.phase
  <1> DEFINE u == [s EXCEPT !.released = TRUE]
             t == ReleaseOfSession(s, key)
  <1>1. DOMAIN u = EngineFields /\ u.out = s.out /\ u.phase = s.phase /\ IsEngine(u)
    BY DEF IsEngine, EngineFields
  <1>2. t = s \/ t = ScheduleStop(u) \/ t = u
    BY DEF ReleaseOfSession
  <1> HIDE DEF u, t
  <1> QED
    BY <1>1, <1>2, ScheduleStopKeeps DEF IsEngine, t

LEMMA ReleaseHeldHandled ==
    ASSUME NEW s, IsEngine(s), NEW ic, NEW key, NEW long, NEW able
    PROVE  Handled(s, ReleaseHeld(s, ic, key, long, able))
  <1> DEFINE u == [s EXCEPT !.released = TRUE, !.hold = FALSE]
             no == FALSE
             t == ReleaseHeld(s, ic, key, long, able)
  <1>1. DOMAIN u = EngineFields /\ u.out = s.out /\ u.phase = s.phase
    BY DEF IsEngine, EngineFields
  <1>2. \/ t = ScheduleStop(s) \/ t = u \/ t = s
        \/ ~InSession(s) /\ t = Started(StartVoiceRecording(s, ic, key, able), no)
    BY ZenonT(30) DEF ReleaseHeld
  <1>3. InSession(s) \/ ~Listening(s)
    BY DEF InSession, Listening
  <1> HIDE DEF u, no, t
  <1> QED
    BY <1>1, <1>2, <1>3, ScheduleStopKeeps, HandledSame, StartedHandled DEF IsEngine, t

LEMMA ReleaseHandled ==
    ASSUME NEW s, IsEngine(s), NEW ic, NEW key, NEW long, NEW able
    PROVE  Handled(s, HandleRelease(s, ic, key, long, able))
  <1> DEFINE t == [s EXCEPT !.active = ic]
             up == [t EXCEPT !.held = Nobody]
             broken == [up EXCEPT !.chord = FALSE]
             v == ReleaseHeld(up, ic, key, long, able)
             r == HandleRelease(s, ic, key, long, able)
  <1>1. /\ DOMAIN t = EngineFields /\ t.out = s.out /\ t.phase = s.phase
        /\ DOMAIN up = EngineFields /\ up.out = s.out /\ up.phase = s.phase
        /\ DOMAIN broken = EngineFields /\ broken.out = s.out /\ broken.phase = s.phase
    BY DEF IsEngine, EngineFields
  <1>2. r = ReleaseOfSession(t, key) \/ r = broken \/ r = ReleaseOfSession(v, key)
    BY DEF HandleRelease
  <1> HIDE DEF t, up, broken, r
  <1>3. IsEngine(t) /\ IsEngine(up)
    BY <1>1 DEF IsEngine
  <1>4. Handled(up, v)
    BY <1>3, ReleaseHeldHandled
  <1> HIDE DEF v
  <1>5. Handled(s, v) /\ IsEngine(v)
    BY <1>1, <1>4, HandledFrom DEF Handled
  <1>6. CASE r = ReleaseOfSession(t, key)
    <2>1. DOMAIN r = EngineFields /\ r.out = s.out /\ r.phase = s.phase
      BY <1>1, <1>3, <1>6, ReleaseOfSessionKeeps
    <2> QED
      BY <2>1, HandledSame DEF r
  <1>7. CASE r = broken
    BY <1>1, <1>7, HandledSame DEF r
  <1>8. CASE r = ReleaseOfSession(v, key)
    <2>1. DOMAIN r = EngineFields /\ r.out = v.out /\ r.phase = v.phase
      BY <1>5, <1>8, ReleaseOfSessionKeeps
    <2> QED
      BY <1>5, <2>1, HandledTo DEF r
  <1> QED
    BY <1>2, <1>6, <1>7, <1>8

(* A chord, a lost focus: the engine is as before, or abandons.            *)
LEMMA AbandonHandled ==
    ASSUME NEW s, NEW u, NEW t, IsEngine(s), DOMAIN u = EngineFields, u.out = s.out,
           u.phase = s.phase,
           t = u \/ t = Abandon(u)
    PROVE  Handled(s, t)
  <1>1. IsEngine(u)
    BY DEF IsEngine
  <1>2. CASE t = u
    BY <1>2, HandledSame
  <1>3. CASE t = Abandon(u)
    <2>1. Handled(u, t)
      BY <1>1, <1>3, AbandonKeeps DEF Handled, NoStart
    <2> QED
      BY <2>1, HandledFrom
  <1> QED
    BY <1>2, <1>3

LEMMA DestroyedHandled ==
    ASSUME FrontTypes, ContextDestroyed
    PROVE  Handled(e, e')
  <1> USE DEF FrontTypes
  <1>1. PICK ic \in Contexts :
          LET mine == InSession(e) /\ e.ic = ic
              s == IF mine /\ e.phase # "Inferring" THEN CallCancelOperation(e) ELSE e
              t == IF mine THEN NoSession(s) ELSE s
              u == IF t.status_ic = ic THEN StopStatusSyncIfIdle([t EXCEPT !.status_ic = Nobody])
                   ELSE t
          IN  e' = [u EXCEPT !.active = IF @ = ic THEN Nobody ELSE @]
    BY DEF ContextDestroyed
  <1> DEFINE mine == InSession(e) /\ e.ic = ic
             s == IF mine /\ e.phase # "Inferring" THEN CallCancelOperation(e) ELSE e
             t == IF mine THEN NoSession(s) ELSE s
             v == [t EXCEPT !.status_ic = Nobody]
             w == [v EXCEPT !.sync_timer = FALSE]
             u == IF t.status_ic = ic THEN StopStatusSyncIfIdle(v) ELSE t
  <1>2. NoStart(e, s) /\ s.phase = e.phase /\ (mine /\ Listening(e) => CancelLast(s))
    BY CancelKeeps, NoStartRefl DEF Listening, IsEngine
  <1>3. IsEngine(s)
    BY <1>2 DEF NoStart
  <1>9. e' = [u EXCEPT !.active = IF @ = ic THEN Nobody ELSE @]
    BY <1>1
  <1> HIDE DEF s
  <1>4. /\ DOMAIN t = EngineFields /\ t.out = s.out
        /\ t.phase = e.phase \/ (mine /\ t.phase = "none")
    BY <1>2, <1>3 DEF NoSession, IsEngine, EngineFields
  <1> HIDE DEF t
  <1>5. /\ DOMAIN v = EngineFields /\ v.out = s.out /\ v.phase = t.phase
        /\ DOMAIN w = EngineFields /\ w.out = s.out /\ w.phase = t.phase
    BY <1>4 DEF EngineFields
  <1> HIDE DEF v, w
  <1>6. u = t \/ u = v \/ u = DropReply(w, "status")
    BY DEF StopStatusSyncIfIdle, CancelPoll, w
  <1> HIDE DEF u
  <1>7. NoStart(s, u) /\ u.phase = t.phase /\ Len(u.out) = Len(s.out)
    <2>1. IsEngine(t) /\ IsEngine(v) /\ IsEngine(w)
      BY <1>3, <1>4, <1>5 DEF IsEngine
    <2>2. CASE u = t \/ u = v
      BY <1>3, <1>4, <1>5, <2>2, NoStartRefl DEF IsEngine
    <2>3. CASE u = DropReply(w, "status")
      <3>1. NoStart(w, u) /\ u.phase = w.phase
        BY <2>1, <2>3, DropReplyKeeps
      <3>2. u.out = Mute(w.out, "status")
        BY <2>3, <1>5 DEF DropReply, EngineFields
      <3>3. Len(u.out) = Len(w.out)
        BY <2>1, <3>2, MuteKeeps DEF IsEngine
      <3> QED
        BY <1>5, <3>1, <3>3 DEF NoStart
    <2> QED
      BY <1>6, <2>2, <2>3
  <1>8. NoStart(e, u) /\ (CancelLast(s) => CancelLast(u))
    <2>1. NoStart(e, u)
      BY <1>2, <1>7, NoStartTrans, ZenonT(30)
    <2>2. CancelLast(s) => CancelLast(u)
      BY <1>3, <1>7, CancelStaysLast, ZenonT(30)
    <2> QED
      BY <2>1, <2>2, ZenonT(30)
  <1>10. DOMAIN e' = EngineFields /\ e'.out = u.out /\ e'.phase = u.phase
    BY <1>8, <1>9 DEF NoStart, IsEngine, EngineFields
  <1>11. Handled(e, u)
    BY <1>2, <1>4, <1>7, <1>8 DEF Handled, NoStart, Listening
  <1> QED
    BY <1>10, <1>11, HandledTo

-----------------------------------------------------------------------------
(* What is covered stays covered by calls that start nothing, and a cancel *)
(* behind all calls covers them.                                           *)
LEMMA CoveredKept ==
    ASSUME NEW s, NEW t, NEW phase, IsEngine(s), NoStart(s, t), Covered(s.out, phase)
    PROVE  Covered(t.out, phase)
  <1>1. /\ Len(s.out) \in Nat /\ Len(t.out) \in Nat
        /\ DOMAIN s.out = 1..Len(s.out) /\ DOMAIN t.out = 1..Len(t.out)
    BY DEF IsEngine, NoStart
  <1> QED
    BY <1>1 DEF Covered, NoStart

LEMMA CoveredByLast ==
    ASSUME NEW t, NEW phase, IsEngine(t), CancelLast(t)
    PROVE  Covered(t.out, phase)
  <1>1. Len(t.out) \in Nat /\ DOMAIN t.out = 1..Len(t.out) /\ Len(t.out) \in DOMAIN t.out
    BY DEF IsEngine, CancelLast
  <1>2. ASSUME NEW i \in DOMAIN t.out, t.out[i].call = "start" PROVE Len(t.out) > i
    BY <1>1, <1>2 DEF CancelLast
  <1> QED
    BY <1>1, <1>2 DEF Covered, CancelLast

(* The steps of the user. *)
LEMMA LeavesKeeps ==
    ASSUME FrontInv, Handled(e, e'), NEW u, u.abandoned = user.abandoned,
           DOMAIN u = {"mode", "down", "focus", "events", "abandoned"},
           user' = Leaves(u), daemon' = daemon
    PROVE  FrontInv'
  <1> DEFINE b == (user.abandoned \/ (Listening(e) /\ ~InSession(e'))) /\ e'.phase # "PendingStart"
  <1>1. user' = [u EXCEPT !.abandoned = b]
    BY DEF Leaves
  <1>2. b \in BOOLEAN
    OBVIOUS
  <1> HIDE DEF b
  <1>3. DOMAIN user' = {"mode", "down", "focus", "events", "abandoned"} /\ user'.abandoned = b
    BY <1>1
  <1>4. FrontTypes'
    BY <1>2, <1>3 DEF FrontInv, FrontTypes, Handled
  <1>5. ASSUME b PROVE Covered(e'.out, daemon.phase)
    <2>1. e'.phase # "PendingStart" /\ NoStart(e, e') /\ IsEngine(e) /\ IsEngine(e')
      BY <1>5 DEF b, Handled, FrontInv, FrontTypes
    <2>2. CASE user.abandoned
      BY <2>1, <2>2, CoveredKept DEF FrontInv
    <2>3. CASE Listening(e) /\ ~InSession(e')
      BY <2>1, <2>3, CoveredByLast DEF Handled, InSession
    <2> QED
      BY <1>5, <2>2, <2>3 DEF b
  <1> QED
    BY <1>3, <1>4, <1>5 DEF FrontInv

LEMMA UserKeeps ==
    ASSUME FrontInv, Press \/ Release \/ OtherKey \/ FocusOut \/ ContextDestroyed
    PROVE  FrontInv'
  <1>0. /\ IsEngine(e) /\ FrontTypes
        /\ DOMAIN user = {"mode", "down", "focus", "events", "abandoned"}
    BY DEF FrontInv, FrontTypes
  <1>1. CASE Press
    <2>1. PICK key \in Keys, able \in Command :
            /\ e' = HandlePress(e, user.focus, key, able) \/ e' = [e EXCEPT !.active = user.focus]
            /\ user' = Leaves([Acted EXCEPT !.down = @ \cup {key}])
      BY <1>1 DEF Press
    <2> DEFINE u == [Acted EXCEPT !.down = @ \cup {key}]
    <2>2. u.abandoned = user.abandoned /\ DOMAIN u = DOMAIN user
      BY <1>0 DEF Acted
    <2>3. Handled(e, e')
      <3>1. CASE e' = HandlePress(e, user.focus, key, able)
        BY <1>0, <3>1, PressHandled
      <3>2. CASE e' = [e EXCEPT !.active = user.focus]
        <4>1. DOMAIN e' = EngineFields /\ e'.out = e.out /\ e'.phase = e.phase
          BY <1>0, <3>2 DEF IsEngine, EngineFields
        <4> QED
          BY <1>0, <4>1, HandledSame
      <3> QED
        BY <2>1, <3>1, <3>2
    <2>4. user' = Leaves(u)
      BY <2>1
    <2> HIDE DEF u
    <2> QED
      BY <1>0, <1>1, <2>2, <2>3, <2>4, LeavesKeeps, ZenonT(30) DEF Press
  <1>2. CASE Release
    <2>1. PICK key \in user.down, long \in BOOLEAN, able \in Command :
            /\ e' = HandleRelease(e, user.focus, key, long, able)
            /\ user' = Leaves([user EXCEPT !.down = @ \ {key}])
      BY <1>2 DEF Release
    <2> DEFINE u == [user EXCEPT !.down = @ \ {key}]
    <2>2. u.abandoned = user.abandoned /\ DOMAIN u = DOMAIN user /\ user' = Leaves(u)
      BY <1>0, <2>1
    <2>3. Handled(e, e')
      BY <1>0, <2>1, ReleaseHandled
    <2> HIDE DEF u
    <2> QED
      BY <1>0, <1>2, <2>2, <2>3, LeavesKeeps DEF Release
  <1>3. Acted.abandoned = user.abandoned /\ DOMAIN Acted = DOMAIN user
    BY <1>0 DEF Acted
  <1>4. CASE OtherKey
    <2> DEFINE s == [e EXCEPT !.active = user.focus]
               chord == [s EXCEPT !.chord = TRUE, !.held = Nobody]
    <2>1. /\ DOMAIN s = EngineFields /\ s.out = e.out /\ s.phase = e.phase
          /\ DOMAIN chord = EngineFields /\ chord.out = e.out /\ chord.phase = e.phase
      BY <1>0 DEF IsEngine, EngineFields
    <2>2. e' = s \/ e' = chord \/ e' = Abandon(chord)
      BY <1>4 DEF OtherKey
    <2> HIDE DEF s, chord
    <2>3. Handled(e, e')
      BY <1>0, <2>1, <2>2, AbandonHandled
    <2> QED
      BY <1>0, <1>3, <1>4, <2>3, LeavesKeeps DEF OtherKey
  <1>5. CASE FocusOut
    <2> DEFINE s == [e EXCEPT !.held = Nobody, !.chord = TRUE]
    <2>1. DOMAIN s = EngineFields /\ s.out = e.out /\ s.phase = e.phase
      BY <1>0 DEF IsEngine, EngineFields
    <2>2. e' = s \/ e' = Abandon(s)
      BY <1>5 DEF FocusOut
    <2> HIDE DEF s
    <2>3. Handled(e, e')
      BY <1>0, <2>1, <2>2, AbandonHandled
    <2>4. PICK ic \in Contexts : user' = Leaves([Acted EXCEPT !.focus = ic])
      BY <1>5 DEF FocusOut
    <2> DEFINE u == [Acted EXCEPT !.focus = ic]
    <2>5. u.abandoned = user.abandoned /\ DOMAIN u = DOMAIN user /\ user' = Leaves(u)
      BY <1>0, <1>3, <2>4
    <2> HIDE DEF u
    <2> QED
      BY <1>0, <1>5, <2>3, <2>5, LeavesKeeps, ZenonT(30) DEF FocusOut
  <1>6. CASE ContextDestroyed
    BY <1>0, <1>3, <1>6, DestroyedHandled, LeavesKeeps, ZenonT(30) DEF ContextDestroyed
  <1> QED
    BY <1>1, <1>2, <1>4, <1>5, <1>6

-----------------------------------------------------------------------------
(* Timers, replies and signals call for no start. *)
LEMMA QuietKeeps ==
    ASSUME FrontInv, NoStart(e, e'), user' \in {user, Acted}, daemon' = daemon
    PROVE  FrontInv'
  <1>1. IsEngine(e) /\ IsEngine(e')
    BY DEF FrontInv, FrontTypes, NoStart
  <1>2. DOMAIN user' = DOMAIN user /\ user'.abandoned = user.abandoned
    BY DEF Acted, FrontInv, FrontTypes
  <1>3. FrontTypes'
    BY <1>1, <1>2 DEF FrontInv, FrontTypes
  <1>4. user.abandoned => Covered(e'.out, daemon.phase)
    BY <1>1, CoveredKept DEF FrontInv
  <1> QED
    BY <1>2, <1>3, <1>4 DEF FrontInv

(* The handlers of replies and signals. *)
LEMMA RepliesKeep ==
    ASSUME NEW s, IsEngine(s), NEW m, NEW lasts
    PROVE  /\ NoStart(s, OnCallReply(s, m))
           /\ NoStart(s, OnStatusReply(s, m, lasts))
           /\ NoStart(s, OnStatusChanged(s, m))
           /\ NoStart(s, OnRecognitionResult(s))
  <1>1. ASSUME NEW u, DOMAIN u = EngineFields, u.out = s.out
        PROVE  IsEngine(u) /\ NoStart(s, u) /\ \A t : NoStart(u, t) => NoStart(s, t)
    BY <1>1 DEF IsEngine, NoStart
  <1>2. NoStart(s, OnCallReply(s, m))
    <2> DEFINE u == [s EXCEPT !.blocked = FALSE]
               v == [s EXCEPT !.blocked = TRUE]
               t == OnCallReply(s, m)
    <2>1. /\ DOMAIN u = EngineFields /\ u.out = s.out
          /\ DOMAIN v = EngineFields /\ v.out = s.out
      BY DEF IsEngine, EngineFields
    <2>2. t = u \/ t = FinishFrontendSession(v, Nobody)
      BY DEF OnCallReply
    <2> HIDE DEF u, v, t
    <2> QED
      BY <1>1, <2>1, <2>2, FinishKeeps DEF t
  <1>3. NoStart(s, OnStatusReply(s, m, lasts))
    <2> DEFINE a == [s EXCEPT !.blocked = FALSE, !.known = m.status]
               b == [s EXCEPT !.blocked = TRUE]
               c == [a EXCEPT !.idle_since = TRUE]
               d == [a EXCEPT !.idle_since = FALSE]
               no == FALSE
               t == OnStatusReply(s, m, lasts)
    <2>1. /\ DOMAIN a = EngineFields /\ a.out = s.out
          /\ DOMAIN b = EngineFields /\ b.out = s.out
          /\ DOMAIN c = EngineFields /\ c.out = s.out
          /\ DOMAIN d = EngineFields /\ d.out = s.out
          /\ DOMAIN s = EngineFields
      BY DEF IsEngine, EngineFields
    <2>2. t = s \/ t = a \/ t = b \/ t = c \/ t = ApplyDaemonStatusLocally(d, m.status, Nobody, no)
      BY ZenonT(30) DEF OnStatusReply
    <2> HIDE DEF a, b, c, d, no, t
    <2>3. IsEngine(d)
      BY <1>1, <2>1
    <2>4. CASE t = ApplyDaemonStatusLocally(d, m.status, Nobody, no)
      <3>1. NoStart(d, t)
        BY <2>3, <2>4, StatusKeeps
      <3> QED
        BY <1>1, <2>1, <3>1 DEF t
    <2> QED
      BY <1>1, <2>1, <2>2, <2>4 DEF t
  <1>4. NoStart(s, OnStatusChanged(s, m))
    <2> DEFINE ic == ResolveFrontendInputContext(s, Nobody)
               u == [Invalidate(s) EXCEPT !.known = m.status, !.idle_since = FALSE, !.active = ic]
               no == FALSE
               t == OnStatusChanged(s, m)
    <2>1. DOMAIN u = EngineFields /\ u.out = s.out
      BY DEF Invalidate, IsEngine, EngineFields
    <2>2. t = ApplyDaemonStatusLocally(u, m.status, Nobody, no)
      BY DEF OnStatusChanged
    <2> HIDE DEF u, no, t
    <2>3. NoStart(u, t)
      BY <1>1, <2>1, <2>2, StatusKeeps
    <2> QED
      BY <1>1, <2>1, <2>3 DEF t
  <1>5. NoStart(s, OnRecognitionResult(s))
    <2> DEFINE ic == ResolveFrontendInputContext(s, Nobody)
               u == [s EXCEPT !.active = ic]
               t == OnRecognitionResult(s)
    <2>1. DOMAIN u = EngineFields /\ u.out = s.out /\ DOMAIN s = EngineFields
      BY DEF IsEngine, EngineFields
    <2>2. t = s \/ t = FinishFrontendSession(u, ic)
      BY DEF OnRecognitionResult
    <2> HIDE DEF ic, u, t
    <2> QED
      BY <1>1, <2>1, <2>2, FinishKeeps DEF t
  <1> QED
    BY <1>2, <1>3, <1>4, <1>5

LEMMA EngineKeeps ==
    ASSUME FrontInv, \/ CancelKey \/ ContextCreated \/ StopTimerFires \/ SyncTimerFires
                     \/ CooldownOver \/ Receive \/ CallTimesOut
    PROVE  FrontInv'
  <1>0. IsEngine(e) /\ DOMAIN e = EngineFields
    BY DEF FrontInv, FrontTypes, IsEngine
  <1>1. ASSUME NEW u, DOMAIN u = EngineFields, u.out = e.out
        PROVE  IsEngine(u) /\ NoStart(e, u) /\ \A t : NoStart(u, t) => NoStart(e, t)
    BY <1>0, <1>1 DEF IsEngine, NoStart
  <1>2. CASE CancelKey
    <2> DEFINE u == [e EXCEPT !.active = user.focus]
    <2>1. DOMAIN u = EngineFields /\ u.out = e.out
      BY <1>0 DEF EngineFields
    <2>2. e' = CallCancelOperation(u)
      BY <1>2 DEF CancelKey
    <2> HIDE DEF u
    <2>3. NoStart(e, e')
      BY <1>1, <2>1, <2>2, CancelKeeps
    <2> QED
      BY <1>2, <2>3, QuietKeeps DEF CancelKey
  <1>3. CASE ContextCreated
    <2>1. DOMAIN e' = EngineFields /\ e'.out = e.out
      BY <1>0, <1>3 DEF ContextCreated, EngineFields
    <2>2. NoStart(e, e')
      BY <1>1, <2>1
    <2> QED
      BY <1>3, <2>2, QuietKeeps DEF ContextCreated
  <1>4. CASE StopTimerFires
    <2> DEFINE u == [e EXCEPT !.stop_timer = FALSE]
    <2>1. DOMAIN u = EngineFields /\ u.out = e.out
      BY <1>0 DEF EngineFields
    <2>2. e' = FinishStopRecording(u)
      BY <1>4 DEF StopTimerFires
    <2> HIDE DEF u
    <2>3. NoStart(e, e')
      BY <1>1, <2>1, <2>2, StopKeeps
    <2> QED
      BY <1>4, <2>3, QuietKeeps DEF StopTimerFires
  <1>5. CASE SyncTimerFires
    <2> DEFINE u == [e EXCEPT !.fresh = TRUE]
               m == [call |-> "status", heard |-> TRUE]
    <2>1. DOMAIN u = EngineFields /\ u.out = e.out /\ m \in CallType /\ m.call # "start"
      BY <1>0 DEF EngineFields, CallType
    <2>2. e' = e \/ e' = [u EXCEPT !.out = Append(@, m)]
      BY <1>5 DEF SyncTimerFires, Call
    <2> HIDE DEF u, m
    <2>3. NoStart(e, e')
      BY <1>0, <1>1, <2>1, <2>2, CallKeeps
    <2> QED
      BY <1>5, <2>3, QuietKeeps DEF SyncTimerFires
  <1>6. CASE CooldownOver
    <2>1. DOMAIN e' = EngineFields /\ e'.out = e.out
      BY <1>0, <1>6 DEF CooldownOver, EngineFields
    <2>2. NoStart(e, e')
      BY <1>1, <2>1
    <2> QED
      BY <1>6, <2>2, QuietKeeps DEF CooldownOver
  <1>7. CASE Receive
    <2> DEFINE m == Head(e.in)
               u == Received(e)
    <2>1. DOMAIN u = EngineFields /\ u.out = e.out
      BY <1>0 DEF Received, EngineFields
    <2>2. PICK lasts \in PolledIdleLasts :
            \/ e' = OnCallReply(u, m) \/ e' = OnStatusReply(u, m, lasts)
            \/ e' = OnStatusChanged(u, m) \/ e' = OnRecognitionResult(u)
      BY <1>7 DEF Receive
    <2> HIDE DEF u, m
    <2>3. NoStart(u, e')
      BY <1>1, <2>1, <2>2, RepliesKeep
    <2> QED
      BY <1>1, <1>7, <2>1, <2>3, QuietKeeps DEF Receive
  <1>8. CASE CallTimesOut
    <2>1. PICK call \in {"start", "stop", "status"} :
            LET s == [e EXCEPT !.out = Mute(@, call)]
                m == [call |-> call, ok |-> FALSE, status |-> ""]
            IN  e' = IF call = "status" THEN OnStatusReply(s, m, FALSE) ELSE OnCallReply(s, m)
      BY <1>8, ZenonT(30) DEF CallTimesOut
    <2> DEFINE s == [e EXCEPT !.out = Mute(@, call)]
               m == [call |-> call, ok |-> FALSE, status |-> ""]
               no == FALSE
    <2>2. DOMAIN s = EngineFields /\ s.out = Mute(e.out, call)
      BY <1>0 DEF EngineFields
    <2>3. e' = OnStatusReply(s, m, no) \/ e' = OnCallReply(s, m)
      BY <2>1, ZenonT(30)
    <2> HIDE DEF s, m, no
    <2>4. NoStart(e, s) /\ IsEngine(s)
      BY <1>0, <2>2, MuteKeeps DEF IsEngine, NoStart
    <2>5. NoStart(s, e')
      BY <2>3, <2>4, RepliesKeep
    <2>6. NoStart(e, e')
      BY <1>0, <2>4, <2>5, NoStartTrans
    <2> QED
      BY <1>8, <2>6, QuietKeeps, ZenonT(30) DEF CallTimesOut
  <1> QED
    BY <1>2, <1>3, <1>4, <1>5, <1>6, <1>7, <1>8

-----------------------------------------------------------------------------
(* The daemon takes the first call: a start is covered by a later cancel,  *)
(* and a cancel that is taken leaves it not recording.                     *)
LEMMA TakenCovered ==
    ASSUME NEW out \in Seq(CallType), out # <<>>, NEW phase, NEW next, Covered(out, phase),
           \/ next # "recording"
           \/ next = phase /\ Head(out).call # "cancel"
           \/ Head(out).call = "start"
    PROVE  Covered(Tail(out), next)
  <1> DEFINE t == Tail(out)
  <1>1. /\ Len(out) \in Nat \ {0} /\ DOMAIN out = 1..Len(out) /\ Head(out) = out[1]
        /\ DOMAIN t = 1..(Len(out) - 1) /\ \A i \in 1..(Len(out) - 1) : t[i] = out[i + 1]
    OBVIOUS
  <1> HIDE DEF t
  <1>2. ASSUME NEW j \in DOMAIN out, j > 1 PROVE j - 1 \in DOMAIN t /\ t[j - 1] = out[j]
    BY <1>1, <1>2
  <1>3. ASSUME NEW i \in DOMAIN t, t[i].call = "start"
        PROVE  \E j \in DOMAIN t : j > i /\ t[j].call = "cancel"
    <2>1. i + 1 \in DOMAIN out /\ out[i + 1].call = "start" /\ i \in Nat
      BY <1>1, <1>3
    <2>2. PICK j \in DOMAIN out : j > i + 1 /\ out[j].call = "cancel"
      BY <2>1 DEF Covered
    <2>3. j \in Nat /\ i \in 1..(Len(out) - 1)
      BY <1>1, <1>3
    <2>4. j - 1 \in DOMAIN t /\ t[j - 1] = out[j] /\ j - 1 > i
      BY <1>2, <2>2, <2>3
    <2> QED
      BY <2>2, <2>4
  <1>4. ASSUME next = "recording" PROVE \E j \in DOMAIN t : t[j].call = "cancel"
    <2>1. PICK j \in DOMAIN out : j > 1 /\ out[j].call = "cancel"
      <3>1. 1 \in DOMAIN out
        BY <1>1
      <3>2. CASE Head(out).call = "start"
        BY <1>1, <3>1, <3>2 DEF Covered
      <3>3. CASE phase = "recording" /\ Head(out).call # "cancel"
        <4>1. PICK j \in DOMAIN out : out[j].call = "cancel"
          BY <3>3 DEF Covered
        <4>2. j # 1 /\ j > 1
          BY <1>1, <3>3, <4>1
        <4> QED
          BY <4>1, <4>2
      <3> QED
        BY <1>4, <3>2, <3>3
    <2> QED
      BY <1>2, <2>1
  <1> QED
    BY <1>3, <1>4 DEF Covered, t

LEMMA DaemonKeeps ==
    ASSUME FrontInv, \/ DaemonAnswers \/ DaemonWorks \/ DaemonFails \/ FlushEmitQueue
                     \/ DaemonCrashes \/ DaemonRestarts
    PROVE  FrontInv'
  <1>0. /\ IsEngine(e) /\ DOMAIN e = EngineFields /\ e.out \in Seq(CallType)
        /\ DOMAIN daemon = {"phase", "emits", "up", "crashes"} /\ daemon.up \in BOOLEAN
        /\ user' = user
    BY ZenonT(30) DEF FrontInv, FrontTypes, IsEngine, DaemonAnswers, DaemonWorks, DaemonFails,
           FlushEmitQueue,
           DaemonCrashes, DaemonRestarts
  <1>1. ASSUME NEW phase
        PROVE  LET d == Moves(phase)
               IN  DOMAIN d = {"phase", "emits", "up", "crashes"} /\ d.up = daemon.up /\ d.phase = phase
    BY <1>0 DEF Moves
  <1>2. CASE DaemonAnswers
    <2>1. /\ DOMAIN daemon' = DOMAIN daemon /\ daemon'.up = daemon.up
          /\ \/ ~daemon.up /\ daemon'.phase = daemon.phase
             \/ daemon.up /\ daemon'.phase # "recording"
             \/ daemon.up /\ daemon'.phase = daemon.phase /\ Head(e.out).call # "cancel"
             \/ daemon.up /\ Head(e.out).call = "start"
      <3>1. CASE ~daemon.up
        BY <1>0, <1>2, <3>1, ZenonT(30) DEF DaemonAnswers
      <3>2. CASE daemon.up /\ Head(e.out).call = "start"
        BY <1>0, <1>1, <1>2, <3>2, ZenonT(30) DEF DaemonAnswers, DaemonStart
      <3>3. CASE daemon.up /\ Head(e.out).call = "stop"
        BY <1>0, <1>1, <1>2, <3>3, ZenonT(30) DEF DaemonAnswers, DaemonStop
      <3>4. CASE daemon.up /\ Head(e.out).call = "cancel"
        BY <1>0, <1>1, <1>2, <3>4, ZenonT(30) DEF DaemonAnswers, DaemonCancel
      <3>5. CASE daemon.up /\ Head(e.out).call \notin {"start", "stop", "cancel"}
        BY <1>0, <1>2, <3>5, ZenonT(30) DEF DaemonAnswers
      <3> QED
        BY <1>0, <3>1, <3>2, <3>3, <3>4, <3>5
    <2>2. e.out # <<>> /\ \E ok, status : Reply(ok, status)
      <3>1. CASE ~daemon.up
        BY <1>2, <3>1, ZenonT(30) DEF DaemonAnswers
      <3>2. CASE daemon.up /\ Head(e.out).call = "start"
        BY <1>2, <3>2, ZenonT(30) DEF DaemonAnswers, DaemonStart
      <3>3. CASE daemon.up /\ Head(e.out).call = "stop"
        BY <1>2, <3>3, ZenonT(30) DEF DaemonAnswers, DaemonStop
      <3>4. CASE daemon.up /\ Head(e.out).call = "cancel"
        BY <1>2, <3>4, ZenonT(30) DEF DaemonAnswers, DaemonCancel
      <3>5. CASE daemon.up /\ Head(e.out).call \notin {"start", "stop", "cancel"}
        BY <1>2, <3>5, ZenonT(30) DEF DaemonAnswers
      <3> QED
        BY <1>0, <3>1, <3>2, <3>3, <3>4, <3>5
    <2>3. DOMAIN e' = EngineFields /\ e'.out = Tail(e.out)
      BY <1>0, <2>2 DEF Reply, EngineFields
    <2>4. IsEngine(e')
      BY <1>0, <2>2, <2>3 DEF IsEngine
    <2>5. ASSUME user.abandoned PROVE Covered(e'.out, daemon'.phase)
      <3>1. Covered(e.out, daemon.phase) /\ (~daemon.up => daemon.phase # "recording")
        BY <2>5 DEF FrontInv
      <3> QED
        BY <1>0, <2>1, <2>2, <2>3, <3>1, TakenCovered
    <2>6. ~daemon'.up => daemon'.phase # "recording"
      BY <2>1 DEF FrontInv
    <2> QED
      BY <1>0, <2>1, <2>4, <2>5, <2>6 DEF FrontInv, FrontTypes
  <1>3. CASE FlushEmitQueue
    <2>1. DOMAIN e' = EngineFields /\ e'.out = e.out
      BY <1>0, <1>3 DEF FlushEmitQueue, EngineFields
    <2>2. DOMAIN daemon' = DOMAIN daemon /\ daemon'.up = daemon.up /\ daemon'.phase = daemon.phase
      BY <1>0, <1>3 DEF FlushEmitQueue
    <2> QED
      BY <1>0, <2>1, <2>2 DEF FrontInv, FrontTypes, IsEngine
  <1>4. CASE DaemonWorks \/ DaemonFails \/ DaemonCrashes \/ DaemonRestarts
    <2>1. /\ DOMAIN daemon' = DOMAIN daemon /\ daemon'.up \in BOOLEAN /\ e' = e
          /\ daemon'.phase # "recording" \/ (~daemon.up /\ daemon'.phase = daemon.phase)
      <3>1. CASE DaemonWorks
        BY <1>0, <1>1, <3>1, ZenonT(30) DEF DaemonWorks
      <3>2. CASE DaemonCrashes
        BY <1>0, <3>2 DEF DaemonCrashes
      <3>3. CASE DaemonRestarts
        BY <1>0, <3>3 DEF DaemonRestarts
      <3>4. CASE DaemonFails
        BY <1>0, <3>4, ZenonT(30) DEF DaemonFails
      <3> QED
        BY <1>4, <3>1, <3>2, <3>3, <3>4
    <2>2. daemon'.phase # "recording"
      BY <2>1 DEF FrontInv
    <2>3. user.abandoned => Covered(e'.out, daemon'.phase)
      BY <2>1, <2>2 DEF FrontInv, Covered
    <2> QED
      BY <1>0, <2>1, <2>2, <2>3 DEF FrontInv, FrontTypes
  <1> QED
    BY <1>2, <1>3, <1>4

(* Every way out of a session that listens queues a cancel behind all      *)
(* starts, and until a session begins again no other start is queued: the  *)
(* daemon is not left recording, whatever it refuses, however late it      *)
(* answers, and also across its crashes.                                   *)
THEOREM AbandonedNotRecorded == FrontSpec => []AbandonedIsNotRecorded
  <1>1. FrontInit => FrontInv
    <2> SUFFICES ASSUME FrontInit PROVE FrontInv
      OBVIOUS
    <2>1. DOMAIN e = EngineFields /\ e.out = <<>>
      BY ZenonT(30) DEF FrontInit, EngineFields
    <2>2. IsEngine(e)
      BY <2>1 DEF IsEngine
    <2>3. DOMAIN daemon = {"phase", "emits", "up", "crashes"} /\ daemon.up = TRUE
      BY ZenonT(30) DEF FrontInit
    <2>4. DOMAIN user = {"mode", "down", "focus", "events", "abandoned"} /\ user.abandoned = FALSE
      BY ZenonT(30) DEF FrontInit
    <2> QED
      BY <2>2, <2>3, <2>4, ZenonT(30) DEF FrontInv, FrontTypes
  <1>2. FrontInv /\ [FrontNext]_frontVars => FrontInv'
    <2> SUFFICES ASSUME FrontInv, [FrontNext]_frontVars PROVE FrontInv'
      OBVIOUS
    <2>1. CASE UNCHANGED frontVars
      BY <2>1 DEF FrontInv, FrontTypes, IsEngine, Covered, frontVars
    <2> QED
      BY <2>1, UserKeeps, EngineKeeps, DaemonKeeps DEF FrontNext
  <1>3. FrontInv => AbandonedIsNotRecorded
    BY DEF FrontInv, Covered, AbandonedIsNotRecorded, Delivered
  <1> QED
    BY <1>1, <1>2, <1>3, PTL DEF FrontSpec
=============================================================================
