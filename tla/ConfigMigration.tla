-------------------------- MODULE ConfigMigration ---------------------------
(***************************************************************************)
(* `vinput config migrate` (common/config/config_migration.cpp): a table   *)
(* of rules rewrites config.json and the addon's vinput.conf in place,     *)
(* each after a backup.  The process may die between any two writes, a     *)
(* write may fail, and the command may be run again.                       *)
(*                                                                         *)
(* A file is a function from the keys it has to their values.  One scene   *)
(* stands for all (the rules' wildcards treat every one alike).  Versions  *)
(* are numbers in the order of the releases the rules name.                *)
(***************************************************************************)
EXTENDS Naturals, Sequences, FiniteSets

CONSTANTS
    ConfigFiles, \* config.json at the start, or NoFile
    ConfFiles,   \* vinput.conf at the start, or NoFile
    NoFile,
    Host,        \* CurrentHostVersion
    MaxRuns,
    MaxKills,
    MaxSeconds   \* backups are named after the second they are made in

(* Releases.  Target is GetTargetVersionConstraint, the newest rule's; an  *)
(* older host may find the file of a newer one.                            *)
V2_3_14 == 1
V2_3_15 == 2
V2_3_25 == 3
V2_3_27 == 4
V2_4_0 == 5
V2_5_0 == 6
Target == V2_4_0

(* Files have versions of this order, and the host is no older than the    *)
(* newest rule it ships.                                                   *)
ASSUME VersionsAreNumbers ==
    /\ \A f \in ConfigFiles : "version" \in DOMAIN f => f["version"] \in Nat
    /\ Host \in Nat /\ Host >= Target
    /\ MaxSeconds \in Nat

(* GetRules, in order.                                                     *)
Rename(v, key, to) == [version |-> v, action |-> "rename", key |-> key, to |-> to]
Remove(v, key) == [version |-> v, action |-> "remove", key |-> key]
Ensure(v, key, value) == [version |-> v, action |-> "ensure", key |-> key, value |-> value]
ReplaceIfDefault(v, key, old, new) ==
    [version |-> v, action |-> "replace", key |-> key, old |-> old, value |-> new]

JsonRules ==
    << Rename(V2_3_15, "candidate_count", "count"), Rename(V2_3_15, "adaptors", "adapters"),
       Rename(V2_3_25, "show_raw", "raw_cand"), Ensure(V2_3_25, "raw_prev", 1),
       Remove(V2_3_27, "default_language"),
       ReplaceIfDefault(V2_4_0, "threshold", 45, 35), ReplaceIfDefault(V2_4_0, "min_speech_duration", 15, 10),
       ReplaceIfDefault(V2_4_0, "min_silence_duration", 50, 120),
       ReplaceIfDefault(V2_4_0, "speech_pad_ms", 30, 500), ReplaceIfDefault(V2_4_0, "speech_pad_ms", 300, 500) >>

IniRules ==
    << Rename(V2_3_15, "SceneMenuKey", "MenuKey"), Remove(V2_3_15, "AsrMenuKey"),
       Remove(V2_4_0, "HoldActivationDelay") >>

OutdatedKeys == {"SceneMenuKey", "AsrMenuKey", "HoldActivationDelay"}

VARIABLES
    config, conf,    \* the two files
    backups,         \* [config, conf]: per second, what the backup of that name holds
    second, ts,      \* the clock, and what the run has read of it
    stage,           \* where RunConfigMigration is
    new,             \* what it is about to write: [config, conf]
    report,          \* what the last run said: "error", "pending", "not needed", "applied"
    was,             \* ghost: the two files at the start
    runs, crashes

migrationVars == <<config, conf, backups, second, ts, stage, new, report, was, runs, crashes>>

MigrationInit ==
    /\ config \in ConfigFiles \cup {NoFile} /\ conf \in ConfFiles \cup {NoFile}
    /\ backups = [config |-> [s \in 0 .. MaxSeconds |-> NoFile], conf |-> [s \in 0 .. MaxSeconds |-> NoFile]]
    /\ second = 0 /\ ts = 0
    /\ stage = "idle" /\ report = "none"
    /\ was = [config |-> config, conf |-> conf]
    /\ new = was
    /\ runs = 0 /\ crashes = 0

-----------------------------------------------------------------------------
Has(f, key) == key \in DOMAIN f
Erased(f, key) == [k \in DOMAIN f \ {key} |-> f[k]]
With(f, key, value) == [k \in DOMAIN f \cup {key} |-> IF k = key THEN value ELSE f[k]]

(* ApplyActionToTarget on the object that holds the key; a rename gives    *)
(* way to a value already there.                                           *)
ApplyAction(f, rule) ==
    CASE rule.action = "rename" /\ Has(f, rule.key) ->
           Erased(IF Has(f, rule.to) THEN f ELSE With(f, rule.to, f[rule.key]), rule.key)
      [] rule.action = "remove" -> Erased(f, rule.key)
      [] rule.action = "ensure" /\ ~Has(f, rule.key) -> With(f, rule.key, rule.value)
      [] rule.action = "replace" /\ Has(f, rule.key) ->
           IF f[rule.key] = rule.old THEN With(f, rule.key, rule.value) ELSE f
      [] OTHER -> f

(* ParseConfigLowerBoundVersion: no version, or one that is not a version, *)
(* lets every rule apply.                                                  *)
LowerBound(f) == IF Has(f, "version") THEN f["version"] ELSE 0

(* WalkAndApply of one rule, to a file that had the version from.          *)
ApplyJsonRule(f, from, i) ==
    IF from < JsonRules[i].version THEN ApplyAction(f, JsonRules[i]) ELSE f

(* The slow path over config.json: the rules newer than the file, then the *)
(* legacy field, then the version.                                         *)
MigratedConfig(f) ==
    LET g ** i == ApplyJsonRule(g, LowerBound(f), i)
    IN  With(Erased(f ** 1 ** 2 ** 3 ** 4 ** 5 ** 6 ** 7 ** 8 ** 9 ** 10, "vinput_version"), "version", Target)

(* ApplyIniRule: those of vinput.conf know no version.                     *)
MigratedConf(f) == ApplyAction(ApplyAction(ApplyAction(f, IniRules[1]), IniRules[2]), IniRules[3])

Satisfied(f) ==
    f # NoFile => ~Has(f, "vinput_version") /\ LowerBound(f) >= Target /\ LowerBound(f) <= Host
HasOutdatedIniKeys(f) == f # NoFile /\ DOMAIN f \cap OutdatedKeys # {}

(* Mutant of FastPath: looks at config.json only.                          *)
FastPathConfigOnly == Satisfied(config)

FastPath == Satisfied(config) /\ ~HasOutdatedIniKeys(conf)

-----------------------------------------------------------------------------
(* RunConfigMigration reads both files and decides; an unreadable one      *)
(* ends it.  A dry run ends here as well.                                  *)
StartMigration(dryRun) ==
    /\ stage = "idle" /\ runs < MaxRuns
    /\ runs' = runs + 1
    /\ \/ report' = "error" /\ UNCHANGED <<stage, new>>
       \/ FastPath /\ report' = "not needed" /\ UNCHANGED <<stage, new>>
       \/ /\ ~FastPath
          /\ new' = [config |-> IF config = NoFile THEN NoFile ELSE MigratedConfig(config),
                     conf |-> IF conf = NoFile THEN NoFile ELSE MigratedConf(conf)]
          /\ IF new' = [config |-> config, conf |-> conf]
               THEN report' = "not needed" /\ UNCHANGED stage
               ELSE IF dryRun THEN report' = "pending" /\ UNCHANGED stage
               ELSE stage' = "config_backup" /\ report' = "none"
    /\ ts' = IF stage' = "idle" THEN 0 ELSE second
    /\ UNCHANGED <<config, conf, backups, second, was, crashes>>

(* A write that fails ends the run with an error.                          *)
WriteFails ==
    /\ \/ stage \in {"config_backup", "config_write"} /\ new.config # config
       \/ stage \in {"conf_backup", "conf_write"} /\ new.conf # conf
    /\ stage' = "idle" /\ report' = "error"
    /\ UNCHANGED <<second, ts, config, conf, backups, new, was, runs, crashes>>

(* Mutant of BackUpConfig: the backup is made from what is being written.  *)
BackUpConfigLate ==
    /\ stage = "config_backup"
    /\ IF new.config = config
         THEN stage' = "conf_backup" /\ UNCHANGED backups
         ELSE stage' = "config_write" /\ backups' = [backups EXCEPT !.config[ts] = new.config]
    /\ UNCHANGED <<second, ts, config, conf, new, report, was, runs, crashes>>

BackUpConfig ==
    /\ stage = "config_backup"
    /\ IF new.config = config
         THEN stage' = "conf_backup" /\ UNCHANGED backups
         ELSE stage' = "config_write" /\ backups' = [backups EXCEPT !.config[ts] = config]
    /\ UNCHANGED <<second, ts, config, conf, new, report, was, runs, crashes>>

WriteConfig ==
    /\ stage = "config_write"
    /\ config' = new.config
    /\ stage' = "conf_backup"
    /\ UNCHANGED <<second, ts, conf, backups, new, report, was, runs, crashes>>

BackUpConf ==
    /\ stage = "conf_backup"
    /\ IF new.conf = conf
         THEN stage' = "idle" /\ report' = "applied" /\ UNCHANGED backups
         ELSE stage' = "conf_write" /\ UNCHANGED report /\ backups' = [backups EXCEPT !.conf[ts] = conf]
    /\ UNCHANGED <<second, ts, config, conf, new, was, runs, crashes>>

WriteConf ==
    /\ stage = "conf_write"
    /\ conf' = new.conf
    /\ stage' = "idle" /\ report' = "applied"
    /\ UNCHANGED <<second, ts, config, backups, new, was, runs, crashes>>

(* The process dies; the writes are atomic (AtomicWriteTextFile,           *)
(* safeSaveAsIni), so each file is the old or the new one.                 *)
MigrationDies ==
    /\ stage # "idle" /\ crashes < MaxKills
    /\ crashes' = crashes + 1
    /\ stage' = "idle" /\ report' = "error"
    /\ UNCHANGED <<second, ts, config, conf, backups, new, was, runs>>

Tick ==
    /\ second < MaxSeconds
    /\ second' = second + 1
    /\ UNCHANGED <<config, conf, backups, ts, stage, new, report, was, runs, crashes>>

MigrationNext ==
    \/ Tick
    \/ \E dryRun \in BOOLEAN : StartMigration(dryRun)
    \/ BackUpConfig \/ WriteConfig \/ BackUpConf \/ WriteConf \/ WriteFails \/ MigrationDies

MigrationSpec == MigrationInit /\ [][MigrationNext]_migrationVars

-----------------------------------------------------------------------------
(* "With automatic backups before modifying files": at every moment the    *)
(* user's original files are there, in place or as a backup, however often *)
(* the migration died and was run again.                                   *)
OriginalIsKept ==
    /\ config = was.config \/ \E s \in 0 .. MaxSeconds : backups.config[s] = was.config
    /\ conf = was.conf \/ \E s \in 0 .. MaxSeconds : backups.conf[s] = was.conf

(* What became of a renamed setting: the new key's value if the user had   *)
(* it already, the old key's otherwise.                                    *)
Carried(before, after, rule) ==
    /\ ~Has(after, rule.key)
    /\ \A source \in {rule.key, rule.to} :
          Has(before, source) /\ (source = rule.key => ~Has(before, rule.to)) =>
              Has(after, rule.to) /\ after[rule.to] = before[source]

(* A run that ends saying there is nothing (more) to do is right, also     *)
(* after interrupted ones: no key of an old release is left in either      *)
(* file, a renamed setting has the value the user gave it, and the next    *)
(* run would change nothing.                                               *)
DoneMeansMigrated ==
    report \in {"applied", "not needed"} =>
        /\ Satisfied(config) /\ ~HasOutdatedIniKeys(conf)
        /\ config # NoFile =>
             \A i \in DOMAIN JsonRules :
                LET rule == JsonRules[i]
                IN  rule.action = "rename" /\ LowerBound(was.config) < rule.version =>
                        Carried(was.config, config, rule)
        /\ conf # NoFile => Carried(was.conf, conf, IniRules[1])

(* A migration never destroys the only copy of a file, and one that says   *)
(* it is done has brought both files up to date.                           *)
MigrationIsSafe == OriginalIsKept /\ DoneMeansMigrated
=============================================================================
