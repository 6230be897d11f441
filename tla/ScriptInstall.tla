---------------------------- MODULE ScriptInstall ----------------------------
(***************************************************************************)
(* Installing, updating and removing the script of an ASR provider or an   *)
(* LLM adapter: the CLI and the GUI, two processes with no lock between    *)
(* them, work on the script file, the manifest of installed scripts and    *)
(* the configuration, each replaced as a whole by a rename.                *)
(* A script is the number of its publication, and so are its version and   *)
(* its SHA-256; 0 is no script, and an empty version or hash.  A registry  *)
(* entry may lack either.  The registry publishes one version of every     *)
(* script at a time.                                                       *)
(***************************************************************************)
EXTENDS Naturals, FiniteSets

CONSTANTS
    Ids,         \* scripts
    Versioned,   \* <<id, v>>: publication v of id has a version in the registry
    Hashed,      \* <<id, v>>: it has a sha256
    Cli, Gui,    \* operators of either kind
    MaxVersion,  \* bound: versions the registry publishes
    MaxOps       \* bound: operations started

VARIABLES
    remote,    \* the version the registry publishes
    cached,    \* the version in the cached registry, 0 for no cache
    script,    \* the version of each script file
    record,    \* installed.json: per id, the version and the sha256
    config,    \* the ids the configuration lists
    op,        \* the operation of each operator, with what it has loaded
    ops,       \* operations started
    newest     \* ghost: the newest version each script ever had

scriptVars == <<remote, cached, script, record, config, op, ops, newest>>

Operators == Cli \cup Gui

Versions == 0..MaxVersion

NoRecord == [version |-> 0, sha |-> 0]

NoId == CHOOSE id \in Ids : TRUE

Resting == [at |-> "idle", task |-> "none", id |-> NoId, entry |-> 0,
            sha |-> 0, config |-> {}, manifest |-> [id \in Ids |-> NoRecord]]

ScriptInit ==
    /\ remote = 1 /\ cached = 0 /\ ops = 0 /\ config = {}
    /\ script = [id \in Ids |-> 0] /\ newest = script
    /\ record = [id \in Ids |-> NoRecord]
    /\ op = [o \in Operators |-> Resting]

Busy(o) == op[o].at # "idle"

OpAt(o, label) == op[o].at = label

OpTo(o, label) == op' = [op EXCEPT ![o].at = label]

(* An error ends the operation, and so does the death of the process; what *)
(* is on disk stays.                                                       *)
Return(o) == op' = [op EXCEPT ![o] = Resting]

-----------------------------------------------------------------------------
(* The fields of the registry's entry for publication v of a script.       *)
RegistryEntry(id, v) ==
    [version |-> IF <<id, v>> \in Versioned THEN v ELSE 0, sha |-> IF <<id, v>> \in Hashed THEN v ELSE 0]

(* ComputeFileSha256, empty when the file cannot be read. *)
FileSha(id) == {0, script[id]}

(* What is known of the installed script: its record in manifest m, else   *)
(* the hash of the file.                                                   *)
Installed(m, id, file) == IF m[id] # NoRecord THEN m[id] ELSE [version |-> 0, sha |-> file]

(* Faulty variant: the record is believed when the script is gone. *)
CheckRecordOnly(m, id, v, file) ==
    IF m[id].version = v THEN "UpToDate" ELSE "UpdateAvailable"

(* CheckResourceVersion, for an id that the configuration lists: versions  *)
(* that differ decide, then the hashes if both are known, then a version   *)
(* of the entry alone.                                                     *)
CheckResourceVersion(m, id, v, file) ==
    LET entry     == RegistryEntry(id, v)
        installed == Installed(m, id, file)
        hashes    == {entry.sha, installed.sha}
    IN  IF \/ script[id] = 0
           \/ 0 \notin {entry.version, installed.version} /\ entry.version # installed.version
           \/ 0 \notin hashes /\ entry.sha # installed.sha
           \/ 0 \in hashes /\ entry.version # 0 /\ installed.version = 0
        THEN "UpdateAvailable" ELSE "UpToDate"

-----------------------------------------------------------------------------
(* The steps of an operation.                                              *)

Publish ==
    /\ remote < MaxVersion
    /\ remote' = remote + 1
    /\ UNCHANGED <<cached, script, record, config, op, ops, newest>>

(* The CLI works to the end on the configuration it loads here.  To update *)
(* or remove, the script must be listed.                                   *)
StartOp(o, task, id) ==
    /\ ~Busy(o) /\ ops < MaxOps
    /\ task # "install" => id \in config
    /\ ops' = ops + 1
    /\ op' = [op EXCEPT ![o] = [Resting EXCEPT !.task = task, !.id = id, !.config = config,
                !.at = IF task # "remove" THEN "fetch" ELSE IF o \in Cli THEN "unlink" ELSE "save"]]
    /\ UNCHANGED <<remote, cached, script, record, config, newest>>

(* FetchText: the registry downloaded, else the cached one. *)
FetchText(o) ==
    /\ OpAt(o, "fetch")
    /\ \/ op' = [op EXCEPT ![o].at = "cache", ![o].entry = remote]
       \/ cached # 0 /\ op' = [op EXCEPT ![o].at = "check", ![o].entry = cached]
    /\ UNCHANGED <<remote, cached, script, record, config, ops, newest>>

SaveCachedText(o) ==
    /\ OpAt(o, "cache")
    /\ cached' = op[o].entry
    /\ OpTo(o, "check")
    /\ UNCHANGED <<remote, script, record, config, ops, newest>>

(* The CLI's update downloads nothing that is up to date, unless forced,   *)
(* and saves its configuration all the same.                               *)
Check(o) ==
    /\ OpAt(o, "check")
    /\ \/ OpTo(o, "download")
       \/ /\ o \in Cli /\ op[o].task = "update"
          /\ \E file \in FileSha(op[o].id) :
                CheckResourceVersion(record, op[o].id, op[o].entry, file) = "UpToDate"
          /\ OpTo(o, "save")
    /\ UNCHANGED <<remote, cached, script, record, config, ops, newest>>

(* What the URLs deliver is the entry's version if its sha256 is known,    *)
(* else what is published.                                                 *)
Delivered(o) == IF <<op[o].id, op[o].entry>> \in Hashed THEN op[o].entry ELSE remote

(* DownloadFile, the checks, final_sha, and the rename over the old script. *)
DownloadScript(o) ==
    /\ OpAt(o, "download")
    /\ script' = [script EXCEPT ![op[o].id] = Delivered(o)]
    /\ op' = [op EXCEPT ![o].at = "manifest", ![o].sha = Delivered(o)]
    /\ newest' = [newest EXCEPT ![op[o].id] = IF @ < Delivered(o) THEN Delivered(o) ELSE @]
    /\ UNCHANGED <<remote, cached, record, config, ops>>

(* InstalledManifest::Load, then Save with one record changed: whatever    *)
(* another operator has written in between is lost.                        *)
LoadManifest(o) ==
    /\ OpAt(o, "manifest")
    /\ op' = [op EXCEPT ![o].at = "record", ![o].manifest = record]
    /\ UNCHANGED <<remote, cached, script, record, config, ops, newest>>

(* RecordInstalled, or Remove of a record that is there. *)
Changed(o) ==
    LET id == op[o].id
        version == RegistryEntry(id, op[o].entry).version
    IN  IF op[o].task # "remove"
          THEN {[op[o].manifest EXCEPT ![id] = [version |-> version, sha |-> op[o].sha]]}
        ELSE IF op[o].manifest[id] # NoRecord THEN {[op[o].manifest EXCEPT ![id] = NoRecord]}
        ELSE {}

(* Nobody looks at the result of Save. *)
SaveManifest(o) ==
    /\ OpAt(o, "record")
    /\ record' \in {record} \cup Changed(o)
    /\ CASE op[o].task # "remove" -> OpTo(o, "materialize")
         [] op[o].task = "remove" /\ o \in Cli -> OpTo(o, "save")
         [] OTHER -> Return(o)
    /\ UNCHANGED <<remote, cached, script, config, ops, newest>>

(* MaterializeAsrProvider, MaterializeLlmAdapter: the GUI has loaded the   *)
(* configuration again.                                                    *)
Materialize(o) ==
    /\ OpAt(o, "materialize")
    /\ op' = [op EXCEPT ![o].at = "save", ![o].config = IF o \in Gui THEN config ELSE @]
    /\ UNCHANGED <<remote, cached, script, record, config, ops, newest>>

(* SaveCoreConfig; the GUI removes the script only then. *)
SaveConfig(o) ==
    /\ OpAt(o, "save")
    /\ IF op[o].task = "remove"
         THEN /\ config' = op[o].config \ {op[o].id}
              /\ IF o \in Gui THEN OpTo(o, "unlink") ELSE Return(o)
         ELSE config' = op[o].config \cup {op[o].id} /\ Return(o)
    /\ UNCHANGED <<remote, cached, script, record, ops, newest>>

(* The CLI removes the script before it saves its configuration. *)
RemoveScript(o) ==
    /\ OpAt(o, "unlink")
    /\ script' \in {script, [script EXCEPT ![op[o].id] = 0]}
    /\ OpTo(o, "manifest")
    /\ UNCHANGED <<remote, cached, record, config, ops, newest>>

(* An error, a cancelled download, or the process dies. *)
Abandon(o) ==
    /\ Busy(o) /\ Return(o)
    /\ UNCHANGED <<remote, cached, script, record, config, ops, newest>>

Step(o) == \/ FetchText(o) \/ SaveCachedText(o) \/ Check(o) \/ DownloadScript(o)
           \/ LoadManifest(o) \/ SaveManifest(o) \/ Materialize(o) \/ SaveConfig(o)
           \/ RemoveScript(o) \/ Abandon(o)

ScriptNext == \/ Publish
              \/ \E o \in Operators : Step(o)
              \/ \E o \in Operators, task \in {"install", "update", "remove"}, id \in Ids :
                   StartOp(o, task, id)

ScriptSpec == ScriptInit /\ [][ScriptNext]_scriptVars

-----------------------------------------------------------------------------
(* A stale cache, or an operator slower than another, has put an older     *)
(* version where there was a newer one, be it replaced or removed before:  *)
(* the record of a removed script outlives it when its own removal is not  *)
(* saved, or when another operator writes back the manifest it has loaded. *)
Downgraded(id) == script[id] \notin {0, newest[id]}

(* There is something to compare: the entry has a version, or it has a     *)
(* sha256 and that of the installed script is known.                       *)
Comparable(m, id, v, file) ==
    <<id, v>> \in Versioned \/ (<<id, v>> \in Hashed /\ Installed(m, id, file).sha # 0)

(* "Up to date" is the truth: when CheckResourceVersion says so of a       *)
(* script, the file on disk is the version the registry publishes, through *)
(* manifest updates lost to another operator, failed saves, operators at   *)
(* work on the same script, operations that stop half-way and entries that *)
(* gain or lose their version or sha256 from one publication to the next.  *)
(* Excepted are a script older than one that was there before, since the   *)
(* record of that one stands if its own cannot be saved, and an entry that *)
(* leaves nothing to compare: with neither version nor sha256, or with a   *)
(* sha256 only and an unrecorded script that cannot be read, the code      *)
(* calls any script on disk up to date.                                    *)
UpToDateIsTruthful ==
    \A id \in Ids : \A file \in FileSha(id) :
      ~Downgraded(id) /\ Comparable(record, id, remote, file)
        /\ CheckResourceVersion(record, id, remote, file) = "UpToDate" => script[id] = remote
=============================================================================
