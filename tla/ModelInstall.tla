----------------------------- MODULE ModelInstall -----------------------------
(***************************************************************************)
(* ModelRepository::InstallModel and ModelManager::Remove on the directory *)
(* of one model, by processes (the CLI, the GUI's worker) that know        *)
(* nothing of each other, may be cancelled and may die at any step.  A     *)
(* directory is what one installer unpacked, or the model that was there   *)
(* before; a rename moves it, remove_all empties it wherever it is.        *)
(***************************************************************************)
EXTENDS Naturals

CONSTANTS
    Installers,   \* processes that install the model once
    Removers,     \* processes that remove it once
    NoDir          \* no directory

VARIABLES
    dest,   \* the directory at base_dir_/RelativePathForId(id), or NoDir
    files,  \* what each directory holds
    inst,   \* the installers: position, had_existing, previous-install, cancel token
    rem,    \* the removers: position and the directory remove_all works on
    gone    \* directories that a ScopedTempDir deleted with its own

modelVars == <<dest, files, inst, rem, gone>>

Dirs == Installers \cup {"old"}

ModelInit ==
    /\ dest \in {NoDir, "old"}
    /\ files = [d \in Dirs |-> IF d = dest THEN "ready" ELSE "nothing"]
    /\ inst = [i \in Installers |-> [at |-> "fetch", had |-> FALSE, backup |-> NoDir,
                                     cancelled |-> FALSE, ok |-> FALSE]]
    /\ rem = [r \in Removers |-> [at |-> "start", dir |-> NoDir]]
    /\ gone = {}

-----------------------------------------------------------------------------
(* InstallModel.                                                           *)

Goto(i, label) == inst' = [inst EXCEPT ![i].at = label]

(* Returning early destroys the ScopedTempDir. *)
Fails(i) == Goto(i, "cleanup") /\ UNCHANGED <<dest, files, rem, gone>>

(* A step may fail, and does when it finds the cancel token set. *)
Succeeds(i, label, content) ==
    /\ ~inst[i].cancelled
    /\ Goto(i, label)
    /\ files' = [files EXCEPT ![i] = content]
    /\ UNCHANGED <<dest, rem, gone>>

(* FetchRegistryImpl and the search for the id. *)
FetchRegistry(i) == inst[i].at = "fetch" /\ (Fails(i) \/ Succeeds(i, "temp", "nothing"))

DownloadFile(i) == inst[i].at = "temp" /\ (Fails(i) \/ Succeeds(i, "extract", "nothing"))

(* VerifySha256, ExtractArchive and the flattening do not look at the      *)
(* token.  A rename that fails while flattening goes unnoticed, and its    *)
(* file is deleted: the model is "short" of it.                            *)
ExtractArchive(i) ==
    /\ inst[i].at = "extract"
    /\ \/ Fails(i)
       \/ /\ Goto(i, "provision")
          /\ \E content \in {"unpacked", "short"} : files' = [files EXCEPT ![i] = content]
          /\ UNCHANGED <<dest, rem, gone>>

(* vinput-model.json, LoadEffectiveModelManifest, ProvisionBpeVocabulary. *)
ProvisionBpeVocabulary(i) ==
    /\ inst[i].at = "provision"
    /\ \/ Fails(i)
       \/ /\ Goto(i, "inspect")
          /\ files' = [files EXCEPT ![i] = IF @ = "unpacked" THEN "ready" ELSE @]
          /\ UNCHANGED <<dest, rem, gone>>

Inspect(i) ==
    /\ inst[i].at = "inspect"
    /\ \/ Fails(i)
       \/ /\ ~inst[i].cancelled
          /\ inst' = [inst EXCEPT ![i].at = "stage", ![i].had = dest # NoDir]
          /\ UNCHANGED <<dest, files, rem, gone>>

(* rename(dest_dir, backup_dir), unless nothing was installed. *)
Stage(i) ==
    /\ inst[i].at = "stage"
    /\ \/ ~inst[i].had /\ Goto(i, "parent") /\ UNCHANGED dest
       \/ /\ inst[i].had /\ dest # NoDir
          /\ inst' = [inst EXCEPT ![i].at = "parent", ![i].backup = dest]
          /\ dest' = NoDir
       \/ inst[i].had /\ Goto(i, "cleanup") /\ UNCHANGED dest
    /\ UNCHANGED <<files, rem, gone>>

CreateParent(i) ==
    /\ inst[i].at = "parent"
    /\ \E label \in {"activate", "rollback"} : Goto(i, label)
    /\ UNCHANGED <<dest, files, rem, gone>>

(* A directory is renamed onto no directory or onto an empty one. *)
MayRename == dest = NoDir \/ (dest # NoDir /\ files[dest] = "nothing")

Activate(i) ==
    /\ inst[i].at = "activate"
    /\ \/ Goto(i, "rollback") /\ UNCHANGED dest
       \/ /\ MayRename
          /\ dest' = i
          /\ inst' = [inst EXCEPT ![i].at = "cleanup", ![i].ok = TRUE]
    /\ UNCHANGED <<files, rem, gone>>

(* Faulty variant: the temporary directory goes even if the rollback fails. *)
AfterFailedRollbackCleans(i) == "cleanup"

(* Dismiss() keeps the temporary directory. *)
AfterFailedRollback(i) == "dismissed"

Rollback(i) ==
    /\ inst[i].at = "rollback"
    /\ \/ inst[i].backup = NoDir /\ Goto(i, "cleanup") /\ UNCHANGED dest
       \/ /\ inst[i].backup # NoDir /\ MayRename
          /\ dest' = inst[i].backup
          /\ inst' = [inst EXCEPT ![i].at = "cleanup", ![i].backup = NoDir]
       \/ inst[i].backup # NoDir /\ Goto(i, AfterFailedRollback(i)) /\ UNCHANGED dest
    /\ UNCHANGED <<files, rem, gone>>

(* ~ScopedTempDir: what is left of the download and the previous install. *)
Cleanup(i) ==
    /\ inst[i].at = "cleanup"
    /\ Goto(i, "returned")
    /\ gone' = gone \cup ({inst[i].backup} \ {NoDir})
    /\ files' = [d \in Dirs |-> IF d = inst[i].backup \/ (d = i /\ ~inst[i].ok) THEN "nothing"
                                ELSE files[d]]
    /\ UNCHANGED <<dest, rem>>

Running(i) == inst[i].at \notin {"returned", "dismissed", "dead"}

Cancel(i) ==
    /\ Running(i) /\ ~inst[i].cancelled
    /\ inst' = [inst EXCEPT ![i].cancelled = TRUE]
    /\ UNCHANGED <<dest, files, rem, gone>>

(* The process dies; its temporary directory stays as it is. *)
Dies(i) == Running(i) /\ Goto(i, "dead") /\ UNCHANGED <<dest, files, rem, gone>>

-----------------------------------------------------------------------------
(* ModelManager::Remove.                                                   *)

RemoveStart(r) ==
    /\ rem[r].at = "start"
    /\ rem' = [rem EXCEPT ![r] = IF dest = NoDir THEN [at |-> "done", dir |-> NoDir]
                                 ELSE [at |-> "tear", dir |-> dest]]
    /\ UNCHANGED <<dest, files, inst, gone>>

(* remove_all works through the open directory, wherever it was moved. *)
RemoveFiles(r) ==
    /\ \/ /\ rem[r].at = "tear" /\ files[rem[r].dir] # "nothing"
          /\ files' = [files EXCEPT ![rem[r].dir] = "torn"]
          /\ rem' = [rem EXCEPT ![r].at = "empty"]
       \/ /\ rem[r].at \in {"tear", "empty"}
          /\ files' = [files EXCEPT ![rem[r].dir] = "nothing"]
          /\ rem' = [rem EXCEPT ![r].at = "rmdir"]
    /\ UNCHANGED <<dest, inst, gone>>

(* rmdir of the path: nothing there, an empty directory, or an error. *)
RemoveDirectory(r) ==
    /\ rem[r].at = "rmdir"
    /\ rem' = [rem EXCEPT ![r].at = "done"]
    /\ dest' = IF MayRename THEN NoDir ELSE dest
    /\ UNCHANGED <<files, inst, gone>>

InstallStep(i) == \/ FetchRegistry(i) \/ DownloadFile(i) \/ ExtractArchive(i)
                  \/ ProvisionBpeVocabulary(i) \/ Inspect(i) \/ Stage(i) \/ CreateParent(i)
                  \/ Activate(i) \/ Rollback(i) \/ Cleanup(i)

ModelNext == \/ \E i \in Installers : InstallStep(i) \/ Cancel(i) \/ Dies(i)
             \/ \E r \in Removers : RemoveStart(r) \/ RemoveFiles(r) \/ RemoveDirectory(r)

ModelSpec == ModelInit /\ [][ModelNext]_modelVars

-----------------------------------------------------------------------------
BeingRemoved(d) == \E r \in Removers : rem[r].dir = d

(* Where the user still finds directory d: at the model's path, or as      *)
(* previous-install in a temporary directory that was kept.                *)
Kept(d) == d = dest \/ \E i \in Installers : inst[i].backup = d /\ inst[i].at # "returned"

(* No installation costs the user a working model: what stands at the      *)
(* model's path was unpacked and provisioned, a previous installation is   *)
(* deleted only by the installer that put a new one in its place, and as   *)
(* long as nobody calls Remove() a complete one is left somewhere; also    *)
(* when two processes install at once, a rename or its rollback fails, the *)
(* installation is cancelled or a process dies.  Not covered: files that   *)
(* the flattening drops.                                                   *)
NoModelLost ==
    /\ dest # NoDir => files[dest] \in {"ready", "short"} \/ BeingRemoved(dest)
    /\ \A d \in gone : BeingRemoved(d) \/ \E i \in Installers : inst[i].ok /\ inst[i].backup = d
    /\ gone # {} /\ (\A r \in Removers : rem[r].at = "start") =>
         \E d \in Dirs : Kept(d) /\ files[d] \in {"ready", "short"}
=============================================================================
