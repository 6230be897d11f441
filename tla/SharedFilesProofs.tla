------------------------- MODULE SharedFilesProofs --------------------------
(***************************************************************************)
(* What processes share on disk without a lock: why no interleaving of     *)
(* installers costs the user a working model, why a script called up to    *)
(* date is the one the registry publishes, and why the pid file keeps the  *)
(* daemon to one instance of an adapter or client through crashes and      *)
(* reused pids.                                                            *)
(***************************************************************************)
EXTENDS ModelInstall, ScriptInstall, ProcessManager, TLAPS, FiniteSetTheorems

(* The time, in seconds, a leaf that names no prover gives to each.        *)
USE SMTT(30), ZenonT(30)

(* The previous model is no installer's, and NoDir is no directory. *)
DirsApart == "old" \notin Installers /\ NoDir \notin Dirs

Labels == {"fetch", "temp", "extract", "provision", "inspect", "stage", "parent", "activate",
           "rollback", "cleanup", "returned", "dismissed", "dead"}
DirContents == {"nothing", "unpacked", "short", "ready", "torn"}

ModelType ==
    /\ dest \in Dirs \cup {NoDir}
    /\ files \in [Dirs -> DirContents]
    /\ inst \in [Installers -> [at : Labels, had : BOOLEAN, backup : Dirs \cup {NoDir},
                                cancelled : BOOLEAN, ok : BOOLEAN]]
    /\ rem \in [Removers -> [at : {"start", "tear", "empty", "rmdir", "done"},
                             dir : Dirs \cup {NoDir}]]
    /\ gone \subseteq Dirs

Complete(d) == files[d] \in {"ready", "short"}
Whole(d) == Complete(d) \/ BeingRemoved(d)

(* Until its rename succeeds nobody but the installer reaches the          *)
(* directory it unpacked, and from the provisioning on it is complete.     *)
OwnDirectory ==
    \A i \in Installers :
      /\ inst[i].ok => inst[i].at \in {"cleanup", "returned", "dead"}
      /\ ~inst[i].ok => /\ dest # i
                        /\ \A j \in Installers : inst[j].backup # i
                        /\ \A r \in Removers : rem[r].dir # i
      /\ inst[i].at = "provision" => files[i] \in {"unpacked", "short"}
      /\ inst[i].at \in {"inspect", "stage", "parent", "activate", "rollback"} => Complete(i)

(* A previous installation is in one place, is held by one installer and   *)
(* as complete as it was, and is deleted only once a new one stands.       *)
PreviousInstall ==
    \A i \in Installers : inst[i].backup # NoDir =>
      /\ inst[i].at \in {"parent", "activate", "rollback", "cleanup", "returned", "dismissed", "dead"}
      /\ inst[i].at \in {"cleanup", "returned"} => inst[i].ok
      /\ dest # inst[i].backup
      /\ \A j \in Installers : j # i => inst[j].backup # inst[i].backup
      /\ inst[i].at # "returned" => Whole(inst[i].backup)

Removal == \A r \in Removers : /\ rem[r].at = "start" => rem[r].dir = NoDir
                               /\ rem[r].at \in {"tear", "empty", "rmdir"} => rem[r].dir \in Dirs

Standing == dest # NoDir => Whole(dest)

GoneReplaced == \A d \in gone : \E i \in Installers : inst[i].ok /\ inst[i].backup = d

(* Once a model was installed there is one, at its path or set aside by an *)
(* installer that has not replaced it yet, unless Remove() was called.     *)
Held == (\E i \in Installers : inst[i].ok) /\ (\A r \in Removers : rem[r].at = "start")
          => dest # NoDir \/ \E i \in Installers : inst[i].backup # NoDir /\ ~inst[i].ok

ModelInv == /\ ModelType /\ OwnDirectory /\ PreviousInstall /\ Removal
            /\ Standing /\ GoneReplaced /\ Held

InstType == [Installers -> [at : Labels, had : BOOLEAN, backup : Dirs \cup {NoDir},
                            cancelled : BOOLEAN, ok : BOOLEAN]]

(* Installer i is at the label, with that backup and outcome; the others   *)
(* are where they were.                                                    *)
Becomes(i, label, backup, ok) ==
    /\ inst' \in InstType
    /\ \A j \in Installers :
         /\ inst'[j].at = IF j = i THEN label ELSE inst[j].at
         /\ inst'[j].backup = IF j = i THEN backup ELSE inst[j].backup
         /\ inst'[j].ok = IF j = i THEN ok ELSE inst[j].ok

(* What a label says of an installer, its directory holding the content. *)
Fits(i, label, content) ==
    /\ inst[i].ok => label \in {"cleanup", "dead"}
    /\ label = "provision" => content \in {"unpacked", "short"}
    /\ label \in {"inspect", "stage", "parent", "activate", "rollback"} => content \in {"ready", "short"}
    /\ inst[i].backup # NoDir =>
         \/ label \in {"parent", "activate", "rollback", "dismissed", "dead"}
         \/ label = "cleanup" /\ inst[i].ok
    /\ inst[i].at # "returned" /\ label # "returned"

(* Goto changes the label only. *)
LEMMA GotoBecomes ==
    ASSUME ModelType, NEW i \in Installers, NEW label \in Labels, Goto(i, label)
    PROVE  Becomes(i, label, inst[i].backup, inst[i].ok)
    BY DEF ModelType, Goto, Becomes, InstType

(* A step of installer i that moves no directory: at most it changes what  *)
(* its own holds, which nobody else can reach yet.                         *)
LEMMA WorksOnItsOwn ==
    ASSUME DirsApart, ModelInv, NEW i \in Installers, NEW label \in Labels, NEW content \in DirContents,
           Becomes(i, label, inst[i].backup, inst[i].ok), Fits(i, label, content),
           files' = [files EXCEPT ![i] = content], content = files[i] \/ ~inst[i].ok,
           UNCHANGED <<dest, rem, gone>>
    PROVE  ModelInv'
  <1> USE DEF Dirs
  <1>0. /\ ModelType /\ OwnDirectory /\ PreviousInstall /\ Removal
        /\ Standing /\ GoneReplaced /\ Held
    BY DEF ModelInv
  <1>1. ModelType'
    BY <1>0 DEF ModelType, Becomes, InstType
  <1>2. \A d \in Dirs : d # i \/ inst[i].ok => files'[d] = files[d]
    BY <1>0 DEF ModelType
  <1>3. \A d \in Dirs : (d # i \/ inst[i].ok) /\ Whole(d) => Whole(d)'
    BY <1>2 DEF Whole, Complete, BeingRemoved
  <1>4. OwnDirectory'
    <2> SUFFICES ASSUME NEW k \in Installers
                 PROVE  /\ inst'[k].ok => inst'[k].at \in {"cleanup", "returned", "dead"}
                        /\ ~inst'[k].ok => /\ dest' # k
                                           /\ \A j \in Installers : inst'[j].backup # k
                                           /\ \A r \in Removers : rem'[r].dir # k
                        /\ inst'[k].at = "provision" => files'[k] \in {"unpacked", "short"}
                        /\ inst'[k].at \in {"inspect", "stage", "parent", "activate", "rollback"}
                             => Complete(k)'
      BY DEF OwnDirectory
    <2>1. CASE k = i
      BY <1>0, <2>1 DEF OwnDirectory, Becomes, Fits, Complete, ModelType
    <2>2. CASE k # i
      BY <1>0, <1>2, <2>2 DEF OwnDirectory, Becomes, Complete
    <2> QED
      BY <2>1, <2>2
  <1>5. PreviousInstall'
    <2> SUFFICES ASSUME NEW k \in Installers, inst'[k].backup # NoDir
                 PROVE  /\ inst'[k].at \in {"parent", "activate", "rollback", "cleanup", "returned",
                                            "dismissed", "dead"}
                        /\ inst'[k].at \in {"cleanup", "returned"} => inst'[k].ok
                        /\ dest' # inst'[k].backup
                        /\ \A j \in Installers : j # k => inst'[j].backup # inst'[k].backup
                        /\ inst'[k].at # "returned" => Whole(inst[k].backup)'
      BY DEF PreviousInstall
    <2>1. inst'[k].backup = inst[k].backup /\ inst[k].backup \in Dirs
      BY <1>0 DEF Becomes, ModelType
    <2>2. inst[k].backup # i \/ inst[i].ok
      BY <1>0 DEF OwnDirectory
    <2>3. inst'[k].at # "returned" => Whole(inst[k].backup)'
      <3>1. inst'[k].at # "returned" => inst[k].at # "returned"
        BY DEF Becomes, Fits
      <3>2. inst[k].at # "returned" => Whole(inst[k].backup)
        BY <1>0, <2>1 DEF PreviousInstall
      <3> QED
        BY <1>3, <2>1, <2>2, <3>1, <3>2
    <2>4. /\ dest' # inst'[k].backup
          /\ \A j \in Installers : j # k => inst'[j].backup # inst'[k].backup
      BY <1>0, <2>1 DEF PreviousInstall, Becomes
    <2>5. /\ inst'[k].at \in {"parent", "activate", "rollback", "cleanup", "returned",
                              "dismissed", "dead"}
          /\ inst'[k].at \in {"cleanup", "returned"} => inst'[k].ok
      BY <1>0, <2>1 DEF PreviousInstall, Becomes, Fits
    <2> QED
      BY <2>3, <2>4, <2>5
  <1>6. Removal'
    BY <1>0 DEF Removal
  <1>7. Standing'
    <2>1. dest # NoDir => dest \in Dirs /\ (dest # i \/ inst[i].ok)
      BY <1>0 DEF ModelType, OwnDirectory
    <2> QED
      BY <1>0, <1>3, <2>1 DEF Standing
  <1>8. GoneReplaced'
    BY <1>0 DEF GoneReplaced, Becomes
  <1>9. Held'
    BY <1>0 DEF Held, Becomes
  <1> QED
    BY <1>1, <1>4, <1>5, <1>6, <1>7, <1>8, <1>9 DEF ModelInv

(* rename(dest_dir, backup_dir): the model is set aside. *)
LEMMA SetsAside ==
    ASSUME DirsApart, ModelInv, NEW i \in Installers,
           Becomes(i, "parent", dest, inst[i].ok),
           inst[i].at = "stage", dest # NoDir, dest' = NoDir,
           UNCHANGED <<files, rem, gone>>
    PROVE  ModelInv'
  <1> USE DEF Dirs
  <1>0. /\ ModelType /\ OwnDirectory /\ PreviousInstall /\ Removal
        /\ Standing /\ GoneReplaced /\ Held
    BY DEF ModelInv
  <1>1. ModelType'
    BY <1>0 DEF ModelType, Becomes, InstType
  <1>2. \A d \in Dirs : Whole(d) => Whole(d)'
    BY DEF Whole, Complete, BeingRemoved
  <1>3. OwnDirectory'
    BY <1>0 DEF OwnDirectory, PreviousInstall, Becomes, Complete, DirsApart
  <1>4. PreviousInstall'
    <2> SUFFICES ASSUME NEW k \in Installers, inst'[k].backup # NoDir
                 PROVE  /\ inst'[k].at \in {"parent", "activate", "rollback", "cleanup", "returned",
                                            "dismissed", "dead"}
                        /\ inst'[k].at \in {"cleanup", "returned"} => inst'[k].ok
                        /\ dest' # inst'[k].backup
                        /\ \A j \in Installers : j # k => inst'[j].backup # inst'[k].backup
                        /\ inst'[k].at # "returned" => Whole(inst[k].backup)'
      BY DEF PreviousInstall
    <2>1. CASE k = i
      BY <1>0, <1>2, <2>1 DEF PreviousInstall, OwnDirectory, Becomes, Standing, ModelType
    <2>2. CASE k # i
      BY <1>0, <1>2, <2>2 DEF PreviousInstall, OwnDirectory, Becomes, ModelType
    <2> QED
      BY <2>1, <2>2
  <1>5. Removal'
    BY <1>0 DEF Removal
  <1>6. Standing'
    BY <1>0, <1>2 DEF Standing, PreviousInstall, OwnDirectory, Whole, Complete, ModelType
  <1>7. GoneReplaced'
    BY <1>0 DEF GoneReplaced, Becomes, OwnDirectory
  <1>8. Held'
    <2>1. ~inst[i].ok
      BY <1>0 DEF OwnDirectory
    <2>2. inst'[i].backup # NoDir /\ ~inst'[i].ok
      BY <2>1 DEF Becomes
    <2> QED
      BY <2>2 DEF Held
  <1> QED
    BY <1>1, <1>3, <1>4, <1>5, <1>6, <1>7, <1>8 DEF ModelInv

(* The rename that activates what the installer unpacked. *)
LEMMA PutsInPlace ==
    ASSUME DirsApart, ModelInv, NEW i \in Installers,
           Becomes(i, "cleanup", inst[i].backup, TRUE),
           inst[i].at = "activate", MayRename, dest' = i,
           UNCHANGED <<files, rem, gone>>
    PROVE  ModelInv'
  <1> USE DEF Dirs
  <1>0. /\ ModelType /\ OwnDirectory /\ PreviousInstall /\ Removal
        /\ Standing /\ GoneReplaced /\ Held
    BY DEF ModelInv
  <1>1. ModelType'
    BY <1>0 DEF ModelType, Becomes, InstType
  <1>2. \A d \in Dirs : Whole(d) => Whole(d)'
    BY DEF Whole, Complete, BeingRemoved
  <1>3. /\ ~inst[i].ok /\ inst'[i].ok /\ inst'[i].at = "cleanup" /\ inst'[i].backup = inst[i].backup
        /\ \A j \in Installers : j # i => /\ inst'[j].ok = inst[j].ok /\ inst'[j].at = inst[j].at
                                         /\ inst'[j].backup = inst[j].backup
    BY <1>0, ZenonT(30) DEF OwnDirectory, Becomes
  <1>4. OwnDirectory'
    <2> SUFFICES ASSUME NEW k \in Installers
                 PROVE  /\ inst'[k].ok => inst'[k].at \in {"cleanup", "returned", "dead"}
                        /\ ~inst'[k].ok => /\ dest' # k
                                           /\ \A j \in Installers : inst'[j].backup # k
                                           /\ \A r \in Removers : rem'[r].dir # k
                        /\ inst'[k].at = "provision" => files'[k] \in {"unpacked", "short"}
                        /\ inst'[k].at \in {"inspect", "stage", "parent", "activate", "rollback"}
                             => Complete(k)'
      BY DEF OwnDirectory
    <2>1. CASE k = i
      BY <1>3, <2>1
    <2>2. CASE k # i
      BY <1>0, <1>3, <2>2 DEF OwnDirectory, Complete
    <2> QED
      BY <2>1, <2>2
  <1>5. PreviousInstall'
    <2> SUFFICES ASSUME NEW k \in Installers, inst'[k].backup # NoDir
                 PROVE  /\ inst'[k].at \in {"parent", "activate", "rollback", "cleanup", "returned",
                                            "dismissed", "dead"}
                        /\ inst'[k].at \in {"cleanup", "returned"} => inst'[k].ok
                        /\ dest' # inst'[k].backup
                        /\ \A j \in Installers : j # k => inst'[j].backup # inst'[k].backup
                        /\ inst'[k].at # "returned" => Whole(inst[k].backup)'
      BY DEF PreviousInstall
    <2>1. CASE k = i
      BY <1>0, <1>2, <1>3, <2>1 DEF PreviousInstall, OwnDirectory, ModelType
    <2>2. CASE k # i
      BY <1>0, <1>2, <1>3, <2>2 DEF PreviousInstall, OwnDirectory, ModelType
    <2> QED
      BY <2>1, <2>2
  <1>6. Removal'
    BY <1>0 DEF Removal
  <1>7. Standing'
    BY <1>0, <1>2 DEF Standing, PreviousInstall, OwnDirectory, Whole, Complete, ModelType
  <1>8. GoneReplaced'
    BY <1>0, <1>3 DEF GoneReplaced
  <1>9. Held'
    BY DEF Held, DirsApart
  <1> QED
    BY <1>1, <1>4, <1>5, <1>6, <1>7, <1>8, <1>9 DEF ModelInv

(* The rollback that puts the previous installation back. *)
LEMMA PutsBack ==
    ASSUME DirsApart, ModelInv, NEW i \in Installers,
           Becomes(i, "cleanup", NoDir, inst[i].ok),
           inst[i].at = "rollback", inst[i].backup # NoDir, dest' = inst[i].backup,
           UNCHANGED <<files, rem, gone>>
    PROVE  ModelInv'
  <1> USE DEF Dirs
  <1>0. /\ ModelType /\ OwnDirectory /\ PreviousInstall /\ Removal
        /\ Standing /\ GoneReplaced /\ Held
    BY DEF ModelInv
  <1>1. ModelType'
    BY <1>0 DEF ModelType, Becomes, InstType
  <1>2. \A d \in Dirs : Whole(d) => Whole(d)'
    BY DEF Whole, Complete, BeingRemoved
  <1>3. OwnDirectory'
    BY <1>0 DEF OwnDirectory, PreviousInstall, Becomes, Complete, DirsApart
  <1>4. PreviousInstall'
    <2> SUFFICES ASSUME NEW k \in Installers, inst'[k].backup # NoDir
                 PROVE  /\ inst'[k].at \in {"parent", "activate", "rollback", "cleanup", "returned",
                                            "dismissed", "dead"}
                        /\ inst'[k].at \in {"cleanup", "returned"} => inst'[k].ok
                        /\ dest' # inst'[k].backup
                        /\ \A j \in Installers : j # k => inst'[j].backup # inst'[k].backup
                        /\ inst'[k].at # "returned" => Whole(inst[k].backup)'
      BY DEF PreviousInstall
    <2>1. CASE k = i
      BY <1>0, <1>2, <2>1 DEF PreviousInstall, OwnDirectory, Becomes, Standing, ModelType
    <2>2. CASE k # i
      BY <1>0, <1>2, <2>2 DEF PreviousInstall, OwnDirectory, Becomes, ModelType
    <2> QED
      BY <2>1, <2>2
  <1>5. Removal'
    BY <1>0 DEF Removal
  <1>6. Standing'
    BY <1>0, <1>2 DEF Standing, PreviousInstall, OwnDirectory, Whole, Complete, ModelType
  <1>7. GoneReplaced'
    BY <1>0 DEF GoneReplaced, Becomes, OwnDirectory
  <1>8. Held'
    BY <1>0 DEF Held, Becomes, DirsApart
  <1> QED
    BY <1>1, <1>3, <1>4, <1>5, <1>6, <1>7, <1>8 DEF ModelInv

(* ~ScopedTempDir: what it deletes is nobody's model any more. *)
LEMMA CleansUp ==
    ASSUME DirsApart, ModelInv, NEW i \in Installers, Cleanup(i)
    PROVE  ModelInv'
  <1> USE DEF Dirs
  <1>0. /\ ModelType /\ OwnDirectory /\ PreviousInstall /\ Removal
        /\ Standing /\ GoneReplaced /\ Held
    BY DEF ModelInv
  <1>1. inst[i].at = "cleanup" /\ Becomes(i, "returned", inst[i].backup, inst[i].ok)
    BY <1>0, GotoBecomes DEF Cleanup, Labels
  <1>2. UNCHANGED <<dest, rem>>
    BY DEF Cleanup
  <1>3. /\ files' \in [Dirs -> DirContents]
        /\ \A d \in Dirs : d # inst[i].backup /\ (d # i \/ inst[i].ok) => files'[d] = files[d]
    BY <1>0 DEF Cleanup, ModelType, DirContents
  <1>4. gone' \subseteq Dirs /\ gone' = gone \cup ({inst[i].backup} \ {NoDir})
    BY <1>0 DEF Cleanup, ModelType
  <1>5. inst[i].backup # NoDir => inst[i].ok
    BY <1>0, <1>1 DEF PreviousInstall
  <1>6. ModelType'
    BY <1>0, <1>1, <1>2, <1>3, <1>4 DEF ModelType, Becomes, InstType
  <1>7. \A d \in Dirs : d # inst[i].backup /\ (d # i \/ inst[i].ok) /\ Whole(d) => Whole(d)'
    BY <1>2, <1>3 DEF Whole, Complete, BeingRemoved
  <1>8. OwnDirectory'
    <2> SUFFICES ASSUME NEW k \in Installers
                 PROVE  /\ inst'[k].ok => inst'[k].at \in {"cleanup", "returned", "dead"}
                        /\ ~inst'[k].ok => /\ dest' # k
                                           /\ \A j \in Installers : inst'[j].backup # k
                                           /\ \A r \in Removers : rem'[r].dir # k
                        /\ inst'[k].at = "provision" => files'[k] \in {"unpacked", "short"}
                        /\ inst'[k].at \in {"inspect", "stage", "parent", "activate", "rollback"}
                             => Complete(k)'
      BY DEF OwnDirectory
    <2>1. CASE k = i
      BY <1>0, <1>1, <1>2, <2>1 DEF OwnDirectory, Becomes
    <2>2. CASE k # i
      <3>1. ~inst[k].ok => inst[i].backup # k
        BY <1>0 DEF OwnDirectory
      <3> QED
        BY <1>0, <1>1, <1>2, <1>3, <2>2, <3>1 DEF OwnDirectory, Becomes, Complete
    <2> QED
      BY <2>1, <2>2
  <1>9. PreviousInstall'
    <2> SUFFICES ASSUME NEW k \in Installers, inst'[k].backup # NoDir
                 PROVE  /\ inst'[k].at \in {"parent", "activate", "rollback", "cleanup", "returned",
                                            "dismissed", "dead"}
                        /\ inst'[k].at \in {"cleanup", "returned"} => inst'[k].ok
                        /\ dest' # inst'[k].backup
                        /\ \A j \in Installers : j # k => inst'[j].backup # inst'[k].backup
                        /\ inst'[k].at # "returned" => Whole(inst[k].backup)'
      BY DEF PreviousInstall
    <2>1. CASE k = i
      BY <1>0, <1>1, <1>2, <1>5, <2>1 DEF PreviousInstall, Becomes
    <2>2. CASE k # i
      <3>1. /\ inst[k].backup \in Dirs /\ inst[k].backup # inst[i].backup
            /\ inst[k].backup # i \/ inst[i].ok
        BY <1>0, <1>1, <2>2 DEF PreviousInstall, OwnDirectory, Becomes, ModelType
      <3> QED
        BY <1>0, <1>1, <1>2, <1>7, <2>2, <3>1 DEF PreviousInstall, Becomes
    <2> QED
      BY <2>1, <2>2
  <1>10. Removal'
    BY <1>0, <1>2 DEF Removal
  <1>11. Standing'
    <2>1. dest # NoDir => dest \in Dirs /\ dest # inst[i].backup /\ (dest # i \/ inst[i].ok)
      BY <1>0 DEF ModelType, OwnDirectory, PreviousInstall
    <2> QED
      BY <1>0, <1>2, <1>7, <2>1 DEF Standing
  <1>12. GoneReplaced'
    <2> SUFFICES ASSUME NEW d \in gone'
                 PROVE  \E k \in Installers : inst'[k].ok /\ inst'[k].backup = d
      BY DEF GoneReplaced
    <2>1. CASE d \in gone
      BY <1>0, <1>1, <2>1 DEF GoneReplaced, Becomes
    <2>2. CASE d = inst[i].backup /\ inst[i].backup # NoDir
      BY <1>1, <1>5, <2>2 DEF Becomes
    <2> QED
      BY <1>4, <2>1, <2>2
  <1>13. Held'
    BY <1>0, <1>1, <1>2 DEF Held, Becomes
  <1> QED
    BY <1>6, <1>8, <1>9, <1>10, <1>11, <1>12, <1>13 DEF ModelInv

(* A remover: what it works on was at the model's path when it began. *)
LEMMA RemoverStep ==
    ASSUME DirsApart, ModelInv, NEW r \in Removers,
           RemoveStart(r) \/ RemoveFiles(r) \/ RemoveDirectory(r)
    PROVE  ModelInv'
  <1> USE DEF Dirs
  <1>0. /\ ModelType /\ OwnDirectory /\ PreviousInstall /\ Removal
        /\ Standing /\ GoneReplaced /\ Held
    BY DEF ModelInv
  <1>1. UNCHANGED <<inst, gone>>
    BY DEF RemoveStart, RemoveFiles, RemoveDirectory
  <1>2. dest' = dest \/ (dest' = NoDir /\ rem[r].at # "start")
    BY DEF RemoveStart, RemoveFiles, RemoveDirectory
  <1>3. /\ rem' \in [Removers -> [at : {"start", "tear", "empty", "rmdir", "done"},
                                  dir : Dirs \cup {NoDir}]]
        /\ \A q \in Removers : q # r => rem'[q] = rem[q]
        /\ rem'[r].at # "start"
        /\ rem'[r].dir = rem[r].dir \/ (rem[r].at = "start" /\ rem'[r].dir = dest)
        /\ rem'[r].at \in {"tear", "empty", "rmdir"} => rem'[r].dir \in Dirs
    BY <1>0 DEF ModelType, Removal, RemoveStart, RemoveFiles, RemoveDirectory
  <1>4. /\ files' \in [Dirs -> DirContents]
        /\ \A d \in Dirs : d # rem'[r].dir => files'[d] = files[d]
    BY <1>0 DEF ModelType, DirContents, RemoveStart, RemoveFiles, RemoveDirectory
  <1>5. \A d \in Dirs : BeingRemoved(d) => BeingRemoved(d)'
    BY <1>0, <1>3 DEF BeingRemoved, Removal, DirsApart
  <1>6. \A d \in Dirs : Whole(d) => Whole(d)'
    BY <1>3, <1>4, <1>5 DEF Whole, Complete, BeingRemoved
  <1>7. ModelType'
    BY <1>0, <1>1, <1>2, <1>3, <1>4 DEF ModelType
  <1>8. OwnDirectory'
    <2>1. \A i \in Installers : ~inst[i].ok => rem'[r].dir # i
      BY <1>0, <1>3 DEF OwnDirectory
    <2> QED
      BY <1>0, <1>1, <1>2, <1>3, <1>4, <2>1 DEF OwnDirectory, Complete, DirsApart
  <1>9. PreviousInstall'
    BY <1>0, <1>1, <1>2, <1>6 DEF PreviousInstall, ModelType
  <1>10. Removal'
    BY <1>0, <1>3 DEF Removal
  <1>11. Standing'
    BY <1>0, <1>2, <1>6 DEF Standing, ModelType
  <1>12. GoneReplaced'
    BY <1>0, <1>1 DEF GoneReplaced
  <1>13. Held'
    BY <1>3 DEF Held
  <1> QED
    BY <1>7, <1>8, <1>9, <1>10, <1>11, <1>12, <1>13 DEF ModelInv

(* Nothing was installed by this module's processes yet. *)
LEMMA ModelInvInit ==
    ASSUME DirsApart, ModelInit
    PROVE  ModelInv
    BY ZenonT(30) DEF DirsApart, ModelInit, ModelInv, ModelType, Dirs, Labels, DirContents, OwnDirectory,
           PreviousInstall, Removal, Standing, GoneReplaced, Held, Whole, Complete

(* A step that leaves the directories alone and one that works on its own. *)
LEMMA MovesOn ==
    ASSUME DirsApart, ModelInv, NEW i \in Installers, NEW label \in Labels, Goto(i, label),
           Fits(i, label, files[i]), UNCHANGED <<dest, files, rem, gone>>
    PROVE  ModelInv'
  <1>1. ModelType /\ i \in Dirs
    BY DEF ModelInv, Dirs
  <1>2. files' = [files EXCEPT ![i] = files[i]] /\ files[i] \in DirContents
    BY <1>1 DEF ModelType
  <1> QED
    BY <1>1, <1>2, GotoBecomes, WorksOnItsOwn, ZenonT(30)

(* A step that fills or provisions the directory it unpacks into. *)
LEMMA Fills ==
    ASSUME DirsApart, ModelInv, NEW i \in Installers, NEW label \in Labels, NEW content \in DirContents,
           Goto(i, label), Fits(i, label, content), ~inst[i].ok,
           files' = [files EXCEPT ![i] = content], UNCHANGED <<dest, rem, gone>>
    PROVE  ModelInv'
    BY GotoBecomes, WorksOnItsOwn, ZenonT(30) DEF ModelInv

(* An early return, before anything was moved. *)
LEMMA FailsEarly ==
    ASSUME DirsApart, ModelInv, NEW i \in Installers, Fails(i),
           inst[i].at \in {"fetch", "temp", "extract", "provision", "inspect", "stage"}
    PROVE  ModelInv'
  <1>1. inst[i].backup = NoDir /\ ~inst[i].ok
    BY DEF ModelInv, OwnDirectory, PreviousInstall
  <1>2. "cleanup" \in Labels /\ Fits(i, "cleanup", files[i])
    BY <1>1 DEF Fits, Labels
  <1> QED
    BY <1>2, MovesOn DEF Fails

(* InstallModel up to the first rename. *)
LEMMA Unpacks ==
    ASSUME DirsApart, ModelInv, NEW i \in Installers,
           FetchRegistry(i) \/ DownloadFile(i) \/ ExtractArchive(i) \/ ProvisionBpeVocabulary(i)
    PROVE  ModelInv'
  <1>0. /\ ModelType /\ OwnDirectory /\ PreviousInstall /\ i \in Dirs
        /\ inst[i].at \in {"fetch", "temp", "extract", "provision"}
    BY DEF ModelInv, Dirs, FetchRegistry, DownloadFile, ExtractArchive, ProvisionBpeVocabulary
  <1>1. inst[i].backup = NoDir /\ ~inst[i].ok
    BY <1>0 DEF OwnDirectory, PreviousInstall
  <1>2. CASE Fails(i)
    BY <1>0, <1>2, FailsEarly
  <1>3. ASSUME ~Fails(i)
        PROVE  \E label \in Labels, content \in DirContents :
                 /\ Goto(i, label) /\ Fits(i, label, content)
                 /\ files' = [files EXCEPT ![i] = content] /\ UNCHANGED <<dest, rem, gone>>
    <2>1. CASE FetchRegistry(i) \/ DownloadFile(i)
      <3>1. \E label \in {"temp", "extract"} : Succeeds(i, label, "nothing")
        BY <1>3, <2>1 DEF FetchRegistry, DownloadFile
      <3>2. \A label \in {"temp", "extract"} : label \in Labels /\ Fits(i, label, "nothing")
        BY <1>0, <1>1 DEF Fits, Labels
      <3> QED
        BY <3>1, <3>2 DEF Succeeds, DirContents
    <2>2. CASE ExtractArchive(i)
      <3>1. PICK content \in {"unpacked", "short"} : files' = [files EXCEPT ![i] = content]
        BY <1>3, <2>2 DEF ExtractArchive
      <3>2. Goto(i, "provision") /\ UNCHANGED <<dest, rem, gone>>
        BY <1>3, <2>2 DEF ExtractArchive
      <3>3. "provision" \in Labels /\ content \in DirContents /\ Fits(i, "provision", content)
        BY <1>0, <1>1, <3>1 DEF Fits, Labels, DirContents
      <3> QED
        BY <3>1, <3>2, <3>3, ZenonT(30)
    <2>3. CASE ProvisionBpeVocabulary(i)
      <3> DEFINE content == IF files[i] = "unpacked" THEN "ready" ELSE files[i]
      <3>1. Goto(i, "inspect") /\ UNCHANGED <<dest, rem, gone>>
        BY <1>3, <2>3 DEF ProvisionBpeVocabulary
      <3>2. files' = [files EXCEPT ![i] = content]
        BY <1>0, <1>3, <2>3 DEF ProvisionBpeVocabulary, ModelType
      <3>3. content \in {"ready", "short"}
        BY <1>0, <2>3 DEF ProvisionBpeVocabulary, OwnDirectory
      <3>4. "inspect" \in Labels /\ content \in DirContents /\ Fits(i, "inspect", content)
        BY <1>0, <1>1, <3>3 DEF Fits, Labels, DirContents
      <3> QED
        BY <3>1, <3>2, <3>4, ZenonT(30)
    <2> QED
      BY <2>1, <2>2, <2>3
  <1>4. CASE ~Fails(i)
    BY <1>1, <1>3, <1>4, Fills
  <1> QED
    BY <1>2, <1>4

(* Cancel() and the inspection of the model's path change neither label    *)
(* nor backup nor outcome in a way the invariant speaks of.                *)
LEMMA Looks ==
    ASSUME DirsApart, ModelInv, NEW i \in Installers, Inspect(i) \/ Cancel(i)
    PROVE  ModelInv'
  <1>0. /\ ModelType /\ OwnDirectory /\ PreviousInstall /\ i \in Dirs
    BY DEF ModelInv, Dirs
  <1>1. CASE Fails(i) /\ Inspect(i)
    BY <1>1, FailsEarly DEF Inspect
  <1>2. CASE Inspect(i) /\ ~Fails(i)
    <2>1. inst' = [inst EXCEPT ![i].at = "stage", ![i].had = dest # NoDir]
            /\ UNCHANGED <<dest, files, rem, gone>> /\ inst[i].at = "inspect"
      BY <1>2 DEF Inspect
    <2>2. PICK had \in BOOLEAN : inst' = [inst EXCEPT ![i].at = "stage", ![i].had = had]
      BY <2>1, ZenonT(30)
    <2>3. "stage" \in Labels /\ Becomes(i, "stage", inst[i].backup, inst[i].ok)
      BY <1>0, <2>2, ZenonT(30) DEF ModelType, Becomes, InstType, Labels
    <2>4. Fits(i, "stage", files[i])
      BY <1>0, <2>1 DEF Fits, OwnDirectory, PreviousInstall, Complete
    <2>5. files' = [files EXCEPT ![i] = files[i]] /\ files[i] \in DirContents
      BY <1>0, <2>1 DEF ModelType
    <2> QED
      BY <2>1, <2>3, <2>4, <2>5, WorksOnItsOwn, ZenonT(30)
  <1>3. CASE Cancel(i)
    <2>1. inst' = [inst EXCEPT ![i].cancelled = TRUE] /\ UNCHANGED <<dest, files, rem, gone>>
            /\ inst[i].at \notin {"returned", "dismissed", "dead"}
      BY <1>3 DEF Cancel, Running
    <2>2. inst[i].at \in Labels /\ Becomes(i, inst[i].at, inst[i].backup, inst[i].ok)
      BY <1>0, <2>1, ZenonT(30) DEF ModelType, Becomes, InstType
    <2>3. Fits(i, inst[i].at, files[i])
      BY <1>0, <2>1 DEF Fits, OwnDirectory, PreviousInstall, Complete
    <2>4. files' = [files EXCEPT ![i] = files[i]] /\ files[i] \in DirContents
      BY <1>0, <2>1 DEF ModelType
    <2> QED
      BY <2>1, <2>2, <2>3, <2>4, WorksOnItsOwn, ZenonT(30)
  <1> QED
    BY <1>1, <1>2, <1>3

(* The renames, each of which may fail. *)
LEMMA Renames ==
    ASSUME DirsApart, ModelInv, NEW i \in Installers, Stage(i) \/ Activate(i) \/ Rollback(i)
    PROVE  ModelInv'
  <1>0. /\ ModelType /\ OwnDirectory /\ PreviousInstall /\ i \in Dirs
        /\ inst[i].at \in {"stage", "activate", "rollback"} /\ UNCHANGED <<files, rem, gone>>
    BY DEF ModelInv, Dirs, Stage, Activate, Rollback
  <1>1. ~inst[i].ok /\ Complete(i)
    BY <1>0 DEF OwnDirectory
  <1>2. ASSUME NEW label \in {"parent", "rollback", "dismissed"}, Goto(i, label), dest' = dest
        PROVE  ModelInv'
    <2>1. label \in Labels /\ Fits(i, label, files[i])
      BY <1>0, <1>1 DEF Fits, Labels, Complete
    <2> QED
      BY <1>0, <1>2, <2>1, MovesOn
  <1>3. ASSUME Goto(i, "cleanup"), dest' = dest, inst[i].backup = NoDir
        PROVE  ModelInv'
    <2>1. "cleanup" \in Labels /\ Fits(i, "cleanup", files[i])
      BY <1>0, <1>1, <1>3 DEF Fits, Labels
    <2> QED
      BY <1>0, <1>3, <2>1, MovesOn
  <1>4. CASE Stage(i)
    <2>1. inst[i].at = "stage" /\ inst[i].backup = NoDir
      BY <1>0, <1>4 DEF Stage, PreviousInstall
    <2>2. CASE dest # NoDir /\ dest' = NoDir
               /\ inst' = [inst EXCEPT ![i].at = "parent", ![i].backup = dest]
      <3>1. Becomes(i, "parent", dest, inst[i].ok)
        BY <1>0, <2>2, ZenonT(30) DEF ModelType, Becomes, InstType, Labels
      <3> QED
        BY <1>0, <2>1, <2>2, <3>1, SetsAside
    <2> QED
      BY <1>2, <1>3, <1>4, <2>1, <2>2 DEF Stage
  <1>5. CASE Activate(i)
    <2>1. CASE MayRename /\ dest' = i /\ inst' = [inst EXCEPT ![i].at = "cleanup", ![i].ok = TRUE]
      <3>1. Becomes(i, "cleanup", inst[i].backup, TRUE)
        BY <1>0, <2>1, ZenonT(30) DEF ModelType, Becomes, InstType, Labels
      <3>2. inst[i].at = "activate"
        BY <1>5 DEF Activate
      <3> QED
        BY <1>0, <2>1, <3>1, <3>2, PutsInPlace, ZenonT(30)
    <2> QED
      BY <1>2, <1>5, <2>1 DEF Activate
  <1>6. CASE Rollback(i)
    <2>1. CASE inst[i].backup # NoDir /\ dest' = inst[i].backup
               /\ inst' = [inst EXCEPT ![i].at = "cleanup", ![i].backup = NoDir]
      <3>1. Becomes(i, "cleanup", NoDir, inst[i].ok)
        BY <1>0, <2>1 DEF ModelType, Becomes, InstType, Labels
      <3>2. inst[i].at = "rollback"
        BY <1>6 DEF Rollback
      <3> QED
        BY <1>0, <2>1, <3>1, <3>2, PutsBack
    <2> QED
      BY <1>2, <1>3, <1>6, <2>1 DEF Rollback, AfterFailedRollback
  <1> QED
    BY <1>4, <1>5, <1>6

(* The process dies, or the parent directory is made or not. *)
LEMMA MakesOrDies ==
    ASSUME DirsApart, ModelInv, NEW i \in Installers, CreateParent(i) \/ Dies(i)
    PROVE  ModelInv'
  <1>0. ModelType /\ OwnDirectory /\ UNCHANGED <<dest, files, rem, gone>>
    BY DEF ModelInv, CreateParent, Dies
  <1>1. PICK label \in {"activate", "rollback", "dead"} :
          Goto(i, label) /\ (label = "dead" \/ inst[i].at = "parent") /\ inst[i].at # "returned"
    BY DEF CreateParent, Dies, Running
  <1>2. label \in Labels /\ Fits(i, label, files[i])
    BY <1>0, <1>1 DEF Fits, Labels, OwnDirectory, Complete
  <1> QED
    BY <1>0, <1>1, <1>2, MovesOn

(* Every step of every process keeps the invariant. *)
LEMMA ModelStep ==
    ASSUME DirsApart, ModelInv, [ModelNext]_modelVars
    PROVE  ModelInv'
  <1>1. CASE UNCHANGED modelVars
    BY <1>1 DEF modelVars, ModelInv, ModelType, OwnDirectory, PreviousInstall, Removal, Standing,
                GoneReplaced, Held, Whole, Complete, BeingRemoved
  <1>2. CASE \E i \in Installers : InstallStep(i) \/ Cancel(i) \/ Dies(i)
    BY <1>2, Unpacks, Looks, Renames, MakesOrDies, CleansUp DEF InstallStep
  <1>3. CASE \E r \in Removers : RemoveStart(r) \/ RemoveFiles(r) \/ RemoveDirectory(r)
    BY <1>3, RemoverStep
  <1> QED
    BY <1>1, <1>2, <1>3 DEF ModelNext

(* The invariant says that no working model was lost. *)
LEMMA InvKeepsModels ==
    ASSUME DirsApart, ModelInv
    PROVE  NoModelLost
  <1>0. /\ ModelType /\ OwnDirectory /\ PreviousInstall /\ Removal
        /\ Standing /\ GoneReplaced /\ Held
    BY DEF ModelInv
  <1>1. dest # NoDir => files[dest] \in {"ready", "short"} \/ BeingRemoved(dest)
    BY <1>0 DEF Standing, Whole, Complete
  <1>2. ASSUME gone # {}, \A r \in Removers : rem[r].at = "start"
        PROVE  \E d \in Dirs : Kept(d) /\ files[d] \in {"ready", "short"}
    <2>1. \A d \in Dirs : ~BeingRemoved(d)
      BY <1>0, <1>2 DEF Removal, BeingRemoved, DirsApart
    <2>2. dest # NoDir \/ \E i \in Installers : inst[i].backup # NoDir /\ ~inst[i].ok
      BY <1>0, <1>2 DEF GoneReplaced, Held
    <2>3. CASE dest # NoDir
      BY <1>0, <2>1, <2>3 DEF ModelType, Standing, Whole, Complete, Kept
    <2>4. ASSUME NEW i \in Installers, inst[i].backup # NoDir, ~inst[i].ok
          PROVE  \E d \in Dirs : Kept(d) /\ files[d] \in {"ready", "short"}
      <3>1. inst[i].at # "returned" /\ inst[i].backup \in Dirs /\ Whole(inst[i].backup)
        BY <1>0, <2>4 DEF PreviousInstall, ModelType
      <3> QED
        BY <2>1, <3>1 DEF Kept, Whole, Complete
    <2> QED
      BY <2>2, <2>3, <2>4
  <1> QED
    BY <1>0, <1>1, <1>2 DEF NoModelLost, GoneReplaced

(* InstallModel and Remove(), for any number of installing and removing    *)
(* processes: whatever fails, is cancelled or dies between two renames, no *)
(* installation costs the user a working model.                            *)
THEOREM ModelsSurvive ==
    ASSUME DirsApart
    PROVE  ModelSpec => []NoModelLost
  <1>1. ModelInit => ModelInv
    BY ModelInvInit
  <1>2. ModelInv /\ [ModelNext]_modelVars => ModelInv'
    BY ModelStep
  <1>3. ModelInv => NoModelLost
    BY InvKeepsModels
  <1> QED
    BY <1>1, <1>2, <1>3, PTL DEF ModelSpec

-----------------------------------------------------------------------------
ManifestType == [Ids -> [version : Nat, sha : Nat]]

OpLabels == {"idle", "fetch", "cache", "check", "download", "manifest", "record", "materialize", "save",
             "unlink"}

OpType == [at : OpLabels, task : {"none", "install", "update", "remove"},
           id : Ids \cup {NoId}, entry : Nat, sha : Nat,
           config : SUBSET Ids, manifest : ManifestType]

ScriptTypes ==
    /\ remote \in Nat \ {0} /\ cached \in Nat /\ config \in SUBSET Ids
    /\ script \in [Ids -> Nat] /\ newest \in [Ids -> Nat]
    /\ record \in ManifestType
    /\ op \in [Operators -> OpType]

(* An operator at work has a script to work on, and unlinks it only to     *)
(* remove it.                                                              *)
OpHasId ==
    \A o \in Operators : /\ op[o].at # "idle" => op[o].id \in Ids
                         /\ op[o].at = "unlink" => op[o].task = "remove"

(* Nobody has heard of a version the registry has not published. *)
NothingUnpublished ==
    /\ cached <= remote
    /\ \A id \in Ids : newest[id] <= remote
    /\ \A o \in Operators : op[o].entry <= remote

(* No record, on disk or loaded, is ahead of what its script once was. *)
Behind(manifest) ==
    \A id \in Ids : manifest[id].version <= newest[id] /\ manifest[id].sha <= newest[id]

RecordsBehind == Behind(record) /\ \A o \in Operators : Behind(op[o].manifest)

(* What an operator is about to record was on disk. *)
ToRecord(p) == p.entry <= p.sha /\ p.sha <= newest[p.id]

RecordWasOnDisk ==
    \A o \in Operators : op[o].at \in {"manifest", "record"} /\ op[o].task # "remove" => ToRecord(op[o])

ScriptInv == ScriptTypes /\ OpHasId /\ NothingUnpublished /\ RecordsBehind /\ RecordWasOnDisk

LEMMA RestingType == Resting \in OpType /\ Resting.at = "idle" /\ Resting.entry = 0
                     /\ Resting.manifest = [id \in Ids |-> NoRecord]
  <1>1. NoRecord \in [version : Nat, sha : Nat]
    BY DEF NoRecord
  <1> DEFINE m == [id \in Ids |-> NoRecord]
  <1>2. m \in ManifestType
    BY <1>1 DEF ManifestType
  <1>3. Resting = [at |-> "idle", task |-> "none", id |-> NoId, entry |-> 0, sha |-> 0,
                   config |-> {}, manifest |-> m]
    BY DEF Resting
  <1> HIDE DEF m
  <1>4. Resting \in OpType
    BY <1>2, <1>3 DEF OpType, OpLabels
  <1>5. Resting.at = "idle" /\ Resting.entry = 0 /\ Resting.manifest = m
    BY <1>3
  <1> QED
    BY <1>4, <1>5 DEF m

(* The truth of "up to date" follows: what is comparable and called up to  *)
(* date has the published version or hash in its record, or in the file if *)
(* there is none.  Such a record was made of a script that had it, and no  *)
(* newer one exists.                                                       *)
LEMMA TruthfulFromInv == ScriptInv => UpToDateIsTruthful
  <1> SUFFICES ASSUME ScriptInv, NEW id \in Ids, NEW file \in FileSha(id), ~Downgraded(id),
                      Comparable(record, id, remote, file),
                      CheckResourceVersion(record, id, remote, file) = "UpToDate"
               PROVE  script[id] = remote
    BY DEF UpToDateIsTruthful
  <1> DEFINE installed == Installed(record, id, file)
             entry == RegistryEntry(id, remote)
  <1>1. /\ script[id] \in Nat /\ newest[id] \in Nat /\ remote \in Nat \ {0}
        /\ record[id] \in [version : Nat, sha : Nat]
        /\ newest[id] <= remote /\ record[id].version <= newest[id] /\ record[id].sha <= newest[id]
    BY DEF ScriptInv, ScriptTypes, ManifestType, NothingUnpublished, RecordsBehind, Behind
  <1>2. script[id] # 0 /\ script[id] = newest[id]
    BY DEF CheckResourceVersion, Downgraded
  <1>3. installed.version = remote \/ installed.sha = remote
    <2>1. /\ entry.version = IF <<id, remote>> \in Versioned THEN remote ELSE 0
          /\ entry.sha = IF <<id, remote>> \in Hashed THEN remote ELSE 0
      BY DEF RegistryEntry
    <2>2. /\ 0 \in {entry.version, installed.version} \/ entry.version = installed.version
          /\ 0 \in {entry.sha, installed.sha} \/ entry.sha = installed.sha
          /\ 0 \notin {entry.sha, installed.sha} \/ entry.version = 0 \/ installed.version # 0
      BY DEF CheckResourceVersion
    <2>3. <<id, remote>> \in Versioned \/ (<<id, remote>> \in Hashed /\ installed.sha # 0)
      BY DEF Comparable
    <2> HIDE DEF installed, entry
    <2> QED
      BY <1>1, <2>1, <2>2, <2>3
  <1>4. CASE record[id] # NoRecord
    BY <1>1, <1>2, <1>3, <1>4 DEF Installed
  <1>5. CASE record[id] = NoRecord
    BY <1>1, <1>2, <1>3, <1>5 DEF Installed, FileSha
  <1> QED
    BY <1>4, <1>5

(* A step of one operator that neither publishes nor installs a version.   *)
LEMMA OperatorMoves ==
    ASSUME ScriptInv, NEW o \in Operators, NEW p \in OpType, op' = [op EXCEPT ![o] = p],
           p.at # "idle" => p.id \in Ids, p.at = "unlink" => p.task = "remove", p.entry <= remote,
           Behind(p.manifest),
           p.at \in {"manifest", "record"} /\ p.task # "remove" => ToRecord(p),
           remote' = remote, newest' = newest,
           cached' \in Nat, cached' <= remote, config' \in SUBSET Ids,
           script' \in [Ids -> Nat], record' \in ManifestType, Behind(record')
    PROVE  ScriptInv'
  <1>1. ScriptTypes'
    BY DEF ScriptInv, ScriptTypes
  <1>2. OpHasId'
    BY DEF ScriptInv, ScriptTypes, OpHasId
  <1>3. NothingUnpublished'
    BY DEF ScriptInv, ScriptTypes, NothingUnpublished
  <1>4. RecordsBehind'
    BY DEF ScriptInv, ScriptTypes, RecordsBehind, Behind
  <1>5. RecordWasOnDisk'
    BY DEF ScriptInv, ScriptTypes, RecordWasOnDisk, ToRecord
  <1> QED
    BY <1>1, <1>2, <1>3, <1>4, <1>5 DEF ScriptInv

(* What is known of an operator. *)
LEMMA OperatorKnown ==
    ASSUME ScriptInv, NEW o \in Operators
    PROVE  /\ op[o] \in OpType /\ op[o].entry <= remote /\ Behind(op[o].manifest)
           /\ op[o].at # "idle" => op[o].id \in Ids
           /\ op[o].at = "unlink" => op[o].task = "remove"
           /\ op[o].at \in {"manifest", "record"} /\ op[o].task # "remove" => ToRecord(op[o])
           /\ op[o].entry \in Nat /\ op[o].sha \in Nat /\ op[o].manifest \in ManifestType
           /\ op[o].config \in SUBSET Ids
  BY DEF ScriptInv, ScriptTypes, OpHasId, NothingUnpublished, RecordsBehind, RecordWasOnDisk,
         OpType

LEMMA FilesKnown ==
    ASSUME ScriptInv
    PROVE  /\ cached \in Nat /\ cached <= remote /\ config \in SUBSET Ids /\ remote \in Nat
           /\ script \in [Ids -> Nat] /\ newest \in [Ids -> Nat]
           /\ record \in ManifestType /\ Behind(record)
           /\ op \in [Operators -> OpType]
  BY DEF ScriptInv, ScriptTypes, NothingUnpublished, RecordsBehind

(* An operation ends, whatever it has done so far. *)
LEMMA OperatorRests ==
    ASSUME ScriptInv, NEW o \in Operators, Return(o),
           remote' = remote, newest' = newest,
           cached' \in Nat, cached' <= remote, config' \in SUBSET Ids,
           script' \in [Ids -> Nat], record' \in ManifestType, Behind(record')
    PROVE  ScriptInv'
  <1>1. /\ Resting \in OpType /\ Resting.at = "idle" /\ Resting.entry <= remote
        /\ Behind(Resting.manifest)
    BY RestingType, FilesKnown DEF Behind, NoRecord
  <1> QED
    BY <1>1, OperatorMoves, ZenonT(30) DEF Return

(* An operator goes on to the next label of its operation. *)
LEMMA OperatorGoesOn ==
    ASSUME ScriptInv, NEW o \in Operators, NEW label \in OpLabels, OpTo(o, label), Busy(o),
           label = "unlink" => op[o].task = "remove",
           label \in {"manifest", "record"} /\ op[o].task # "remove" => ToRecord(op[o]),
           remote' = remote, newest' = newest,
           cached' \in Nat, cached' <= remote, config' \in SUBSET Ids,
           script' \in [Ids -> Nat], record' \in ManifestType, Behind(record')
    PROVE  ScriptInv'
  <1> DEFINE p == [op[o] EXCEPT !.at = label]
  <1>1. op' = [op EXCEPT ![o] = p]
    BY FilesKnown DEF OpTo
  <1>2. /\ p \in OpType /\ p.at = label /\ p.id = op[o].id /\ p.entry = op[o].entry
        /\ p.sha = op[o].sha /\ p.task = op[o].task /\ p.manifest = op[o].manifest
    BY OperatorKnown DEF OpType, OpLabels
  <1>3. /\ p.at # "idle" => p.id \in Ids
        /\ p.at = "unlink" => p.task = "remove"
        /\ p.entry <= remote /\ Behind(p.manifest)
    BY <1>2, OperatorKnown DEF Busy
  <1>4. p.at \in {"manifest", "record"} /\ p.task # "remove" => ToRecord(p)
    BY <1>2 DEF ToRecord
  <1> HIDE DEF p
  <1> QED
    BY <1>1, <1>2, <1>3, <1>4, OperatorMoves, ZenonT(30)

LEMMA PublishKeeps == ScriptInv /\ Publish => ScriptInv'
  <1> SUFFICES ASSUME ScriptInv, Publish PROVE ScriptInv'
    OBVIOUS
  <1>1. ScriptTypes'
    BY DEF ScriptInv, ScriptTypes, Publish
  <1>2. OpHasId' /\ RecordsBehind' /\ RecordWasOnDisk'
    BY DEF ScriptInv, OpHasId, RecordsBehind, Behind, RecordWasOnDisk, ToRecord, Publish
  <1>3. NothingUnpublished'
    BY DEF ScriptInv, ScriptTypes, NothingUnpublished, OpType, Publish
  <1> QED
    BY <1>1, <1>2, <1>3 DEF ScriptInv

LEMMA StartKeeps ==
    ASSUME ScriptInv, NEW o \in Operators, NEW task \in {"install", "update", "remove"},
           NEW id \in Ids,
           StartOp(o, task, id)
    PROVE  ScriptInv'
  <1> DEFINE label == IF task # "remove" THEN "fetch" ELSE IF o \in Cli THEN "unlink" ELSE "save"
             p == [Resting EXCEPT !.task = task, !.id = id, !.config = config, !.at = label]
  <1>1. op' = [op EXCEPT ![o] = p]
    BY DEF StartOp
  <1>2. /\ p \in OpType /\ p.id = id /\ p.entry = 0 /\ p.at = label /\ p.task = task
        /\ p.manifest = Resting.manifest
    BY RestingType, FilesKnown, ZenonT(30) DEF OpType, OpLabels
  <1>3. label \in {"fetch", "unlink", "save"} /\ (label = "unlink" => task = "remove")
    OBVIOUS
  <1> HIDE DEF p, label
  <1>4. p.entry <= remote /\ Behind(p.manifest)
    BY <1>2, RestingType, FilesKnown DEF Behind, NoRecord
  <1> QED
    BY <1>1, <1>2, <1>3, <1>4, FilesKnown, OperatorMoves, ZenonT(30) DEF StartOp, Behind

LEMMA FetchKeeps == ASSUME ScriptInv, NEW o \in Operators, FetchText(o) PROVE ScriptInv'
  <1>1. ASSUME NEW label \in {"cache", "check"}, NEW v \in Nat, v <= remote,
               op' = [op EXCEPT ![o].at = label, ![o].entry = v]
        PROVE  ScriptInv'
    <2> DEFINE p == [op[o] EXCEPT !.at = label, !.entry = v]
    <2>1. op' = [op EXCEPT ![o] = p]
      BY <1>1, FilesKnown, ZenonT(30)
    <2>2. /\ p \in OpType /\ p.at = label /\ p.id = op[o].id /\ p.entry = v
          /\ p.manifest = op[o].manifest
      BY <1>1, OperatorKnown, ZenonT(30) DEF OpType, OpLabels
    <2> HIDE DEF p
    <2>3. op[o].id \in Ids /\ Behind(p.manifest)
      BY <2>2, OperatorKnown DEF FetchText, OpAt
    <2> QED
      BY <1>1, <2>1, <2>2, <2>3, FilesKnown, OperatorMoves, ZenonT(30) DEF FetchText, Behind
  <1> QED
    BY <1>1, FilesKnown DEF FetchText

LEMMA DownloadKeeps == ASSUME ScriptInv, NEW o \in Operators, DownloadScript(o) PROVE ScriptInv'
  <1> DEFINE id == op[o].id
             v == Delivered(o)
             p == [op[o] EXCEPT !.at = "manifest", !.sha = v]
  <1>1. id \in Ids /\ v \in Nat /\ op[o].entry <= v /\ v <= remote
    BY OperatorKnown, FilesKnown DEF DownloadScript, OpAt, Delivered
  <1>2. op' = [op EXCEPT ![o] = p]
    BY FilesKnown, ZenonT(30) DEF DownloadScript
  <1>3. /\ p \in OpType /\ p.at = "manifest" /\ p.id = id /\ p.entry = op[o].entry /\ p.sha = v
        /\ p.manifest = op[o].manifest
    BY <1>1, OperatorKnown, ZenonT(30) DEF OpType, OpLabels
  <1>4. /\ newest' \in [Ids -> Nat] /\ newest'[id] >= v
        /\ \A i \in Ids : newest[i] <= newest'[i] /\ newest'[i] <= remote
    <2>1. \A i \in Ids : newest[i] \in Nat /\ newest[i] <= remote
      BY DEF ScriptInv, ScriptTypes, NothingUnpublished
    <2>2. newest' = [newest EXCEPT ![id] = IF newest[id] < v THEN v ELSE newest[id]]
      BY DEF DownloadScript
    <2> HIDE DEF id, v
    <2> QED
      BY <1>1, <2>1, <2>2, FilesKnown
  <1>5. script' \in [Ids -> Nat] /\ UNCHANGED <<remote, cached, record, config>>
    BY <1>1, FilesKnown DEF DownloadScript
  <1> HIDE DEF id, v, p
  <1>6. \A m \in ManifestType : Behind(m) =>
          \A i \in Ids : m[i].version <= newest'[i] /\ m[i].sha <= newest'[i]
    BY <1>4, FilesKnown DEF Behind, ManifestType
  <1>7. ScriptTypes'
    BY <1>2, <1>3, <1>4, <1>5, FilesKnown DEF ScriptInv, ScriptTypes
  <1>8. OpHasId'
    BY <1>1, <1>2, <1>3 DEF ScriptInv, ScriptTypes, OpHasId
  <1>9. NothingUnpublished'
    BY <1>1, <1>2, <1>3, <1>4, <1>5, OperatorKnown, FilesKnown DEF ScriptInv, NothingUnpublished
  <1>10. RecordsBehind'
    <2>1. (Behind(record))'
      BY <1>5, <1>6, FilesKnown DEF Behind
    <2>2. \A q \in Operators : op'[q].manifest = op[q].manifest
      BY <1>2, <1>3, FilesKnown
    <2>3. \A q \in Operators : (Behind(op[q].manifest))'
      BY <1>6, <2>2, OperatorKnown DEF Behind
    <2> QED
      BY <2>1, <2>3 DEF RecordsBehind
  <1>11. RecordWasOnDisk'
    <2> SUFFICES ASSUME NEW q \in Operators, op'[q].at \in {"manifest", "record"},
                        op'[q].task # "remove"
                 PROVE  (ToRecord(op[q]))'
      BY DEF RecordWasOnDisk
    <2>1. CASE q = o
      BY <1>1, <1>2, <1>3, <1>4, <2>1, FilesKnown DEF ToRecord
    <2>2. CASE q # o
      <3>1. op'[q] = op[q] /\ ToRecord(op[q]) /\ op[q].id \in Ids /\ op[q].sha \in Nat
        BY <1>2, <2>2, OperatorKnown, FilesKnown
      <3> QED
        BY <1>4, <3>1, FilesKnown DEF ToRecord
    <2> QED
      BY <2>1, <2>2
  <1> QED
    BY <1>7, <1>8, <1>9, <1>10, <1>11 DEF ScriptInv

LEMMA ManifestKeeps ==
    ASSUME ScriptInv, NEW o \in Operators, LoadManifest(o) \/ SaveManifest(o)
    PROVE  ScriptInv'
  <1>1. CASE LoadManifest(o)
    <2> DEFINE p == [op[o] EXCEPT !.at = "record", !.manifest = record]
    <2>1. op' = [op EXCEPT ![o] = p]
      BY <1>1, FilesKnown, ZenonT(30) DEF LoadManifest
    <2>2. /\ p \in OpType /\ p.at = "record" /\ p.id = op[o].id /\ p.entry = op[o].entry
          /\ p.sha = op[o].sha /\ p.task = op[o].task /\ p.manifest = record
      BY FilesKnown, OperatorKnown, ZenonT(30) DEF OpType, OpLabels
    <2> HIDE DEF p
    <2>3. p.id \in Ids /\ p.entry <= remote /\ Behind(p.manifest)
          /\ (p.task # "remove" => ToRecord(p))
      BY <1>1, <2>2, FilesKnown, OperatorKnown DEF LoadManifest, OpAt, ToRecord
    <2> QED
      BY <1>1, <2>1, <2>2, <2>3, FilesKnown, OperatorMoves, ZenonT(30) DEF LoadManifest, Behind
  <1>2. CASE SaveManifest(o)
    <2>1. record' \in ManifestType /\ Behind(record')
      <3> DEFINE id == op[o].id
                 m == op[o].manifest
                 v == RegistryEntry(id, op[o].entry).version
                 new == [version |-> v, sha |-> op[o].sha]
      <3>1. id \in Ids /\ m \in ManifestType /\ Behind(m)
        BY <1>2, OperatorKnown DEF SaveManifest, OpAt
      <3>2. CASE record' = record
        BY <3>2, FilesKnown
      <3>3. CASE op[o].task # "remove" /\ record' = [m EXCEPT ![id] = new]
        <4>1. v \in {0, op[o].entry}
          BY DEF RegistryEntry
        <4>2. /\ op[o].entry \in Nat /\ op[o].sha \in Nat /\ newest[id] \in Nat
              /\ op[o].entry <= op[o].sha /\ op[o].sha <= newest[id]
          BY <1>2, <3>1, <3>3, FilesKnown, OperatorKnown DEF SaveManifest, OpAt, ToRecord
        <4> HIDE DEF v
        <4>3. /\ new \in [version : Nat, sha : Nat] /\ new.version <= newest[id] /\ new.sha <= newest[id]
          BY <4>1, <4>2
        <4> HIDE DEF m, id, new
        <4> QED
          BY <3>1, <3>3, <4>3 DEF ManifestType, Behind
      <3>4. CASE record' = [m EXCEPT ![id] = NoRecord]
        <4>1. NoRecord \in [version : Nat, sha : Nat] /\ NoRecord.version = 0 /\ NoRecord.sha = 0
          BY DEF NoRecord
        <4>2. \A i \in Ids : newest[i] \in Nat
          BY FilesKnown
        <4> HIDE DEF m, id
        <4> QED
          BY <3>1, <3>4, <4>1, <4>2 DEF ManifestType, Behind
      <3> QED
        BY <1>2, <3>2, <3>3, <3>4 DEF SaveManifest, Changed
    <2>2. UNCHANGED <<remote, cached, script, config, newest>> /\ Busy(o)
      BY <1>2 DEF SaveManifest, OpAt, Busy
    <2>3. CASE Return(o)
      BY <2>1, <2>2, <2>3, FilesKnown, OperatorRests
    <2>4. ASSUME NEW label \in {"materialize", "save"}, OpTo(o, label) PROVE ScriptInv'
      BY <2>1, <2>2, <2>4, FilesKnown, OperatorGoesOn DEF OpLabels
    <2> QED
      BY <1>2, <2>3, <2>4 DEF SaveManifest
  <1> QED
    BY <1>1, <1>2

LEMMA ConfigKeeps ==
    ASSUME ScriptInv, NEW o \in Operators, Materialize(o) \/ SaveConfig(o)
    PROVE  ScriptInv'
  <1>1. CASE Materialize(o)
    <2> DEFINE c == IF o \in Gui THEN config ELSE op[o].config
               p == [op[o] EXCEPT !.at = "save", !.config = c]
    <2>1. op' = [op EXCEPT ![o] = p]
      BY <1>1, FilesKnown, ZenonT(30) DEF Materialize
    <2>2. c \in SUBSET Ids
      BY FilesKnown, OperatorKnown
    <2>3. /\ p \in OpType /\ p.at = "save" /\ p.id = op[o].id /\ p.entry = op[o].entry
          /\ p.manifest = op[o].manifest
      BY <2>2, OperatorKnown, ZenonT(30) DEF OpType, OpLabels
    <2> HIDE DEF p, c
    <2>4. p.id \in Ids /\ p.entry <= remote /\ Behind(p.manifest)
      BY <1>1, <2>3, OperatorKnown DEF Materialize, OpAt
    <2> QED
      BY <1>1, <2>1, <2>3, <2>4, FilesKnown, OperatorMoves, ZenonT(30) DEF Materialize, Behind
  <1>2. CASE SaveConfig(o)
    <2>1. UNCHANGED <<remote, cached, script, record, newest>> /\ Busy(o)
          /\ (Behind(record') <=> Behind(record))
      BY <1>2 DEF SaveConfig, OpAt, Busy
    <2>2. config' \in SUBSET Ids
      <3>1. op[o].id \in Ids /\ op[o].config \in SUBSET Ids
        BY <1>2, OperatorKnown DEF SaveConfig, OpAt
      <3> QED
        BY <1>2, <3>1 DEF SaveConfig
    <2>3. CASE Return(o)
      BY <2>1, <2>2, <2>3, FilesKnown, OperatorRests
    <2>4. CASE OpTo(o, "unlink") /\ op[o].task = "remove"
      BY <2>1, <2>2, <2>4, FilesKnown, OperatorGoesOn DEF OpLabels
    <2> QED
      BY <1>2, <2>3, <2>4 DEF SaveConfig
  <1> QED
    BY <1>1, <1>2

LEMMA OtherStepsKeep ==
    ASSUME ScriptInv, NEW o \in Operators,
           SaveCachedText(o) \/ Check(o) \/ RemoveScript(o) \/ Abandon(o)
    PROVE  ScriptInv'
  <1>1. CASE SaveCachedText(o)
    BY <1>1, FilesKnown, OperatorKnown, OperatorGoesOn
       DEF SaveCachedText, OpAt, Busy, OpLabels, Behind
  <1>2. CASE Check(o)
    <2>1. UNCHANGED <<remote, cached, script, record, config, newest>> /\ Busy(o)
      BY <1>2 DEF Check, OpAt, Busy
    <2>2. ASSUME NEW label \in {"download", "save"}, OpTo(o, label) PROVE ScriptInv'
      BY <2>1, <2>2, FilesKnown, OperatorGoesOn DEF OpLabels
    <2> QED
      BY <1>2, <2>2 DEF Check
  <1>3. CASE RemoveScript(o)
    <2>1. UNCHANGED <<remote, cached, record, config, newest>> /\ Busy(o) /\ OpTo(o, "manifest")
      BY <1>3 DEF RemoveScript, OpAt, Busy
    <2>2. script' \in [Ids -> Nat]
      BY <1>3, FilesKnown DEF RemoveScript
    <2>3. op[o].task = "remove"
      BY <1>3, OperatorKnown DEF RemoveScript, OpAt
    <2> QED
      BY <2>1, <2>2, <2>3, FilesKnown, OperatorGoesOn DEF OpLabels
  <1>4. CASE Abandon(o)
    BY <1>4, FilesKnown, OperatorRests DEF Abandon
  <1> QED
    BY <1>1, <1>2, <1>3, <1>4

(* A script that CheckResourceVersion calls up to date is the published    *)
(* one, whichever entries of whichever scripts have a version or a sha256, *)
(* unless a newer one was there before it or the entry leaves nothing to   *)
(* compare: Publish raises the published version, every other step is one  *)
(* operator's, and none of them lets a record get ahead of the newest      *)
(* script its file has been.                                               *)
THEOREM UpToDateTruthful == ScriptSpec => []UpToDateIsTruthful
  <1>1. ScriptInit => ScriptInv
    <2> SUFFICES ASSUME ScriptInit PROVE ScriptInv
      OBVIOUS
    <2>1. /\ remote = 1 /\ cached = 0 /\ config = {}
          /\ script = [id \in Ids |-> 0] /\ newest = [id \in Ids |-> 0]
          /\ record = [id \in Ids |-> NoRecord] /\ op = [o \in Operators |-> Resting]
      BY DEF ScriptInit
    <2>2. NoRecord \in [version : Nat, sha : Nat] /\ NoRecord.version = 0 /\ NoRecord.sha = 0
      BY DEF NoRecord
    <2>3. record \in ManifestType /\ Behind(record) /\ newest \in [Ids -> Nat]
      BY <2>1, <2>2 DEF ManifestType, Behind
    <2>4. \A o \in Operators : op[o] = Resting
      BY <2>1
    <2>5. ScriptTypes
      BY <2>1, <2>3, RestingType DEF ScriptTypes
    <2>6. OpHasId /\ RecordWasOnDisk
      BY <2>4, RestingType DEF OpHasId, RecordWasOnDisk
    <2>7. NothingUnpublished
      BY <2>1, <2>4, RestingType DEF NothingUnpublished
    <2>8. RecordsBehind
      BY <2>1, <2>3, <2>4, RestingType DEF RecordsBehind
    <2> QED
      BY <2>5, <2>6, <2>7, <2>8 DEF ScriptInv
  <1>2. ScriptInv /\ [ScriptNext]_scriptVars => ScriptInv'
    <2> SUFFICES ASSUME ScriptInv, [ScriptNext]_scriptVars PROVE ScriptInv'
      OBVIOUS
    <2>1. CASE UNCHANGED scriptVars
      BY <2>1 DEF ScriptInv, ScriptTypes, OpHasId, NothingUnpublished, RecordsBehind, Behind,
                  RecordWasOnDisk, ToRecord, scriptVars
    <2>2. ASSUME NEW o \in Operators, Step(o) PROVE ScriptInv'
      BY <2>2, FetchKeeps, DownloadKeeps, ManifestKeeps, ConfigKeeps, OtherStepsKeep
         DEF Step
    <2> QED
      BY <2>1, <2>2, PublishKeeps, StartKeeps DEF ScriptNext
  <1> QED
    BY <1>1, <1>2, TruthfulFromInv, PTL DEF ScriptSpec

-----------------------------------------------------------------------------
(* Pids are positive; 0 is nobody's. *)
PidsPositive == Pids \subseteq Nat \ {0}

Handlers == {"idle", "down", "spawn", "probe", "write", "destroy", "cancelled", "terminate", "kill",
             "wait", "last_wait", "exited", "not_found"}
Process == [pid : Nat, start : Nat]

ManagerTypes ==
    /\ proc \in [Pids -> [owner : {"nobody", "ours", "others"}, start : Nat, stuck : BOOLEAN]]
    /\ clock \in Nat /\ pidfd \in BOOLEAN
    /\ session \in Process /\ pid_file \in Process
    /\ daemon \in [at : Handlers, hand : Process, then : {"idle", "down"}]
    /\ past \in [given_up : SUBSET Process, misread : BOOLEAN, stranger : BOOLEAN]

(* A process known by its pid and start time, or none; start times are     *)
(* never given twice.                                                      *)
Known(p) == p = Nobody \/ (p.pid \in Pids /\ p.start \in 1..clock)

StartTimes ==
    /\ \A n \in Pids : proc[n].start <= clock /\ (proc[n].owner = "nobody" <=> proc[n].start = 0)
    /\ Known(session) /\ Known(pid_file) /\ Known(daemon.hand)

(* Which handlers have a session, a process in hand and somewhere to       *)
(* return to.                                                              *)
HandlerHolds ==
    /\ session # Nobody => daemon.at = "idle"
    /\ daemon.at \in {"idle", "down", "spawn"} => daemon.hand = Nobody
    /\ daemon.at \in {"probe", "write"} => daemon.hand # Nobody
    /\ daemon.at \notin {"destroy", "cancelled"} => daemon.then = "idle"
    /\ daemon.at \in {"terminate", "kill", "wait", "last_wait", "exited", "not_found"} =>
         daemon.hand = pid_file

(* Where the instance is while the handler is at a label: what it may      *)
(* forget there is no instance, and what it keeps is the only one.         *)
InstanceInPlace ==
    /\ session # Nobody => Instances \subseteq {session}
    /\ daemon.at \notin {"probe", "write", "destroy"} => Instances \subseteq {pid_file}
    /\ daemon.at \in {"probe", "write", "destroy", "cancelled"} => Instances \subseteq {daemon.hand}
    /\ daemon.at \in {"spawn", "exited", "not_found"} => Instances = {}

(* The pid of a record that still matches is that of our own process.      *)
IsOurs(p) == ProcessIdentityMatches(p) => proc[p.pid].owner = "ours"
RecordsAreOurs ==
    /\ daemon.at \in {"probe", "write"} => IsOurs(daemon.hand)
    /\ past.misread \/ IsOurs(pid_file)

ManagerInv == /\ ManagerTypes /\ StartTimes /\ HandlerHolds /\ InstanceInPlace /\ RecordsAreOurs
              /\ OnlyOursSignalled

(* An instance is a process of ours that runs. *)
LEMMA InstanceRuns ==
    ASSUME PidsPositive, ManagerTypes, StartTimes, NEW p \in Instances
    PROVE  /\ p \in Process /\ p # Nobody /\ p.pid \in Pids /\ p.start \in Nat \ {0}
           /\ proc[p.pid].start = p.start /\ proc[p.pid].owner = "ours"
  <1>1. PICK n \in Pids : proc[n].owner = "ours" /\ p = [pid |-> n, start |-> proc[n].start]
    BY DEF Instances, Ours
  <1>2. n \in Nat \ {0} /\ proc[n].start \in Nat \ {0}
    BY <1>1 DEF PidsPositive, ManagerTypes, StartTimes
  <1>3. p.pid = n /\ p.start = proc[n].start
    BY <1>1
  <1> QED
    BY <1>1, <1>2, <1>3 DEF Process, Nobody

(* So the only candidate is no instance once it does not match.            *)
LEMMA GoneIsNone ==
    ASSUME PidsPositive, ManagerTypes, StartTimes, NEW STATE x,
           Instances \subseteq {x}, ~ProcessIdentityMatches(x)
    PROVE  Instances = {}
  BY InstanceRuns DEF ProcessIdentityMatches

(* Handlers that leave the processes alone and give nobody up: the         *)
(* instances are those of before.                                          *)
LEMMA SameInstances ==
    ASSUME proc' = proc, past'.given_up = past.given_up
    PROVE  Instances' = Instances
  BY DEF Instances, Ours

LEMMA ForgetExitedKeeps ==
    ASSUME PidsPositive, ManagerInv, ForgetExited
    PROVE  ManagerInv'
  <1>s. /\ daemon.at = "idle" /\ session # Nobody /\ ~ProcessIdentityMatches(session)
        /\ session' = Nobody /\ pid_file' = Nobody /\ daemon' = [daemon EXCEPT !.at = "spawn"]
        /\ proc' = proc /\ clock' = clock /\ pidfd' = pidfd /\ past' = past
    BY DEF ForgetExited, At, Proceed
  <1>d. daemon'.at = "spawn" /\ daemon'.hand = daemon.hand /\ daemon'.then = daemon.then
    BY <1>s DEF ManagerInv, ManagerTypes
  <1>n. Nobody \in Process
    BY DEF Nobody, Process
  <1>i. Instances' = {}
    BY <1>s, GoneIsNone, SameInstances DEF ManagerInv, InstanceInPlace
  <1>1. ManagerTypes'
    BY <1>s, <1>n DEF ManagerInv, ManagerTypes, Handlers
  <1>2. StartTimes'
    BY <1>s, <1>d DEF ManagerInv, StartTimes, Known
  <1>3. HandlerHolds'
    BY <1>s, <1>d DEF ManagerInv, HandlerHolds
  <1>4. InstanceInPlace'
    BY <1>i, <1>s, <1>d DEF ManagerInv, HandlerHolds, InstanceInPlace
  <1>5. RecordsAreOurs'
    BY <1>s, <1>d DEF ManagerInv, RecordsAreOurs, IsOurs, ProcessIdentityMatches
  <1>6. OnlyOursSignalled'
    BY <1>s DEF ManagerInv, OnlyOursSignalled
  <1> QED
    BY <1>1, <1>2, <1>3, <1>4, <1>5, <1>6 DEF ManagerInv

LEMMA NotRunningKeeps ==
    ASSUME PidsPositive, ManagerInv, NotRunning
    PROVE  ManagerInv'
  <1>s. /\ daemon.at = "idle" /\ session = Nobody /\ ~ProcessIdentityMatches(pid_file)
        /\ session' = session /\ pid_file' = pid_file /\ daemon' = [daemon EXCEPT !.at = "spawn"]
        /\ proc' = proc /\ clock' = clock /\ pidfd' = pidfd /\ past' = past
    BY DEF NotRunning, At, Proceed, RecordIsRunning
  <1>d. daemon'.at = "spawn" /\ daemon'.hand = daemon.hand /\ daemon'.then = daemon.then
    BY <1>s DEF ManagerInv, ManagerTypes
  <1>n. Nobody \in Process
    BY DEF Nobody, Process
  <1>i. Instances' = {}
    BY <1>s, GoneIsNone, SameInstances DEF ManagerInv, InstanceInPlace
  <1>1. ManagerTypes'
    BY <1>s, <1>n DEF ManagerInv, ManagerTypes, Handlers
  <1>2. StartTimes'
    BY <1>s, <1>d DEF ManagerInv, StartTimes, Known
  <1>3. HandlerHolds'
    BY <1>s, <1>d DEF ManagerInv, HandlerHolds
  <1>4. InstanceInPlace'
    BY <1>i, <1>s, <1>d DEF ManagerInv, HandlerHolds, InstanceInPlace
  <1>5. RecordsAreOurs'
    BY <1>s, <1>d DEF ManagerInv, RecordsAreOurs, IsOurs, ProcessIdentityMatches
  <1>6. OnlyOursSignalled'
    BY <1>s DEF ManagerInv, OnlyOursSignalled
  <1> QED
    BY <1>1, <1>2, <1>3, <1>4, <1>5, <1>6 DEF ManagerInv

LEMMA SpawnFailsKeeps ==
    ASSUME PidsPositive, ManagerInv, SpawnFails
    PROVE  ManagerInv'
  <1>s. /\ daemon.at = "spawn"
        /\ session' = session /\ pid_file' = pid_file /\ daemon' = [daemon EXCEPT !.at = "idle"]
        /\ proc' = proc /\ clock' = clock /\ pidfd' = pidfd /\ past' = past
    BY DEF SpawnFails, At, Proceed
  <1>d. daemon'.at = "idle" /\ daemon'.hand = daemon.hand /\ daemon'.then = daemon.then
    BY <1>s DEF ManagerInv, ManagerTypes
  <1>i. Instances' = Instances
    BY <1>s, SameInstances
  <1>1. ManagerTypes'
    BY <1>s DEF ManagerInv, ManagerTypes, Handlers
  <1>2. StartTimes'
    BY <1>s, <1>d DEF ManagerInv, StartTimes, Known
  <1>3. HandlerHolds'
    BY <1>s, <1>d DEF ManagerInv, HandlerHolds
  <1>4. InstanceInPlace'
    BY <1>i, <1>s, <1>d DEF ManagerInv, HandlerHolds, InstanceInPlace
  <1>5. RecordsAreOurs'
    BY <1>s, <1>d DEF ManagerInv, RecordsAreOurs, IsOurs, ProcessIdentityMatches
  <1>6. OnlyOursSignalled'
    BY <1>s DEF ManagerInv, OnlyOursSignalled
  <1> QED
    BY <1>1, <1>2, <1>3, <1>4, <1>5, <1>6 DEF ManagerInv

LEMMA DaemonStartsKeeps ==
    ASSUME PidsPositive, ManagerInv, DaemonStarts
    PROVE  ManagerInv'
  <1>s. /\ daemon.at = "down"
        /\ session' = session /\ pid_file' = pid_file /\ daemon' = [daemon EXCEPT !.at = "idle"]
        /\ proc' = proc /\ clock' = clock /\ pidfd' = pidfd /\ past' = past
    BY DEF DaemonStarts, At, Proceed
  <1>d. daemon'.at = "idle" /\ daemon'.hand = daemon.hand /\ daemon'.then = daemon.then
    BY <1>s DEF ManagerInv, ManagerTypes
  <1>i. Instances' = Instances
    BY <1>s, SameInstances
  <1>1. ManagerTypes'
    BY <1>s DEF ManagerInv, ManagerTypes, Handlers
  <1>2. StartTimes'
    BY <1>s, <1>d DEF ManagerInv, StartTimes, Known
  <1>3. HandlerHolds'
    BY <1>s, <1>d DEF ManagerInv, HandlerHolds
  <1>4. InstanceInPlace'
    BY <1>i, <1>s, <1>d DEF ManagerInv, HandlerHolds, InstanceInPlace
  <1>5. RecordsAreOurs'
    BY <1>s, <1>d DEF ManagerInv, RecordsAreOurs, IsOurs, ProcessIdentityMatches
  <1>6. OnlyOursSignalled'
    BY <1>s DEF ManagerInv, OnlyOursSignalled
  <1> QED
    BY <1>1, <1>2, <1>3, <1>4, <1>5, <1>6 DEF ManagerInv

LEMMA ShutdownUntrackedKeeps ==
    ASSUME PidsPositive, ManagerInv, ShutdownUntracked
    PROVE  ManagerInv'
  <1>s. /\ daemon.at = "idle" /\ session = Nobody
        /\ session' = session /\ pid_file' = pid_file /\ daemon' = [daemon EXCEPT !.at = "down"]
        /\ proc' = proc /\ clock' = clock /\ pidfd' = pidfd /\ past' = past
    BY DEF ShutdownUntracked, At, Proceed
  <1>d. daemon'.at = "down" /\ daemon'.hand = daemon.hand /\ daemon'.then = daemon.then
    BY <1>s DEF ManagerInv, ManagerTypes
  <1>n. Nobody \in Process
    BY DEF Nobody, Process
  <1>i. Instances' = Instances
    BY <1>s, SameInstances
  <1>1. ManagerTypes'
    BY <1>s, <1>n DEF ManagerInv, ManagerTypes, Handlers
  <1>2. StartTimes'
    BY <1>s, <1>d DEF ManagerInv, StartTimes, Known
  <1>3. HandlerHolds'
    BY <1>s, <1>d DEF ManagerInv, HandlerHolds
  <1>4. InstanceInPlace'
    BY <1>i, <1>s, <1>d DEF ManagerInv, HandlerHolds, InstanceInPlace
  <1>5. RecordsAreOurs'
    BY <1>s, <1>d DEF ManagerInv, RecordsAreOurs, IsOurs, ProcessIdentityMatches
  <1>6. OnlyOursSignalled'
    BY <1>s DEF ManagerInv, OnlyOursSignalled
  <1> QED
    BY <1>1, <1>2, <1>3, <1>4, <1>5, <1>6 DEF ManagerInv

LEMMA ForgetCancelledKeeps ==
    ASSUME PidsPositive, ManagerInv, ForgetCancelled
    PROVE  ManagerInv'
  <1>s. /\ daemon.at = "cancelled"
        /\ session' = session /\ pid_file' = Nobody /\ daemon' = [daemon EXCEPT !.at = "destroy"]
        /\ proc' = proc /\ clock' = clock /\ pidfd' = pidfd /\ past' = past
    BY DEF ForgetCancelled, At, Proceed
  <1>d. daemon'.at = "destroy" /\ daemon'.hand = daemon.hand /\ daemon'.then = daemon.then
    BY <1>s DEF ManagerInv, ManagerTypes
  <1>n. Nobody \in Process
    BY DEF Nobody, Process
  <1>i. Instances' = Instances
    BY <1>s, SameInstances
  <1>1. ManagerTypes'
    BY <1>s, <1>n DEF ManagerInv, ManagerTypes, Handlers
  <1>2. StartTimes'
    BY <1>s, <1>d DEF ManagerInv, StartTimes, Known
  <1>3. HandlerHolds'
    BY <1>s, <1>d DEF ManagerInv, HandlerHolds
  <1>4. InstanceInPlace'
    BY <1>i, <1>s, <1>d DEF ManagerInv, HandlerHolds, InstanceInPlace
  <1>5. RecordsAreOurs'
    BY <1>s, <1>d DEF ManagerInv, RecordsAreOurs, IsOurs, ProcessIdentityMatches
  <1>6. OnlyOursSignalled'
    BY <1>s DEF ManagerInv, OnlyOursSignalled
  <1> QED
    BY <1>1, <1>2, <1>3, <1>4, <1>5, <1>6 DEF ManagerInv

LEMMA RemovePidFileKeeps ==
    ASSUME PidsPositive, ManagerInv, RemovePidFile
    PROVE  ManagerInv'
  <1>s. /\ daemon.at \in {"exited", "not_found"}
        /\ session' = session /\ pid_file' = Nobody
        /\ daemon' = [at |-> daemon.then, hand |-> Nobody, then |-> "idle"]
        /\ proc' = proc /\ clock' = clock /\ pidfd' = pidfd /\ past' = past
    BY DEF RemovePidFile, Returned
  <1>d. daemon'.at = daemon.then /\ daemon'.hand = Nobody /\ daemon'.then = "idle"
    BY <1>s DEF ManagerInv, ManagerTypes
  <1>n. Nobody \in Process
    BY DEF Nobody, Process
  <1>i. Instances' = Instances
    BY <1>s, SameInstances
  <1>1. ManagerTypes'
    BY <1>s, <1>n DEF ManagerInv, ManagerTypes, Handlers
  <1>2. StartTimes'
    BY <1>s, <1>d DEF ManagerInv, StartTimes, Known
  <1>3. HandlerHolds'
    BY <1>s, <1>d DEF ManagerInv, HandlerHolds
  <1>4. InstanceInPlace'
    BY <1>i, <1>s, <1>d DEF ManagerInv, HandlerHolds, InstanceInPlace
  <1>5. RecordsAreOurs'
    BY <1>s, <1>d DEF ManagerInv, RecordsAreOurs, IsOurs, ProcessIdentityMatches
  <1>6. OnlyOursSignalled'
    BY <1>s DEF ManagerInv, OnlyOursSignalled
  <1> QED
    BY <1>1, <1>2, <1>3, <1>4, <1>5, <1>6 DEF ManagerInv

LEMMA TakeSessionKeeps ==
    ASSUME PidsPositive, ManagerInv, NEW then \in {"idle", "down"}, TakeSession(then)
    PROVE  ManagerInv'
  <1>s. /\ daemon.at = "idle" /\ session # Nobody
        /\ session' = Nobody /\ pid_file' = pid_file
        /\ daemon' = [at |-> "cancelled", hand |-> session, then |-> then]
        /\ proc' = proc /\ clock' = clock /\ pidfd' = pidfd /\ past' = past
    BY DEF TakeSession, At
  <1>d. daemon'.at = "cancelled" /\ daemon'.hand = session /\ daemon'.then = then
    BY <1>s DEF ManagerInv, ManagerTypes
  <1>n. Nobody \in Process
    BY DEF Nobody, Process
  <1>i. Instances' = Instances
    BY <1>s, SameInstances
  <1>1. ManagerTypes'
    BY <1>s, <1>n DEF ManagerInv, ManagerTypes, Handlers
  <1>2. StartTimes'
    BY <1>s, <1>d DEF ManagerInv, StartTimes, Known
  <1>3. HandlerHolds'
    BY <1>s, <1>d DEF ManagerInv, HandlerHolds
  <1>4. InstanceInPlace'
    BY <1>i, <1>s, <1>d DEF ManagerInv, HandlerHolds, InstanceInPlace
  <1>5. RecordsAreOurs'
    BY <1>s, <1>d DEF ManagerInv, RecordsAreOurs, IsOurs, ProcessIdentityMatches
  <1>6. OnlyOursSignalled'
    BY <1>s DEF ManagerInv, OnlyOursSignalled
  <1> QED
    BY <1>1, <1>2, <1>3, <1>4, <1>5, <1>6 DEF ManagerInv

(* A daemon that dies with a child in hand gives it up. *)
LEMMA DaemonCrashesKeeps ==
    ASSUME PidsPositive, ManagerInv, DaemonCrashes
    PROVE  ManagerInv'
  <1>s. /\ session' = Nobody /\ pid_file' = pid_file
        /\ daemon' = [at |-> "down", hand |-> Nobody, then |-> "idle"]
        /\ past' = IF daemon.at \in {"probe", "write", "destroy"}
                     THEN [past EXCEPT !.given_up = @ \cup {daemon.hand}] ELSE past
        /\ proc' = proc /\ clock' = clock /\ pidfd' = pidfd
    BY DEF DaemonCrashes
  <1>d. daemon'.at = "down" /\ daemon'.hand = Nobody /\ daemon'.then = "idle"
    BY <1>s
  <1>p. /\ past' \in [given_up : SUBSET Process, misread : BOOLEAN, stranger : BOOLEAN]
        /\ past'.misread = past.misread /\ past'.stranger = past.stranger
        /\ past'.given_up = IF daemon.at \in {"probe", "write", "destroy"}
                              THEN past.given_up \cup {daemon.hand} ELSE past.given_up
    BY <1>s DEF ManagerInv, ManagerTypes
  <1>n. Nobody \in Process
    BY DEF Nobody, Process
  <1>i. Instances' \subseteq {pid_file}
    <2>1. CASE daemon.at \in {"probe", "write", "destroy"}
      <3>1. Instances' = Instances \ {daemon.hand}
        BY <2>1, <1>s, <1>p DEF Instances, Ours
      <3> QED
        BY <2>1, <3>1 DEF ManagerInv, InstanceInPlace
    <2>2. CASE daemon.at \notin {"probe", "write", "destroy"}
      BY <2>2, <1>s, <1>p, SameInstances DEF ManagerInv, InstanceInPlace
    <2> QED
      BY <2>1, <2>2
  <1>1. ManagerTypes'
    BY <1>s, <1>n, <1>p DEF ManagerInv, ManagerTypes, Handlers
  <1>2. StartTimes'
    BY <1>s, <1>d DEF ManagerInv, StartTimes, Known
  <1>3. HandlerHolds'
    BY <1>s, <1>d DEF HandlerHolds
  <1>4. InstanceInPlace'
    BY <1>i, <1>s, <1>d DEF InstanceInPlace
  <1>5. RecordsAreOurs'
    BY <1>s, <1>d, <1>p DEF ManagerInv, RecordsAreOurs, IsOurs, ProcessIdentityMatches
  <1>6. OnlyOursSignalled'
    BY <1>s, <1>p DEF ManagerInv, OnlyOursSignalled
  <1> QED
    BY <1>1, <1>2, <1>3, <1>4, <1>5, <1>6 DEF ManagerInv

LEMMA DestroySessionKeeps ==
    ASSUME PidsPositive, ManagerInv, DestroySession
    PROVE  ManagerInv'
  <1>s. /\ daemon.at = "destroy"
        /\ session' = session /\ pid_file' = pid_file
        /\ daemon' = [at |-> daemon.then, hand |-> Nobody, then |-> "idle"]
        /\ past' = [past EXCEPT !.given_up = @ \cup {daemon.hand}]
        /\ proc' = proc /\ clock' = clock /\ pidfd' = pidfd
    BY DEF DestroySession, At, Returned
  <1>d. /\ daemon'.at = daemon.then /\ daemon'.hand = Nobody /\ daemon'.then = "idle"
        /\ daemon.then \in {"idle", "down"}
    BY <1>s DEF ManagerInv, ManagerTypes
  <1>p. /\ past' \in [given_up : SUBSET Process, misread : BOOLEAN, stranger : BOOLEAN]
        /\ past'.misread = past.misread /\ past'.stranger = past.stranger
        /\ past'.given_up = past.given_up \cup {daemon.hand}
    BY <1>s DEF ManagerInv, ManagerTypes
  <1>n. Nobody \in Process
    BY DEF Nobody, Process
  <1>i. Instances' = {}
    <2>1. Instances' = Instances \ {daemon.hand}
      BY <1>s, <1>p DEF Instances, Ours
    <2> QED
      BY <2>1, <1>s DEF ManagerInv, InstanceInPlace
  <1>1. ManagerTypes'
    BY <1>s, <1>n, <1>p DEF ManagerInv, ManagerTypes, Handlers
  <1>2. StartTimes'
    BY <1>s, <1>d DEF ManagerInv, StartTimes, Known
  <1>3. HandlerHolds'
    BY <1>s, <1>d DEF ManagerInv, HandlerHolds
  <1>4. InstanceInPlace'
    BY <1>i DEF InstanceInPlace
  <1>5. RecordsAreOurs'
    BY <1>s, <1>d, <1>p DEF ManagerInv, RecordsAreOurs, IsOurs, ProcessIdentityMatches
  <1>6. OnlyOursSignalled'
    BY <1>s, <1>p DEF ManagerInv, OnlyOursSignalled
  <1> QED
    BY <1>1, <1>2, <1>3, <1>4, <1>5, <1>6 DEF ManagerInv

LEMMA ProbeKeeps ==
    ASSUME PidsPositive, ManagerInv, Probe
    PROVE  ManagerInv'
  <1>s. /\ daemon.at = "probe"
        /\ session' = session /\ pid_file' = pid_file
        /\ \/ /\ ~ProcessIdentityMatches(daemon.hand)
              /\ daemon' = [at |-> daemon.then, hand |-> Nobody, then |-> "idle"]
           \/ daemon' = [daemon EXCEPT !.at = "write"]
        /\ proc' = proc /\ clock' = clock /\ pidfd' = pidfd /\ past' = past
    BY DEF Probe, At, Proceed, Returned
  <1>d. \/ /\ ~ProcessIdentityMatches(daemon.hand)
           /\ daemon'.at \in {"idle", "down"} /\ daemon'.hand = Nobody /\ daemon'.then = "idle"
        \/ daemon'.at = "write" /\ daemon'.hand = daemon.hand /\ daemon'.then = daemon.then
    BY <1>s DEF ManagerInv, ManagerTypes
  <1>n. Nobody \in Process
    BY DEF Nobody, Process
  <1>i. /\ Instances' \subseteq {daemon.hand}
        /\ ~ProcessIdentityMatches(daemon.hand) => Instances' = {}
    BY <1>s, GoneIsNone, SameInstances DEF ManagerInv, InstanceInPlace
  <1>1. ManagerTypes'
    BY <1>s, <1>n DEF ManagerInv, ManagerTypes, Handlers
  <1>2. StartTimes'
    BY <1>s, <1>d DEF ManagerInv, StartTimes, Known
  <1>3. HandlerHolds'
    BY <1>s, <1>d DEF ManagerInv, HandlerHolds
  <1>4. InstanceInPlace'
    BY <1>i, <1>s, <1>d DEF ManagerInv, HandlerHolds, InstanceInPlace
  <1>5. RecordsAreOurs'
    BY <1>s, <1>d DEF ManagerInv, RecordsAreOurs, IsOurs, ProcessIdentityMatches
  <1>6. OnlyOursSignalled'
    BY <1>s DEF ManagerInv, OnlyOursSignalled
  <1> QED
    BY <1>1, <1>2, <1>3, <1>4, <1>5, <1>6 DEF ManagerInv

LEMMA StopRecordedKeeps ==
    ASSUME PidsPositive, ManagerInv, StopRecorded
    PROVE  ManagerInv'
  <1>s. /\ daemon.at = "idle" /\ session = Nobody
        /\ session' = session /\ pid_file' = pid_file
        /\ daemon' = [daemon EXCEPT !.hand = pid_file,
                                    !.at = IF ProcessIdentityMatches(pid_file) THEN "terminate" ELSE "not_found"]
        /\ proc' = proc /\ clock' = clock /\ pidfd' = pidfd /\ past' = past
    BY DEF StopRecorded, At, Matches
  <1>d. /\ daemon'.at = IF ProcessIdentityMatches(pid_file) THEN "terminate" ELSE "not_found"
        /\ daemon'.hand = pid_file /\ daemon'.then = daemon.then
    BY <1>s DEF ManagerInv, ManagerTypes
  <1>n. Nobody \in Process
    BY DEF Nobody, Process
  <1>i. /\ Instances' \subseteq {pid_file}
        /\ ~ProcessIdentityMatches(pid_file) => Instances' = {}
    BY <1>s, GoneIsNone, SameInstances DEF ManagerInv, InstanceInPlace
  <1>1. ManagerTypes'
    BY <1>s, <1>n, ZenonT(30) DEF ManagerInv, ManagerTypes, Handlers
  <1>2. StartTimes'
    BY <1>s, <1>d DEF ManagerInv, StartTimes, Known
  <1>3. HandlerHolds'
    BY <1>s, <1>d DEF ManagerInv, HandlerHolds
  <1>4. InstanceInPlace'
    BY <1>i, <1>s, <1>d DEF ManagerInv, HandlerHolds, InstanceInPlace
  <1>5. RecordsAreOurs'
    BY <1>s, <1>d DEF ManagerInv, RecordsAreOurs, IsOurs, ProcessIdentityMatches
  <1>6. OnlyOursSignalled'
    BY <1>s DEF ManagerInv, OnlyOursSignalled
  <1> QED
    BY <1>1, <1>2, <1>3, <1>4, <1>5, <1>6 DEF ManagerInv

LEMMA WaitForExitKeeps ==
    ASSUME PidsPositive, ManagerInv, WaitForExit
    PROVE  ManagerInv'
  <1>s. /\ daemon.at \in {"wait", "last_wait"}
        /\ session' = session /\ pid_file' = pid_file
        /\ \/ ~ProcessIdentityMatches(daemon.hand) /\ daemon' = [daemon EXCEPT !.at = "exited"]
           \/ daemon' = [daemon EXCEPT !.at = "kill"]
           \/ daemon' = [at |-> daemon.then, hand |-> Nobody, then |-> "idle"]
        /\ proc' = proc /\ clock' = clock /\ pidfd' = pidfd /\ past' = past
    BY DEF WaitForExit, At, Proceed, Returned
  <1>d. \/ /\ ~ProcessIdentityMatches(daemon.hand) /\ daemon'.at = "exited"
           /\ daemon'.hand = daemon.hand /\ daemon'.then = daemon.then
        \/ daemon'.at = "kill" /\ daemon'.hand = daemon.hand /\ daemon'.then = daemon.then
        \/ daemon'.at \in {"idle", "down"} /\ daemon'.hand = Nobody /\ daemon'.then = "idle"
    BY <1>s DEF ManagerInv, ManagerTypes
  <1>n. Nobody \in Process
    BY DEF Nobody, Process
  <1>i. /\ Instances' \subseteq {pid_file}
        /\ ~ProcessIdentityMatches(daemon.hand) => Instances' = {}
    BY <1>s, GoneIsNone, SameInstances DEF ManagerInv, HandlerHolds, InstanceInPlace
  <1>1. ManagerTypes'
    BY <1>s, <1>n DEF ManagerInv, ManagerTypes, Handlers
  <1>2. StartTimes'
    BY <1>s, <1>d DEF ManagerInv, StartTimes, Known
  <1>3. HandlerHolds'
    BY <1>s, <1>d DEF ManagerInv, HandlerHolds
  <1>4. InstanceInPlace'
    BY <1>i, <1>s, <1>d DEF ManagerInv, HandlerHolds, InstanceInPlace
  <1>5. RecordsAreOurs'
    BY <1>s, <1>d DEF ManagerInv, RecordsAreOurs, IsOurs, ProcessIdentityMatches
  <1>6. OnlyOursSignalled'
    BY <1>s DEF ManagerInv, OnlyOursSignalled
  <1> QED
    BY <1>1, <1>2, <1>3, <1>4, <1>5, <1>6 DEF ManagerInv

(* What is recorded is the child, unless its pid was reused already; then  *)
(* it is no instance any more.                                             *)
LEMMA WritePidFileKeeps ==
    ASSUME PidsPositive, ManagerInv, WritePidFile
    PROVE  ManagerInv'
  <1> DEFINE hand == daemon.hand
             written == [pid |-> hand.pid, start |-> proc[hand.pid].start]
  <1>s. daemon.at = "write" /\ proc' = proc /\ clock' = clock /\ pidfd' = pidfd
    BY DEF WritePidFile, At
  <1>h. hand \in Process /\ hand # Nobody /\ hand.pid \in Pids /\ hand.start \in 1..clock
    BY <1>s DEF ManagerInv, ManagerTypes, StartTimes, HandlerHolds, Known
  <1>o. session = Nobody /\ daemon.then = "idle" /\ IsOurs(hand) /\ Instances \subseteq {hand}
    BY <1>s DEF ManagerInv, HandlerHolds, RecordsAreOurs, InstanceInPlace
  <1>a. CASE /\ proc[hand.pid].owner # "nobody"
             /\ pid_file' = written /\ session' = hand
             /\ past' = [past EXCEPT !.misread = @ \/ pid_file' # hand]
             /\ daemon' = Returned
    <2>d. daemon'.at = "idle" /\ daemon'.hand = Nobody /\ daemon'.then = "idle"
      BY <1>a, <1>o DEF Returned
    <2>p. /\ past' \in [given_up : SUBSET Process, misread : BOOLEAN, stranger : BOOLEAN]
          /\ past'.misread = (past.misread \/ pid_file' # hand)
          /\ past'.stranger = past.stranger /\ past'.given_up = past.given_up
      BY <1>a, ZenonT(30) DEF ManagerInv, ManagerTypes
    <2>n. Nobody \in Process
      BY DEF Nobody, Process
    <2>r. /\ proc[hand.pid].start \in 1..clock
          /\ written \in Process /\ written.pid = hand.pid /\ written.start = proc[hand.pid].start
      <3>1. hand.pid \in Nat /\ proc[hand.pid].start \in Nat /\ clock \in Nat
        BY <1>h, ZenonT(30) DEF PidsPositive, ManagerInv, ManagerTypes
      <3>2. proc[hand.pid].start # 0 /\ proc[hand.pid].start <= clock
        BY <1>h, <1>a DEF ManagerInv, StartTimes
      <3> QED
        BY <3>1, <3>2 DEF Process
    <2>m. ProcessIdentityMatches(hand) => written = hand
      BY <1>h DEF ProcessIdentityMatches, Process
    <2> HIDE DEF hand, written
    <2>i. Instances' \subseteq {hand} /\ Instances' \subseteq {written}
      <3>1. Instances' = Instances
        BY <1>s, <2>p, SameInstances
      <3>2. ~ProcessIdentityMatches(hand) => Instances = {}
        BY <1>o, GoneIsNone DEF ManagerInv, hand
      <3> QED
        BY <1>o, <2>m, <3>1, <3>2
    <2>1. ManagerTypes'
      BY <1>a, <1>s, <1>h, <1>o, <2>n, <2>p, <2>r DEF ManagerInv, ManagerTypes, Handlers, Returned
    <2>2. StartTimes'
      BY <1>a, <1>s, <1>h, <2>d, <2>r DEF ManagerInv, StartTimes, Known
    <2>3. HandlerHolds'
      BY <2>d DEF HandlerHolds
    <2>4. InstanceInPlace'
      BY <1>a, <2>d, <2>i DEF InstanceInPlace
    <2>5. RecordsAreOurs'
      BY <1>a, <1>s, <1>o, <2>d, <2>p DEF RecordsAreOurs, IsOurs, ProcessIdentityMatches
    <2>6. OnlyOursSignalled'
      BY <1>s, <2>p DEF ManagerInv, OnlyOursSignalled
    <2> QED
      BY <2>1, <2>2, <2>3, <2>4, <2>5, <2>6 DEF ManagerInv
  <1>b. CASE /\ daemon' = [daemon EXCEPT !.at = "destroy"]
             /\ pid_file' = pid_file /\ session' = session /\ past' = past
    <2>d. daemon'.at = "destroy" /\ daemon'.hand = daemon.hand /\ daemon'.then = daemon.then
      BY <1>b DEF ManagerInv, ManagerTypes
    <2>i. Instances' = Instances
      BY <1>s, <1>b, SameInstances
    <2>1. ManagerTypes'
      BY <1>b, <1>s DEF ManagerInv, ManagerTypes, Handlers
    <2>2. StartTimes'
      BY <1>b, <1>s, <2>d DEF ManagerInv, StartTimes, Known
    <2>3. HandlerHolds'
      BY <1>b, <1>o, <2>d DEF HandlerHolds
    <2>4. InstanceInPlace'
      BY <1>b, <1>o, <2>d, <2>i DEF InstanceInPlace
    <2>5. RecordsAreOurs'
      BY <1>b, <1>s, <2>d DEF ManagerInv, RecordsAreOurs, IsOurs, ProcessIdentityMatches
    <2>6. OnlyOursSignalled'
      BY <1>b, <1>s DEF ManagerInv, OnlyOursSignalled
    <2> QED
      BY <2>1, <2>2, <2>3, <2>4, <2>5, <2>6 DEF ManagerInv
  <1> QED
    BY <1>a, <1>b DEF WritePidFile, Proceed

(* With a pidfd a signal reaches the recorded process or nobody. *)
LEMMA SignalKeeps ==
    ASSUME PidsPositive, ManagerInv, Signal
    PROVE  ManagerInv'
  <1>s. /\ daemon.at \in {"terminate", "kill"}
        /\ proc' = proc /\ clock' = clock /\ pidfd' = pidfd /\ pid_file' = pid_file /\ session' = session
    BY DEF Signal
  <1>o. /\ daemon.hand = pid_file /\ session = Nobody /\ daemon.then = "idle"
        /\ Instances \subseteq {pid_file}
    BY <1>s DEF ManagerInv, HandlerHolds, InstanceInPlace
  <1>n. Nobody \in Process
    BY DEF Nobody, Process
  <1>d. /\ daemon' \in [at : Handlers, hand : Process, then : {"idle", "down"}]
        /\ daemon'.then = "idle"
        /\ \/ daemon'.at \in {"wait", "last_wait"} /\ daemon'.hand = daemon.hand
           \/ daemon'.at = "idle" /\ daemon'.hand = Nobody
           \/ /\ ~ProcessIdentityMatches(pid_file)
              /\ daemon'.at \in {"exited", "not_found"} /\ daemon'.hand = daemon.hand
    <2>1. CASE daemon' = Returned
      BY <2>1, <1>o, <1>n DEF Returned, Handlers
    <2>2. ASSUME NEW l \in {"wait", "last_wait"}, daemon' = [daemon EXCEPT !.at = l]
          PROVE  /\ daemon' \in [at : Handlers, hand : Process, then : {"idle", "down"}]
                 /\ daemon'.then = "idle" /\ daemon'.at = l /\ daemon'.hand = daemon.hand
      BY <2>2, <1>o DEF ManagerInv, ManagerTypes, Handlers
    <2>3. ASSUME NEW l \in {"exited", "not_found"}, daemon' = [daemon EXCEPT !.at = l]
          PROVE  /\ daemon' \in [at : Handlers, hand : Process, then : {"idle", "down"}]
                 /\ daemon'.then = "idle" /\ daemon'.at = l /\ daemon'.hand = daemon.hand
      BY <2>3, <1>o DEF ManagerInv, ManagerTypes, Handlers
    <2>4. \/ daemon' = Returned
          \/ \E l \in {"wait", "last_wait"} : daemon' = [daemon EXCEPT !.at = l]
          \/ /\ ~ProcessIdentityMatches(pid_file)
             /\ \E l \in {"exited", "not_found"} : daemon' = [daemon EXCEPT !.at = l]
      BY <1>o DEF Signal, At, Proceed, Matches
    <2>5. daemon' = Returned => daemon'.at = "idle" /\ daemon'.hand = Nobody /\ daemon'.then = "idle"
      BY <1>o DEF Returned
    <2> QED
      BY <2>1, <2>2, <2>3, <2>4, <2>5
  <1>p. /\ past' \in [given_up : SUBSET Process, misread : BOOLEAN, stranger : BOOLEAN]
        /\ past'.misread = past.misread /\ past'.given_up = past.given_up
        /\ past'.stranger => past.stranger \/ Reached.owner = "others"
    BY ZenonT(30) DEF Signal, ManagerInv, ManagerTypes
  <1>i. /\ Instances' \subseteq {pid_file}
        /\ ~ProcessIdentityMatches(pid_file) => Instances' = {}
    BY <1>s, <1>p, <1>o, GoneIsNone, SameInstances DEF ManagerInv
  <1>1. ManagerTypes'
    BY <1>s, <1>d, <1>p DEF ManagerInv, ManagerTypes
  <1>2. StartTimes'
    BY <1>s, <1>d, <1>o DEF ManagerInv, StartTimes, Known
  <1>3. HandlerHolds'
    BY <1>s, <1>d, <1>o DEF HandlerHolds
  <1>4. InstanceInPlace'
    BY <1>s, <1>d, <1>o, <1>i DEF InstanceInPlace
  <1>5. RecordsAreOurs'
    BY <1>s, <1>d, <1>p DEF ManagerInv, RecordsAreOurs, IsOurs, ProcessIdentityMatches
  <1>6. OnlyOursSignalled'
    <2>1. Reached.owner = "others" => ~pidfd \/ past.misread
      BY <1>o DEF Reached, Matches, Gone, ManagerInv, RecordsAreOurs, IsOurs
    <2> QED
      BY <2>1, <1>s, <1>p DEF ManagerInv, OnlyOursSignalled
  <1> QED
    BY <1>1, <1>2, <1>3, <1>4, <1>5, <1>6 DEF ManagerInv

(* A pid that ends or is given to a new process no longer matches what was *)
(* known of it, and the others are as before.                              *)
LEMMA OldRecords ==
    ASSUME PidsPositive, ManagerTypes, StartTimes, NEW n \in Pids,
           NEW q \in [owner : {"nobody", "ours", "others"}, start : Nat, stuck : BOOLEAN],
           proc' = [proc EXCEPT ![n] = q], q.start = 0 \/ q.start > clock,
           NEW p \in Process, Known(p)
    PROVE  /\ p # Nobody /\ proc'[p.pid].start = p.start =>
                p.pid # n /\ ProcessIdentityMatches(p) /\ proc'[p.pid].owner = proc[p.pid].owner
  <1> SUFFICES ASSUME p # Nobody, proc'[p.pid].start = p.start
               PROVE  p.pid # n /\ ProcessIdentityMatches(p) /\ proc'[p.pid].owner = proc[p.pid].owner
    OBVIOUS
  <1>1. p.pid \in Pids /\ p.start \in 1..clock /\ clock \in Nat
    BY DEF Known, ManagerTypes
  <1>2. p.start # q.start
    BY <1>1
  <1>3. p.pid # n
    BY <1>1, <1>2 DEF ManagerTypes
  <1> QED
    BY <1>1, <1>3 DEF ManagerTypes, ProcessIdentityMatches

(* What the step leaves of the records: those that match now did before.   *)
LEMMA RecordsStay ==
    ASSUME PidsPositive, ManagerInv, NEW n \in Pids,
           NEW q \in [owner : {"nobody", "ours", "others"}, start : Nat, stuck : BOOLEAN],
           proc' = [proc EXCEPT ![n] = q], q.start = 0 \/ q.start > clock,
           pid_file' = pid_file
    PROVE  /\ IsOurs(pid_file) => IsOurs(pid_file)'
           /\ IsOurs(daemon.hand) /\ daemon'.hand = daemon.hand => IsOurs(daemon.hand)'
  <1>1. pid_file \in Process /\ Known(pid_file) /\ daemon.hand \in Process /\ Known(daemon.hand)
    BY DEF ManagerInv, ManagerTypes, StartTimes
  <1>2. /\ pid_file # Nobody /\ proc'[pid_file.pid].start = pid_file.start =>
             ProcessIdentityMatches(pid_file) /\ proc'[pid_file.pid].owner = proc[pid_file.pid].owner
    BY <1>1, OldRecords, ZenonT(30) DEF ManagerInv
  <1>3. /\ daemon.hand # Nobody /\ proc'[daemon.hand.pid].start = daemon.hand.start =>
             /\ ProcessIdentityMatches(daemon.hand)
             /\ proc'[daemon.hand.pid].owner = proc[daemon.hand.pid].owner
    BY <1>1, OldRecords, ZenonT(30) DEF ManagerInv
  <1> QED
    BY <1>2, <1>3 DEF IsOurs, ProcessIdentityMatches

(* A change of one pid that starts no process of ours while the handler    *)
(* stays where it is.                                                      *)
LEMMA OtherProcessKeeps ==
    ASSUME PidsPositive, ManagerInv, NEW n \in Pids,
           NEW q \in [owner : {"nobody", "others"}, start : Nat, stuck : BOOLEAN],
           proc' = [proc EXCEPT ![n] = q],
           \/ q.owner = "nobody" /\ q.start = 0 /\ clock' = clock
           \/ q.owner = "others" /\ q.start = clock + 1 /\ clock' = clock + 1,
           pidfd' = pidfd, pid_file' = pid_file, session' = session, daemon' = daemon, past' = past
    PROVE  ManagerInv'
  <1>c. clock \in Nat /\ clock' \in Nat /\ clock <= clock' /\ (q.start = 0 \/ q.start > clock)
        /\ q.start <= clock' /\ q \in [owner : {"nobody", "ours", "others"}, start : Nat, stuck : BOOLEAN]
    BY DEF ManagerInv, ManagerTypes
  <1>i. Instances' \subseteq Instances
    <2> SUFFICES ASSUME NEW p \in Instances' PROVE p \in Instances
      OBVIOUS
    <2>1. PICK m \in Pids : proc'[m].owner = "ours" /\ p = [pid |-> m, start |-> proc'[m].start]
      BY DEF Instances, Ours
    <2>2. m # n
      BY <2>1 DEF ManagerInv, ManagerTypes
    <2>3. proc'[m] = proc[m]
      BY <2>2 DEF ManagerInv, ManagerTypes
    <2> QED
      BY <2>1, <2>3 DEF Instances, Ours
  <1>1. ManagerTypes'
    BY <1>c DEF ManagerInv, ManagerTypes
  <1>2. StartTimes'
    <2>1. ASSUME NEW m \in Pids
          PROVE  proc'[m].start <= clock' /\ (proc'[m].owner = "nobody" <=> proc'[m].start = 0)
      <3>1. CASE m = n
        BY <3>1, <1>c DEF ManagerInv, ManagerTypes
      <3>2. CASE m # n
        <4>1. proc'[m] = proc[m] /\ proc[m].start \in Nat
          BY <3>2 DEF ManagerInv, ManagerTypes
        <4> QED
          BY <4>1, <1>c DEF ManagerInv, StartTimes
      <3> QED
        BY <3>1, <3>2
    <2>2. Known(session)' /\ Known(pid_file)' /\ Known(daemon.hand)'
      BY <1>c DEF ManagerInv, StartTimes, Known
    <2> QED
      BY <2>1, <2>2 DEF StartTimes
  <1>3. HandlerHolds'
    BY DEF ManagerInv, HandlerHolds
  <1>4. InstanceInPlace'
    BY <1>i DEF ManagerInv, InstanceInPlace
  <1>5. RecordsAreOurs'
    BY <1>c, RecordsStay, ZenonT(30) DEF ManagerInv, RecordsAreOurs
  <1>6. OnlyOursSignalled'
    BY DEF ManagerInv, OnlyOursSignalled
  <1> QED
    BY <1>1, <1>2, <1>3, <1>4, <1>5, <1>6 DEF ManagerInv

LEMMA EndsKeeps ==
    ASSUME PidsPositive, ManagerInv, NEW n \in Pids, Ends(n)
    PROVE  ManagerInv'
  <1>1. /\ Gone \in [owner : {"nobody", "others"}, start : Nat, stuck : BOOLEAN]
        /\ Gone.owner = "nobody" /\ Gone.start = 0
    BY DEF Gone
  <1> QED
    BY <1>1, OtherProcessKeeps, ZenonT(30) DEF Ends

LEMMA OtherStartsKeeps ==
    ASSUME PidsPositive, ManagerInv, NEW n \in Pids, OtherStarts(n)
    PROVE  ManagerInv'
  <1>1. PICK stuck \in BOOLEAN :
           proc' = [proc EXCEPT ![n] = [owner |-> "others", start |-> clock + 1, stuck |-> stuck]]
    BY ZenonT(30) DEF OtherStarts, Forked
  <1> DEFINE q == [owner |-> "others", start |-> clock + 1, stuck |-> stuck]
  <1>2. q \in [owner : {"nobody", "others"}, start : Nat, stuck : BOOLEAN]
        /\ q.owner = "others" /\ q.start = clock + 1
    BY DEF ManagerInv, ManagerTypes
  <1>3. proc' = [proc EXCEPT ![n] = q]
    BY <1>1
  <1> HIDE DEF q
  <1> QED
    BY <1>2, <1>3, OtherProcessKeeps, ZenonT(30) DEF OtherStarts, Forked

(* There is no instance when one is started, so the new one is the only    *)
(* one.                                                                    *)
LEMMA SpawnKeeps ==
    ASSUME PidsPositive, ManagerInv, NEW n \in Pids, Spawn(n)
    PROVE  ManagerInv'
  <1>1. PICK stuck \in BOOLEAN :
           proc' = [proc EXCEPT ![n] = [owner |-> "ours", start |-> clock + 1, stuck |-> stuck]]
    BY ZenonT(30) DEF Spawn, Forked
  <1> DEFINE q == [owner |-> "ours", start |-> clock + 1, stuck |-> stuck]
             child == [pid |-> n, start |-> clock + 1]
  <1>s. /\ daemon.at = "spawn" /\ clock' = clock + 1
        /\ daemon' = [daemon EXCEPT !.at = "probe", !.hand = child]
        /\ pidfd' = pidfd /\ pid_file' = pid_file /\ session' = session /\ past' = past
    BY DEF Spawn, Forked, At
  <1>c. clock \in Nat /\ clock' \in Nat /\ clock <= clock' /\ clock + 1 \in 1..clock' /\ clock + 1 > clock
        /\ n \in Nat \ {0}
    BY <1>s DEF PidsPositive, ManagerInv, ManagerTypes
  <1>2. /\ q \in [owner : {"nobody", "ours", "others"}, start : Nat, stuck : BOOLEAN]
        /\ q.owner = "ours" /\ q.start = clock + 1
        /\ child \in Process /\ child.pid = n /\ child.start = clock + 1 /\ child # Nobody
    BY <1>c DEF Process, Nobody
  <1>3. proc' = [proc EXCEPT ![n] = q]
    BY <1>1
  <1>f. proc'[n] = q /\ \A m \in Pids : m # n => proc'[m] = proc[m]
    BY <1>3 DEF ManagerInv, ManagerTypes
  <1>i. Instances' \subseteq {child}
    <2> SUFFICES ASSUME NEW p \in Instances' PROVE p = child
      OBVIOUS
    <2>1. PICK m \in Pids : proc'[m].owner = "ours" /\ p = [pid |-> m, start |-> proc'[m].start]
      BY DEF Instances, Ours
    <2>2. CASE m = n
      BY <2>1, <2>2, <1>2, <1>f
    <2>3. CASE m # n
      <3>1. p \in Instances
        BY <2>1, <2>3, <1>f, <1>s DEF Instances, Ours
      <3> QED
        BY <3>1, <1>s DEF ManagerInv, InstanceInPlace
    <2> QED
      BY <2>2, <2>3
  <1> HIDE DEF q, child
  <1>d. /\ daemon'.at = "probe" /\ daemon'.hand = child /\ daemon'.then = daemon.then
        /\ daemon' \in [at : Handlers, hand : Process, then : {"idle", "down"}]
    BY <1>s, <1>2, ZenonT(30) DEF ManagerInv, ManagerTypes, Handlers
  <1>4. ManagerTypes'
    BY <1>s, <1>c, <1>d, <1>2, <1>3 DEF ManagerInv, ManagerTypes
  <1>5. StartTimes'
    <2>1. ASSUME NEW m \in Pids
          PROVE  proc'[m].start <= clock' /\ (proc'[m].owner = "nobody" <=> proc'[m].start = 0)
      <3>1. CASE m = n
        BY <3>1, <1>c, <1>2, <1>f, <1>s
      <3>2. CASE m # n
        <4>1. proc'[m] = proc[m] /\ proc[m].start \in Nat
          BY <3>2, <1>f DEF ManagerInv, ManagerTypes
        <4> QED
          BY <4>1, <1>c DEF ManagerInv, StartTimes
      <3> QED
        BY <3>1, <3>2
    <2>2. Known(session)' /\ Known(pid_file)'
      BY <1>c, <1>s DEF ManagerInv, StartTimes, Known
    <2>3. Known(daemon.hand)'
      BY <1>c, <1>d, <1>2 DEF Known
    <2> QED
      BY <2>1, <2>2, <2>3 DEF StartTimes
  <1>6. HandlerHolds'
    BY <1>s, <1>d, <1>2 DEF ManagerInv, HandlerHolds
  <1>7. InstanceInPlace'
    BY <1>s, <1>d, <1>i DEF ManagerInv, HandlerHolds, InstanceInPlace
  <1>8. RecordsAreOurs'
    <2>1. IsOurs(daemon.hand)'
      BY <1>d, <1>f, <1>2 DEF IsOurs
    <2>2. past'.misread \/ IsOurs(pid_file)'
      BY <1>s, <1>c, <1>2, <1>3, RecordsStay, ZenonT(30) DEF ManagerInv, RecordsAreOurs
    <2> QED
      BY <2>1, <2>2 DEF RecordsAreOurs
  <1>9. OnlyOursSignalled'
    BY <1>s DEF ManagerInv, OnlyOursSignalled
  <1> QED
    BY <1>4, <1>5, <1>6, <1>7, <1>8, <1>9 DEF ManagerInv

(* ManagerInv is inductive. *)
THEOREM ManagerInvariant == ASSUME PidsPositive PROVE ManagerSpec => []ManagerInv
  <1>1. ManagerInit => ManagerInv
    <2> SUFFICES ASSUME ManagerInit PROVE ManagerInv
      OBVIOUS
    <2>1. /\ Nobody \in Process
          /\ Gone \in [owner : {"nobody", "ours", "others"}, start : Nat, stuck : BOOLEAN]
          /\ Gone.owner = "nobody" /\ Gone.start = 0
      BY DEF Nobody, Process, Gone
    <2>2. daemon.at = "down" /\ daemon.hand = Nobody /\ daemon.then = "idle" /\ past.stranger = FALSE
      BY DEF ManagerInit
    <2>3. ManagerTypes
      BY <2>1 DEF ManagerInit, ManagerTypes, Handlers
    <2>4. StartTimes
      BY <2>1, <2>2 DEF ManagerInit, StartTimes, Known
    <2>5. HandlerHolds
      BY <2>2 DEF ManagerInit, HandlerHolds
    <2>6. Instances = {}
      BY <2>1 DEF ManagerInit, Instances, Ours
    <2>7. InstanceInPlace
      BY <2>6 DEF InstanceInPlace
    <2>8. RecordsAreOurs /\ OnlyOursSignalled
      BY <2>2 DEF ManagerInit, RecordsAreOurs, IsOurs, ProcessIdentityMatches, OnlyOursSignalled
    <2> QED
      BY <2>3, <2>4, <2>5, <2>7, <2>8 DEF ManagerInv
  <1>2. ManagerInv /\ [ManagerNext]_managerVars => ManagerInv'
    <2> SUFFICES ASSUME ManagerInv, [ManagerNext]_managerVars PROVE ManagerInv'
      OBVIOUS
    <2>1. CASE Start
      BY <2>1, ForgetExitedKeeps, NotRunningKeeps, SpawnFailsKeeps, ProbeKeeps, WritePidFileKeeps,
         SpawnKeeps DEF Start
    <2>2. CASE Stop
      BY <2>2, TakeSessionKeeps, ForgetCancelledKeeps, DestroySessionKeeps, StopRecordedKeeps,
         SignalKeeps, WaitForExitKeeps, RemovePidFileKeeps DEF Stop
    <2>3. CASE Shutdown
      BY <2>3, TakeSessionKeeps, ShutdownUntrackedKeeps DEF Shutdown
    <2>4. CASE System
      BY <2>4, DaemonStartsKeeps, DaemonCrashesKeeps, EndsKeeps, OtherStartsKeeps
         DEF System
    <2>5. CASE UNCHANGED managerVars
      <3>1. /\ proc' = proc /\ clock' = clock /\ pid_file' = pid_file /\ pidfd' = pidfd
            /\ session' = session /\ daemon' = daemon /\ past' = past
        BY <2>5 DEF managerVars
      <3>2. Instances' = Instances
        BY <3>1 DEF Instances, Ours
      <3>3. ManagerTypes' /\ StartTimes'
        BY <3>1, ZenonT(30) DEF ManagerInv, ManagerTypes, StartTimes, Known
      <3>4. HandlerHolds' /\ OnlyOursSignalled'
        BY <3>1 DEF ManagerInv, HandlerHolds, OnlyOursSignalled
      <3>5. InstanceInPlace' /\ RecordsAreOurs'
        BY <3>1, <3>2 DEF ManagerInv, InstanceInPlace, RecordsAreOurs, IsOurs, ProcessIdentityMatches
      <3> QED
        BY <3>3, <3>4, <3>5 DEF ManagerInv
    <2> QED
      BY <2>1, <2>2, <2>3, <2>4, <2>5 DEF ManagerNext
  <1> QED
    BY <1>1, <1>2, PTL DEF ManagerSpec

(* Through any crashes, restarts, reused pids and processes that cannot be *)
(* killed there is one instance of an adapter or client at most, it is     *)
(* tracked, in the hands of the handler or named by the pid file, and with *)
(* pidfds only a process of ours is signalled.                             *)
THEOREM InstanceIsOne == ASSUME PidsPositive PROVE ManagerSpec => []OneInstance
  <1>1. ManagerInv => OneInstance
    <2> SUFFICES ASSUME ManagerInv PROVE OneInstance
      OBVIOUS
    <2>1. PICK x \in {daemon.hand, pid_file} : Instances \subseteq {x}
      BY DEF ManagerInv, InstanceInPlace
    <2>2. Cardinality(Instances) <= 1
      <3>1. IsFiniteSet({x}) /\ Cardinality({x}) = 1
        BY FS_Singleton, ZenonT(30)
      <3>2. Cardinality(Instances) <= Cardinality({x})
        BY <2>1, <3>1, FS_Subset
      <3> QED
        BY <3>1, <3>2
    <2> QED
      BY <2>1, <2>2 DEF ManagerInv, OneInstance
  <1> QED
    BY <1>1, ManagerInvariant, PTL
=============================================================================
