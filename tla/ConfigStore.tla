----------------------------- MODULE ConfigStore -----------------------------
(***************************************************************************)
(* LoadCoreConfig and SaveCoreConfig (core_config_store.cpp) when several  *)
(* processes share the configuration file: the command line, the settings  *)
(* window with its worker threads, the addon and the daemon.  Each process *)
(* keeps the last configuration it saw together with the modification time *)
(* and size of the file it came from, and reads the file only when these   *)
(* have changed.                                                           *)
(*                                                                         *)
(* A configuration is the set of the changes made to it so far; the stamp  *)
(* stands for modification time and size, and every write of the file is   *)
(* assumed to give it a stamp it never had before.                         *)
(*                                                                         *)
(*   file     [stamp, has, ok]: its stamp, the changes it holds, and       *)
(*            whether it can be parsed                                     *)
(*   cache    per process, [valid, stamp, has]                             *)
(*   mutex    per process, the thread inside cache.mu, or None             *)
(*   manager  the thread of the window inside ConfigManager's mutex        *)
(*   pc, base per thread, where it is and the configuration it holds       *)
(*   stamp    per thread, the stamp it took in LoadCoreConfig              *)
(*   mine     per thread, the stamp its own write gave the file            *)
(*   seen     per thread, the contents of the file since its load began    *)
(*   crossed  the processes whose cache holds their own configuration under*)
(*            the stamp of somebody else's write                           *)
(*   excused  the threads whose last load hit such a cache                 *)
(***************************************************************************)
EXTENDS Naturals, FiniteSets

CONSTANTS Threads, Processes, None,
          ProcessOf,   \* thread -> process
          OneShot,     \* processes that start afresh for every load (the command line)
          Managed,     \* processes that go through ConfigManager (the window)
          ReadOnly,    \* threads that never save (the daemon's)
          MaxSaves     \* bound on the writes of the file

VARIABLES file, cache, mutex, manager, pc, base, stamp, mine, seen, crossed, excused

vars == <<file, cache, mutex, manager, pc, base, stamp, mine, seen, crossed, excused>>

Places == {"idle", "read", "holds", "remember"}

NoCache == [valid |-> FALSE, stamp |-> 0, has |-> {}]

TypeOK ==
    /\ file \in [stamp : 0..MaxSaves, has : SUBSET (1..MaxSaves), ok : BOOLEAN]
    /\ pc \in [Threads -> Places]
    /\ mutex \in [Processes -> Threads \cup {None}]
    /\ manager \in Threads \cup {None}

Init ==
    /\ file = [stamp |-> 0, has |-> {}, ok |-> TRUE]
    /\ cache = [p \in Processes |-> NoCache]
    /\ mutex = [p \in Processes |-> None]
    /\ manager = None
    /\ pc = [t \in Threads |-> "idle"]
    /\ base = [t \in Threads |-> {}]
    /\ stamp = [t \in Threads |-> 0]
    /\ mine = [t \in Threads |-> 0]
    /\ seen = [t \in Threads |-> {}]
    /\ crossed = {}
    /\ excused = {}

\* What a load makes of the file: its changes, or the defaults when it cannot be
\* parsed.
Contents(f) == IF f.ok THEN f.has ELSE {}

\* Every write of the file is noted by the loads in progress.
Write(f) ==
    /\ file' = f
    /\ seen' = [t \in Threads |-> IF pc[t] = "read" THEN seen[t] \cup {Contents(f)} ELSE seen[t]]

-----------------------------------------------------------------------------
EnterManager(t) ==
    IF ProcessOf[t] \in Managed THEN manager = None /\ manager' = t ELSE UNCHANGED manager

LeaveManager(t) ==
    manager' = IF manager = t THEN None ELSE manager

\* Mutant of CacheHit: what is cached is never out of date.
CacheHitIfValid(known) == known.valid

\* The cache is used while the file has the stamp it was filled under.
CacheHit(known) == known.valid /\ known.stamp = file.stamp

\* LoadCoreConfig up to the comparison with the cache.  On a hit it returns the
\* cached configuration; else it goes on to read the file, inside the mutex.
LoadStat(t) ==
    LET p == ProcessOf[t]
        known == IF p \in OneShot THEN NoCache ELSE cache[p]
    IN  /\ pc[t] = "idle" /\ mutex[p] = None
        /\ seen' = [seen EXCEPT ![t] = {Contents(file)}]
        /\ \/ /\ CacheHit(known)
              /\ ProcessOf[t] \in Managed => manager = None
              /\ pc' = [pc EXCEPT ![t] = "holds"]
              /\ base' = [base EXCEPT ![t] = known.has]
              /\ excused' = IF p \in crossed THEN excused \cup {t} ELSE excused \ {t}
              /\ UNCHANGED <<stamp, mutex, manager>>
           \/ /\ ~CacheHit(known)
              /\ EnterManager(t)
              /\ mutex' = [mutex EXCEPT ![p] = t]
              /\ stamp' = [stamp EXCEPT ![t] = file.stamp]
              /\ pc' = [pc EXCEPT ![t] = "read"]
              /\ excused' = excused \ {t}
              /\ UNCHANGED base
        /\ cache' = [cache EXCEPT ![p] = known]
        /\ UNCHANGED <<file, mine, crossed>>

\* The rest of LoadCoreConfig: the file is read, which may have been replaced since
\* its stamp was taken, and remembered under that stamp unless it did not parse.
LoadRead(t) ==
    LET p == ProcessOf[t]
    IN  /\ pc[t] = "read"
        /\ base' = [base EXCEPT ![t] = Contents(file)]
        /\ cache' = [cache EXCEPT ![p] = IF file.ok THEN [valid |-> TRUE, stamp |-> stamp[t], has |-> file.has]
                                         ELSE NoCache]
        /\ crossed' = crossed \ {p}
        /\ mutex' = [mutex EXCEPT ![p] = None]
        /\ LeaveManager(t)
        /\ stamp' = [stamp EXCEPT ![t] = 0]
        /\ pc' = [pc EXCEPT ![t] = "holds"]
        /\ UNCHANGED <<file, mine, seen, excused>>

\* What a thread holds ends with its handler.
Done(t) ==
    /\ pc' = [pc EXCEPT ![t] = "idle"]
    /\ base' = [base EXCEPT ![t] = {}]
    /\ mine' = [mine EXCEPT ![t] = 0]
    /\ seen' = [seen EXCEPT ![t] = {}]
    /\ excused' = excused \ {t}

\* The handler is done with its configuration without saving it.
Drop(t) ==
    /\ pc[t] = "holds"
    /\ Done(t)
    /\ UNCHANGED <<file, cache, mutex, manager, stamp, crossed>>

\* SaveCoreConfig: the new configuration replaces the file, outside the mutex.
SaveRename(t) ==
    LET n == file.stamp + 1
    IN  /\ pc[t] = "holds" /\ t \notin ReadOnly /\ n <= MaxSaves
        /\ EnterManager(t)
        /\ base' = [base EXCEPT ![t] = @ \cup {n}]
        /\ Write([stamp |-> n, has |-> base[t] \cup {n}, ok |-> TRUE])
        /\ mine' = [mine EXCEPT ![t] = n]
        /\ pc' = [pc EXCEPT ![t] = "remember"]
        /\ UNCHANGED <<cache, mutex, stamp, crossed, excused>>

\* The end of SaveCoreConfig: the file's stamp is taken again and the saved
\* configuration is remembered under it, whoever wrote the file last.
SaveRemember(t) ==
    LET p == ProcessOf[t]
    IN  /\ pc[t] = "remember" /\ mutex[p] = None
        /\ cache' = [cache EXCEPT ![p] = [valid |-> TRUE, stamp |-> file.stamp, has |-> base[t]]]
        /\ crossed' = IF file.stamp = mine[t] THEN crossed \ {p} ELSE crossed \cup {p}
        /\ LeaveManager(t)
        /\ Done(t)
        /\ UNCHANGED <<file, mutex, stamp>>

\* The user saves the file from an editor, with or without a mistake in it.
Editor(ok) ==
    /\ file.stamp < MaxSaves
    /\ Write([stamp |-> file.stamp + 1, has |-> file.has \cup {file.stamp + 1}, ok |-> ok])
    /\ UNCHANGED <<cache, mutex, manager, pc, base, stamp, mine, crossed, excused>>

Next ==
    \/ \E t \in Threads :
          LoadStat(t) \/ LoadRead(t) \/ Drop(t) \/ SaveRename(t) \/ SaveRemember(t)
    \/ \E ok \in BOOLEAN : Editor(ok)

Spec == Init /\ [][Next]_vars

-----------------------------------------------------------------------------
\* Every load returns a configuration that the file held at some moment of that
\* load, however the writes of other processes fall between the stamp, the read and
\* the caching: a handler never works on a configuration somebody replaced before
\* it began, and so loses no change but one made while it ran.  The one exception
\* is a process whose save was overtaken by another's between its write and its
\* last look at the stamp: until the file changes again it keeps its own.
LoadIsFresh ==
    \A t \in Threads : pc[t] = "holds" /\ t \notin excused => base[t] \in seen[t]

=============================================================================
