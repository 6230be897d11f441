--------------------------- MODULE ProcessManager ---------------------------
(***************************************************************************)
(* adapter_manager and client_manager: one adapter or client, which the    *)
(* daemon starts, tracks through a ProcessSession and finds again after a  *)
(* crash by its pid file.  Every handler runs on the daemon's main thread, *)
(* so the interleaving is with the processes of the system: they end, and  *)
(* their pids are given to others.  The bridge, the configuration and the  *)
(* command line are left out.                                              *)
(***************************************************************************)
EXTENDS Naturals, FiniteSets

CONSTANTS
    Pids,        \* pids the kernel hands out
    MaxStarts    \* bound: processes started, ours and others

VARIABLES
    proc,      \* the process at each pid: whose it is and its start time
    clock,     \* the last start time
    pidfd,     \* the kernel has pidfds
    pid_file,  \* the pid file
    session,   \* the tracked session's process
    daemon,    \* the handler's position, its process, and where it ends
    past       \* processes given up, a pid file with a stranger, one signalled

managerVars == <<proc, clock, pidfd, pid_file, session, daemon, past>>

(* A process is its pid with its start time. *)
Nobody == [pid |-> 0, start |-> 0]

Gone == [owner |-> "nobody", start |-> 0, stuck |-> FALSE]

ProcessIdentityMatches(p) == p # Nobody /\ proc[p.pid].start = p.start

Ours == {[pid |-> n, start |-> proc[n].start] : n \in {m \in Pids : proc[m].owner = "ours"}}

ManagerInit ==
    /\ proc = [n \in Pids |-> Gone] /\ clock = 0
    /\ pidfd \in BOOLEAN
    /\ pid_file = Nobody /\ session = Nobody
    /\ daemon = [at |-> "down", hand |-> Nobody, then |-> "idle"]
    /\ past = [given_up |-> {}, misread |-> FALSE, stranger |-> FALSE]

At(label) == daemon.at = label

Proceed(label) == daemon' = [daemon EXCEPT !.at = label]

(* The handler returns. *)
Returned == [at |-> daemon.then, hand |-> Nobody, then |-> "idle"]

-----------------------------------------------------------------------------
(* The system: processes end (a stuck one does not), others start, and the *)
(* daemon starts and crashes.                                              *)

Ends(n) ==
    /\ proc[n].owner # "nobody" /\ ~proc[n].stuck
    /\ proc' = [proc EXCEPT ![n] = Gone]
    /\ UNCHANGED <<clock, pidfd, pid_file, session, daemon, past>>

(* fork() by anyone: a free pid and the next start time. *)
Forked(n, whose) ==
    /\ proc[n].owner = "nobody" /\ clock < MaxStarts
    /\ clock' = clock + 1
    /\ \E stuck \in BOOLEAN :
         proc' = [proc EXCEPT ![n] = [owner |-> whose, start |-> clock + 1, stuck |-> stuck]]

OtherStarts(n) ==
    Forked(n, "others") /\ ~proc'[n].stuck /\ UNCHANGED <<pidfd, pid_file, session, daemon, past>>

DaemonStarts == At("down") /\ Proceed("idle") /\ UNCHANGED <<proc, clock, pidfd, pid_file, session, past>>

(* What the crash leaves unrecorded: a child before WritePidFile, or after *)
(* RemovePidFile.                                                          *)
DaemonCrashes ==
    /\ ~At("down")
    /\ daemon' = [at |-> "down", hand |-> Nobody, then |-> "idle"]
    /\ session' = Nobody
    /\ past' = IF daemon.at \in {"probe", "write", "destroy"}
                 THEN [past EXCEPT !.given_up = @ \cup {daemon.hand}] ELSE past
    /\ UNCHANGED <<proc, clock, pidfd, pid_file>>

-----------------------------------------------------------------------------
(* Start().                                                                *)

(* Faulty variant: the pid file is not asked. *)
RecordIgnored == FALSE

RecordIsRunning == ProcessIdentityMatches(pid_file)

(* GetPid() of a tracked session that has exited forgets it; a session     *)
(* whose pump has not noticed the exit counts as running.                  *)
ForgetExited ==
    /\ At("idle") /\ session # Nobody /\ ~ProcessIdentityMatches(session)
    /\ session' = Nobody /\ pid_file' = Nobody
    /\ Proceed("spawn")
    /\ UNCHANGED <<proc, clock, pidfd, past>>

NotRunning ==
    /\ At("idle") /\ session = Nobody /\ ~RecordIsRunning
    /\ Proceed("spawn")
    /\ UNCHANGED <<proc, clock, pidfd, pid_file, session, past>>

Spawn(n) ==
    /\ At("spawn")
    /\ Forked(n, "ours")
    /\ daemon' = [daemon EXCEPT !.at = "probe", !.hand = [pid |-> n, start |-> clock + 1]]
    /\ UNCHANGED <<pidfd, pid_file, session, past>>

SpawnFails == At("spawn") /\ Proceed("idle") /\ UNCHANGED <<proc, clock, pidfd, pid_file, session, past>>

(* WaitForExit for 250 ms: the child is seen to have exited, or not. *)
Probe ==
    /\ At("probe")
    /\ \/ ~ProcessIdentityMatches(daemon.hand) /\ daemon' = Returned
       \/ Proceed("write")
    /\ UNCHANGED <<proc, clock, pidfd, pid_file, session, past>>

(* WritePidFile and the tracking: the start time is that of the process    *)
(* that has the pid now.  On failure the session is cancelled.             *)
WritePidFile ==
    /\ At("write")
    /\ \/ /\ proc[daemon.hand.pid].owner # "nobody"
          /\ pid_file' = [pid |-> daemon.hand.pid, start |-> proc[daemon.hand.pid].start]
          /\ session' = daemon.hand
          /\ past' = [past EXCEPT !.misread = @ \/ pid_file' # daemon.hand]
          /\ daemon' = Returned
       \/ Proceed("destroy") /\ UNCHANGED <<pid_file, session, past>>
    /\ UNCHANGED <<proc, clock, pidfd>>

-----------------------------------------------------------------------------
(* Stop() and Shutdown() of a tracked session.                             *)

TakeSession(then) ==
    /\ At("idle") /\ session # Nobody
    /\ session' = Nobody
    /\ daemon' = [at |-> "cancelled", hand |-> session, then |-> then]
    /\ UNCHANGED <<proc, clock, pidfd, pid_file, past>>

(* Nothing is tracked: Shutdown() leaves the process alone. *)
ShutdownUntracked ==
    /\ At("idle") /\ session = Nobody
    /\ Proceed("down")
    /\ UNCHANGED <<proc, clock, pidfd, pid_file, session, past>>

(* WaitForExit is over, with or without the exit: the pid file goes. *)
ForgetCancelled ==
    /\ At("cancelled")
    /\ pid_file' = Nobody
    /\ Proceed("destroy")
    /\ UNCHANGED <<proc, clock, pidfd, session, past>>

(* ~ProcessSession waits for the exit, unless the child cannot be killed. *)
DestroySession ==
    /\ At("destroy")
    /\ ~ProcessIdentityMatches(daemon.hand) \/ proc[daemon.hand.pid].stuck
    /\ daemon' = Returned
    /\ past' = [past EXCEPT !.given_up = @ \cup {daemon.hand}]
    /\ UNCHANGED <<proc, clock, pidfd, pid_file, session>>

-----------------------------------------------------------------------------
(* Stop() by the pid file: TerminateGracefully.                            *)

(* Faulty variant: whatever has the pid is taken for the instance. *)
MatchesByPid(p) == p # Nobody /\ proc[p.pid].owner # "nobody"

(* PinnedProcess: the recorded instance is still there. *)
Matches(p) == ProcessIdentityMatches(p)

StopRecorded ==
    /\ At("idle") /\ session = Nobody
    /\ daemon' = [daemon EXCEPT !.hand = pid_file,
                                !.at = IF Matches(pid_file) THEN "terminate" ELSE "not_found"]
    /\ UNCHANGED <<proc, clock, pidfd, pid_file, session, past>>

(* A pidfd reaches the pinned instance, a pid whoever has it by then. *)
Reached == IF pidfd /\ ~Matches(daemon.hand) THEN Gone ELSE proc[daemon.hand.pid]

(* SIGTERM, then SIGKILL: the signal is delivered or fails, or the         *)
(* instance is found to be gone.                                           *)
Signal ==
    /\ daemon.at \in {"terminate", "kill"}
    /\ \/ /\ Reached.owner # "nobody"
          /\ \/ Proceed(IF At("terminate") THEN "wait" ELSE "last_wait")
             \/ daemon' = Returned
          /\ past' = [past EXCEPT !.stranger = @ \/ Reached.owner = "others"]
       \/ /\ ~Matches(daemon.hand)
          /\ Proceed(IF At("terminate") THEN "not_found" ELSE "exited")
          /\ UNCHANGED past
    /\ UNCHANGED <<proc, clock, pidfd, pid_file, session>>

(* The bounded waits; without a pidfd the identity is looked at again      *)
(* before SIGKILL.                                                         *)
WaitForExit ==
    /\ daemon.at \in {"wait", "last_wait"}
    /\ \/ ~ProcessIdentityMatches(daemon.hand) /\ Proceed("exited")
       \/ ProcessIdentityMatches(daemon.hand) /\ At("wait") /\ Proceed("kill")
       \/ At("last_wait") /\ daemon' = Returned
    /\ UNCHANGED <<proc, clock, pidfd, pid_file, session, past>>

RemovePidFile ==
    /\ daemon.at \in {"exited", "not_found"}
    /\ pid_file' = Nobody
    /\ daemon' = Returned
    /\ UNCHANGED <<proc, clock, pidfd, session, past>>

Start == \/ ForgetExited \/ NotRunning \/ SpawnFails \/ Probe \/ WritePidFile
         \/ \E n \in Pids : Spawn(n)

Stop == \/ TakeSession("idle") \/ ForgetCancelled \/ DestroySession
        \/ StopRecorded \/ Signal \/ WaitForExit \/ RemovePidFile

Shutdown == TakeSession("down") \/ ShutdownUntracked

System == \/ DaemonStarts \/ DaemonCrashes
          \/ \E n \in Pids : Ends(n) \/ OtherStarts(n)

ManagerNext == Start \/ Stop \/ Shutdown \/ System

ManagerSpec == ManagerInit /\ [][ManagerNext]_managerVars

-----------------------------------------------------------------------------
(* The processes somebody is still responsible for. *)
Instances == Ours \ past.given_up

(* A process that is not ours is never signalled, whoever has the pid of   *)
(* the pid file by now, if the kernel has pidfds and the pid was not       *)
(* reused between the child's exit and WritePidFile.                       *)
OnlyOursSignalled == past.stranger => ~pidfd \/ past.misread

(* There is one instance at most, and the daemon can stop it, through any  *)
(* crashes, restarts and reused pids: it is tracked, in the hands of the   *)
(* running handler, or named by the pid file that the next daemon reads.   *)
(* Given up are a child that cannot be killed, and one of a daemon that    *)
(* dies between the fork and WritePidFile, or after RemovePidFile.  Nobody *)
(* else's process is signalled on the way.                                 *)
OneInstance ==
    /\ Cardinality(Instances) <= 1
    /\ Instances \subseteq {session, daemon.hand, pid_file}
    /\ OnlyOursSignalled
=============================================================================
