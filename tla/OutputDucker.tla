---------------------------- MODULE OutputDucker ----------------------------
(***************************************************************************)
(* OutputDucker: the queue of Duck and Restore tasks and the thread that   *)
(* carries them out by running wpctl, while the user may move the volume.  *)
(* A volume is a step of a small scale; a wpctl call may fail, and one     *)
(* that fails to set the volume may have set it all the same.              *)
(***************************************************************************)
EXTENDS Naturals, Sequences

CONSTANTS
    MaxVolume,   \* volumes are 0..MaxVolume
    Percent,     \* the configured scale, in percent
    MaxCalls     \* bound: Duck, Restore and user changes altogether

VARIABLES
    queue,          \* queue_
    logical_ducked, \* logical_ducked_
    worker_ducked,  \* worker_ducked_
    saved_volume,   \* saved_volume_
    step,           \* what the worker is doing, and the volume it read
    stop,           \* stop_
    flushing,       \* the calling thread is waiting in Flush()
    volume,         \* the volume of the default sink
    past            \* calls made; the volume the user chose; what went wrong

vars == <<queue, logical_ducked, worker_ducked, saved_volume, step, stop, flushing, volume,
          past>>

Volumes == 0..MaxVolume

Scaled(v) == (v * Percent) \div 100

Init ==
    /\ queue = <<>>
    /\ logical_ducked = FALSE
    /\ worker_ducked = FALSE
    /\ saved_volume = 0
    /\ step = [at |-> "wait", read |-> 0]
    /\ stop = FALSE
    /\ flushing = FALSE
    /\ volume \in Volumes
    /\ past = [calls |-> 0, user |-> volume, failed |-> FALSE, moved |-> FALSE]

MayCall == past.calls < MaxCalls /\ ~stop /\ ~flushing

Called == [past EXCEPT !.calls = @ + 1]

DuckAccepted == ~logical_ducked

Duck ==
    /\ MayCall
    /\ past' = Called
    /\ IF DuckAccepted
         THEN /\ logical_ducked' = TRUE
              /\ queue' = Append(queue, "Duck")
         ELSE UNCHANGED <<logical_ducked, queue>>
    /\ UNCHANGED <<worker_ducked, saved_volume, step, stop, flushing, volume>>

Restore ==
    /\ MayCall
    /\ past' = Called
    /\ IF logical_ducked
         THEN /\ logical_ducked' = FALSE
              /\ queue' = Append(queue, "Restore")
         ELSE UNCHANGED <<logical_ducked, queue>>
    /\ UNCHANGED <<worker_ducked, saved_volume, step, stop, flushing, volume>>

(* Flush() waits for an empty queue: the worker announces one after a task, *)
(* and a spurious wake-up may see one before the task is carried out.      *)
FlushWait ==
    /\ MayCall /\ queue # <<>>
    /\ flushing' = TRUE
    /\ past' = Called
    /\ UNCHANGED <<queue, logical_ducked, worker_ducked, saved_volume, step, stop, volume>>

FlushReturn ==
    /\ flushing /\ queue = <<>>
    /\ flushing' = FALSE
    /\ UNCHANGED <<queue, logical_ducked, worker_ducked, saved_volume, step, stop, volume, past>>

(* The user moves the volume; while it is ducked, Restore undoes the move. *)
UserSetsVolume ==
    /\ MayCall
    /\ \E v \in Volumes \ {volume} :
         /\ volume' = v
         /\ past' = [Called EXCEPT !.user = v,
                          !.moved = @ \/ worker_ducked \/ step.at \notin {"wait", "done"}]
    /\ UNCHANGED <<queue, logical_ducked, worker_ducked, saved_volume, step, stop, flushing>>

-----------------------------------------------------------------------------
(* The worker thread.                                                      *)

LoopEnds == stop /\ queue = <<>>

Wakes == stop \/ queue # <<>>

(* Faulty variant: a saved volume of zero is taken for none. *)
TaskStepUnlessZero(task) ==
    CASE task = "Duck" /\ ~worker_ducked -> "read"
      [] task = "Restore" /\ saved_volume > 0 -> "restore"
      [] OTHER -> "wait"

(* A task is skipped when the sink is in its state already. *)
TaskStep(task) ==
    CASE task = "Duck" /\ ~worker_ducked -> "read"
      [] task = "Restore" /\ worker_ducked -> "restore"
      [] OTHER -> "wait"

WorkerTakes ==
    /\ step.at = "wait" /\ Wakes
    /\ IF LoopEnds THEN step' = [step EXCEPT !.at = "joined"] /\ UNCHANGED queue
       ELSE /\ queue' = Tail(queue)
            /\ step' = [step EXCEPT !.at = TaskStep(Head(queue))]
    /\ UNCHANGED <<logical_ducked, worker_ducked, saved_volume, stop, flushing, volume, past>>

ReadFails ==
    /\ step.at = "read"
    /\ step' = [step EXCEPT !.at = "wait"]
    /\ UNCHANGED <<queue, logical_ducked, worker_ducked, saved_volume, stop, flushing, volume,
                   past>>

ReadDefaultSinkVolume ==
    /\ step.at = "read"
    /\ step' = [at |-> "duck", read |-> volume]
    /\ UNCHANGED <<queue, logical_ducked, worker_ducked, saved_volume, stop, flushing, volume,
                   past>>

(* Faulty variant: a set-volume call that reports failure is not undone. *)
DuckedOnlyIfReported(ok) == ok

AssumeDucked(ok) == TRUE

(* SetDefaultSinkVolume reports ok or not, and took effect or not. *)
SetVolume(v, ok) ==
    /\ volume' \in IF ok THEN {v} ELSE {v, volume}
    /\ past' = [past EXCEPT !.failed = @ \/ volume' # v]

ProcessDuck ==
    /\ step.at = "duck"
    /\ \E ok \in BOOLEAN :
         /\ SetVolume(Scaled(step.read), ok)
         /\ worker_ducked' = AssumeDucked(ok)
         /\ saved_volume' = step.read
    /\ step' = [step EXCEPT !.at = "wait"]
    /\ UNCHANGED <<queue, logical_ducked, stop, flushing>>

RestoreTo == saved_volume

(* ProcessRestore, also run by the destructor ("undo") after the join. *)
ProcessRestore ==
    /\ step.at \in {"restore", "undo"}
    /\ \E ok \in BOOLEAN : SetVolume(RestoreTo, ok)
    /\ worker_ducked' = FALSE
    /\ saved_volume' = 0
    /\ step' = [step EXCEPT !.at = IF step.at = "undo" THEN "done" ELSE "wait"]
    /\ UNCHANGED <<queue, logical_ducked, stop, flushing>>

(* ~OutputDucker: stop, join, restore what is still ducked. *)
Destroy ==
    /\ ~stop /\ ~flushing
    /\ stop' = TRUE
    /\ UNCHANGED <<queue, logical_ducked, worker_ducked, saved_volume, step, flushing, volume,
                   past>>

AfterJoin == IF worker_ducked THEN "undo" ELSE "done"

DestroyJoined ==
    /\ step.at = "joined"
    /\ step' = [step EXCEPT !.at = AfterJoin]
    /\ UNCHANGED <<queue, logical_ducked, worker_ducked, saved_volume, stop, flushing, volume,
                   past>>

WorkerLoop == WorkerTakes \/ ReadFails \/ ReadDefaultSinkVolume \/ ProcessDuck \/ ProcessRestore

Next == \/ Duck \/ Restore \/ FlushWait \/ FlushReturn \/ UserSetsVolume
        \/ WorkerLoop \/ Destroy \/ DestroyJoined

(* The worker runs and every wpctl call ends: it has a deadline of 2 s. *)
Fairness == WF_vars(WorkerLoop) /\ WF_vars(DestroyJoined) /\ WF_vars(FlushReturn)

Spec == Init /\ [][Next]_vars /\ Fairness

-----------------------------------------------------------------------------
(* Types of the state; tasks alternate, so the queue never holds the same  *)
(* task twice in a row and ends with the one that matches logical_ducked_. *)
TypeOK ==
    /\ queue \in Seq({"Duck", "Restore"})
    /\ \A i \in 2..Len(queue) : queue[i] # queue[i - 1]
    /\ queue # <<>> => (logical_ducked <=> queue[Len(queue)] = "Duck")
    /\ logical_ducked \in BOOLEAN /\ worker_ducked \in BOOLEAN /\ stop \in BOOLEAN
    /\ saved_volume \in Volumes /\ volume \in Volumes
    /\ step \in [at : {"wait", "read", "duck", "restore", "joined", "undo", "done"},
                   read : Volumes]
    /\ flushing \in BOOLEAN
    /\ past \in [calls : 0..MaxCalls, user : Volumes,
                    failed : BOOLEAN, moved : BOOLEAN]

Untroubled == ~past.failed /\ ~past.moved

(* The sink is at the user's volume or at its ducked value, never at a     *)
(* ducked value of a ducked value, however Duck and Restore are mixed and  *)
(* however late the worker is, also when a set-volume call that took       *)
(* effect was reported as failed, as long as the user leaves the ducked    *)
(* volume alone; and the destructor leaves the user's volume behind.       *)
NeverDuckedTwice ==
    /\ Untroubled => volume = IF worker_ducked THEN Scaled(past.user) ELSE past.user
    /\ step.at = "done" => ~worker_ducked /\ queue = <<>>

(* The volume comes back: after Restore() the worker undoes the ducking    *)
(* without another call, unless it is asked to duck again; and the calls   *)
(* that wait for the worker, Flush() and the destructor, return.           *)
EventuallyRestored ==
    /\ ~logical_ducked ~> ~worker_ducked \/ logical_ducked
    /\ flushing ~> ~flushing
    /\ stop ~> step.at = "done"

=============================================================================
