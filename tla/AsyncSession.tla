---------------------------- MODULE AsyncSession ----------------------------
(***************************************************************************)
(* AsyncRecognitionSession, the wrapper that runs a streaming backend on   *)
(* one worker thread, together with the code that drives one such session  *)
(* from installation to destruction: the daemon's main thread (audio,      *)
(* polling, cancel, reaping) and the recognition thread that finishes a    *)
(* stopped utterance.  One critical section of mutex_ is one step, one     *)
(* call into the backend is one step that ends it (the worker's label is   *)
(* "push", "finish" or "cancel" while the call is in flight).              *)
(* A final text is its number; the backend's audio is the numbers of the   *)
(* chunks it was given.                                                    *)
(***************************************************************************)
EXTENDS Naturals, Sequences, FiniteSets, FiniteSetsExt

CONSTANTS
    ChunkSizes,        \* sizes a chunk of audio may have
    MaxQueuedSamples,  \* max_queued_samples_
    MaxChunks,         \* bound: chunks offered in one utterance
    MaxTexts           \* bound: final texts the backend emits

VARIABLES
    session,    \* the members guarded by mutex_
    worker,     \* the worker thread: its label, the chunk and the events in hand
    backend,    \* the wrapped session, as the worker's calls leave it
    main,       \* the main thread's label and the events it took
    asr,        \* the recognition thread's label
    holder,     \* who owns the session
    notified,   \* notify_fd_ is readable
    text,       \* latest_final_text_, then the text of the order
    history     \* what was offered, asked for and reported

vars == <<session, worker, backend, main, asr, holder, notified, text, history>>

Chunk == [id : 1..MaxChunks, size : ChunkSizes]

Event == [kind : {"partial", "completed", "error"}, text : {0}]
           \cup [kind : {"final"}, text : 1..MaxTexts]

Plain(kind) == [kind |-> kind, text |-> 0]

Init ==
    /\ session = [queue |-> <<>>, queued |-> 0, finish |-> FALSE, cancel |-> FALSE,
                  complete |-> FALSE, success |-> FALSE, failed |-> FALSE, events |-> <<>>]
    /\ worker = [at |-> "wait", chunk |-> 0, hand |-> <<>>, then |-> "wait", ok |-> FALSE]
    /\ backend = [received |-> <<>>, texts |-> 0, ends |-> 0, interrupted |-> FALSE]
    /\ main = [at |-> "loop", taken |-> <<>>]
    /\ asr = "idle"
    /\ holder = "active"
    /\ notified = FALSE
    /\ text = 0
    /\ history = [offered |-> <<>>, cancelled |-> FALSE, broke |-> FALSE, reports |-> 0,
                  result |-> "none"]

-----------------------------------------------------------------------------
(* The session's methods, as functions of its state.                       *)

Refuses(s) == s.cancel \/ s.finish \/ s.complete

(* Subtracting before comparing, as the code does, never leaves Nat: the   *)
(* first disjunct holds when the difference would be negative.             *)
Overflows(s, size) ==
    s.queued >= MaxQueuedSamples \/ size > MaxQueuedSamples - s.queued

Emptied(s) == [s EXCEPT !.cancel = TRUE, !.queue = <<>>, !.queued = 0]

(* Faulty variant: a full queue swallows the chunk. *)
PushAudioDrops(s, c) ==
    IF Refuses(s) THEN [ok |-> FALSE, session |-> s]
    ELSE IF Overflows(s, c.size) THEN [ok |-> TRUE, session |-> s]
    ELSE [ok |-> TRUE, session |-> [s EXCEPT !.queue = Append(@, c), !.queued = @ + c.size]]

PushAudio(s, c) ==
    IF Refuses(s) THEN [ok |-> FALSE, session |-> s]
    ELSE IF Overflows(s, c.size) THEN [ok |-> FALSE, session |-> Emptied(s)]
    ELSE [ok |-> TRUE, session |-> [s EXCEPT !.queue = Append(@, c), !.queued = @ + c.size]]

RequestFinish(s) == IF s.complete \/ s.cancel THEN s ELSE [s EXCEPT !.finish = TRUE]

(* The last final text among the events, or the one known before them. *)
LastFinal(events, known) ==
    LET finals == {i \in DOMAIN events : events[i].kind = "final"}
    IN  IF finals = {} THEN known ELSE events[Max(finals)].text

HasError(events) == \E i \in DOMAIN events : events[i].kind = "error"

-----------------------------------------------------------------------------
(* The worker thread: Run().                                               *)

RunWait ==
    /\ worker.at = "wait"
    /\ session.cancel \/ session.finish \/ session.queue # <<>>
    /\ IF session.cancel THEN /\ worker' = [worker EXCEPT !.at = "cancel"]
                              /\ UNCHANGED session
       ELSE IF session.queue # <<>>
         THEN /\ worker' = [worker EXCEPT !.at = "push", !.chunk = Head(session.queue).id]
              /\ session' = [session EXCEPT !.queue = Tail(@),
                                            !.queued = @ - Head(session.queue).size]
         ELSE /\ worker' = [worker EXCEPT !.at = "finish"]
              /\ UNCHANGED session
    /\ UNCHANGED <<backend, main, asr, holder, notified, text, history>>

(* The events a backend call leaves to be polled; a final text is new. *)
Emits(n) == {<<>>, <<Plain("partial")>>}
              \cup IF n < MaxTexts THEN {<<[kind |-> "final", text |-> n + 1]>>} ELSE {}

TextsAfter(events) == LastFinal(events, backend.texts)

(* What the worker does next with the events it polled from the backend. *)
Forward(events, then) ==
    [worker EXCEPT !.hand = events, !.then = then,
                   !.at = IF events = <<>> THEN then ELSE "append"]

BackendPushAudio ==
    /\ worker.at = "push"
    /\ \E events \in Emits(backend.texts) :
         /\ worker' = Forward(events, "wait")
         /\ backend' = [backend EXCEPT !.received = Append(@, worker.chunk),
                                       !.texts = TextsAfter(events)]
    /\ UNCHANGED <<session, main, asr, holder, notified, text, history>>

(* The provider rejects the chunk, or Interrupt() made the call give up.   *)
(* It may or may not leave an Error event behind.                          *)
BackendRejectsAudio ==
    /\ worker.at = "push"
    /\ \E events \in {<<>>, <<Plain("error")>>, <<Plain("error"), Plain("completed")>>} :
         worker' = [worker EXCEPT !.hand = events, !.at = "publish"]
    /\ history' = [history EXCEPT !.broke = @ \/ ~backend.interrupted]
    /\ UNCHANGED <<session, backend, main, asr, holder, notified, text>>

PublishedFailure(s) == [Emptied(s) EXCEPT !.failed = TRUE]

PublishFailure ==
    /\ worker.at = "publish"
    /\ session' = PublishedFailure(session)
    /\ worker' = Forward(worker.hand, "announce")
    /\ UNCHANGED <<backend, main, asr, holder, notified, text, history>>

AppendEvents ==
    /\ worker.at = "append"
    /\ session' = [session EXCEPT !.events = @ \o worker.hand]
    /\ worker' = [worker EXCEPT !.at = "wake", !.hand = <<>>]
    /\ UNCHANGED <<backend, main, asr, holder, notified, text, history>>

(* Faulty variant: the failure itself wakes nobody. *)
WakeForEventsOnly == IF worker.at = "wake" THEN TRUE ELSE notified

WakeCallback == TRUE

InvokeWakeCallback ==
    /\ worker.at \in {"wake", "announce"}
    /\ notified' = WakeCallback
    /\ worker' = [worker EXCEPT !.at = IF worker.at = "wake" THEN worker.then ELSE "cancel"]
    /\ UNCHANGED <<session, backend, main, asr, holder, text, history>>

BackendFinish ==
    /\ worker.at = "finish"
    /\ \E ok \in BOOLEAN, last \in Emits(backend.texts), complains \in BOOLEAN :
         LET events == last \o (IF complains THEN <<Plain("error")>> ELSE <<>>)
                            \o (IF ok \/ complains THEN <<Plain("completed")>> ELSE <<>>)
         IN  /\ complains => ~ok
             /\ worker' = [Forward(events, "complete") EXCEPT !.ok = ok]
             /\ backend' = [backend EXCEPT !.ends = @ + 1, !.texts = TextsAfter(events)]
             /\ history' = [history EXCEPT !.broke = @ \/ ~ok]
    /\ UNCHANGED <<session, main, asr, holder, notified, text>>

(* Nothing in the contract makes a cancelled backend emit an event. *)
BackendCancel ==
    /\ worker.at = "cancel"
    /\ \E events \in {<<>>, <<Plain("completed")>>} :
         worker' = [Forward(events, "complete") EXCEPT !.ok = FALSE]
    /\ backend' = [backend EXCEPT !.ends = @ + 1]
    /\ UNCHANGED <<session, main, asr, holder, notified, text, history>>

Complete ==
    /\ worker.at = "complete"
    /\ session' = [session EXCEPT !.complete = TRUE, !.success = worker.ok]
    /\ worker' = [worker EXCEPT !.at = "exited"]
    /\ UNCHANGED <<backend, main, asr, holder, notified, text, history>>

Run == \/ RunWait \/ BackendPushAudio \/ BackendRejectsAudio \/ PublishFailure \/ AppendEvents
       \/ InvokeWakeCallback \/ BackendFinish \/ BackendCancel \/ Complete

-----------------------------------------------------------------------------
(* The main thread while it owns the session.                              *)

NextChunk(size) == [id |-> Len(history.offered) + 1, size |-> size]

MayOffer == Len(history.offered) < MaxChunks

Offered(id) == [history EXCEPT !.offered = Append(@, id)]

(* HandleIncomingAudio pushes a chunk and fails the session if refused. *)
HandleIncomingAudio(size) ==
    /\ main.at = "loop" /\ holder = "active" /\ MayOffer
    /\ LET push == PushAudio(session, NextChunk(size))
       IN  /\ session' = push.session
           /\ main' = [main EXCEPT !.at = IF push.ok THEN "loop" ELSE "fail"]
    /\ history' = Offered(NextChunk(size).id)
    /\ UNCHANGED <<worker, backend, asr, holder, notified, text>>

(* FlushDeferredActions drains the wake first, then reaps or polls. *)
FlushDeferredActions ==
    /\ main.at = "loop" /\ notified
    /\ notified' = FALSE
    /\ main' = [main EXCEPT !.at = CASE holder = "retired" -> "reap"
                                     [] holder = "active" -> "poll"
                                     [] OTHER -> "loop"]
    /\ UNCHANGED <<session, worker, backend, asr, holder, text, history>>

PollEvents ==
    /\ main.at = "poll"
    /\ main' = [at |-> "failure", taken |-> session.events]
    /\ session' = [session EXCEPT !.events = <<>>]
    /\ UNCHANGED <<worker, backend, asr, holder, notified, text, history>>

(* FailureError() and the Error events decide; the rest is applied. *)
FailureError ==
    /\ main.at = "failure"
    /\ text' = LastFinal(main.taken, text)
    /\ main' = [at |-> IF session.failed \/ HasError(main.taken) THEN "fail" ELSE "loop",
                taken |-> <<>>]
    /\ UNCHANGED <<session, worker, backend, asr, holder, notified, history>>

(* Faulty variant: the failed session stays the active one. *)
FailWithoutDetaching ==
    /\ main.at = "fail"
    /\ history' = [history EXCEPT !.reports = @ + 1]
    /\ main' = [main EXCEPT !.at = "loop"]
    /\ UNCHANGED <<session, worker, backend, asr, holder, notified, text>>

FailActiveSession ==
    /\ main.at = "fail"
    /\ holder' = "main"
    /\ main' = [main EXCEPT !.at = "cancel"]
    /\ history' = [history EXCEPT !.reports = @ + 1]
    /\ UNCHANGED <<session, worker, backend, asr, notified, text>>

(* CancelRecording, or StopRecording of an utterance that is too short. *)
CancelRecording ==
    /\ main.at = "loop" /\ holder = "active"
    /\ holder' = "main"
    /\ main' = [main EXCEPT !.at = "cancel"]
    /\ history' = [history EXCEPT !.cancelled = TRUE]
    /\ UNCHANGED <<session, worker, backend, asr, notified, text>>

(* The critical section of Cancel(), which returns early once cancelled. *)
Cancel ==
    /\ main.at = "cancel"
    /\ IF session.complete \/ session.cancel
         THEN main' = [main EXCEPT !.at = "retire"] /\ UNCHANGED session
         ELSE main' = [main EXCEPT !.at = "interrupt"] /\ session' = Emptied(session)
    /\ UNCHANGED <<worker, backend, asr, holder, notified, text, history>>

Interrupt ==
    /\ main.at = "interrupt"
    /\ backend' = [backend EXCEPT !.interrupted = TRUE]
    /\ main' = [main EXCEPT !.at = "retire"]
    /\ UNCHANGED <<session, worker, asr, holder, notified, text, history>>

RetireSession ==
    /\ main.at = "retire"
    /\ holder' = "retired"
    /\ notified' = TRUE
    /\ main' = [main EXCEPT !.at = "loop"]
    /\ UNCHANGED <<session, worker, backend, asr, text, history>>

(* Faulty variant: the destructor does not wait for the worker. *)
JoinedAlways == TRUE

Joined == worker.at = "exited"

(* ~AsyncRecognitionSession of a session that was cancelled before: its    *)
(* own Cancel() returns early, join() waits for the worker.                *)
FlushReapedSessions ==
    /\ main.at = "reap" /\ Joined
    /\ holder' = "destroyed"
    /\ main' = [main EXCEPT !.at = "loop"]
    /\ UNCHANGED <<session, worker, backend, asr, notified, text, history>>

StopRecording ==
    /\ main.at = "loop" /\ holder = "active"
    /\ holder' = "order"
    /\ UNCHANGED <<session, worker, backend, main, asr, notified, text, history>>

-----------------------------------------------------------------------------
(* The recognition thread, once the session is part of an order.           *)

(* The tail of the recording, empty or one more chunk.  A refused tail is  *)
(* reported by the exception handler.                                      *)
PushTail ==
    /\ asr = "idle" /\ holder = "order"
    /\ \/ asr' = "finish" /\ UNCHANGED <<session, history>>
       \/ \E size \in ChunkSizes :
            /\ MayOffer
            /\ LET push == PushAudio(session, NextChunk(size))
                   offered == Offered(NextChunk(size).id)
               IN  /\ session' = push.session
                   /\ asr' = IF push.ok THEN "finish" ELSE "drop"
                   /\ history' = IF push.ok THEN offered
                                 ELSE [offered EXCEPT !.reports = @ + 1, !.result = "failed"]
    /\ UNCHANGED <<worker, backend, main, holder, notified, text>>

Finish ==
    /\ asr = "finish"
    /\ session' = RequestFinish(session)
    /\ asr' = "wait"
    /\ UNCHANGED <<worker, backend, main, holder, notified, text, history>>

FinishSessionAndCollectResult ==
    /\ asr = "wait" /\ session.complete
    /\ LET ok == session.success /\ ~HasError(session.events)
       IN  /\ history' = [history EXCEPT !.result = IF ok THEN "ok" ELSE "failed",
                                         !.reports = IF ok THEN @ ELSE @ + 1]
           /\ text' = IF ok THEN LastFinal(session.events, text) ELSE text
    /\ session' = [session EXCEPT !.events = <<>>]
    /\ asr' = "drop"
    /\ UNCHANGED <<worker, backend, main, holder, notified>>

(* order.session.reset(): the destructor runs on this thread. *)
DropSession ==
    /\ asr = "drop" /\ Joined
    /\ holder' = "destroyed"
    /\ asr' = "done"
    /\ UNCHANGED <<session, worker, backend, main, notified, text, history>>

MainThread == \/ \E size \in ChunkSizes : HandleIncomingAudio(size)
              \/ FlushDeferredActions \/ PollEvents \/ FailureError \/ FailActiveSession
              \/ CancelRecording \/ Cancel \/ Interrupt \/ RetireSession
              \/ FlushReapedSessions \/ StopRecording

AsrThread == PushTail \/ Finish \/ FinishSessionAndCollectResult \/ DropSession

Next == Run \/ MainThread \/ AsrThread

(* The worker and the recognition thread run to their next wait, and every *)
(* backend call returns (providers are given timeouts).  The main thread   *)
(* serves its wake-ups and finishes what it began; that the user speaks,   *)
(* stops or cancels is not assumed.                                        *)
Fairness ==
    /\ WF_vars(Run)
    /\ WF_vars(AsrThread)
    /\ WF_vars(FlushDeferredActions \/ PollEvents \/ FailureError \/ FailActiveSession
                 \/ Cancel \/ Interrupt \/ RetireSession \/ FlushReapedSessions)

Spec == Init /\ [][Next]_vars /\ Fairness

-----------------------------------------------------------------------------
(* Types of the state; queued_samples_ is the size of what is queued and   *)
(* never exceeds the bound of the queue.                                   *)
TypeOK ==
    /\ session \in [queue : Seq(Chunk), queued : 0..MaxQueuedSamples, finish : BOOLEAN,
                    cancel : BOOLEAN, complete : BOOLEAN, success : BOOLEAN, failed : BOOLEAN,
                    events : Seq(Event)]
    /\ session.queued = MapThenSumSet(LAMBDA i : session.queue[i].size, DOMAIN session.queue)
    /\ worker \in [at : {"wait", "push", "publish", "append", "wake", "announce", "finish",
                         "cancel", "complete", "exited"},
                   chunk : 0..MaxChunks, hand : Seq(Event), ok : BOOLEAN,
                   then : {"wait", "announce", "complete"}]
    /\ backend \in [received : Seq(1..MaxChunks), texts : 0..MaxTexts, ends : 0..2,
                    interrupted : BOOLEAN]
    /\ main \in [at : {"loop", "poll", "failure", "fail", "cancel", "interrupt", "retire", "reap"},
                 taken : Seq(Event)]
    /\ asr \in {"idle", "finish", "wait", "drop", "done"}
    /\ holder \in {"active", "main", "retired", "order", "destroyed"}
    /\ notified \in BOOLEAN
    /\ text \in 0..MaxTexts

(* The backend hears the recording in order and without gaps, and an       *)
(* utterance is reported as recognised only when every chunk that was      *)
(* offered reached the backend before its Finish: a full queue or a        *)
(* rejected chunk fails the session instead of shortening the recording    *)
(* (PushAudio's overflow branch, Run's failure branch).                    *)
NoAudioLostSilently ==
    /\ Len(backend.received) <= Len(history.offered)
    /\ backend.received = SubSeq(history.offered, 1, Len(backend.received))
    /\ history.result = "ok" => backend.received = history.offered

(* A session that goes away was ended on the backend exactly once, by      *)
(* Finish or by Cancel, and its worker is no longer running: the           *)
(* destructor never frees a backend that is being called.                  *)
EndedOnceBeforeDestruction ==
    /\ holder = "destroyed" => worker.at = "exited" /\ backend.ends = 1
    /\ backend.ends <= 1

(* An utterance has one outcome.  A failed one gives one error             *)
(* notification, whichever of the refused push, the FailureError() poll,   *)
(* the Error event and the failed Finish is seen first; one the user       *)
(* cancelled gives none, although the interrupted backend call looks like  *)
(* a failure to the worker; and the text handed to post-processing is the  *)
(* last final text the backend produced, no matter whether the poll during *)
(* recording or Finish carried it (latest_final_text_ and                  *)
(* FinishSessionAndCollectResult).  Behind it the backend had one end.     *)
OneOutcome ==
    /\ EndedOnceBeforeDestruction
    /\ history.reports <= 1
    /\ history.cancelled => history.reports = 0
    /\ history.result = "ok" => text = backend.texts

(* Every session that was cancelled, failed or stopped is destroyed: a     *)
(* backend failure that left no Error event wakes the main thread as well, *)
(* and the joins in the destructor and the wait in Finish always end.      *)
SessionEnds == session.failed \/ holder # "active" ~> holder = "destroyed"
=============================================================================
