-------------------------- MODULE CommandStreaming --------------------------
(***************************************************************************)
(* CommandStreamingSession: a streaming recognition session whose backend  *)
(* is a child process that is given JSON lines on stdin and answers with   *)
(* JSON lines on stdout.  One thread (the worker of AsyncSession) makes    *)
(* the calls PushAudio*, then Finish or Cancel, then the destructor; a     *)
(* second one calls Interrupt() at any time.  The child and the            *)
(* ProcessSession that owns it are what ProcessSession.tla promises: lines *)
(* arrive in order, Cancelled follows a cancel, Exited comes last.         *)
(* A step ends where interrupted_ is read, where session_mutex_ is taken,  *)
(* and after each event and each line that is taken from the child.        *)
(***************************************************************************)
EXTENDS Naturals, Sequences, SequencesExt

CONSTANTS
    Partials,    \* partial texts the provider prints
    MaxPushes,   \* bound: chunks pushed
    MaxLines     \* bound: lines the provider prints, one or two at a time

VARIABLES
    cs,        \* the members that only the worker touches
    job,       \* the call the worker is in, its label, and *error
    child,     \* session_, the process and the events it published
    stopper,   \* the thread that interrupts: its label; interrupted_
    said       \* what PollEvents() delivered; the result of Finish()

streamVars == <<cs, job, child, stopper, said>>

(* Lines that change nothing (session_started, unknown types) are left out. *)
Lines == Partials \cup {"final", "closed", "bad"}

Outputs == {<<l>> : l \in Lines} \cup {<<k, l>> : k \in Lines, l \in Lines}

Nothing == [life |-> "none", kept |-> FALSE, cancel |-> FALSE, killed |-> FALSE, events |-> <<>>,
            lines |-> 0]

Init ==
    /\ cs = [started |-> FALSE, finished |-> FALSE, cancelled |-> FALSE, terminated |-> FALSE,
             completed |-> FALSE, emitted |-> FALSE, saw_error |-> FALSE, saw_final |-> FALSE,
             exited |-> FALSE, killed |-> FALSE, partial |-> "", buffer |-> <<>>, events |-> <<>>]
    /\ job = [at |-> "idle", op |-> "none", error |-> FALSE, pushes |-> 0, then |-> "idle", strict |-> TRUE,
              failed |-> FALSE, grace |-> FALSE]
    /\ child = Nothing
    /\ stopper = [at |-> "idle", interrupted |-> FALSE]
    /\ said = [events |-> <<>>, result |-> "none"]

-----------------------------------------------------------------------------
(* What is done to the members, as functions of them.                      *)

QueueError(c) == [c EXCEPT !.saw_error = TRUE, !.events = Append(@, "error")]

QueueCompleted(c) ==
    IF c.emitted THEN c
    ELSE [c EXCEPT !.emitted = TRUE, !.completed = TRUE, !.events = Append(@, "completed")]

HandleOutputLine(c, line) ==
    CASE line \in Partials ->
           IF line = c.partial THEN c
           ELSE [c EXCEPT !.partial = line, !.events = Append(@, "partial")]
      [] line = "final" ->
           [c EXCEPT !.saw_final = TRUE, !.partial = "", !.events = Append(@, "final")]
      [] line = "closed" -> [c EXCEPT !.completed = TRUE]
      [] OTHER -> c

HandleExited(c, event) ==
    LET gone == [c EXCEPT !.exited = TRUE, !.killed = event.killed]
    IN  IF ~event.killed /\ event.code # 0 /\ ~c.saw_error /\ ~c.saw_final
          THEN QueueError(gone) ELSE gone

HandleEvent(c, event) ==
    CASE event.kind = "StdoutChunk" -> [c EXCEPT !.buffer = @ \o event.lines]
      [] event.kind = "Cancelled" -> [c EXCEPT !.killed = TRUE]
      [] OTHER -> HandleExited(c, event)

-----------------------------------------------------------------------------
(* The worker.  A call that returns is followed by PollEvents().           *)

Polled(c) == [c EXCEPT !.events = <<>>]

Deliver(c, result) == said' = [events |-> said.events \o c.events, result |-> result]

(* Terminate() cancels and destroys session_, which joins its pump. *)
Terminate(c) == IF c.terminated \/ ~child.kept THEN child ELSE Nothing

(* DrainEvents: take events until there is none, then go on at `then`.     *)
(* With strict (error # nullptr) a bad line ends the drain in failure.     *)
Drain(then, strict) == [job EXCEPT !.at = "drain", !.then = then, !.strict = strict]

NextEvent ==
    /\ job.at = "drain" /\ child.kept /\ child.events # <<>>
    /\ cs' = HandleEvent(cs, Head(child.events))
    /\ child' = [child EXCEPT !.events = Tail(@)]
    /\ job' = [job EXCEPT !.at = IF Head(child.events).kind = "StdoutChunk" THEN "lines" ELSE @]
    /\ UNCHANGED <<stopper, said>>

NoEvent ==
    /\ job.at = "drain" /\ (~child.kept \/ child.events = <<>>)
    /\ job' = [job EXCEPT !.at = job.then, !.failed = FALSE]
    /\ UNCHANGED <<cs, child, stopper, said>>

(* The lines of the buffer are handled up to the first bad one, which is   *)
(* dropped; what follows it stays until the provider prints again.         *)
ConsumeStdoutLines ==
    /\ job.at = "lines"
    /\ IF cs.buffer = <<>> THEN job' = [job EXCEPT !.at = "drain"] /\ UNCHANGED cs
       ELSE /\ cs' = [HandleOutputLine(cs, Head(cs.buffer)) EXCEPT !.buffer = Tail(@)]
            /\ job' = IF Head(cs.buffer) # "bad" THEN job
                      ELSE IF job.strict
                        THEN [job EXCEPT !.at = job.then, !.failed = TRUE, !.error = TRUE]
                      ELSE [job EXCEPT !.at = "drain"]
    /\ UNCHANGED <<child, stopper, said>>

PushAudio ==
    /\ job.at = "idle" /\ stopper.at = "idle" /\ job.pushes < MaxPushes
    /\ job' = [job EXCEPT !.at = "ensure", !.op = "push", !.pushes = @ + 1, !.error = FALSE]
    /\ UNCHANGED <<cs, child, stopper, said>>

Finish ==
    /\ job.at = "idle" /\ stopper.at = "idle"
    /\ job' = [job EXCEPT !.at = "ensure", !.op = "finish", !.error = FALSE]
    /\ UNCHANGED <<cs, child, stopper, said>>

(* A refused push ends in Cancel(), a refused Finish in the destructor. *)
Refused(c, error) ==
    /\ cs' = Polled(c)
    /\ IF job.op = "push"
         THEN Deliver(c, said.result) /\ job' = [job EXCEPT !.at = "cancel", !.error = error]
         ELSE Deliver(c, "failed") /\ job' = [job EXCEPT !.at = "ended", !.error = error]

(* The body of EnsureStarted before session_mutex_; Start() may fail. *)
EnsureStarted ==
    /\ job.at = "ensure"
    /\ IF cs.cancelled \/ stopper.interrupted THEN Refused(cs, TRUE) /\ UNCHANGED child
       ELSE IF cs.started
         THEN job' = [job EXCEPT !.at = "send"] /\ UNCHANGED <<cs, child, said>>
       ELSE \/ /\ child' = [child EXCEPT !.life = "running"]
               /\ job' = [job EXCEPT !.at = "emplace"]
               /\ UNCHANGED <<cs, said>>
            \/ Refused(QueueCompleted(QueueError(cs)), TRUE) /\ UNCHANGED child
    /\ UNCHANGED stopper

(* Faulty variant: the flag is not looked at again under the lock. *)
InterruptedMeanwhileUnseen == FALSE

InterruptedMeanwhile == stopper.interrupted

(* The critical section: a session interrupted while the child was started *)
(* drops it, and returns without an error text.                            *)
Emplace ==
    /\ job.at = "emplace"
    /\ IF InterruptedMeanwhile THEN child' = Nothing /\ Refused(cs, FALSE)
       ELSE /\ child' = [child EXCEPT !.kept = TRUE]
            /\ cs' = [cs EXCEPT !.started = TRUE]
            /\ job' = [job EXCEPT !.at = "send"]
            /\ UNCHANGED said
    /\ UNCHANGED stopper

(* Finish() gives up: the failure and Completed are events. *)
FinishFails(c, error) ==
    LET failed == QueueCompleted(QueueError(c))
    IN  /\ cs' = [Polled(failed) EXCEPT !.terminated = TRUE]
        /\ child' = Terminate(failed)
        /\ Deliver(failed, "failed")
        /\ job' = [job EXCEPT !.at = "ended", !.error = error]

(* PushStdin takes the line unless the pump has ended; it may refuse one   *)
(* because the queue is full or stdin is closed.                           *)
PushStdin == IF child.life = "over" THEN {FALSE} ELSE BOOLEAN

SendJsonLine ==
    /\ job.at = "send"
    /\ cs' = [cs EXCEPT !.finished = job.op = "finish"]
    /\ \E taken \in PushStdin :
         job' = IF ~taken THEN Drain("refused", FALSE)
                ELSE IF job.op = "finish" THEN [job EXCEPT !.at = "wait"]
                ELSE Drain("pushed", TRUE)
    /\ UNCHANGED <<child, stopper, said>>

SendRefused ==
    /\ job.at = "refused"
    /\ IF job.op = "finish" THEN FinishFails(cs, TRUE) ELSE Refused(cs, TRUE) /\ UNCHANGED child
    /\ UNCHANGED stopper

PushEnds ==
    /\ job.at = "pushed"
    /\ IF job.failed THEN Refused(cs, TRUE)
       ELSE /\ cs' = Polled(cs)
            /\ Deliver(cs, said.result)
            /\ job' = [job EXCEPT !.at = "idle", !.op = "none"]
    /\ UNCHANGED <<child, stopper>>

(* The loop that waits for the final text, then 200 ms in which the        *)
(* provider may correct it.                                                *)
AwaitFinal ==
    /\ job.at = "wait"
    /\ job' = IF ~cs.saw_final /\ ~cs.completed /\ ~cs.exited THEN Drain("waited", TRUE)
              ELSE [job EXCEPT !.at = IF cs.saw_final THEN "grace" ELSE "last"]
    /\ UNCHANGED <<cs, child, stopper, said>>

(* Faulty variant: the provider may take for ever. *)
NeverTimesOut == FALSE

TimesOut == TRUE

(* A round that is late fails even when its drain brought the text; *error *)
(* is then copied from the Completed event, where it is empty.             *)
AwaitRound ==
    /\ job.at = "waited"
    /\ \/ (job.failed \/ TimesOut) /\ FinishFails(cs, job.failed)
       \/ /\ ~job.failed
          /\ job' = [job EXCEPT !.at = "wait"]
          /\ UNCHANGED <<cs, child, said>>
    /\ UNCHANGED stopper

Grace ==
    /\ job.at = "grace"
    /\ \/ job' = [job EXCEPT !.at = "last"]
       \/ ~cs.completed /\ ~cs.exited /\ job' = Drain("graced", TRUE)
    /\ UNCHANGED <<cs, child, stopper, said>>

GraceRound ==
    /\ job.at = "graced"
    /\ job' = [job EXCEPT !.at = IF job.failed THEN "last" ELSE "grace", !.grace = job.failed]
    /\ UNCHANGED <<cs, child, stopper, said>>

LastDrain ==
    /\ job.at = "last"
    /\ job' = Drain("close", FALSE)
    /\ UNCHANGED <<cs, child, stopper, said>>

(* Faulty variant: an empty answer is no error. *)
NoTextAccepted(c) == c

NoText(c) ==
    IF ~c.saw_final /\ ~c.saw_error /\ ~c.cancelled /\ ~c.killed THEN QueueError(c) ELSE c

(* After the last drain: the missing text, Completed, Terminate(). *)
Close ==
    /\ job.at = "close"
    /\ LET c == QueueCompleted(NoText(cs))
       IN  /\ cs' = [c EXCEPT !.terminated = TRUE]
           /\ child' = Terminate(c)
    /\ job' = [job EXCEPT !.at = "verdict"]
    /\ UNCHANGED <<stopper, said>>

Verdict ==
    /\ job.at = "verdict"
    /\ LET cut == cs.cancelled \/ cs.killed \/ stopper.interrupted
           ok == ~cut /\ ~cs.saw_error /\ ~job.grace
           text == cut \/ (cs.saw_error /\ Contains(cs.events, "error")) \/ job.grace
       IN  /\ Deliver(cs, IF ok THEN "ok" ELSE "failed")
           /\ job' = [job EXCEPT !.at = "ended", !.error = text]
    /\ cs' = Polled(cs)
    /\ UNCHANGED <<child, stopper>>

(* Run() cancels the session after a refused push or once asked to stop:   *)
(* a cancel line if the provider was started, Completed, Terminate().      *)
Cancel ==
    /\ job.at = "cancel" \/ (job.at = "idle" /\ stopper.at # "idle")
    /\ cs' = [cs EXCEPT !.cancelled = TRUE]
    /\ \E taken \in IF cs.started THEN PushStdin ELSE {TRUE} :
         job' = [IF taken THEN [job EXCEPT !.at = "cancelled"] ELSE Drain("cancelled", FALSE)
                   EXCEPT !.op = "cancel"]
    /\ UNCHANGED <<child, stopper, said>>

CancelEnds ==
    /\ job.at = "cancelled"
    /\ LET c == QueueCompleted(cs)
       IN  /\ cs' = [Polled(c) EXCEPT !.terminated = TRUE]
           /\ Deliver(c, said.result)
           /\ child' = Terminate(c)
    /\ job' = [job EXCEPT !.at = "ended"]
    /\ UNCHANGED stopper

(* The thread that destroys the session is the one that interrupted it. *)
Destroy ==
    /\ job.at = "ended" /\ stopper.at # "flagged"
    /\ child' = Terminate(cs)
    /\ cs' = [cs EXCEPT !.terminated = TRUE]
    /\ job' = [job EXCEPT !.at = "gone"]
    /\ UNCHANGED <<stopper, said>>

Worker == \/ PushAudio \/ Finish \/ NextEvent \/ NoEvent \/ ConsumeStdoutLines
          \/ EnsureStarted \/ Emplace \/ SendJsonLine \/ SendRefused \/ PushEnds
          \/ AwaitFinal \/ AwaitRound \/ Grace \/ GraceRound \/ LastDrain \/ Close \/ Verdict
          \/ Cancel \/ CancelEnds \/ Destroy

-----------------------------------------------------------------------------
(* AsyncRecognitionSession::Cancel(): the request, then Interrupt().  A    *)
(* full queue makes the request alone.  The call ends before destruction.  *)

RequestCancel ==
    /\ stopper.at = "idle" /\ job.at \notin {"ended", "gone"}
    /\ stopper' = [stopper EXCEPT !.at = "asked"]
    /\ UNCHANGED <<cs, job, child, said>>

InterruptFlag ==
    /\ stopper.at = "asked" /\ job.at # "gone"
    /\ stopper' = [at |-> "flagged", interrupted |-> TRUE]
    /\ UNCHANGED <<cs, job, child, said>>

InterruptSession ==
    /\ stopper.at = "flagged"
    /\ stopper' = [stopper EXCEPT !.at = "done"]
    /\ child' = IF child.kept THEN [child EXCEPT !.cancel = TRUE] ELSE child
    /\ UNCHANGED <<cs, job, said>>

-----------------------------------------------------------------------------
(* The child and the pump of its ProcessSession.                           *)

Publishes(event) == [child EXCEPT !.events = Append(@, event)]

ChildPrints ==
    /\ child.life \in {"running", "dying"}
    /\ \E lines \in Outputs :
         /\ child.lines + Len(lines) <= MaxLines
         /\ child' = [Publishes([kind |-> "StdoutChunk", lines |-> lines])
                        EXCEPT !.lines = @ + Len(lines)]
    /\ UNCHANGED <<cs, job, stopper, said>>

PumpSeesCancel ==
    /\ child.life = "running" /\ child.cancel
    /\ child' = [Publishes([kind |-> "Cancelled"]) EXCEPT !.life = "dying", !.killed = TRUE]
    /\ UNCHANGED <<cs, job, stopper, said>>

ChildExits ==
    /\ child.life \in {"running", "dying"}
    /\ \E code \in {0, 1} :
         child' = [Publishes([kind |-> "Exited", code |-> code, killed |-> child.killed])
                     EXCEPT !.life = "over"]
    /\ UNCHANGED <<cs, job, stopper, said>>

Next == \/ Worker
        \/ RequestCancel \/ InterruptFlag \/ InterruptSession
        \/ ChildPrints \/ PumpSeesCancel \/ ChildExits

(* The threads finish the calls they are in; a deadline that stays set     *)
(* passes.                                                                 *)
StreamFairness ==
    /\ WF_streamVars(job.at # "idle" /\ Worker)
    /\ WF_streamVars(InterruptSession)
    /\ SF_streamVars(AwaitRound /\ job'.at = "ended")
    /\ SF_streamVars(Grace /\ job'.at = "last")

Spec == Init /\ [][Next]_streamVars /\ StreamFairness

-----------------------------------------------------------------------------
Count(kind) == Len(SelectSeq(said.events, LAMBDA e : e = kind))

(* No provider is left behind: once Interrupt() has returned, a child that *)
(* the session holds has been told to stop, also when the interrupt fell   *)
(* between Start() and the lock of EnsureStarted; and a destroyed session  *)
(* has no child.                                                           *)
ProviderNotLeftBehind ==
    /\ stopper.at = "done" /\ child.kept => child.cancel
    /\ job.at = "gone" => child = Nothing

(* The result of Finish() agrees with the events the caller polled: success *)
(* means a final text and no error; a failure that nobody asked for comes  *)
(* with an Error event or an error text; Completed is the last event, and  *)
(* comes exactly once unless the session was interrupted.                  *)
VerdictMatchesEvents ==
    /\ said.result = "ok" => Count("final") > 0 /\ Count("error") = 0
    /\ said.result = "failed" /\ ~stopper.interrupted => Count("error") > 0 \/ job.error
    /\ Count("completed") <= 1
    /\ Contains(said.events, "completed") => Last(said.events) = "completed"
    /\ job.at \in {"ended", "gone"} /\ ~stopper.interrupted => Contains(said.events, "completed")

(* Finish() returns, whatever the provider prints or fails to print: the   *)
(* wait and the grace period have deadlines.                               *)
FinishEnds == job.op = "finish" ~> job.at = "gone"
=============================================================================
