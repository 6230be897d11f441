---------------------------- MODULE CommandBatch ----------------------------
(***************************************************************************)
(* CommandBatchSession: a recognition session that keeps the audio and     *)
(* runs a command on all of it in Finish(), through process::Run, which    *)
(* feeds the child's stdin, reads its two outputs and waits for its end    *)
(* on the calling thread, the worker of AsyncSession.  That worker makes   *)
(* every call, so Cancel() never meets a running Finish(); Interrupt() is  *)
(* the empty one of RecognitionSession.                                    *)
(* Audio and output are counted in units.  The child commits to a read or  *)
(* a write before it makes it, and waits in it while the pipe is empty or  *)
(* full.  Times are choices: the deadline may have passed at any look at   *)
(* the clock, the grace after the child's end once a round was completed   *)
(* in it (200 ms are taken to be longer than a round that has data).       *)
(* Left out: fcntl failing on a fresh pipe, a child that survives SIGKILL, *)
(* a signal that interrupts poll(), which only repeats the round, and what *)
(* a helper does once Run has returned.                                    *)
(***************************************************************************)
EXTENDS Naturals, Sequences, FiniteSetsExt

CONSTANTS
    MaxAudio,      \* bound: units of audio pushed
    MaxPrint,      \* bound: units the child prints
    PipeSize,      \* what a pipe holds
    Budget,        \* kReadBudgetBytes
    MaxBatchLines  \* kMaxBatchNotifications; a unit of stderr is a line

(* A pipe holds 64 KiB, and so much is read of it at a time. *)
ASSUME BudgetCoversPipe == PipeSize \in Nat \ {0} /\ Budget \in Nat /\ Budget >= PipeSize
ASSUME LinesAreCounted == MaxBatchLines \in Nat

Outs == {"out", "err"}

VARIABLES
    batch,    \* the session: its members, the label of the worker, what was polled
    run,      \* the call of Run: its label, the pump's variables, the outcome
    command,  \* the child, with the helper it may leave behind
    pipes     \* what the three pipes hold

batchVars == <<batch, run, command, pipes>>

NoRun == [at |-> "none", offset |-> 0, in_open |-> FALSE, input_closed |-> FALSE, open |-> {},
          ready |-> {}, text |-> [c \in Outs |-> 0], exited |-> FALSE, drained |-> FALSE,
          timed_out |-> FALSE, broke |-> FALSE]

NoChild == [life |-> "none", code |-> 0, doing |-> "think", holds |-> {}, eof |-> FALSE,
            printed |-> [c \in Outs |-> 0], blank |-> FALSE, helper |-> FALSE, late |-> 0]

BatchInit ==
    /\ \E timeout \in BOOLEAN :
         batch = [at |-> "idle", timeout |-> timeout, finished |-> FALSE, pcm |-> 0,
                  said |-> <<>>, ok |-> FALSE, notified |-> 0]
    /\ run = NoRun /\ command = NoChild
    /\ pipes = [c \in Outs \cup {"in"} |-> 0]

-----------------------------------------------------------------------------
(* The session.  Each call is followed by the worker's PollEvents().       *)

PushAudio ==
    /\ batch.at = "idle" /\ ~batch.finished /\ batch.pcm < MaxAudio
    /\ batch' = [batch EXCEPT !.pcm = @ + 1]
    /\ UNCHANGED <<run, command, pipes>>

(* At most so many lines of stderr become notifications. *)
DeliverStderr(lines) == Min({lines, MaxBatchLines})

(* What Finish() makes of the result of Run; the text is trimmed first.    *)
FinishEnds(started, code, lines) ==
    LET text == run.text["out"] > 0 /\ ~command.blank
        ok == started /\ ~run.timed_out /\ code = 0 /\ text
    IN  batch' = [batch EXCEPT !.at = "done", !.finished = TRUE, !.ok = ok,
                               !.notified = DeliverStderr(lines),
                               !.said = <<IF ok THEN "final" ELSE "error", "completed">>]

(* The child is spawned with three pipes; an empty input is closed at once. *)
Finish ==
    /\ batch.at = "idle"
    /\ batch' = [batch EXCEPT !.at = "run", !.finished = TRUE]
    /\ run' = [NoRun EXCEPT !.at = "loop", !.in_open = batch.pcm > 0,
                            !.input_closed = batch.pcm = 0, !.open = Outs]
    /\ command' = [NoChild EXCEPT !.life = "running", !.holds = Outs \cup {"in"}]
    /\ UNCHANGED pipes

(* There is no such command: the error text of the spawn is the stderr.    *)
FinishCannotStart ==
    /\ batch.at = "idle"
    /\ FinishEnds(FALSE, 0, 1)
    /\ UNCHANGED <<run, command, pipes>>

CancelBatch ==
    /\ batch.at = "idle"
    /\ batch' = [batch EXCEPT !.at = "done", !.finished = TRUE, !.pcm = 0, !.said = <<"completed">>]
    /\ UNCHANGED <<run, command, pipes>>

-----------------------------------------------------------------------------
(* PumpProcess.                                                            *)

Held(c) == c \in command.holds /\ (command.life = "running" \/ command.helper)

FinishInput(r) == [r EXCEPT !.in_open = FALSE, !.input_closed = TRUE]

Looping == run.at = "loop" /\ (run.in_open \/ run.open # {} \/ ~run.exited)

LoopEnds ==
    /\ run.at = "loop" /\ ~Looping
    /\ run' = [run EXCEPT !.at = "after"]
    /\ UNCHANGED <<batch, command, pipes>>

(* proc.poll() reaps the child; what it did not read it never will. *)
Reaps == ~run.exited /\ command.life = "zombie"

Looked ==
    IF ~Reaps THEN run
    ELSE [IF run.in_open THEN FinishInput(run) ELSE run EXCEPT !.exited = TRUE]

LookForExit ==
    /\ Looping
    /\ command' = [command EXCEPT !.life = IF Reaps THEN "reaped" ELSE @]
    /\ UNCHANGED <<batch, pipes>>

DeadlinePasses ==
    /\ LookForExit /\ batch.timeout
    /\ run' = [Looked EXCEPT !.at = "after", !.timed_out = TRUE, !.in_open = FALSE]

(* Faulty variant: the output a child leaves behind is not waited for. *)
GraceOverAtOnce == Looked.exited

GraceOver == run.exited /\ run.drained

GracePasses ==
    /\ LookForExit /\ GraceOver
    /\ run' = [Looked EXCEPT !.at = "after"]

TimeLeft ==
    /\ LookForExit
    /\ run' = [Looked EXCEPT !.at = "poll"]

(* poll() with what is ready by now, if anything; without a channel the    *)
(* round is a sleep.                                                       *)
PollPipes ==
    /\ run.at = "poll"
    /\ run' = [run EXCEPT
                 !.at = IF run.in_open \/ run.open # {} THEN "write" ELSE "loop",
                 !.ready = {c \in run.open : pipes[c] > 0 \/ ~Held(c)}
                             \cup {c \in {"in"} : run.in_open /\ (pipes[c] < PipeSize \/ ~Held(c))}]
    /\ UNCHANGED <<batch, command, pipes>>

PollPipesFails ==
    /\ run.at = "poll" /\ (run.in_open \/ run.open # {})
    /\ run' = [run EXCEPT !.at = "after", !.broke = TRUE]
    /\ UNCHANGED <<batch, command, pipes>>

(* Faulty variant: stdin stays open when everything is written. *)
AllWrittenStaysOpen(offset) == FALSE

AllWritten(offset) == offset >= batch.pcm

(* One write of what fits; nobody reading is EPIPE or POLLERR. *)
WriteInput ==
    /\ run.at = "write"
    /\ IF "in" \notin run.ready
         THEN run' = [run EXCEPT !.at = "drain"] /\ UNCHANGED pipes
       ELSE IF ~Held("in")
         THEN run' = [FinishInput(run) EXCEPT !.at = "drain"] /\ UNCHANGED pipes
       ELSE LET written == Min({PipeSize - pipes["in"], batch.pcm - run.offset})
                after == [run EXCEPT !.at = "drain", !.offset = @ + written]
            IN  /\ run' = IF AllWritten(after.offset) THEN FinishInput(after) ELSE after
                /\ pipes' = [pipes EXCEPT !["in"] = @ + written]
    /\ UNCHANGED <<batch, command>>

(* Faulty variant: a channel that used up its budget counts as closed. *)
SeenClosedAnyway(c, read) == ~Held(c) \/ read = Budget

(* The read that returns 0 is made within the budget or not at all. *)
SeenClosed(c, read) == ~Held(c) /\ read < Budget

DrainBudgeted(c) == IF c \in run.ready THEN Min({pipes[c], Budget}) ELSE 0

(* Each ready channel is read within a budget of its own. *)
DrainOutputs ==
    /\ run.at = "drain"
    /\ \E read \in {[c \in Outs |-> DrainBudgeted(c)]} :
         /\ run' = [run EXCEPT !.at = "loop", !.drained = run.exited, !.ready = {},
                               !.text = [c \in Outs |-> @[c] + read[c]],
                               !.open = {c \in @ : c \in run.ready => ~SeenClosed(c, read[c])}]
         /\ pipes' = [c \in DOMAIN pipes |-> IF c \in Outs THEN pipes[c] - read[c] ELSE pipes[c]]
    /\ UNCHANGED <<batch, command>>

(* However the loop ended: one more look at the child, and its EOF. *)
PumpEnds ==
    /\ run.at = "after"
    /\ run' = [FinishInput(run) EXCEPT !.at = "result", !.exited = @ \/ command.life = "zombie"]
    /\ command' = [command EXCEPT !.life = IF @ = "zombie" THEN "reaped" ELSE @]
    /\ UNCHANGED <<batch, pipes>>

-----------------------------------------------------------------------------
(* The end of Run.                                                         *)

Over == run' = [run EXCEPT !.at = "over"] /\ UNCHANGED pipes

(* Faulty variant: the deadline kills the leader only. *)
KillLeader == [command EXCEPT !.life = "reaped"]

(* killpg, then wait(). *)
KillGroup == [command EXCEPT !.life = "reaped", !.helper = FALSE]

RunTimedOut ==
    /\ run.at = "result" /\ run.timed_out
    /\ command' = KillGroup
    /\ FinishEnds(TRUE, 1, run.text["err"]) /\ Over

RunExited ==
    /\ run.at = "result" /\ ~run.timed_out /\ run.exited
    /\ FinishEnds(TRUE, command.code, run.text["err"]) /\ Over
    /\ UNCHANGED command

(* Only after poll() has failed: the wait has no deadline. *)
RunWaits ==
    /\ run.at = "result" /\ ~run.timed_out /\ ~run.exited /\ command.life = "zombie"
    /\ command' = [command EXCEPT !.life = "reaped"]
    /\ FinishEnds(TRUE, command.code, run.text["err"]) /\ Over

PumpProcess ==
    \/ LoopEnds \/ DeadlinePasses \/ GracePasses \/ TimeLeft \/ PollPipes \/ PollPipesFails
    \/ WriteInput \/ DrainOutputs \/ PumpEnds \/ RunTimedOut \/ RunExited \/ RunWaits

-----------------------------------------------------------------------------
(* The child, any program that reads its input, prints and ends, or hangs. *)

Does(doing) == command.life = "running" /\ command.doing = doing

Printed == command.printed["out"] + command.printed["err"]

Thinks ==
    /\ Does("think")
    /\ \E next \in {c \in Outs \cap command.holds : Printed < MaxPrint}
                     \cup {c \in {"in"} \cap command.holds : ~command.eof} \cup {"exit"} :
         command' = [command EXCEPT !.doing = next]
    /\ UNCHANGED <<batch, run, pipes>>

Reads ==
    /\ Does("in") /\ (pipes["in"] > 0 \/ run.input_closed)
    /\ command' = [command EXCEPT !.doing = "think", !.eof = pipes["in"] = 0]
    /\ pipes' = [pipes EXCEPT !["in"] = IF @ > 0 THEN @ - 1 ELSE 0]
    /\ UNCHANGED <<batch, run>>

Prints(c) ==
    /\ Does(c) /\ pipes[c] < PipeSize
    /\ command' = [command EXCEPT !.doing = "think", !.printed[c] = @ + 1]
    /\ pipes' = [pipes EXCEPT ![c] = @ + 1]
    /\ UNCHANGED <<batch, run>>

(* It closes its input, or both outputs. *)
Closes ==
    /\ Does("think")
    /\ \E gone \in {{"in"}, Outs} :
         /\ gone \subseteq command.holds
         /\ command' = [command EXCEPT !.holds = @ \ gone]
    /\ UNCHANGED <<batch, run, pipes>>

(* It may leave a helper behind that holds what it held; what it printed   *)
(* may be blank.                                                           *)
Exits ==
    /\ Does("exit")
    /\ \E code \in {0, 1}, helper, blank \in BOOLEAN :
         /\ blank => code = 0 /\ command.printed["out"] > 0
         /\ command' = [command EXCEPT !.life = "zombie", !.code = code, !.helper = helper,
                                        !.blank = blank]
    /\ UNCHANGED <<batch, run, pipes>>

Hangs ==
    /\ Does("think")
    /\ command' = [command EXCEPT !.doing = "hang"]
    /\ UNCHANGED <<batch, run, pipes>>

HelperPrints(c) ==
    /\ command.helper /\ run.at # "over" /\ c \in command.holds /\ command.late < 1
    /\ pipes[c] < PipeSize
    /\ command' = [command EXCEPT !.late = @ + 1]
    /\ pipes' = [pipes EXCEPT ![c] = @ + 1]
    /\ UNCHANGED <<batch, run>>

HelperExits ==
    /\ command.helper /\ run.at # "over"
    /\ command' = [command EXCEPT !.helper = FALSE]
    /\ UNCHANGED <<batch, run, pipes>>

CommandActs == \/ Thinks \/ Reads \/ Closes \/ Exits \/ Hangs \/ HelperExits
               \/ \E c \in Outs : Prints(c) \/ HelperPrints(c)

BatchNext == PushAudio \/ Finish \/ FinishCannotStart \/ CancelBatch \/ PumpProcess \/ CommandActs

BatchSpec == BatchInit /\ [][BatchNext]_batchVars

-----------------------------------------------------------------------------
(* When Run has returned, nothing the leader printed is missing, even if a *)
(* helper keeps the pipes open, unless the deadline passed or poll()       *)
(* failed; its stderr became notifications up to their bound.              *)
OutputIsWhole ==
    run.at = "over" /\ ~run.timed_out /\ ~run.broke =>
        /\ \A c \in Outs : run.text[c] >= command.printed[c]
        /\ batch.notified >= DeliverStderr(command.printed["err"])

(* A final text is the answer of a child that ended by itself and well,    *)
(* in time; whatever else happened is one error; Completed comes last.     *)
AnswerIsTrue ==
    /\ batch.ok => /\ command.life = "reaped" /\ command.code = 0 /\ ~command.blank
                   /\ ~run.timed_out /\ run.text["out"] > 0
    /\ batch.at = "done" =>
         batch.said \in {<<"completed">>, <<"error", "completed">>, <<"final", "completed">>}

(* When Run has returned no zombie is left, the child's stdin is closed,   *)
(* and a deadline took the helpers with it.                                *)
NothingLeftRunning ==
    run.at = "over" => /\ command.life = "reaped" /\ run.input_closed
                       /\ run.timed_out => ~command.helper

(* Run and the child never wait for each other: a child that waits for     *)
(* room in a pipe has that pipe read, one that waits for input has more    *)
(* written or its stdin closed.  A failed poll() is the exception, its     *)
(* wait() comes without a reader.                                          *)
NeitherWaitsForTheOther ==
    command.life = "running" /\ ~run.broke /\ ~run.timed_out =>
        /\ \A c \in Outs : Does(c) => c \in run.open
        /\ Does("in") /\ pipes["in"] = 0 => run.in_open \/ run.input_closed
        /\ run.in_open => run.offset < batch.pcm

(* What Finish() says of a command is true, and the command is over.       *)
BatchIsTruthful ==
    OutputIsWhole /\ AnswerIsTrue /\ NothingLeftRunning /\ NeitherWaitsForTheOther
=============================================================================
