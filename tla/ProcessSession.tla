--------------------------- MODULE ProcessSession ---------------------------
(***************************************************************************)
(* One streaming child process: the pump thread that owns the child and    *)
(* its pipes, the owner thread that hands over stdin and pops events, and  *)
(* the child itself with a helper it may have forked.                      *)
(* A stdin block is a run of numbered bytes; an output chunk is the number *)
(* of a read on its channel.  stdin_event_ and wake_event_ only shorten    *)
(* waits that end after a slice anyway, so they are not state; the cancel  *)
(* eventfd is.  What the child does with its input is left out: a byte     *)
(* written is a byte it got.                                               *)
(***************************************************************************)
EXTENDS Integers, Sequences

CONSTANTS
    Channels,           \* the output channels that are pipes
    Sinks,              \* those with a direct sink
    BlockSizes,         \* sizes of a PushStdin block
    MaxIn,              \* bound: bytes the owner pushes
    MaxOut,             \* bound: chunks the child prints
    StdinQueueCapacity, \* kStdinQueueCapacity
    MaxQueuedOutput,    \* kMaxQueuedOutputBytes, in chunks
    ReadBudget          \* kReadBudgetBytes, in chunks

ASSUME ChannelsAreOutputs == Channels \subseteq {"out", "err"} /\ Sinks \subseteq Channels
ASSUME SizesAreNatural == ReadBudget \in Nat /\ BlockSizes \subseteq Nat \ {0}

VARIABLES
    child,    \* the group: leader, helper, what was printed and received
    pipe,     \* what each output pipe holds
    flags,    \* the atomics, and whether cancel_event_ is readable
    stdin_queue,
    event_queue,
    queued_output,  \* queued_output_bytes_, in chunks
    pump,     \* the pump's label and its own members
    owner,    \* the owner's label and the block or event in hand
    history   \* what was accepted, delivered and promised

sessionVars == <<child, pipe, flags, stdin_queue, event_queue, queued_output, pump, owner, history>>

IsOutput(event) == event.kind \in Channels

Chunk(c, k) == [kind |-> c, n |-> k]

Plain(kind) == [kind |-> kind, n |-> 0]

(* Start(): the child runs, with or without a helper in its group. *)
SessionInit ==
    /\ child \in [leader : {"alive"}, helper : BOOLEAN, stuck : BOOLEAN, kill : {FALSE},
                  printed : {0}, received : {<<>>}]
    /\ pipe = [c \in Channels |-> <<>>]
    /\ flags = [stdin_closed |-> FALSE, finished |-> FALSE, cancel |-> FALSE]
    /\ stdin_queue = <<>> /\ event_queue = <<>> /\ queued_output = 0
    /\ pump = [at |-> "top", pending |-> <<>>, in_open |-> TRUE, open |-> Channels, ready |-> {},
               budget |-> 0, cancel_seen |-> FALSE, deadline |-> "none", reaped |-> FALSE,
               looping |-> TRUE, broke |-> FALSE]
    /\ owner = [at |-> "idle", hand |-> <<>>]
    /\ history = [accepted |-> <<>>, sunk |-> <<>>, delivered |-> <<>>, eof |-> "none"]

-----------------------------------------------------------------------------
(* The child and its helper.                                               *)

Writers == child.leader = "alive" \/ child.helper

ChildPrints(c) ==
    /\ Writers /\ child.printed < MaxOut
    /\ child' = [child EXCEPT !.printed = @ + 1]
    /\ pipe' = [pipe EXCEPT ![c] = Append(@, child.printed + 1)]
    /\ UNCHANGED <<flags, stdin_queue, event_queue, queued_output, pump, owner, history>>

(* The leader ends on its own, on SIGTERM if it likes, or on SIGKILL,      *)
(* unless it sleeps uninterruptibly.  A helper ends on SIGKILL, or before. *)
LeaderEnds ==
    /\ child.leader = "alive" /\ ~child.stuck
    /\ child' = [child EXCEPT !.leader = "zombie"]
    /\ UNCHANGED <<pipe, flags, stdin_queue, event_queue, queued_output, pump, owner, history>>

HelperEnds ==
    /\ child.helper
    /\ child' = [child EXCEPT !.helper = FALSE]
    /\ UNCHANGED <<pipe, flags, stdin_queue, event_queue, queued_output, pump, owner, history>>

-----------------------------------------------------------------------------
(* The pump thread.                                                        *)

InPump(at) == pump.at = at

PumpTo(at) == pump' = [pump EXCEPT !.at = at]

(* Faulty variant: the helpers of a reaped leader are left alone. *)
ReapWithoutKill ==
    /\ InPump("top") /\ child.leader = "zombie"
    /\ child' = [child EXCEPT !.leader = "reaped"]
    /\ pump' = [pump EXCEPT !.at = "drain", !.reaped = TRUE, !.looping = FALSE]
    /\ UNCHANGED <<pipe, flags, stdin_queue, event_queue, queued_output, owner, history>>

(* The child is gone; after a cancel its group is killed with it. *)
Reap ==
    /\ InPump("top") /\ child.leader = "zombie"
    /\ child' = [child EXCEPT !.leader = "reaped", !.kill = @ \/ pump.cancel_seen]
    /\ pump' = [pump EXCEPT !.at = "drain", !.reaped = TRUE, !.looping = FALSE]
    /\ UNCHANGED <<pipe, flags, stdin_queue, event_queue, queued_output, owner, history>>

(* The child runs and no deadline has come. *)
KeepRunning ==
    /\ InPump("top") /\ child.leader # "zombie"
    /\ PumpTo("feed")
    /\ UNCHANGED <<child, pipe, flags, stdin_queue, event_queue, queued_output, owner, history>>

(* Faulty variant: the force window never runs out. *)
ForceWindowForever == FALSE

(* SIGKILL cannot be ignored, so only a stuck child outlives the window. *)
ForceWindowOver == pump.deadline = "force" /\ child.stuck

(* The grace after SIGTERM is over, or the one after SIGKILL. *)
DeadlinePassed ==
    /\ InPump("top") /\ child.leader # "zombie"
    /\ \/ /\ pump.deadline = "terminate"
          /\ child' = [child EXCEPT !.kill = TRUE]
          /\ pump' = [pump EXCEPT !.at = "feed", !.deadline = "force"]
       \/ /\ ForceWindowOver
          /\ pump' = [pump EXCEPT !.at = "drain", !.looping = FALSE]
          /\ UNCHANGED child
    /\ UNCHANGED <<pipe, flags, stdin_queue, event_queue, queued_output, owner, history>>

(* A new block only when the last one is written; an empty queue is looked *)
(* at first, stdin_closed_ after it.                                       *)
Feed ==
    /\ InPump("feed")
    /\ IF pump.in_open /\ pump.pending = <<>>
         THEN IF stdin_queue # <<>>
                THEN /\ pump' = [pump EXCEPT !.at = "poll", !.pending = Head(stdin_queue)]
                     /\ stdin_queue' = Tail(stdin_queue)
                ELSE PumpTo("eof") /\ UNCHANGED stdin_queue
         ELSE PumpTo("poll") /\ UNCHANGED stdin_queue
    /\ UNCHANGED <<child, pipe, flags, event_queue, queued_output, owner, history>>

StdinClosed == [pump EXCEPT !.in_open = FALSE, !.pending = <<>>]

FeedEof ==
    /\ InPump("eof")
    /\ IF flags.stdin_closed
         THEN /\ pump' = [StdinClosed EXCEPT !.at = "poll"]
              /\ history' = [history EXCEPT !.eof = "clean"]
         ELSE PumpTo("poll") /\ UNCHANGED history
    /\ UNCHANGED <<child, pipe, flags, stdin_queue, event_queue, queued_output, owner>>

Pressure == queued_output >= MaxQueuedOutput

Readable(c) == pipe[c] # <<>> \/ ~Writers

Ready(writable) ==
    (IF pump.in_open /\ pump.pending # <<>> /\ writable THEN {"stdin"} ELSE {})
      \cup {c \in pump.open : ~Pressure /\ Readable(c)}
      \cup (IF flags.cancel THEN {"cancel"} ELSE {})

(* poll(): what is ready, or nothing within the slice. *)
Poll ==
    /\ InPump("poll")
    /\ \E writable \in BOOLEAN :
         pump' = [pump EXCEPT !.at = IF Ready(writable) = {} THEN "top" ELSE "write",
                              !.ready = Ready(writable)]
    /\ UNCHANGED <<child, pipe, flags, stdin_queue, event_queue, queued_output, owner, history>>

PollFails ==
    /\ InPump("poll")
    /\ pump' = [pump EXCEPT !.at = "drain", !.looping = FALSE, !.broke = TRUE]
    /\ UNCHANGED <<child, pipe, flags, stdin_queue, event_queue, queued_output, owner, history>>

(* write(): k bytes of the block, a closed pipe, or nothing (EAGAIN, or    *)
(* the pipe was not ready).                                                *)
WriteStdin(k) ==
    /\ InPump("write") /\ "stdin" \in pump.ready
    /\ child' = [child EXCEPT !.received = @ \o SubSeq(pump.pending, 1, k)]
    /\ pump' = [pump EXCEPT !.at = "service", !.pending = SubSeq(@, k + 1, Len(@))]
    /\ UNCHANGED <<pipe, flags, stdin_queue, event_queue, queued_output, owner, history>>

StdinBreaks ==
    /\ InPump("write") /\ "stdin" \in pump.ready
    /\ pump' = [StdinClosed EXCEPT !.at = "service"]
    /\ history' = [history EXCEPT !.eof = "broken"]
    /\ UNCHANGED <<child, pipe, flags, stdin_queue, event_queue, queued_output, owner>>

StdinWaits ==
    /\ InPump("write")
    /\ PumpTo("service")
    /\ UNCHANGED <<child, pipe, flags, stdin_queue, event_queue, queued_output, owner, history>>

(* The channel that is served next: stdout comes first in the code. *)
Current == IF "out" \in pump.ready THEN "out" ELSE "err"

(* ServiceOutputChannel, DrainOutput: nothing is read at the cap. *)
ServiceBegin ==
    /\ InPump("service")
    /\ pump' = IF pump.ready \cap Channels = {}
                 THEN [pump EXCEPT !.at = IF pump.looping THEN "cancel" ELSE "drain"]
               ELSE IF Current \notin Sinks /\ Pressure
                 THEN [pump EXCEPT !.ready = @ \ {Current}]
               ELSE [pump EXCEPT !.at = "read", !.budget = ReadBudget]
    /\ UNCHANGED <<child, pipe, flags, stdin_queue, event_queue, queued_output, owner, history>>

(* One read() of DrainBudgeted: to the sink, or as an event. *)
ServiceRead ==
    /\ InPump("read") /\ pump.budget > 0 /\ pipe[Current] # <<>>
    /\ pipe' = [pipe EXCEPT ![Current] = Tail(@)]
    /\ LET chunk == Chunk(Current, Head(pipe[Current]))
       IN  IF Current \in Sinks
             THEN /\ history' = [history EXCEPT !.sunk = Append(@, chunk)]
                  /\ pump' = [pump EXCEPT !.budget = @ - 1]
                  /\ UNCHANGED event_queue
             ELSE /\ event_queue' = Append(event_queue, chunk)
                  /\ pump' = [pump EXCEPT !.at = "count"]
                  /\ UNCHANGED history
    /\ UNCHANGED <<child, flags, stdin_queue, queued_output, owner>>

(* QueueEvent counts what it has queued: the owner may have popped it. *)
CountQueued ==
    /\ InPump("count")
    /\ queued_output' = queued_output + 1
    /\ pump' = [pump EXCEPT !.at = "read", !.budget = @ - 1]
    /\ UNCHANGED <<child, pipe, flags, stdin_queue, event_queue, owner, history>>

(* The budget is spent, the pipe is empty, or its last writer is gone. *)
ServiceEnd ==
    /\ InPump("read")
    /\ pump.budget = 0 \/ pipe[Current] = <<>>
    /\ pump' = [pump EXCEPT !.at = "service", !.ready = @ \ {Current},
                  !.open = IF pump.budget > 0 /\ ~Writers THEN @ \ {Current} ELSE @]
    /\ UNCHANGED <<child, pipe, flags, stdin_queue, event_queue, queued_output, owner, history>>

(* Faulty variant: the rest of the input is still written. *)
CancelKeepsStdin ==
    /\ InPump("cancel")
    /\ IF "cancel" \in pump.ready
         THEN /\ flags' = [flags EXCEPT !.cancel = FALSE]
              /\ IF pump.cancel_seen THEN PumpTo("top")
                 ELSE pump' = [pump EXCEPT !.at = "publish_cancel", !.cancel_seen = TRUE]
         ELSE PumpTo("top") /\ UNCHANGED flags
    /\ UNCHANGED <<child, pipe, stdin_queue, event_queue, queued_output, owner, history>>

(* Handled last: stdin is closed, then Cancelled published and the group   *)
(* asked to end.                                                           *)
SeeCancel ==
    /\ InPump("cancel")
    /\ IF "cancel" \in pump.ready
         THEN IF pump.cancel_seen
                THEN PumpTo("top") /\ flags' = [flags EXCEPT !.cancel = FALSE]
                ELSE /\ pump' = [StdinClosed EXCEPT !.at = "publish_cancel",
                                                    !.cancel_seen = TRUE]
                     /\ flags' = [flags EXCEPT !.cancel = FALSE, !.stdin_closed = TRUE]
         ELSE PumpTo("top") /\ UNCHANGED flags
    /\ UNCHANGED <<child, pipe, stdin_queue, event_queue, queued_output, owner, history>>

PublishCancel ==
    /\ InPump("publish_cancel")
    /\ event_queue' = Append(event_queue, Plain("Cancelled"))
    /\ pump' = [pump EXCEPT !.at = "top", !.deadline = "terminate"]
    /\ UNCHANGED <<child, pipe, flags, stdin_queue, queued_output, owner, history>>

(* After the loop: drain while a channel is open, for a bounded time. *)
DrainMore ==
    /\ InPump("drain") /\ pump.open # {}
    /\ pump' = [pump EXCEPT !.at = "service", !.ready = pump.open]
    /\ UNCHANGED <<child, pipe, flags, stdin_queue, event_queue, queued_output, owner, history>>

(* The last probe, and every channel is closed. *)
DrainEnds ==
    /\ InPump("drain")
    /\ pump' = [StdinClosed EXCEPT !.at = "publish_exit", !.open = {},
                                   !.reaped = @ \/ child.leader = "zombie"]
    /\ child' = [child EXCEPT !.leader = IF @ = "zombie" THEN "reaped" ELSE @]
    /\ UNCHANGED <<pipe, flags, stdin_queue, event_queue, queued_output, owner, history>>

(* Faulty variant: the pump reports itself finished without an event. *)
PublishNoExit == event_queue

PublishExit == Append(event_queue, Plain("Exited"))

QueueExited ==
    /\ InPump("publish_exit")
    /\ event_queue' = PublishExit
    /\ PumpTo("finish")
    /\ UNCHANGED <<child, pipe, flags, stdin_queue, queued_output, owner, history>>

Finished ==
    /\ InPump("finish")
    /\ flags' = [flags EXCEPT !.finished = TRUE]
    /\ PumpTo("exited")
    /\ UNCHANGED <<child, pipe, stdin_queue, event_queue, queued_output, owner, history>>

Pump == \/ Reap \/ KeepRunning \/ DeadlinePassed \/ Feed \/ FeedEof \/ Poll \/ PollFails
        \/ (\E k \in 1..Len(pump.pending) : WriteStdin(k)) \/ StdinBreaks \/ StdinWaits
        \/ ServiceBegin \/ ServiceRead \/ CountQueued \/ ServiceEnd \/ SeeCancel
        \/ PublishCancel \/ DrainMore \/ DrainEnds \/ QueueExited \/ Finished

-----------------------------------------------------------------------------
(* The owner thread; Cancel may come from any thread.                      *)

Idle == owner.at \in {"idle", "ended"}

NextBlock(size) == [i \in 1..size |-> Len(history.accepted) + i]

(* PushStdin looks at the flags, then tries the bounded queue. *)
PushStdinCheck(size) ==
    /\ Idle /\ Len(history.accepted) + size <= MaxIn
    /\ ~flags.finished /\ ~flags.stdin_closed
    /\ owner' = [at |-> "push", hand |-> NextBlock(size)]
    /\ UNCHANGED <<child, pipe, flags, stdin_queue, event_queue, queued_output, pump, history>>

(* Faulty variant: a full queue makes room by dropping its oldest block. *)
EnqueueDropsOldest(queue, block) ==
    Append(IF Len(queue) < StdinQueueCapacity THEN queue ELSE Tail(queue), block)

(* try_enqueue: a full queue refuses the block. *)
Enqueue(queue, block) ==
    IF Len(queue) < StdinQueueCapacity THEN Append(queue, block) ELSE queue

PushStdin ==
    /\ owner.at = "push"
    /\ stdin_queue' = Enqueue(stdin_queue, owner.hand)
    /\ history' = IF stdin_queue' = stdin_queue THEN history
                  ELSE [history EXCEPT !.accepted = @ \o owner.hand]
    /\ owner' = [at |-> "idle", hand |-> <<>>]
    /\ UNCHANGED <<child, pipe, flags, event_queue, queued_output, pump>>

CloseStdin ==
    /\ Idle /\ ~flags.stdin_closed
    /\ flags' = [flags EXCEPT !.stdin_closed = TRUE]
    /\ UNCHANGED <<child, pipe, stdin_queue, event_queue, queued_output, pump, owner, history>>

CancelSession ==
    /\ owner.at \notin {"join", "reap", "gone"} /\ ~flags.cancel /\ ~pump.cancel_seen
    /\ flags' = [flags EXCEPT !.cancel = TRUE]
    /\ UNCHANGED <<child, pipe, stdin_queue, event_queue, queued_output, pump, owner, history>>

(* PopEvent takes the event, then gives its bytes back. *)
PopEvent ==
    /\ Idle
    /\ IF event_queue # <<>>
         THEN /\ event_queue' = Tail(event_queue)
              /\ history' = [history EXCEPT !.delivered = Append(@, Head(event_queue))]
              /\ owner' = [owner EXCEPT !.at = IF IsOutput(Head(event_queue)) THEN "release"
                                               ELSE "idle"]
         ELSE /\ owner' = [owner EXCEPT !.at = "check"]
              /\ UNCHANGED <<event_queue, history>>
    /\ UNCHANGED <<child, pipe, flags, stdin_queue, queued_output, pump>>

(* Faulty variant: popped output is not taken off the counter. *)
ReleasedNothing == queued_output

Released == queued_output - 1

ReleaseBytes ==
    /\ owner.at = "release"
    /\ queued_output' = Released
    /\ owner' = [owner EXCEPT !.at = "idle"]
    /\ UNCHANGED <<child, pipe, flags, stdin_queue, event_queue, pump, history>>

(* NextEvent found the queue empty: nothing is left, or the wait is over,  *)
(* or it polls and tries again.                                            *)
NextEventCheck ==
    /\ owner.at = "check"
    /\ owner' = [owner EXCEPT !.at = IF flags.finished THEN "ended" ELSE "idle"]
    /\ UNCHANGED <<child, pipe, flags, stdin_queue, event_queue, queued_output, pump, history>>

(* Shutdown: the pump is asked to stop and joined, then an unreaped child  *)
(* is killed and waited for, as long as it can be killed.                  *)
ShutdownSession ==
    /\ Idle
    /\ flags' = [flags EXCEPT !.cancel = TRUE]
    /\ owner' = [owner EXCEPT !.at = "join"]
    /\ UNCHANGED <<child, pipe, stdin_queue, event_queue, queued_output, pump, history>>

Joined == IF pump.reaped THEN "gone" ELSE "reap"

ShutdownJoin ==
    /\ owner.at = "join" /\ InPump("exited")
    /\ owner' = [owner EXCEPT !.at = Joined]
    /\ child' = IF pump.reaped THEN child ELSE [child EXCEPT !.kill = TRUE]
    /\ UNCHANGED <<pipe, flags, stdin_queue, event_queue, queued_output, pump, history>>

ShutdownReap ==
    /\ owner.at = "reap"
    /\ child.leader = "zombie" \/ child.stuck
    /\ child' = [child EXCEPT !.leader = IF @ = "zombie" THEN "reaped" ELSE @]
    /\ owner' = [owner EXCEPT !.at = "gone"]
    /\ UNCHANGED <<pipe, flags, stdin_queue, event_queue, queued_output, pump, history>>

Owner == \/ \E size \in BlockSizes : PushStdinCheck(size)
         \/ PushStdin \/ CloseStdin \/ CancelSession \/ PopEvent \/ ReleaseBytes \/ NextEventCheck
         \/ ShutdownSession \/ ShutdownJoin \/ ShutdownReap

Child == (\E c \in Channels : ChildPrints(c)) \/ LeaderEnds \/ HelperEnds

SessionNext == Pump \/ Owner \/ Child

(* The pump runs, and its deadlines pass: it looks at the clock on every   *)
(* round.  A killed process ends unless it is stuck.  The owner finishes   *)
(* the calls it makes and keeps asking for events.                         *)
SessionFairness ==
    /\ WF_sessionVars(Pump) /\ SF_sessionVars(DeadlinePassed) /\ SF_sessionVars(DrainEnds)
    /\ WF_sessionVars(child.kill /\ LeaderEnds) /\ WF_sessionVars(child.kill /\ HelperEnds)
    /\ WF_sessionVars(PushStdin \/ ReleaseBytes \/ NextEventCheck \/ ShutdownJoin \/ ShutdownReap)
    /\ SF_sessionVars(PopEvent)

SessionSpec == SessionInit /\ [][SessionNext]_sessionVars /\ SessionFairness

-----------------------------------------------------------------------------
(* Everything published so far, in the order the owner gets it. *)
Published == history.delivered \o event_queue

(* What the child reads is what the owner handed over, in that order and   *)
(* without gaps, however the blocks are split by partial writes.           *)
StdinInOrder ==
    /\ Len(child.received) <= Len(history.accepted)
    /\ \A i \in DOMAIN child.received : child.received[i] = history.accepted[i]

InOrder(events) ==
    \A i, j \in DOMAIN events :
      i < j /\ IsOutput(events[i]) /\ events[i].kind = events[j].kind => events[i].n < events[j].n

IsCancelled(event) == event.kind = "Cancelled"

(* The events of a channel come in the order the child printed them,       *)
(* Cancelled comes once at most, and Exited is the last of all.            *)
EventsInOrder ==
    /\ InOrder(Published \o history.sunk)
    /\ \A i, j \in DOMAIN Published :
         IsCancelled(Published[i]) /\ IsCancelled(Published[j]) => i = j
    /\ \A i \in DOMAIN Published : Published[i].kind = "Exited" => i = Len(Published)
    /\ flags.finished => Published # <<>> /\ Published[Len(Published)].kind = "Exited"

(* Every chunk the child printed is in its pipe, with the sink or among    *)
(* the events: backpressure, budgets and a cancel drop nothing that was    *)
(* read.                                                                   *)
NothingReadIsLost ==
    \A k \in 1..child.printed : \E c \in Channels :
      \/ \E i \in DOMAIN pipe[c] : pipe[c][i] = k
      \/ \E i \in DOMAIN Published : Published[i] = Chunk(c, k)
      \/ \E i \in DOMAIN history.sunk : history.sunk[i] = Chunk(c, k)

(* The child reads what was pushed, and the owner is told what was read    *)
(* from it, both in order and without a loss, the end last.                *)
StreamsInOrder == StdinInOrder /\ EventsInOrder /\ NothingReadIsLost

(* A cancelled session takes its whole group with it: when the pump has    *)
(* finished, the leader and the helpers that ignored SIGTERM were killed,  *)
(* unless a poll() failed; the destructor leaves no zombie, unless the     *)
(* child cannot be killed; and once Cancelled is published, nothing more   *)
(* is written to the child.                                                *)
CancelledIsGone ==
    /\ [](/\ flags.finished /\ pump.cancel_seen /\ ~pump.broke => child.kill
          /\ owner.at = "gone" /\ ~child.stuck => child.leader = "reaped")
    /\ [][(\E i \in DOMAIN Published : IsCancelled(Published[i]))
             => child'.received = child.received]_sessionVars

(* A cancel ends the session, also when the child ignores SIGTERM, cannot  *)
(* be killed or keeps its pipes open through a helper; and the destructor  *)
(* ends.                                                                   *)
CancelEnds ==
    /\ flags.cancel ~> flags.finished
    /\ owner.at = "join" ~> owner.at = "gone"

(* A full event queue stops the reading, not for good: as long as the      *)
(* session runs and the owner asks for events, a pipe is emptied again.    *)
BackpressureEnds ==
    \A c \in Channels : pipe[c] # <<>> ~> pipe[c] = <<>> \/ ~pump.looping \/ owner.at = "gone"

-----------------------------------------------------------------------------
(* A statement of the code's comments that does not hold.                  *)

(* CloseStdin() delivers EOF after every byte handed to PushStdin(). *)
CleanEndOfInput == history.eof = "clean" => child.received = history.accepted

=============================================================================
