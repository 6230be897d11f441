---------------------------- MODULE DbusService ----------------------------
(***************************************************************************)
(* The daemon's D-Bus service (daemon/runtime/dbus_service.cpp) and the    *)
(* event loop that drives it (daemon/main.cpp).  Signals and desktop       *)
(* notifications may be emitted from any thread: EnqueueEmit pushes the    *)
(* item under emit_mutex_ and then bumps an eventfd.  Only the main thread *)
(* touches the bus: it polls the bus and the eventfd, and sends from       *)
(* FlushEmitQueue.  Method calls are handled on the main thread too.       *)
(*                                                                         *)
(* An item is [by, call, kind]: who emitted it, the method call whose      *)
(* handler did (None outside a handler), and whether it is one of the      *)
(* three signals or a desktop notification.                                *)
(***************************************************************************)
EXTENDS Naturals, Sequences, FiniteSets, SequencesExt

CONSTANTS
    Workers,    \* threads other than the main one that emit
    Calls,      \* method calls peers send, each at most once
    MethodOf,   \* the method each of them calls
    None,
    MaxEmits    \* bound: items each worker emits

VARIABLES
    loop,       \* the main thread: starting, poll, flush, swap, send, process, ended
    revents,    \* [notify, bus]: what the last poll() reported
    notify,     \* the eventfd counter is not zero
    emitQueue,  \* emit_queue_
    local,      \* the vector FlushEmitQueue swapped out
    wire,       \* what went out on the bus, in order
    inbox,      \* method calls received and not handled yet
    ringing,    \* workers between their push and their write to the eventfd
    runningFlag,\* RunningFlag(): cleared by SIGTERM and SIGINT
    made,       \* ghost: every item pushed, in the order of the pushes
    failed      \* ghost: notifications the bus refused

vars == <<loop, revents, notify, emitQueue, local, wire, inbox, ringing, runningFlag, made, failed>>

Main == "main"
Kinds == {"signal", "notification"}
Item(by, call, kind, n) == [by |-> by, call |-> call, kind |-> kind, n |-> n]
Items == [by: Workers \cup {Main}, call: Calls \cup {None}, kind: Kinds, n: 1 .. MaxEmits]
Reply(c, ok) == [reply |-> c, ok |-> ok]     \* ReplyWithMethodResult
IsReply(m) == "reply" \in DOMAIN m

Emitted(t) == Cardinality({i \in DOMAIN made : made[i].by = t})
Answered == {c \in Calls : \E i \in DOMAIN wire : IsReply(wire[i]) /\ wire[i].reply = c}

TypeOK ==
    /\ loop \in {"starting", "poll", "flush", "swap", "send", "process", "ended"}
    /\ revents \in [notify: BOOLEAN, bus: BOOLEAN]
    /\ notify \in BOOLEAN /\ runningFlag \in BOOLEAN
    /\ emitQueue \in Seq(Items) /\ local \in Seq(Items) /\ made \in Seq(Items)
    /\ inbox \in Seq(Calls)
    /\ ringing \subseteq Workers
    /\ failed \subseteq Items

Quiet == [notify |-> FALSE, bus |-> FALSE]

Init ==
    /\ loop = "starting"
    /\ revents = Quiet
    /\ notify = FALSE /\ runningFlag = TRUE
    /\ emitQueue = <<>> /\ local = <<>> /\ wire = <<>> /\ inbox = <<>> /\ made = <<>>
    /\ ringing = {} /\ failed = {}

-----------------------------------------------------------------------------
(* Start: the eventfd, the bus, the vtable and the bus name, any of which  *)
(* may fail and end the daemon.                                            *)
Start ==
    /\ loop = "starting"
    /\ loop' \in {"poll", "ended"}
    /\ UNCHANGED <<revents, notify, emitQueue, local, wire, inbox, ringing, runningFlag, made, failed>>

(* EnqueueEmit on another thread: the push, under emit_mutex_ ...          *)
EnqueuePush(w, kind) ==
    /\ loop # "starting"
    /\ w \notin ringing
    /\ Emitted(w) < MaxEmits
    /\ LET item == Item(w, None, kind, Emitted(w) + 1)
       IN  /\ emitQueue' = Append(emitQueue, item)
           /\ made' = Append(made, item)
    /\ ringing' = ringing \cup {w}
    /\ UNCHANGED <<loop, revents, notify, local, wire, inbox, runningFlag, failed>>

(* ... and the write to the eventfd, outside it.                           *)
EnqueueRing(w) ==
    /\ w \in ringing
    /\ ringing' = ringing \ {w}
    /\ notify' = TRUE
    /\ UNCHANGED <<loop, revents, emitQueue, local, wire, inbox, runningFlag, made, failed>>

(* A peer's call arrives on the bus connection.                            *)
CallArrives(c) ==
    /\ loop # "starting"
    /\ c \notin Answered /\ c \notin ToSet(inbox)
    /\ inbox' = Append(inbox, c)
    /\ UNCHANGED <<loop, revents, notify, emitQueue, local, wire, ringing, runningFlag, made, failed>>

Signal ==
    /\ loop # "ended"
    /\ runningFlag
    /\ runningFlag' = FALSE
    /\ UNCHANGED <<loop, revents, notify, emitQueue, local, wire, inbox, ringing, made, failed>>

-----------------------------------------------------------------------------
(* The main loop.  poll() returns what is readable now; new work may       *)
(* arrive while the three branches of the iteration run.                   *)
AfterFlush(r) == IF r.bus THEN "process" ELSE "poll"
AfterPoll(r) == IF r.notify THEN "flush" ELSE AfterFlush(r)

Poll ==
    /\ loop = "poll"
    /\ runningFlag
    /\ notify \/ inbox # <<>>
    /\ revents' = [notify |-> notify, bus |-> inbox # <<>>]
    /\ loop' = AfterPoll(revents')
    /\ UNCHANGED <<notify, emitQueue, local, wire, inbox, ringing, runningFlag, made, failed>>

(* poll() fails with anything but EINTR, and the loop is left.             *)
PollFails ==
    /\ loop = "poll"
    /\ loop' = "ended"
    /\ UNCHANGED <<revents, notify, emitQueue, local, wire, inbox, ringing, runningFlag, made, failed>>

Stop ==
    /\ loop = "poll"
    /\ ~runningFlag
    /\ loop' = "ended"
    /\ UNCHANGED <<revents, notify, emitQueue, local, wire, inbox, ringing, runningFlag, made, failed>>

(* FlushEmitQueue: the eventfd is read first, the queue is taken after it. *)
FlushDrain ==
    /\ loop = "flush"
    /\ notify' = FALSE
    /\ loop' = "swap"
    /\ UNCHANGED <<revents, emitQueue, local, wire, inbox, ringing, runningFlag, made, failed>>

FlushSwap ==
    /\ loop = "swap"
    /\ local' = emitQueue
    /\ emitQueue' = <<>>
    /\ loop' = "send"
    /\ UNCHANGED <<revents, notify, wire, inbox, ringing, runningFlag, made, failed>>

(* Mutant of FlushSend: reads the eventfd again when everything is sent.   *)
FlushSendDrains ==
    /\ loop = "send"
    /\ IF local = <<>>
       THEN /\ loop' = AfterFlush(revents)
            /\ notify' = FALSE
            /\ UNCHANGED <<local, wire, failed>>
       ELSE /\ local' = Tail(local)
            /\ \/ /\ wire' = Append(wire, Head(local))
                  /\ UNCHANGED failed
               \/ /\ Head(local).kind = "notification"
                  /\ failed' = failed \cup {Head(local)}
                  /\ UNCHANGED wire
            /\ UNCHANGED <<loop, notify>>
    /\ UNCHANGED <<revents, emitQueue, inbox, ringing, runningFlag, made>>

(* The items go out one by one; a notification the bus refuses is logged   *)
(* and left.  sd_bus_flush and the next branch of the iteration follow.    *)
FlushSend ==
    /\ loop = "send"
    /\ IF local = <<>>
       THEN /\ loop' = AfterFlush(revents)
            /\ UNCHANGED <<local, wire, failed>>
       ELSE /\ local' = Tail(local)
            /\ \/ /\ wire' = Append(wire, Head(local))
                  /\ UNCHANGED failed
               \/ /\ Head(local).kind = "notification"
                  /\ failed' = failed \cup {Head(local)}
                  /\ UNCHANGED wire
            /\ UNCHANGED loop
    /\ UNCHANGED <<revents, notify, emitQueue, inbox, ringing, runningFlag, made>>

(* The vtable's methods and what their handlers do with the reply and the  *)
(* queue: [ok, emits].  The four that steer the recording may fail and may *)
(* change the state they signal; the two queries answer from a snapshot;   *)
(* the others report what the reload or the process manager said, whose    *)
(* failures may become notifications.                                      *)
RecordingMethods == {"StartRecording", "StartCommandRecording", "StopRecording", "CancelOperation"}
QueryMethods == {"GetStatus", "GetAsrBackendState"}
ManagementMethods == {"ReloadAsrBackend", "StartAdapter", "StopAdapter", "StartClient", "StopClient"}

RecordingHandlers == [ok: BOOLEAN, emits: BOOLEAN]
QueryHandlers == [ok: {TRUE}, emits: {FALSE}]
ManagementHandlers == [ok: BOOLEAN, emits: BOOLEAN]

Handled(method) ==
    CASE method \in RecordingMethods -> RecordingHandlers
      [] method \in QueryMethods -> QueryHandlers
      [] method \in ManagementMethods -> ManagementHandlers

(* Mutant of ProcessOnce: the handler signals on the bus itself.           *)
ProcessOnceUnqueued ==
    /\ loop = "process"
    /\ inbox # <<>>
    /\ LET c == Head(inbox)
       IN  \E r \in Handled(MethodOf[c]) :
             LET item == Item(Main, c, "signal", 1)
             IN  /\ wire' = (IF r.emits THEN Append(wire, item) ELSE wire) \o <<Reply(c, r.ok)>>
                 /\ made' = IF r.emits THEN Append(made, item) ELSE made
    /\ inbox' = Tail(inbox)
    /\ UNCHANGED <<loop, revents, notify, emitQueue, local, ringing, runningFlag, failed>>

(* ProcessOnce: one handler runs to its end, may emit through EnqueueEmit, *)
(* and replies with its result or its error.                               *)
ProcessOnce ==
    /\ loop = "process"
    /\ inbox # <<>>
    /\ LET c == Head(inbox)
       IN  \E r \in Handled(MethodOf[c]) :
             LET item == Item(Main, c, "signal", 1)
             IN  /\ wire' = Append(wire, Reply(c, r.ok))
                 /\ emitQueue' = IF r.emits THEN Append(emitQueue, item) ELSE emitQueue
                 /\ made' = IF r.emits THEN Append(made, item) ELSE made
                 /\ notify' = (notify \/ r.emits)
    /\ inbox' = Tail(inbox)
    /\ UNCHANGED <<loop, revents, local, ringing, runningFlag, failed>>

ProcessEnds ==
    /\ loop = "process"
    /\ inbox = <<>>
    /\ loop' = "poll"
    /\ UNCHANGED <<revents, notify, emitQueue, local, wire, inbox, ringing, runningFlag, made, failed>>

MainStep == Poll \/ Stop \/ FlushDrain \/ FlushSwap \/ FlushSend \/ ProcessOnce \/ ProcessEnds

Next ==
    \/ Start
    \/ \E w \in Workers : (\E k \in Kinds : EnqueuePush(w, k)) \/ EnqueueRing(w)
    \/ \E c \in Calls : CallArrives(c)
    \/ Signal
    \/ PollFails
    \/ MainStep

(* The main thread and every emitting thread keep running.                 *)
Fairness ==
    /\ WF_vars(MainStep)
    /\ \A w \in Workers : WF_vars(EnqueueRing(w))

Spec == Init /\ [][Next]_vars /\ Fairness

-----------------------------------------------------------------------------
(* What is signalled on the bus is what was emitted, in the order of the   *)
(* pushes, each item once: between the queue, the vector being sent and    *)
(* the bus nothing is lost, repeated or overtaken however the emitting     *)
(* threads and the loop interleave (but for notifications the bus          *)
(* refused).  And a peer has the reply to its call before any signal that  *)
(* the call's handler emitted.                                             *)
EmitsInOrder ==
    /\ SelectSeq(wire, LAMBDA m : ~IsReply(m)) \o local \o emitQueue
         = SelectSeq(made, LAMBDA i : i \notin failed)
    /\ \A i \in DOMAIN wire : ~IsReply(wire[i]) /\ wire[i].call # None
          => \E j \in 1 .. i - 1 : IsReply(wire[j]) /\ wire[j].reply = wire[i].call

(* As long as the daemon is not asked to stop, every emitted item goes out *)
(* (or is refused by the bus) and every call is answered: an emit that     *)
(* comes between the loop's reading the eventfd and its taking the queue,  *)
(* or while it sends, is not left behind asleep.                           *)
EmitsReachTheBus ==
    (made # <<>> \/ inbox # <<>>) ~>
        (emitQueue = <<>> /\ local = <<>> /\ inbox = <<>>) \/ ~runningFlag \/ loop = "ended"
=============================================================================
