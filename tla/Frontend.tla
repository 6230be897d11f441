------------------------------ MODULE Frontend ------------------------------
(***************************************************************************)
(* The Fcitx5 addon: hotkeys, the optimistic session it shows, its calls   *)
(* to the daemon and the replies and signals that come back.  The addon    *)
(* runs on one thread, so a handler is one step; what is hard is that a    *)
(* key, a late reply and a queued signal may meet in any order.            *)
(*                                                                         *)
(* `e` is the engine: the members that decide something, with the two      *)
(* directions of the D-Bus connection as e.out and e.in.  Destroying the   *)
(* slot of a call drops its reply: one that has arrived is taken out of    *)
(* e.in, a call still in e.out is no longer heard.  Menus, texts and the   *)
(* context cache are left out.                                             *)
(* The daemon, whose own modules have it in full, is its phase and the     *)
(* queue of signals that its main thread sends later than it answers calls.*)
(***************************************************************************)
EXTENDS Naturals, Sequences

CONSTANTS
    Contexts,     \* input contexts
    Keys,         \* hotkeys: "trigger", "command"
    Modes,        \* values of triggerMode: "Hold", "Tap", "Both"
    Nobody,       \* no context, no key
    MaxEvents,    \* bound: presses, other keys, focus changes, timeouts
    MaxCrashes,   \* bound: crashes of the daemon
    MayTimeOut    \* can the daemon be slower than the timeout of a call?

VARIABLES
    e,        \* the engine
    daemon,   \* phase, emit queue, whether it runs
    user      \* triggerMode, keys that are down, the focused context, events so far, and
              \* whether the last recording was abandoned and none begun since

frontVars == <<e, daemon, user>>

FrontInit ==
    /\ e = [phase |-> "none", ic |-> Nobody, trigger |-> Nobody, command |-> FALSE, released |-> FALSE,
            hold |-> FALSE, status_ic |-> Nobody, active |-> Nobody, held |-> Nobody, chord |-> FALSE,
            stop_timer |-> FALSE, sync_timer |-> FALSE, fresh |-> FALSE, known |-> "",
            idle_since |-> FALSE, blocked |-> FALSE, out |-> <<>>, in |-> <<>>]
    /\ daemon = [phase |-> "idle", emits |-> <<>>, up |-> TRUE, crashes |-> 0]
    /\ user \in [mode : Modes, down : {{}}, focus : {CHOOSE ic \in Contexts : TRUE},
                 events : {0}, abandoned : {FALSE}]

Mode == user.mode

InSession(s) == s.phase # "none"

Without(queue, call) == SelectSeq(queue, LAMBDA m : m.call # call)

Call(s, call) == [s EXCEPT !.out = Append(@, [call |-> call, heard |-> TRUE])]

(* The reply to a call on its way to the daemon is dropped. *)
Mute(out, call) ==
    [i \in DOMAIN out |-> IF out[i].call = call THEN [call |-> call, heard |-> FALSE] ELSE out[i]]

DropReply(s, call) == [s EXCEPT !.in = Without(@, call), !.out = Mute(@, call)]

(* A new call replaces the slot of the one before. *)
CallAgain(s, call) == Call(DropReply(s, call), call)

PollPending(s) ==
    \/ \E i \in DOMAIN s.out : s.out[i] = [call |-> "status", heard |-> TRUE]
    \/ \E i \in DOMAIN s.in : s.in[i].call = "status"

(* StatusPollGate: Invalidate() keeps the request and spoils its ticket,   *)
(* Cancel() drops the request.                                             *)
Invalidate(s) == [s EXCEPT !.fresh = FALSE]

CancelPoll(s) == DropReply(s, "status")

StopStatusSyncIfIdle(s) ==
    IF InSession(s) \/ s.status_ic # Nobody THEN s
    ELSE CancelPoll([s EXCEPT !.sync_timer = FALSE])

EnsureStatusSync(s) == [s EXCEPT !.sync_timer = TRUE]

ResolveFrontendInputContext(s, fallback) ==
    CASE InSession(s) -> s.ic
      [] s.status_ic # Nobody -> s.status_ic
      [] fallback # Nobody -> fallback
      [] OTHER -> s.active

NoSession(s) ==
    [s EXCEPT !.phase = "none", !.ic = Nobody, !.trigger = Nobody, !.command = FALSE,
              !.released = FALSE, !.hold = FALSE, !.idle_since = FALSE]

FinishFrontendSession(s, fallback) ==
    LET ic == IF InSession(s) THEN s.ic ELSE IF fallback # Nobody THEN fallback ELSE s.status_ic
        left == IF s.status_ic = ic THEN Nobody ELSE s.status_ic
    IN  StopStatusSyncIfIdle(Invalidate([NoSession(s) EXCEPT !.status_ic = left]))

(* The session, new or not, takes this phase, context, key and mode. *)
Shows(s, phase, ic, key, command) ==
    EnsureStatusSync([s EXCEPT !.phase = phase, !.ic = ic, !.trigger = key, !.command = command,
                               !.status_ic = ic, !.active = ic])

EnterPendingStartState(s, ic, key, command) ==
    Invalidate(Shows(s, "PendingStart", ic, key, command))

StopAfterStart(s) == (Mode = "Hold" \/ s.hold) /\ s.phase = "PendingStart" /\ s.released

EnterRecordingState(s, ic, key, command) ==
    [Shows(s, "Recording", ic, key, command) EXCEPT !.stop_timer = @ \/ StopAfterStart(s)]

EnterBusyState(s, phase, ic, command) == Shows(s, phase, ic, Nobody, command)

ApplyDaemonStatusLocally(s, status, fallback, prefer) ==
    LET ic == ResolveFrontendInputContext(s, fallback)
        command == IF InSession(s) THEN s.command ELSE prefer
    IN  IF ic = Nobody \/ (status = "idle" /\ ~InSession(s) /\ s.status_ic = Nobody) THEN s
        ELSE CASE status = "recording" -> EnterRecordingState(s, ic, s.trigger, command)
               [] status = "inferring" -> EnterBusyState(s, "Inferring", ic, command)
               [] status = "postprocessing" -> EnterBusyState(s, "Postprocessing", ic, command)
               [] OTHER -> FinishFrontendSession(s, ic)

-----------------------------------------------------------------------------
(* Recording is started, stopped and abandoned.                            *)

(* callStartRecording: no call during the cool-down, which starts anew. *)
CallStartRecording(s) ==
    IF s.blocked THEN FinishFrontendSession(s, s.ic) ELSE CallAgain(s, "start")

(* callStopRecording: its result is not looked at. *)
CallStopRecording(s) == IF s.blocked THEN s ELSE CallAgain(s, "stop")

FinishStopRecording(s) ==
    IF s.phase # "Recording" THEN s
    ELSE CallStopRecording(EnterBusyState(s, "Inferring", s.ic, s.command))

(* callCancelOperation: nobody waits for an answer. *)
CallCancelOperation(s) == [s EXCEPT !.out = Append(@, [call |-> "cancel", heard |-> FALSE])]

(* Faulty variant: only the addon forgets the session. *)
AbandonLocally(s) == FinishFrontendSession(s, s.ic)

Abandon(s) == FinishFrontendSession(CallCancelOperation(s), s.ic)

(* What command mode finds: all it needs, no usable scene, no selection. *)
Command == {"ready", "disabled", "no_selection"}

StartVoiceRecording(s, ic, key, able) ==
    LET command == key = "command"
        known == s.known
        t == [s EXCEPT !.stop_timer = FALSE]
    IN  CASE ~command /\ ~InSession(t) /\ known = "recording" ->
               FinishStopRecording(EnterRecordingState(t, ic, key, FALSE))
          [] known \notin {"", "idle"} /\ (command \/ InSession(t) \/ known # "recording") ->
               ApplyDaemonStatusLocally(t, known, ic, command)
          [] known \in {"", "idle"} /\ command /\ able # "ready" ->
               IF able = "disabled" \/ t.status_ic = ic THEN FinishFrontendSession(t, ic) ELSE t
          [] OTHER -> CallStartRecording(EnterPendingStartState(t, ic, key, command))

Started(s, hold) == IF InSession(s) THEN [s EXCEPT !.hold = hold, !.released = ~hold] ELSE s

ScheduleStop(s) == IF s.phase = "Recording" THEN [s EXCEPT !.stop_timer = TRUE] ELSE s

-----------------------------------------------------------------------------
(* Key events.                                                             *)

Listening(s) == s.phase \in {"Recording", "PendingStart"}

(* A second press of a tapped key stops; another hotkey abandons; the      *)
(* repeats of a key that is held are swallowed.                            *)
PressWhileListening(s, key) ==
    CASE s.trigger # key -> Abandon(s)
      [] s.trigger = key /\ s.released /\ s.phase = "PendingStart" -> Abandon(s)
      [] s.trigger = key /\ s.released /\ s.phase = "Recording" -> FinishStopRecording(s)
      [] OTHER -> s

HandlePress(s, ic, key, able) ==
    LET t == [s EXCEPT !.stop_timer = FALSE, !.active = ic]
        new == [t EXCEPT !.held = key, !.chord = FALSE]
    IN  IF Listening(t) THEN PressWhileListening(t, key)
        ELSE IF Mode = "Tap" THEN new
        ELSE Started(StartVoiceRecording(new, ic, key, able), TRUE)

(* The release that ends a tap or a hold; long: kTapMaxHoldDuration is over. *)
ReleaseHeld(s, ic, key, long, able) ==
    CASE Mode = "Hold" -> ScheduleStop(s)
      [] Mode = "Tap" -> IF InSession(s) THEN ScheduleStop(s)
                         ELSE Started(StartVoiceRecording(s, ic, key, able), FALSE)
      [] OTHER -> IF long THEN ScheduleStop(s)
                  ELSE IF InSession(s) THEN [s EXCEPT !.released = TRUE, !.hold = FALSE] ELSE s

ReleaseOfSession(s, key) ==
    IF ~InSession(s) \/ s.trigger # key THEN s
    ELSE IF s.hold THEN ScheduleStop([s EXCEPT !.released = TRUE])
    ELSE [s EXCEPT !.released = TRUE]

HandleRelease(s, ic, key, long, able) ==
    LET t == [s EXCEPT !.active = ic]
        up == [t EXCEPT !.held = Nobody]
    IN  IF t.held # key THEN ReleaseOfSession(t, key)
        ELSE IF t.chord THEN [up EXCEPT !.chord = FALSE]
        ELSE ReleaseOfSession(ReleaseHeld(up, ic, key, long, able), key)

MayAct == user.events < MaxEvents

Acted == [user EXCEPT !.events = @ + 1]

(* The user after a step that may have abandoned or begun a recording. *)
Leaves(u) ==
    [u EXCEPT !.abandoned = (@ \/ (Listening(e) /\ ~InSession(e'))) /\ e'.phase # "PendingStart"]

(* A press within kTriggerDebounce of the last is swallowed. *)
Press ==
    /\ MayAct
    /\ \E key \in Keys, able \in Command :
         /\ e' = HandlePress(e, user.focus, key, able) \/ e' = [e EXCEPT !.active = user.focus]
         /\ user' = Leaves([Acted EXCEPT !.down = @ \cup {key}])
    /\ UNCHANGED daemon

Release ==
    /\ \E key \in user.down, long \in BOOLEAN, able \in Command :
         /\ e' = HandleRelease(e, user.focus, key, long, able)
         /\ user' = Leaves([user EXCEPT !.down = @ \ {key}])
    /\ UNCHANGED daemon

(* Any other key breaks a held hotkey into a chord. *)
OtherKey ==
    /\ MayAct
    /\ LET s == [e EXCEPT !.active = user.focus]
           chord == [s EXCEPT !.chord = TRUE, !.held = Nobody]
       IN  e' = IF s.held = Nobody THEN s
                ELSE IF InSession(s) /\ s.hold /\ ~s.released THEN Abandon(chord) ELSE chord
    /\ user' = Leaves(Acted)
    /\ UNCHANGED daemon

(* Escape or Enter while the daemon post-processes. *)
CancelKey ==
    /\ MayAct
    /\ e.phase = "Postprocessing" /\ e.known = "postprocessing"
    /\ user' = Acted
    /\ e' = CallCancelOperation([e EXCEPT !.active = user.focus])
    /\ UNCHANGED daemon

FocusOut ==
    /\ MayAct
    /\ LET s == [e EXCEPT !.held = Nobody, !.chord = TRUE]
       IN  e' = IF InSession(s) /\ s.ic = user.focus /\ s.hold THEN Abandon(s) ELSE s
    /\ \E ic \in Contexts \ {user.focus} : user' = Leaves([Acted EXCEPT !.focus = ic])
    /\ UNCHANGED daemon

ContextCreated ==
    /\ MayAct
    /\ user' = Acted
    /\ \E ic \in Contexts : e' = [e EXCEPT !.active = ic]
    /\ UNCHANGED daemon

(* An input context goes away; its name may be used by the next one. *)
ContextDestroyed ==
    /\ MayAct
    /\ \E ic \in Contexts :
         LET mine == InSession(e) /\ e.ic = ic
             s == IF mine /\ e.phase # "Inferring" THEN CallCancelOperation(e) ELSE e
             t == IF mine THEN NoSession(s) ELSE s
             u == IF t.status_ic = ic THEN StopStatusSyncIfIdle([t EXCEPT !.status_ic = Nobody])
                  ELSE t
         IN  e' = [u EXCEPT !.active = IF @ = ic THEN Nobody ELSE @]
    /\ user' = Leaves(Acted)
    /\ UNCHANGED daemon

-----------------------------------------------------------------------------
(* Timers and what the bus delivers.                                       *)

StopTimerFires ==
    /\ e.stop_timer
    /\ e' = FinishStopRecording([e EXCEPT !.stop_timer = FALSE])
    /\ UNCHANGED <<daemon, user>>

(* One status query at a time, none during the cool-down. *)
SyncTimerFires ==
    /\ e.sync_timer
    /\ e' = IF e.blocked \/ PollPending(e) THEN e
            ELSE Call([e EXCEPT !.fresh = TRUE], "status")
    /\ e' # e
    /\ UNCHANGED <<daemon, user>>

CooldownOver ==
    /\ e.blocked
    /\ e' = [e EXCEPT !.blocked = FALSE]
    /\ UNCHANGED <<daemon, user>>

Received(s) == [s EXCEPT !.in = Tail(@)]

(* A refused start or stop ends whatever session there is. *)
OnCallReply(s, m) ==
    IF m.ok THEN [s EXCEPT !.blocked = FALSE]
    ELSE FinishFrontendSession([s EXCEPT !.blocked = TRUE], Nobody)

(* Faulty variant: a polled Idle is never believed. *)
PolledIdleNever == {FALSE}

(* Has a polled Idle lasted for kPolledIdleRecoveryDelay? *)
PolledIdleLasts == IF e.idle_since THEN BOOLEAN ELSE {FALSE}

OnStatusReply(s, m, lasts) ==
    LET t == [s EXCEPT !.blocked = FALSE, !.known = m.status]
    IN  IF ~s.fresh THEN s
        ELSE IF ~m.ok THEN [s EXCEPT !.blocked = TRUE]
        ELSE IF ~InSession(t) /\ t.status_ic = Nobody THEN t
        ELSE IF m.status = "idle" /\ InSession(t) /\ ~lasts THEN [t EXCEPT !.idle_since = TRUE]
        ELSE ApplyDaemonStatusLocally([t EXCEPT !.idle_since = FALSE], m.status, Nobody, FALSE)

OnStatusChanged(s, m) ==
    LET ic == ResolveFrontendInputContext(s, Nobody)
        t == [Invalidate(s) EXCEPT !.known = m.status, !.idle_since = FALSE, !.active = ic]
    IN  ApplyDaemonStatusLocally(t, m.status, Nobody, FALSE)

OnRecognitionResult(s) ==
    LET ic == ResolveFrontendInputContext(s, Nobody)
    IN  IF ic = Nobody THEN s ELSE FinishFrontendSession([s EXCEPT !.active = ic], ic)

Receive ==
    /\ e.in # <<>>
    /\ LET m == Head(e.in)
       IN  \E lasts \in PolledIdleLasts :
             e' = CASE m.call \in {"start", "stop"} -> OnCallReply(Received(e), m)
                    [] m.call = "status" -> OnStatusReply(Received(e), m, lasts)
                    [] m.call = "changed" -> OnStatusChanged(Received(e), m)
                    [] OTHER -> OnRecognitionResult(Received(e))
    /\ UNCHANGED <<daemon, user>>

(* kDbusCallTimeoutUsec is over: the bus library makes up an error reply,  *)
(* and the daemon may still carry the call out.                            *)
CallTimesOut ==
    /\ MayTimeOut /\ MayAct
    /\ user' = Acted
    /\ \E call \in {"start", "stop", "status"} :
         LET s == [e EXCEPT !.out = Mute(@, call)]
             m == [call |-> call, ok |-> FALSE, status |-> ""]
         IN  /\ s # e
             /\ e' = IF call = "status" THEN OnStatusReply(s, m, FALSE) ELSE OnCallReply(s, m)
    /\ UNCHANGED daemon

-----------------------------------------------------------------------------
(* The daemon, as seen from the bus.                                       *)

Reply(ok, status) ==
    LET m == Head(e.out)
    IN  e' = [e EXCEPT !.out = Tail(@),
                       !.in = IF m.heard
                                THEN Append(@, [call |-> m.call, ok |-> ok, status |-> status]) ELSE @]

Changed(status) == [call |-> "changed", status |-> status]

Moves(phase) == [daemon EXCEPT !.phase = phase, !.emits = Append(@, Changed(phase))]

DaemonStart ==
    \/ /\ daemon.phase = "idle"
       /\ daemon' = Moves("recording") /\ Reply(TRUE, "")
    \/ UNCHANGED daemon /\ Reply(FALSE, "")

(* An utterance that is too short ends at once. *)
DaemonStop ==
    IF daemon.phase = "recording"
      THEN (daemon' = Moves("inferring") \/ daemon' = Moves("idle")) /\ Reply(TRUE, "")
      ELSE UNCHANGED daemon /\ Reply(FALSE, "")

(* What is being inferred is not cancelled; a cancelled post-processing    *)
(* ends like one that is done.                                             *)
DaemonCancel ==
    /\ daemon' = IF daemon.phase = "recording" THEN Moves("idle") ELSE daemon
    /\ Reply(TRUE, "")

DaemonAnswers ==
    /\ e.out # <<>>
    /\ LET call == Head(e.out).call
       IN  CASE ~daemon.up -> Reply(FALSE, "") /\ UNCHANGED daemon
             [] daemon.up /\ call = "start" -> DaemonStart
             [] daemon.up /\ call = "stop" -> DaemonStop
             [] daemon.up /\ call = "cancel" -> DaemonCancel
             [] OTHER -> Reply(TRUE, daemon.phase) /\ UNCHANGED daemon
    /\ UNCHANGED user

(* The worker of the daemon: post-processing or not, a result or none. *)
DaemonWorks ==
    /\ daemon.up
    /\ \/ daemon.phase = "inferring" /\ daemon' = Moves("postprocessing")
       \/ /\ daemon.phase \in {"inferring", "postprocessing"}
          /\ \E result \in {<<>>, <<[call |-> "result"]>>} :
               daemon' = [daemon EXCEPT !.phase = "idle",
                                        !.emits = @ \o result \o <<Changed("idle")>>]
    /\ UNCHANGED <<e, user>>

(* FailActiveSession: the recogniser fails while it listens, and the same  *)
(* pass of the main loop that reports it goes back to Idle.                *)
DaemonFails ==
    /\ daemon.up
    /\ daemon.phase = "recording"
    /\ daemon' = [daemon EXCEPT !.phase = "idle",
                                !.emits = @ \o <<Changed("error"), Changed("idle")>>]
    /\ UNCHANGED <<e, user>>

FlushEmitQueue ==
    /\ daemon.emits # <<>>
    /\ e' = [e EXCEPT !.in = @ \o daemon.emits]
    /\ daemon' = [daemon EXCEPT !.emits = <<>>]
    /\ UNCHANGED user

DaemonCrashes ==
    /\ daemon.up /\ daemon.crashes < MaxCrashes
    /\ daemon' = [phase |-> "idle", emits |-> <<>>, up |-> FALSE, crashes |-> daemon.crashes + 1]
    /\ UNCHANGED <<e, user>>

DaemonRestarts ==
    /\ ~daemon.up
    /\ daemon' = [daemon EXCEPT !.up = TRUE]
    /\ UNCHANGED <<e, user>>

FrontNext ==
    \/ Press \/ Release \/ OtherKey \/ CancelKey \/ FocusOut \/ ContextCreated \/ ContextDestroyed
    \/ StopTimerFires \/ SyncTimerFires \/ CooldownOver \/ Receive \/ CallTimesOut
    \/ DaemonAnswers \/ DaemonWorks \/ DaemonFails \/ FlushEmitQueue
    \/ DaemonCrashes \/ DaemonRestarts

(* A poll reports Idle again, and kPolledIdleRecoveryDelay is over.        *)
PolledIdleElapsed ==
    /\ e.in # <<>> /\ Head(e.in).call = "status"
    /\ InSession(e) /\ e.idle_since
    /\ Receive /\ ~InSession(e')

(* Timers fire, the bus delivers, the daemon answers and is started again. *)
(* Strong fairness of PolledIdleElapsed is time passing: polls go on       *)
(* reporting Idle, and the delay is over at one of them.                   *)
FrontFairness ==
    /\ WF_frontVars(SyncTimerFires) /\ WF_frontVars(StopTimerFires) /\ WF_frontVars(CooldownOver)
    /\ WF_frontVars(Receive)
    /\ WF_frontVars(DaemonAnswers) /\ WF_frontVars(FlushEmitQueue) /\ WF_frontVars(DaemonRestarts)
    /\ SF_frontVars(PolledIdleElapsed)

FrontSpec == FrontInit /\ [][FrontNext]_frontVars /\ FrontFairness

-----------------------------------------------------------------------------
(* Nothing is on its way in either direction. *)
Delivered == e.out = <<>> /\ e.in = <<>> /\ daemon.emits = <<>>

(* What the user abandons is not recorded on: after a chord, a second      *)
(* hotkey, a lost focus or a destroyed context ended the session, also one *)
(* whose start the daemon has not seen yet, and until the next one begins, *)
(* a daemon that has been told everything is not recording.                *)
AbandonedIsNotRecorded == user.abandoned /\ Delivered => daemon.phase # "recording"

(* The addon does not show a session for ever that the daemon does not     *)
(* have: signals, replies and in the end the status poll take it away,     *)
(* also when the daemon crashed without a signal.                          *)
SessionFollowsDaemon ==
    InSession(e) /\ daemon.phase = "idle" ~> ~InSession(e) \/ daemon.phase # "idle"

(* In Hold mode the daemon records while the key is pressed: with no key   *)
(* down, no stop pending and everything delivered, nothing is recorded.    *)
HoldReleaseStops ==
    Mode = "Hold" /\ user.down = {} /\ ~e.stop_timer /\ Delivered => daemon.phase # "recording"
=============================================================================
