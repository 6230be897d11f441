--------------------------- MODULE DaemonRuntime ---------------------------
(***************************************************************************)
(* DaemonRuntimeController: the push-to-talk life cycle of vinput-daemon.  *)
(*                                                                         *)
(* Threads.  "main" runs the poll loop: D-Bus methods and the deferred     *)
(* actions behind the notify fd.  Every client in Clients has a pump       *)
(* thread that runs the commands the client writes on its stdout.          *)
(* "worker" is WorkerMain.  One action is one critical section of          *)
(* state_mutex_, one atomic access, or one call into a collaborator, so    *)
(* the steps between two locks of one method interleave with the others.   *)
(*                                                                         *)
(* A session is the identity of one RecognitionSession: it may be used     *)
(* again once nothing refers to it.  Audio is counted, and a count is      *)
(* saturated at MinSamples, the only threshold the controller compares     *)
(* it with.                                                                *)
(***************************************************************************)
EXTENDS RuntimeStateMachine, FiniteSets

CONSTANTS
    Clients,         \* client pump threads
    MainCommands,    \* methods called over D-Bus
    ClientCommands,  \* commands the clients write
    ClientImes,      \* the "ime" flags the clients send
    Sessions,        \* identities of recognition sessions
    NoSession,
    MinSamples,      \* kMinSamplesForRecognition
    ChunksPerRead,   \* most streaming chunks one captured buffer completes
    StreamReuse,     \* AudioCapture::StreamReuseEnabled()
    DuckOutput,      \* duckOutputWhileRecording
    MayShutDown      \* whether the process is asked to terminate

ASSUME ThreadsAssumption == Clients \cap {"main", "worker"} = {}
ASSUME CommandsAssumption ==
    /\ MainCommands \subseteq {"start", "stop", "cancel", "reload"}
    /\ ClientCommands \subseteq {"start", "stop", "cancel", "inject"}
    /\ ClientImes \subseteq BOOLEAN
ASSUME SessionsAssumption == NoSession \notin Sessions
ASSUME SizesAssumption == MinSamples \in Nat \ {0} /\ ChunksPerRead \in Nat
ASSUME SwitchesAssumption ==
    StreamReuse \in BOOLEAN /\ DuckOutput \in BOOLEAN /\ MayShutDown \in BOOLEAN

VARIABLES
    machine,          \* state_machine_
    startInProgress,  \* start_recording_in_progress_
    accepting,        \* accepting_chunks_
    pendingStop,      \* pending_capture_stop_
    pendingReload,    \* pending_asr_backend_reload_
    cancelRequested,  \* postprocessing_cancel_requested_
    sessionIme,       \* session_ime_
    order,            \* current_order_
    workerRunning,    \* worker_running_
    active,           \* active_session_
    deferred,         \* deferred_cancelled_sessions_
    wake,             \* notify_fd_ is readable
    samples,          \* audio_buffer_.TotalSampleCount(), saturated
    buffered,         \* UsesBufferedDelivery(active_backend_)
    recording,        \* AudioCapture::recording_
    stream,           \* stream_: none, running, or kept inactive for reuse
    queued,           \* samples in the capture queue, saturated
    ducked,           \* OutputDucker::logical_ducked_
    status,           \* last StatusChanged put on D-Bus
    pc,               \* next step of every thread
    frame,            \* the local variables of every thread's running method
    nextPhase,        \* next_phase of EnterPostprocessing
    payload           \* what the worker is about to emit

lockVars == <<machine, startInProgress, pendingReload, sessionIme, order, workerRunning,
              samples, buffered>>
flagVars == <<accepting, pendingStop, cancelRequested, wake>>
sessionVars == <<active, deferred>>
deviceVars == <<recording, stream, queued, ducked, status>>
workVars == <<nextPhase, payload>>
vars == <<lockVars, flagVars, sessionVars, deviceVars, pc, frame, workVars>>

Callers == Clients \cup {"main"}
Threads == Callers \cup {"worker"}

(* RecognitionOrder: the slot is empty, holds a request, or holds the      *)
(* moved-from shell the worker leaves engaged until ResetToIdle().         *)
NoOrder == [kind |-> "none", session |-> NoSession, ime |-> TRUE]
MovedOrder == [kind |-> "moved", session |-> NoSession, ime |-> TRUE]
Request(s, ime) == [kind |-> "request", session |-> s, ime |-> ime]

(* Locals: where FlushDeferredActions/ResetToIdle returns to, what follows  *)
(* the abort tail, a session held, samples or chunks held, the arguments,  *)
(* apply_pending_reload and was_ime.                                       *)
EmptyFrame == [ret |-> "idle", after |-> "idle", sess |-> NoSession, amount |-> 0,
               ime |-> TRUE, command |-> FALSE, apply |-> FALSE, wasIme |-> TRUE]

Saturate(n) == IF n < MinSamples THEN n ELSE MinSamples

Referenced(s) ==
    s = active \/ s = order.session \/ s \in deferred \/ \E t \in Threads : frame[t].sess = s

Goto(t, label) == pc' = [pc EXCEPT ![t] = label]
Locals(t, f) == frame' = [frame EXCEPT ![t] = f]

(* NotifyStatusChanged and EmitStatusChanged: D-Bus hears of it only when  *)
(* the session engages the input method.                                   *)
Emit(st, ime) == status' = IF ime THEN st ELSE status

Init ==
    /\ machine = Clear
    /\ startInProgress = FALSE /\ accepting = FALSE /\ pendingStop = FALSE
    /\ pendingReload = FALSE /\ cancelRequested = FALSE /\ sessionIme = TRUE
    /\ order = NoOrder /\ workerRunning = TRUE
    /\ active = NoSession /\ deferred = {} /\ wake = FALSE
    /\ samples = 0 /\ buffered = FALSE
    /\ recording = FALSE /\ stream = "none" /\ queued = 0 /\ ducked = FALSE /\ status = "Idle"
    /\ pc = [t \in Threads |-> IF t = "worker" THEN "w_loop" ELSE "idle"]
    /\ frame = [t \in Threads |->
                  [EmptyFrame EXCEPT !.ret = IF t = "worker" THEN "w_loop" ELSE "idle"]]
    /\ nextPhase = "Idle"
    /\ payload = "none"

-----------------------------------------------------------------------------
(* Pieces shared by several methods.                                       *)

(* ResetRecordingStateLocked() *)
ResetRecordingState == samples' = 0 /\ buffered' = FALSE

(* RetireSession() parks the session for the main thread and then wakes it: *)
(* two steps on its own, one where the caller holds off everyone else      *)
(* (under state_mutex_, or once the poll loop has ended).                  *)
Park(s) == deferred' = deferred \cup {s}

(* Faulty variant: no null check. *)
RetireUnchecked(s) == Park(s) /\ wake' = TRUE

RetireIfAny(s) == IF s = NoSession THEN UNCHANGED <<deferred, wake>> ELSE Park(s) /\ wake' = TRUE

(* Faulty variant: the session is copied out and stays installed. *)
DetachActiveCopies == UNCHANGED active

(* DetachActive() moves the session out. *)
DetachActive == active' = NoSession

(* Faulty variant: accepting_chunks_ is left set. *)
DisarmKeepsAccepting == startInProgress' = FALSE /\ UNCHANGED accepting /\ samples' = 0

(* The three stores with which every failed start forgets itself.          *)
Disarm == startInProgress' = FALSE /\ accepting' = FALSE /\ samples' = 0

(* The condition under which a start is refused and a reload deferred.     *)
Busy == machine.phase # "Idle" \/ startInProgress

(* Faulty variant: the pending reload is forgotten. *)
ClosingForgetsReload(t, s, reload) == IF s # NoSession THEN "r_retire" ELSE frame[t].ret

(* EndRecording(): with the reuse policy the stream is deactivated and     *)
(* kept, or destroyed if that fails or no idle grace is configured.        *)
ReleaseStream ==
    /\ recording' = FALSE
    /\ stream' \in IF StreamReuse /\ stream # "none" THEN {"idle", "none"} ELSE {stream}

(* StopAndGetBuffer() destroys the stream where EndRecording() leaves it.  *)
StopStream ==
    /\ recording' = FALSE
    /\ stream' \in IF StreamReuse /\ stream # "none" THEN {"idle", "none"} ELSE {"none"}

(* Which of the closing steps of Cancel/StopRecording comes next.          *)
Closing(t, s, reload) ==
    IF s # NoSession THEN "r_retire" ELSE IF reload THEN "m_apply" ELSE frame[t].ret

-----------------------------------------------------------------------------
(* StartRecordingInternal                                                  *)

(* Entry: a deferred stop is flushed on the calling thread first.          *)
StartRecording(t, ime, isCommand) ==
    /\ pc[t] = "idle"
    /\ Goto(t, IF pendingStop THEN "f_wake" ELSE "s_lock")
    /\ Locals(t, [frame[t] EXCEPT !.ime = ime, !.command = isCommand, !.ret = "s_lock"])
    /\ UNCHANGED <<lockVars, flagVars, sessionVars, deviceVars, workVars>>

StartLock(t) ==
    /\ pc[t] = "s_lock"
    /\ IF Busy
         THEN /\ Goto(t, "idle")
              /\ Locals(t, EmptyFrame)
              /\ UNCHANGED <<startInProgress, accepting, pendingStop, sessionIme, samples>>
         ELSE /\ Goto(t, "s_begin")
              /\ pendingStop' = FALSE
              /\ samples' = 0
              /\ sessionIme' = frame[t].ime
              /\ startInProgress' = TRUE
              /\ accepting' = TRUE
              /\ Locals(t, [frame[t] EXCEPT !.ret = "idle"])
    /\ UNCHANGED <<machine, pendingReload, order, workerRunning, buffered, cancelRequested, wake,
                   sessionVars, deviceVars, workVars>>

(* BeginRecording() drains the capture queue and arms the microphone.  If  *)
(* a stream kept for reuse does not activate it falls back to a new one,   *)
(* and the flag DestroyStream() cleared stays cleared although the call    *)
(* succeeds.                                                               *)
BeginRecording(t) ==
    /\ pc[t] = "s_begin"
    /\ queued' = 0
    /\ \/ recording' = TRUE /\ stream' = "live" /\ Goto(t, "s_create")
       \/ stream = "idle" /\ recording' = FALSE /\ stream' = "live" /\ Goto(t, "s_create")
       \/ recording' = FALSE /\ stream' = "none" /\ Goto(t, "s_disarm")
    /\ UNCHANGED <<lockVars, flagVars, sessionVars, ducked, status, frame, workVars>>

(* Either failure forgets the start under the lock.  A failed              *)
(* BeginRecording() returns here; a failed CreateSession() goes on with    *)
(* the rest of the abort tail.                                             *)
StartDisarm(t) ==
    /\ pc[t] \in {"s_disarm", "s_disarm_abort"}
    /\ Disarm
    /\ Locals(t, EmptyFrame)
    /\ Goto(t, IF pc[t] = "s_disarm" THEN "idle" ELSE "t_restore")
    /\ UNCHANGED <<machine, pendingReload, sessionIme, order, workerRunning, buffered,
                   pendingStop, cancelRequested, wake, sessionVars, deviceVars, workVars>>

CreateSession(t) ==
    /\ pc[t] = "s_create"
    /\ \E s \in Sessions : ~Referenced(s) /\ Locals(t, [frame[t] EXCEPT !.sess = s])
    /\ Goto(t, "s_install")
    /\ UNCHANGED <<lockVars, flagVars, sessionVars, deviceVars, workVars>>

(* CreateSession() failed: EndRecording() precedes the lock here.          *)
CreateSessionFails(t) ==
    /\ pc[t] = "s_create"
    /\ ReleaseStream
    /\ Goto(t, "s_disarm_abort")
    /\ UNCHANGED <<lockVars, flagVars, sessionVars, queued, ducked, status, frame, workVars>>

(* The second critical section: install the session, unless the start was  *)
(* cancelled or the daemon got busy meanwhile.                             *)
StartInstall(t) ==
    /\ pc[t] = "s_install"
    /\ IF ~startInProgress \/ machine.phase # "Idle"
         THEN /\ Disarm
              /\ Locals(t, [EmptyFrame EXCEPT !.sess = frame[t].sess])
              /\ Goto(t, "t_end")
              /\ UNCHANGED <<machine, order, buffered, active, deferred, wake>>
         ELSE /\ order' = NoOrder
              /\ active' = frame[t].sess
              /\ RetireIfAny(active)
              /\ buffered' \in BOOLEAN
              /\ machine' = OnStartRecording(machine, frame[t].command).machine
              /\ accepting' = TRUE
              /\ startInProgress' = FALSE
              /\ Locals(t, EmptyFrame)
              /\ Goto(t, "s_duck")
              /\ UNCHANGED samples
    /\ UNCHANGED <<pendingReload, sessionIme, workerRunning, pendingStop, cancelRequested,
                   deviceVars, workVars>>

StartDuck(t) ==
    /\ pc[t] = "s_duck"
    /\ ducked' = (ducked \/ DuckOutput)
    /\ Goto(t, "s_notify")
    /\ UNCHANGED <<lockVars, flagVars, sessionVars, recording, stream, queued, status, frame,
                   workVars>>

StartNotify(t) ==
    /\ pc[t] = "s_notify"
    /\ Emit("Recording", sessionIme)
    /\ Goto(t, "idle")
    /\ UNCHANGED <<lockVars, flagVars, sessionVars, recording, stream, queued, ducked, frame,
                   workVars>>

-----------------------------------------------------------------------------
(* The tail of every abort path: EndRecording(), RestoreOutputIfDucked(),  *)
(* ScheduleCaptureStopOnMainThread(); the local session dies on return.    *)

EndRecording(t) ==
    /\ pc[t] = "t_end"
    /\ ReleaseStream
    /\ Goto(t, "t_restore")
    /\ UNCHANGED <<lockVars, flagVars, sessionVars, queued, ducked, status, frame, workVars>>

(* RestoreOutputIfDucked(), wherever it is called, and the step after it.  *)
RestoreOutput(t) ==
    /\ pc[t] \in {"t_restore", "c_restore", "p_restore", "f_skip", "f_restore", "z_restore",
                  "q_restore"}
    /\ ducked' = FALSE
    /\ Goto(t, CASE pc[t] = "t_restore" -> "t_schedule"
                 [] pc[t] = "c_restore" -> Closing(t, frame[t].sess, frame[t].apply)
                 [] pc[t] = "p_restore" -> "p_lock"
                 [] pc[t] = "f_skip" -> frame[t].ret
                 [] pc[t] = "f_restore" -> "z_lock"
                 [] pc[t] = "z_restore" -> "z_emit"
                 [] pc[t] = "q_restore" -> "q_lock")
    /\ UNCHANGED <<lockVars, flagVars, sessionVars, recording, stream, queued, status, frame,
                   workVars>>

ScheduleCaptureStop(t) ==
    /\ pc[t] = "t_schedule"
    /\ pendingStop' = TRUE
    /\ Goto(t, "t_wake")
    /\ UNCHANGED <<lockVars, accepting, cancelRequested, wake, sessionVars, deviceVars, frame,
                   workVars>>

(* WakeMainThread(), wherever it is called, and the step after it.         *)
WakeMainThread(t) ==
    /\ pc[t] \in {"t_wake", "h_wake", "x_wake", "r_wake"}
    /\ wake' = TRUE
    /\ Locals(t, IF pc[t] = "t_wake" THEN [frame[t] EXCEPT !.sess = NoSession, !.after = "idle"]
                                    ELSE frame[t])
    /\ Goto(t, CASE pc[t] = "t_wake" -> frame[t].after
                 [] pc[t] = "h_wake" -> "f_dequeue"
                 [] pc[t] = "x_wake" -> "x_notify"
                 [] pc[t] = "r_wake" -> Closing(t, NoSession, frame[t].apply))
    /\ UNCHANGED <<lockVars, accepting, pendingStop, cancelRequested, sessionVars, deviceVars,
                   workVars>>

-----------------------------------------------------------------------------
(* FlushDeferredActions                                                    *)

(* The poll loop enters it when the notify fd is readable.                 *)
MainFlush ==
    /\ pc["main"] = "idle"
    /\ wake
    /\ Goto("main", "f_wake")
    /\ UNCHANGED <<lockVars, flagVars, sessionVars, deviceVars, frame, workVars>>

(* The fd is drained before anything else. *)
FlushWake(t) ==
    /\ pc[t] = "f_wake"
    /\ wake' = FALSE
    /\ Goto(t, "f_reap")
    /\ UNCHANGED <<lockVars, accepting, pendingStop, cancelRequested, sessionVars, deviceVars,
                   frame, workVars>>

FlushReapedSessions(t) ==
    /\ pc[t] = "f_reap"
    /\ deferred' = {}
    /\ Goto(t, IF accepting THEN "f_dequeue" ELSE "f_poll")
    /\ UNCHANGED <<lockVars, flagVars, active, deviceVars, frame, workVars>>

(* DrainIncomingAudio: TryDequeue() a chunk until the queue is empty.      *)
TryDequeue(t) ==
    /\ pc[t] = "f_dequeue"
    /\ \/ queued = 0 /\ Goto(t, "f_poll") /\ UNCHANGED <<queued, frame>>
       \/ \E n \in 1 .. queued :
            /\ queued' = queued - n
            /\ Locals(t, [frame[t] EXCEPT !.amount = n])
            /\ Goto(t, "h_enter")
    /\ UNCHANGED <<lockVars, flagVars, sessionVars, recording, stream, ducked, status, workVars>>

(* HandleIncomingAudio: the unlocked look at accepting_chunks_ ...         *)
HandleEnter(t) ==
    /\ pc[t] = "h_enter"
    /\ Goto(t, IF accepting THEN "h_startup" ELSE "f_dequeue")
    /\ Locals(t, [frame[t] EXCEPT !.amount = IF accepting THEN @ ELSE 0])
    /\ UNCHANGED <<lockVars, flagVars, sessionVars, deviceVars, workVars>>

(* ... audio that is ahead of its session ...                              *)
HandleStartup(t) ==
    /\ pc[t] = "h_startup"
    /\ IF startInProgress /\ active = NoSession
         THEN /\ samples' = Saturate(samples + frame[t].amount)
              /\ Locals(t, [frame[t] EXCEPT !.amount = 0])
              /\ Goto(t, "f_dequeue")
         ELSE Goto(t, "h_append") /\ UNCHANGED <<samples, frame>>
    /\ UNCHANGED <<machine, startInProgress, pendingReload, sessionIme, order, workerRunning,
                   buffered, flagVars, sessionVars, deviceVars, workVars>>

(* ... and audio of the live recording: a streaming backend gets every     *)
(* complete chunk, which amount counts from here on.                       *)
HandleAppend(t) ==
    /\ pc[t] = "h_append"
    /\ IF active = NoSession
         THEN /\ Locals(t, [frame[t] EXCEPT !.amount = 0])
              /\ Goto(t, "f_dequeue")
              /\ UNCHANGED samples
         ELSE /\ samples' = Saturate(samples + frame[t].amount)
              /\ \E n \in 0 .. ChunksPerRead :
                   /\ buffered => n = 0
                   /\ Locals(t, [frame[t] EXCEPT !.amount = n,
                                                 !.sess = IF n = 0 THEN NoSession ELSE active])
                   /\ Goto(t, IF n = 0 THEN "f_dequeue" ELSE "h_push")
    /\ UNCHANGED <<machine, startInProgress, pendingReload, sessionIme, order, workerRunning,
                   buffered, flagVars, sessionVars, deviceVars, workVars>>

(* PushAudio() outside the lock: the session takes the chunk or refuses it *)
(* (queue overflow, backend failure, already finished or cancelled).       *)
PushAudio(t) ==
    /\ pc[t] = "h_push"
    /\ \/ Goto(t, "h_check") /\ UNCHANGED frame
       \/ /\ Locals(t, [frame[t] EXCEPT !.after = "f_dequeue", !.amount = 0])
          /\ Goto(t, "x_lock")
    /\ UNCHANGED <<lockVars, flagVars, sessionVars, deviceVars, workVars>>

HandleCheck(t) ==
    /\ pc[t] = "h_check"
    /\ IF active # frame[t].sess
         THEN Goto(t, "h_retire") /\ UNCHANGED frame
         ELSE /\ Locals(t, [frame[t] EXCEPT !.amount = @ - 1,
                                            !.sess = IF frame[t].amount = 1 THEN NoSession ELSE @])
              /\ Goto(t, IF frame[t].amount = 1 THEN "f_dequeue" ELSE "h_push")
    /\ UNCHANGED <<lockVars, flagVars, sessionVars, deviceVars, workVars>>

HandleRetire(t) ==
    /\ pc[t] = "h_retire"
    /\ Park(frame[t].sess)
    /\ Locals(t, [frame[t] EXCEPT !.sess = NoSession, !.amount = 0])
    /\ Goto(t, "h_wake")
    /\ UNCHANGED <<lockVars, flagVars, active, deviceVars, workVars>>

(* PollActiveSessionEvents: only a live streaming recording is polled, and *)
(* the poll may find that the backend failed.                              *)
PollActiveSession(t) ==
    /\ pc[t] = "f_poll"
    /\ \/ Goto(t, "f_exchange") /\ UNCHANGED frame
       \/ /\ machine.phase = "Recording" /\ active # NoSession /\ ~buffered
          /\ Locals(t, [frame[t] EXCEPT !.sess = active, !.after = "f_exchange"])
          /\ Goto(t, "x_lock")
    /\ UNCHANGED <<lockVars, flagVars, sessionVars, deviceVars, workVars>>

FlushExchange(t) ==
    /\ pc[t] = "f_exchange"
    /\ pendingStop' = FALSE
    /\ Goto(t, IF pendingStop THEN "f_look" ELSE frame[t].ret)
    /\ UNCHANGED <<lockVars, accepting, cancelRequested, wake, sessionVars, deviceVars, frame,
                   workVars>>

(* Faulty variant: the Error phase counts as busy, too. *)
FlushLookSkipsError(t) ==
    /\ pc[t] = "f_look"
    /\ Goto(t, IF Busy \/ recording THEN "f_skip" ELSE "f_stop")
    /\ UNCHANGED <<lockVars, flagVars, sessionVars, deviceVars, frame, workVars>>

FlushLook(t) ==
    /\ pc[t] = "f_look"
    /\ Goto(t, IF \/ startInProgress
                  \/ recording
                  \/ machine.phase \in {"Recording", "Inferring", "Postprocessing"}
                 THEN "f_skip" ELSE "f_stop")
    /\ UNCHANGED <<lockVars, flagVars, sessionVars, deviceVars, frame, workVars>>

(* capture_->Stop(), unless the inactive stream is kept for reuse.         *)
FlushStop(t) ==
    /\ pc[t] = "f_stop"
    /\ IF StreamReuse THEN UNCHANGED <<recording, stream, queued>>
                       ELSE recording' = FALSE /\ stream' = "none" /\ queued' = 0
    /\ Goto(t, "f_restore")
    /\ UNCHANGED <<lockVars, flagVars, sessionVars, ducked, status, frame, workVars>>

-----------------------------------------------------------------------------
(* MaybeDestroyExpiredStream, called by the poll loop: it looks at the     *)
(* flag and the deadline of the idle grace, and then destroys the stream.  *)

(* Faulty variant: the test of recording_ is inverted. *)
ExpireLookWhileRecording ==
    /\ pc["main"] = "idle"
    /\ recording /\ stream = "idle"
    /\ Goto("main", "e_destroy")
    /\ UNCHANGED <<lockVars, flagVars, sessionVars, deviceVars, frame, workVars>>

ExpireLook ==
    /\ pc["main"] = "idle"
    /\ ~recording /\ stream = "idle"
    /\ Goto("main", "e_destroy")
    /\ UNCHANGED <<lockVars, flagVars, sessionVars, deviceVars, frame, workVars>>

ExpireDestroy ==
    /\ pc["main"] = "e_destroy"
    /\ recording' = FALSE /\ stream' = "none"
    /\ Goto("main", "idle")
    /\ UNCHANGED <<lockVars, flagVars, sessionVars, queued, ducked, status, frame, workVars>>

-----------------------------------------------------------------------------
(* FailActiveSession                                                       *)

FailActiveSession(t) ==
    /\ pc[t] = "x_lock"
    /\ IF active # frame[t].sess
         THEN /\ Locals(t, [frame[t] EXCEPT !.sess = NoSession, !.after = "idle"])
              /\ Goto(t, frame[t].after)
              /\ UNCHANGED <<accepting, samples, buffered, active, machine>>
         ELSE /\ accepting' = FALSE
              /\ ResetRecordingState
              /\ DetachActive
              /\ machine' = OnAudioError(machine).machine
              /\ Goto(t, "x_cancel")
              /\ UNCHANGED frame
    /\ UNCHANGED <<startInProgress, pendingReload, sessionIme, order, workerRunning, pendingStop,
                   cancelRequested, wake, deferred, deviceVars, workVars>>

FailCancel(t) ==
    /\ pc[t] = "x_cancel"
    /\ Park(frame[t].sess)
    /\ Goto(t, "x_wake")
    /\ UNCHANGED <<lockVars, flagVars, active, deviceVars, frame, workVars>>

FailNotify(t) ==
    /\ pc[t] = "x_notify"
    /\ Emit("Error", sessionIme)
    /\ Goto(t, "t_end")
    /\ UNCHANGED <<lockVars, flagVars, sessionVars, recording, stream, queued, ducked, frame,
                   workVars>>

-----------------------------------------------------------------------------
(* ResetToIdle and MaybeApplyPendingAsrBackendReload                       *)

ResetLock(t) ==
    /\ pc[t] = "z_lock"
    /\ startInProgress' = FALSE
    /\ cancelRequested' = FALSE
    /\ machine' = OnResetToIdle(machine).machine
    /\ order' = NoOrder
    /\ ResetRecordingState
    /\ sessionIme' = TRUE
    /\ Locals(t, [frame[t] EXCEPT !.wasIme = sessionIme])
    /\ Goto(t, "z_restore")
    /\ UNCHANGED <<pendingReload, workerRunning, accepting, pendingStop, wake, sessionVars,
                   deviceVars, workVars>>

ResetEmit(t) ==
    /\ pc[t] = "z_emit"
    /\ Emit("Idle", frame[t].wasIme)
    /\ Locals(t, [frame[t] EXCEPT !.wasIme = TRUE])
    /\ Goto(t, "m_apply")
    /\ UNCHANGED <<lockVars, flagVars, sessionVars, recording, stream, queued, ducked, workVars>>

(* SynchronizeAsrBackend() then runs outside the lock.  On the worker this *)
(* is the end of the iteration, where the local order dies.                *)
MaybeApplyPendingReload(t) ==
    /\ pc[t] = "m_apply"
    /\ pendingReload' = (pendingReload /\ machine.phase # "Idle")
    /\ Locals(t, [frame[t] EXCEPT !.apply = FALSE, !.sess = NoSession])
    /\ Goto(t, frame[t].ret)
    /\ UNCHANGED <<machine, startInProgress, sessionIme, order, workerRunning, samples, buffered,
                   flagVars, sessionVars, deviceVars, workVars>>

-----------------------------------------------------------------------------
(* CancelOperation                                                         *)

CancelOperation(t, ime, commitRaw) ==
    LET res == OnCancel(machine, commitRaw)
        abort == res.effect = "stop_capture"
        stopsCapture == startInProgress \/ abort
    IN  /\ pc[t] = "idle"
        /\ startInProgress' = FALSE
        /\ accepting' = (accepting /\ ~stopsCapture)
        /\ samples' = IF stopsCapture THEN 0 ELSE samples
        /\ machine' = res.machine
        /\ sessionIme' = IF res.accepted THEN ime ELSE sessionIme
        /\ cancelRequested' = (cancelRequested \/ res.effect = "cancel_postprocessing")
        /\ IF abort
             THEN /\ buffered' = FALSE
                  /\ DetachActive
                  /\ order' = NoOrder
                  /\ Locals(t, [frame[t] EXCEPT !.sess = active, !.apply = pendingReload])
                  /\ Emit("Idle", ime)
             ELSE UNCHANGED <<buffered, active, order, frame, status>>
        /\ Goto(t, IF res.accepted /\ stopsCapture THEN "c_stop" ELSE "idle")
        /\ UNCHANGED <<pendingReload, workerRunning, pendingStop, wake, deferred, recording,
                       stream, queued, ducked, workVars>>

(* Faulty variant: the output is not restored. *)
CancelStopLeavesDucked(t) ==
    /\ pc[t] = "c_stop"
    /\ StopStream /\ queued' = 0
    /\ Goto(t, Closing(t, frame[t].sess, frame[t].apply))
    /\ UNCHANGED <<lockVars, flagVars, sessionVars, ducked, status, frame, workVars>>

(* StopAndGetBuffer(): disarm and drain; CancelOperation drops the audio.  *)
CancelStop(t) ==
    /\ pc[t] = "c_stop"
    /\ StopStream
    /\ queued' = 0
    /\ Goto(t, "c_restore")
    /\ UNCHANGED <<lockVars, flagVars, sessionVars, ducked, status, frame, workVars>>

(* Faulty variant: the main thread is not woken. *)
RetireDetachedSilently(t) ==
    /\ pc[t] = "r_retire"
    /\ Park(frame[t].sess)
    /\ Locals(t, [frame[t] EXCEPT !.sess = NoSession])
    /\ Goto(t, Closing(t, NoSession, frame[t].apply))
    /\ UNCHANGED <<lockVars, flagVars, active, deviceVars, workVars>>

(* CancelAndRetireSession() of the session detached under the lock.        *)
RetireDetached(t) ==
    /\ pc[t] = "r_retire"
    /\ Park(frame[t].sess)
    /\ Locals(t, [frame[t] EXCEPT !.sess = NoSession])
    /\ Goto(t, "r_wake")
    /\ UNCHANGED <<lockVars, flagVars, active, deviceVars, workVars>>

-----------------------------------------------------------------------------
(* StopRecording                                                           *)

StopRecording(t, ime) ==
    /\ pc[t] = "idle"
    /\ machine.phase = "Recording"
    /\ sessionIme' = ime
    /\ accepting' = FALSE
    /\ Goto(t, "p_stop")
    /\ UNCHANGED <<machine, startInProgress, pendingReload, order, workerRunning, samples,
                   buffered, pendingStop, cancelRequested, wake, sessionVars, deviceVars,
                   frame, workVars>>

(* StopAndGetBuffer(): what is still queued goes with the stop.            *)
StopCapture(t) ==
    /\ pc[t] = "p_stop"
    /\ StopStream
    /\ Locals(t, [frame[t] EXCEPT !.amount = queued])
    /\ queued' = 0
    /\ Goto(t, "p_restore")
    /\ UNCHANGED <<lockVars, flagVars, sessionVars, ducked, status, workVars>>

(* The second critical section: reset, give up a too short recording, or   *)
(* hand the detached session to the worker.                                *)
StopLock(t) ==
    LET total == Saturate(samples + frame[t].amount)
        res == OnStopRecording(machine, total, MinSamples)
    IN  /\ pc[t] = "p_lock"
        /\ DetachActive
        /\ IF active = NoSession
             THEN /\ machine' = OnResetToIdle(machine).machine
                  /\ order' = NoOrder
                  /\ Emit("Idle", sessionIme)
                  /\ Locals(t, [frame[t] EXCEPT !.amount = 0])
                  /\ Goto(t, "m_apply")
                  /\ UNCHANGED <<samples, buffered>>
             ELSE /\ machine' = res.machine
                  /\ Emit(res.machine.phase, sessionIme)
                  /\ buffered' = FALSE
                  /\ IF res.effect = "too_short"
                       THEN /\ samples' = 0
                            /\ order' = NoOrder
                            /\ Locals(t, [frame[t] EXCEPT !.amount = 0, !.sess = active,
                                                          !.apply = TRUE])
                            /\ Goto(t, "r_retire")
                       ELSE /\ samples' = total
                            /\ order' = Request(active, sessionIme)
                            /\ Locals(t, [frame[t] EXCEPT !.amount = 0])
                            /\ Goto(t, "idle")
        /\ UNCHANGED <<startInProgress, pendingReload, sessionIme, workerRunning, flagVars,
                       deferred, recording, stream, queued, ducked, workVars>>

-----------------------------------------------------------------------------
(* ReloadAsrBackend: deferred unless the daemon is idle.                   *)
ReloadAsrBackend(t) ==
    /\ pc[t] = "idle"
    /\ pendingReload' = (pendingReload \/ Busy)
    /\ UNCHANGED <<machine, startInProgress, sessionIme, order, workerRunning, samples, buffered,
                   flagVars, sessionVars, deviceVars, pc, frame, workVars>>

(* InjectText with a scene: the text becomes an order without a session.   *)
(* The other stages of inject emit directly and change nothing here.       *)
InjectText(t, ime) ==
    /\ pc[t] = "idle"
    /\ machine.phase = "Idle"
    /\ sessionIme' = ime
    /\ order' = Request(NoSession, ime)
    /\ UNCHANGED <<machine, startInProgress, pendingReload, workerRunning, samples, buffered,
                   flagVars, sessionVars, deviceVars, pc, frame, workVars>>

-----------------------------------------------------------------------------
(* WorkerMain                                                              *)

WorkerLoop ==
    /\ pc["worker"] = "w_loop"
    /\ Goto("worker", IF workerRunning THEN "w_wait" ELSE "done")
    /\ UNCHANGED <<lockVars, flagVars, sessionVars, deviceVars, frame, workVars>>

(* The wait ends with an order or with the shutdown; an order wins.        *)
WorkerWait ==
    /\ pc["worker"] = "w_wait"
    /\ IF order = NoOrder
         THEN ~workerRunning /\ Goto("worker", "done") /\ UNCHANGED <<order, frame, payload>>
         ELSE /\ order' = MovedOrder
              /\ Locals("worker", [frame["worker"] EXCEPT !.sess = order.session,
                                                         !.ime = order.ime])
              /\ IF order.session = NoSession
                   THEN payload' \in {"text", "empty"} /\ Goto("worker", "w_pipeline")
                   ELSE UNCHANGED payload /\ Goto("worker", "w_finish")
    /\ UNCHANGED <<machine, startInProgress, pendingReload, sessionIme, workerRunning, samples,
                   buffered, flagVars, sessionVars, deviceVars, nextPhase>>

(* PushAudio() of the tail, then FinishSessionAndCollectResult(): there is *)
(* a text, or the finish failed, or the push failed and threw, and then    *)
(* the local order keeps its session until the iteration ends.             *)
WorkerFinish ==
    LET release == Locals("worker", [frame["worker"] EXCEPT !.sess = NoSession]) IN
    /\ pc["worker"] = "w_finish"
    /\ \/ payload' \in {"text", "empty"} /\ Goto("worker", "w_pipeline") /\ release
       \/ UNCHANGED payload /\ Goto("worker", "z_lock") /\ release
       \/ UNCHANGED <<payload, frame>> /\ Goto("worker", "w_except")
    /\ UNCHANGED <<lockVars, flagVars, sessionVars, deviceVars, nextPhase>>

(* RecognitionPipeline::Process: an empty text, or a scene without a       *)
(* model, needs no post-processing.                                        *)
WorkerPipeline ==
    /\ pc["worker"] = "w_pipeline"
    /\ cancelRequested' = FALSE
    /\ \/ Goto("worker", "w_take")
       \/ payload = "text" /\ Goto("worker", "w_enter")
    /\ UNCHANGED <<lockVars, accepting, pendingStop, wake, sessionVars, deviceVars, frame,
                   workVars>>

EnterPostprocessing ==
    /\ pc["worker"] = "w_enter"
    /\ machine' = OnInferenceComplete(machine, TRUE).machine
    /\ nextPhase' = OnInferenceComplete(machine, TRUE).machine.phase
    /\ Locals("worker", [frame["worker"] EXCEPT !.wasIme = sessionIme])
    /\ Goto("worker", "w_enter_emit")
    /\ UNCHANGED <<startInProgress, pendingReload, sessionIme, order, workerRunning, samples,
                   buffered, flagVars, sessionVars, deviceVars, payload>>

EnterEmit ==
    /\ pc["worker"] = "w_enter_emit"
    /\ Emit(nextPhase, frame["worker"].wasIme)
    /\ Locals("worker", [frame["worker"] EXCEPT !.wasIme = TRUE])
    /\ nextPhase' = "Idle"
    /\ Goto("worker", "w_llm")
    /\ UNCHANGED <<lockVars, flagVars, sessionVars, recording, stream, queued, ducked, payload>>

(* The language model answers, gives up, or is interrupted: in every case  *)
(* the post-processor returns, or an exception leaves the pipeline.        *)
WorkerProcess ==
    /\ pc["worker"] = "w_llm"
    /\ \/ payload' = "llm" /\ Goto("worker", "w_take")
       \/ UNCHANGED payload /\ Goto("worker", "w_except")
    /\ UNCHANGED <<lockVars, flagVars, sessionVars, deviceVars, frame, nextPhase>>

(* TakePostprocessingState() and the verdict applied to the payload.       *)
WorkerTake ==
    /\ pc["worker"] = "w_take"
    /\ machine' = AfterTake(machine)
    /\ payload' = CASE machine.post = "CommitRaw" -> "raw"
                    [] machine.post = "Discard" -> "empty"
                    [] OTHER -> payload
    /\ Goto("worker", "w_emit")
    /\ UNCHANGED <<startInProgress, pendingReload, sessionIme, order, workerRunning, samples,
                   buffered, flagVars, sessionVars, deviceVars, frame, nextPhase>>

(* EmitRecognitionResult and the broadcast of a non-empty commit.          *)
WorkerEmit ==
    /\ pc["worker"] = "w_emit"
    /\ payload' = "none"
    /\ Goto("worker", "z_lock")
    /\ UNCHANGED <<lockVars, flagVars, sessionVars, deviceVars, frame, nextPhase>>

WorkerExcept ==
    /\ pc["worker"] = "w_except"
    /\ machine' = AfterTake(machine)
    /\ payload' = "none"
    /\ Goto("worker", "z_lock")
    /\ UNCHANGED <<startInProgress, pendingReload, sessionIme, order, workerRunning, samples,
                   buffered, flagVars, sessionVars, deviceVars, frame, nextPhase>>

-----------------------------------------------------------------------------
(* Shutdown, on the main thread once the poll loop ended.                  *)

(* Faulty variant: chunks are still accepted. *)
QuitKeepsAccepting ==
    /\ MayShutDown
    /\ pc["main"] = "idle"
    /\ pendingStop' = FALSE
    /\ Goto("main", "q_capture")
    /\ UNCHANGED <<lockVars, accepting, cancelRequested, wake, sessionVars, deviceVars, frame,
                   workVars>>

Quit ==
    /\ MayShutDown
    /\ pc["main"] = "idle"
    /\ accepting' = FALSE
    /\ pendingStop' = FALSE
    /\ Goto("main", "q_capture")
    /\ UNCHANGED <<lockVars, cancelRequested, wake, sessionVars, deviceVars, frame, workVars>>

ShutdownCapture ==
    /\ pc["main"] = "q_capture"
    /\ recording' = FALSE /\ stream' = "none" /\ queued' = 0
    /\ Goto("main", "q_restore")
    /\ UNCHANGED <<lockVars, flagVars, sessionVars, ducked, status, frame, workVars>>

(* Faulty variant: the worker is not told to stop. *)
ShutdownLockKeepsWorker ==
    /\ pc["main"] = "q_lock"
    /\ startInProgress' = FALSE /\ machine' = Clear
    /\ Goto("main", "q_active")
    /\ UNCHANGED <<pendingReload, sessionIme, order, workerRunning, samples, buffered, flagVars,
                   sessionVars, deviceVars, frame, workVars>>

ShutdownLock ==
    /\ pc["main"] = "q_lock"
    /\ startInProgress' = FALSE
    /\ workerRunning' = FALSE
    /\ machine' = Clear
    /\ Goto("main", "q_active")
    /\ UNCHANGED <<pendingReload, sessionIme, order, samples, buffered, flagVars, sessionVars,
                   deviceVars, frame, workVars>>

(* CancelAndRetireActive() *)
ShutdownActive ==
    /\ pc["main"] = "q_active"
    /\ DetachActive
    /\ RetireIfAny(active)
    /\ Goto("main", "q_join")
    /\ UNCHANGED <<lockVars, accepting, pendingStop, cancelRequested, deviceVars, frame, workVars>>

(* worker_.join(), then FlushReapedSessions() and Clear().                 *)
ShutdownJoin ==
    /\ pc["main"] = "q_join"
    /\ pc["worker"] = "done"
    /\ active' = NoSession
    /\ deferred' = {}
    /\ Goto("main", "exit")
    /\ UNCHANGED <<lockVars, flagVars, deviceVars, frame, workVars>>

Terminated == pc["main"] = "exit" /\ pc["worker"] = "done" /\ UNCHANGED vars

-----------------------------------------------------------------------------
(* The PipeWire callback: audio reaches the queue while recording_ is set. *)
AudioArrives ==
    /\ recording
    /\ queued' = Saturate(queued + 1)
    /\ wake' = TRUE
    /\ UNCHANGED <<lockVars, accepting, pendingStop, cancelRequested, sessionVars, recording,
                   stream, ducked, status, pc, frame, workVars>>

(* The wake callback of an AsyncRecognitionSession: its worker has events,  *)
(* or failed.                                                              *)
SessionWakes ==
    /\ (active # NoSession /\ ~buffered) \/ order.session # NoSession
    /\ wake' = TRUE
    /\ UNCHANGED <<lockVars, accepting, pendingStop, cancelRequested, sessionVars, deviceVars, pc,
                   frame, workVars>>

Commands(t) == IF t = "main" THEN MainCommands ELSE ClientCommands
Imes(t) == IF t = "main" THEN {TRUE} ELSE ClientImes

Command(t) ==
    \/ "start" \in Commands(t) /\ \E ime \in Imes(t), c \in BOOLEAN : StartRecording(t, ime, c)
    \/ "stop" \in Commands(t) /\ \E ime \in Imes(t) : StopRecording(t, ime)
    \/ "cancel" \in Commands(t) /\ \E ime \in Imes(t), raw \in BOOLEAN :
                                      CancelOperation(t, ime, raw)
    \/ "reload" \in Commands(t) /\ ReloadAsrBackend(t)
    \/ "inject" \in Commands(t) /\ \E ime \in Imes(t) : InjectText(t, ime)

(* The steps a caller takes inside a method.                               *)
Step(t) ==
    \/ StartLock(t) \/ BeginRecording(t) \/ StartDisarm(t) \/ CreateSession(t)
    \/ CreateSessionFails(t) \/ StartInstall(t) \/ StartDuck(t) \/ StartNotify(t)
    \/ EndRecording(t) \/ ScheduleCaptureStop(t) \/ WakeMainThread(t)
    \/ FlushWake(t) \/ FlushReapedSessions(t) \/ TryDequeue(t) \/ HandleEnter(t)
    \/ HandleStartup(t) \/ HandleAppend(t) \/ PushAudio(t) \/ HandleCheck(t) \/ HandleRetire(t)
    \/ PollActiveSession(t) \/ FlushExchange(t) \/ FlushLook(t) \/ FlushStop(t)
    \/ FailActiveSession(t) \/ FailCancel(t) \/ FailNotify(t)
    \/ CancelStop(t) \/ RetireDetached(t) \/ StopCapture(t) \/ StopLock(t)

(* ResetToIdle and RestoreOutputIfDucked run on any thread.                *)
Shared(t) ==
    RestoreOutput(t) \/ ResetLock(t) \/ ResetEmit(t) \/ MaybeApplyPendingReload(t)

Worker ==
    \/ WorkerLoop \/ WorkerWait \/ WorkerFinish \/ WorkerPipeline \/ EnterPostprocessing
    \/ EnterEmit \/ WorkerProcess \/ WorkerTake \/ WorkerEmit \/ WorkerExcept

Shutdown == ShutdownCapture \/ ShutdownLock \/ ShutdownActive \/ ShutdownJoin

Next ==
    \/ \E t \in Callers : Command(t) \/ Step(t)
    \/ \E t \in Threads : Shared(t)
    \/ MainFlush \/ ExpireLook \/ ExpireDestroy \/ Worker \/ Quit \/ Shutdown
    \/ AudioArrives \/ SessionWakes
    \/ Terminated

Spec == Init /\ [][Next]_vars

(* A method once entered runs on and the worker is scheduled.  The poll    *)
(* loop looks at the notify fd and at the expired stream again after every *)
(* batch of D-Bus messages, and a batch is finite.  Nobody is obliged to   *)
(* call a method, to speak, or to ask for the shutdown.                    *)
Fairness ==
    /\ \A t \in Callers : WF_vars(Step(t))
    /\ \A t \in Threads : WF_vars(Shared(t))
    /\ SF_vars(MainFlush) /\ SF_vars(ExpireLook) /\ WF_vars(ExpireDestroy)
    /\ WF_vars(Worker) /\ WF_vars(Shutdown)

FairSpec == Spec /\ Fairness

-----------------------------------------------------------------------------
(* Properties.                                                             *)

StartLabels == {"s_lock", "s_begin", "s_disarm", "s_disarm_abort", "s_create", "s_install",
                "s_duck", "s_notify"}
TailLabels == {"t_end", "t_restore", "t_schedule", "t_wake"}
LookLabels == {"f_wake", "f_reap", "f_dequeue", "f_poll", "f_exchange"}
FlushLabels == LookLabels \cup {"f_look", "f_skip", "f_stop", "f_restore"}
HandleLabels == {"h_enter", "h_startup", "h_append", "h_push", "h_check", "h_retire", "h_wake"}
FailLabels == {"x_lock", "x_cancel", "x_wake", "x_notify"}
ResetLabels == {"z_lock", "z_restore", "z_emit", "m_apply"}
CloseLabels == {"c_stop", "c_restore", "p_stop", "p_restore", "p_lock", "r_retire", "r_wake"}
WorkerLabels == {"w_loop", "w_wait", "w_finish", "w_pipeline", "w_enter", "w_enter_emit",
                 "w_llm", "w_take", "w_emit", "w_except", "done"}
ShutdownLabels == {"q_capture", "q_restore", "q_lock", "q_active", "q_join", "exit"}
Labels == {"idle", "e_destroy"} \cup StartLabels \cup TailLabels \cup FlushLabels \cup HandleLabels
            \cup FailLabels \cup ResetLabels \cup CloseLabels \cup WorkerLabels
            \cup ShutdownLabels

MaybeSession == Sessions \cup {NoSession}
Frame == [ret : {"idle", "s_lock", "w_loop"}, after : {"idle", "f_dequeue", "f_exchange"},
          sess : MaybeSession, amount : Nat, ime : BOOLEAN, command : BOOLEAN,
          apply : BOOLEAN, wasIme : BOOLEAN]
Order == [kind : {"none", "moved", "request"}, session : MaybeSession, ime : BOOLEAN]

(* Every field the controller and its collaborators keep has its type.     *)
TypeOK ==
    /\ machine \in Machine
    /\ startInProgress \in BOOLEAN /\ accepting \in BOOLEAN /\ pendingStop \in BOOLEAN
    /\ pendingReload \in BOOLEAN /\ cancelRequested \in BOOLEAN /\ sessionIme \in BOOLEAN
    /\ order \in Order /\ workerRunning \in BOOLEAN
    /\ active \in MaybeSession /\ deferred \subseteq Sessions /\ wake \in BOOLEAN
    /\ samples \in 0 .. MinSamples /\ buffered \in BOOLEAN
    /\ recording \in BOOLEAN /\ stream \in {"none", "live", "idle"} /\ queued \in 0 .. MinSamples
    /\ ducked \in BOOLEAN /\ status \in Status
    /\ pc \in [Threads -> Labels]
    /\ frame \in [Threads -> Frame]
    /\ nextPhase \in Status
    /\ payload \in {"none", "text", "empty", "llm", "raw"}

ShuttingDown == pc["main"] \in ShutdownLabels
WorkerBusy == pc["worker"] \notin {"w_loop", "w_wait", "m_apply", "z_restore", "z_emit", "done"}

(* The phase the daemon reports, the installed session and the order slot  *)
(* tell the same story whenever state_mutex_ is free: a session is         *)
(* installed exactly while Recording, and an utterance is with the worker  *)
(* exactly while Inferring or Postprocessing.  Otherwise a stop is         *)
(* rejected with the microphone open, or a start overwrites an utterance.  *)
PhaseTellsOwner ==
    ~ShuttingDown =>
      /\ (active # NoSession) <=> (machine.phase = "Recording")
      /\ (order # NoOrder) <=> (machine.phase \in {"Inferring", "Postprocessing"})
      /\ (order.kind = "moved") <=> WorkerBusy

AllReturned == \A t \in Callers : pc[t] = "idle"

(* Once every method has returned, the microphone is open and audio is     *)
(* accepted only for a recording: start, stop, cancel and the deferred     *)
(* actions undo on every path, and however they overlap, what they set up. *)
MicrophoneClosed ==
    AllReturned /\ machine.phase # "Recording" => ~recording /\ ~accepting /\ ~startInProgress

(* Once every method has returned, the output is ducked only for a         *)
(* recording: every path that ends one goes through RestoreOutputIfDucked. *)
OutputRestored == AllReturned /\ machine.phase # "Recording" => ~ducked

(* Once every method has returned, a recording the daemon reports is one   *)
(* whose audio is captured and accepted.                                   *)
RecordingIsHeard == AllReturned /\ machine.phase = "Recording" => recording /\ accepting

(* An utterance handed over by StopRecording() leaves the order slot only  *)
(* by the worker taking it: no cancel, start, stop or reset drops it.      *)
OrderOnlyTaken ==
    [][order.session # NoSession /\ order' # order =>
         frame'["worker"].sess = order.session]_vars

(* An accepted cancel of the post-processing is honoured: the verdict      *)
(* stays until the worker takes it, and then nothing but what was asked    *)
(* for is emitted, however the cancel races the end of the model's call.   *)
VerdictHonoured ==
    [][~ShuttingDown /\ machine'.post # machine.post =>
         /\ machine.post = "Discard" => payload' \in {"empty", "none"}
         /\ machine.post = "CommitRaw" => payload' \in {"raw", "none"}]_vars

(* A retired session is dead: it is neither installed nor with the worker, *)
(* so joining it on the main thread never waits for a live recognition.    *)
RetiredIsDead ==
    \A s \in deferred : s # active /\ s # order.session /\ s # frame["worker"].sess

(* After Shutdown() nothing is left running: no microphone, no ducked      *)
(* output, no session, no start in progress.                               *)
ShutdownIsComplete ==
    pc["main"] = "exit" =>
      ~recording /\ ~ducked /\ ~accepting /\ ~startInProgress /\ active = NoSession /\ deferred = {}

(* What a recording sets up is undone on every path that ends one: the     *)
(* microphone is closed, no audio accepted, and the output is as loud as   *)
(* before; after Shutdown() no session is left either.                     *)
RecordingUndone == MicrophoneClosed /\ OutputRestored /\ ShutdownIsComplete

(* A client that cancels from its own thread, at any step of a start or a  *)
(* stop of the main thread, leaves phase, session and order telling one    *)
(* story, and no microphone open once every method has returned.           *)
CancelsAreClean == PhaseTellsOwner /\ MicrophoneClosed

(* postprocessing_state_ is set only while post-processing, whoever calls. *)
PostOnlyWhilePostprocessing ==
    machine.post # "Inactive" => machine.phase = "Postprocessing"

(* No wake-up is lost: a parked session or a scheduled capture stop is     *)
(* seen by a flush that has yet to look, or the notify fd is readable.     *)
WakeNotLost ==
    /\ deferred # {} =>
         wake \/ ShuttingDown
              \/ \E t \in Callers : pc[t] \in {"f_wake", "f_reap", "h_wake", "x_wake", "r_wake"}
    /\ pendingStop =>
         wake \/ ShuttingDown
              \/ \E t \in Callers : pc[t] \in LookLabels \cup HandleLabels \cup FailLabels
                                              \cup TailLabels

(* An utterance that was handed over is answered or given up and an error  *)
(* is left: the worker, or for an error the deferred capture stop, always  *)
(* brings the daemon back to Idle.                                         *)
BusyEnds ==
    machine.phase \in {"Inferring", "Postprocessing", "Error"} ~> machine.phase = "Idle"

(* The privacy promise of the warm capture path: a stream kept for reuse   *)
(* is taken up again or destroyed.                                         *)
IdleStreamReleased == stream = "idle" ~> stream # "idle"

(* Parked sessions are joined.                                             *)
RetiredAreJoined == deferred # {} ~> deferred = {}

(* A deferred reload is applied once the daemon stays idle.                *)
ReloadApplied == pendingReload ~> (~pendingReload \/ machine.phase # "Idle" \/ ShuttingDown)

(* Shutdown() terminates: the join of the worker does not hang.            *)
ShutdownEnds == pc["main"] = "q_capture" ~> pc["main"] = "exit"
=============================================================================
