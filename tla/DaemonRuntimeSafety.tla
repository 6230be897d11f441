------------------------ MODULE DaemonRuntimeSafety ------------------------
(***************************************************************************)
(* What DaemonRuntimeController guarantees, proved from the types: the     *)
(* wake-up protocol and the scope of the verdict for every set of clients, *)
(* and who owns an utterance for a daemon driven by the input method alone *)
(* (no client pump threads).                                               *)
(***************************************************************************)
EXTENDS DaemonRuntimeProofs

(* The time, in seconds, a leaf that names no prover gives to each.        *)
USE SMTT(30), ZenonT(30)

-----------------------------------------------------------------------------
(* The phase machine moves only by its transitions, whoever calls.         *)

MachineMove ==
    \/ UNCHANGED machine
    \/ \E b \in BOOLEAN : machine' = OnStartRecording(machine, b).machine
    \/ \E b \in BOOLEAN : machine' = OnCancel(machine, b).machine
    \/ \E n \in Nat : machine' = OnStopRecording(machine, n, MinSamples).machine
    \/ machine' = OnAudioError(machine).machine
    \/ machine' = OnInferenceComplete(machine, TRUE).machine
    \/ machine' = OnResetToIdle(machine).machine
    \/ machine' = AfterTake(machine)
    \/ machine' = Clear

LEMMA MachineMoves ==
    ASSUME TypeInv, [Next]_vars
    PROVE  MachineMove
  <1>1. ASSUME NEW t \in Callers, Command(t)
        PROVE  MachineMove
    <2>1. CASE \E ime \in Imes(t), raw \in BOOLEAN : CancelOperation(t, ime, raw)
      BY <2>1, ZenonT(30) DEF CancelOperation, MachineMove
    <2>2. CASE \/ \E ime \in Imes(t), c \in BOOLEAN : StartRecording(t, ime, c)
               \/ \E ime \in Imes(t) : StopRecording(t, ime)
               \/ ReloadAsrBackend(t)
               \/ \E ime \in Imes(t) : InjectText(t, ime)
      BY <2>2, ZenonT(30) DEF StartRecording, StopRecording, ReloadAsrBackend, InjectText,
           MachineMove, lockVars
    <2> QED
      BY <1>1, <2>1, <2>2 DEF Command
  <1>2. ASSUME NEW t \in Callers, Step(t)
        PROVE  MachineMove
    <2>1. t \in Threads /\ frame[t] \in Frame
      BY DEF TypeInv, ThreadsOK, Threads
    <2>2. CASE StartInstall(t)
      BY <2>1, <2>2, ZenonT(30) DEF StartInstall, MachineMove, Frame
    <2>3. CASE FailActiveSession(t)
      BY <2>3, ZenonT(30) DEF FailActiveSession, MachineMove
    <2>4. CASE StopLock(t)
      <3>1. Saturate(samples + frame[t].amount) \in Nat
        BY <2>1, SizesAssumption DEF TypeInv, FieldsOK, LockOK, Frame, Saturate
      <3> QED
        BY <2>4, <3>1, ZenonT(30) DEF StopLock, MachineMove
    <2>5. CASE \/ StartLock(t) \/ BeginRecording(t) \/ StartDisarm(t) \/ CreateSession(t)
               \/ CreateSessionFails(t) \/ StartDuck(t) \/ StartNotify(t)
      BY <2>5, ZenonT(30)
         DEF StartLock, BeginRecording, StartDisarm, CreateSession, CreateSessionFails, StartDuck,
             StartNotify, MachineMove, lockVars
    <2>6. CASE \/ EndRecording(t) \/ ScheduleCaptureStop(t) \/ WakeMainThread(t)
               \/ FlushWake(t) \/ FlushReapedSessions(t) \/ TryDequeue(t)
      BY <2>6, ZenonT(30)
         DEF EndRecording, ScheduleCaptureStop, WakeMainThread, FlushWake, FlushReapedSessions,
             TryDequeue, MachineMove, lockVars
    <2>7. CASE \/ HandleEnter(t) \/ HandleStartup(t) \/ HandleAppend(t) \/ PushAudio(t)
               \/ HandleCheck(t) \/ HandleRetire(t)
      BY <2>7, ZenonT(30) DEF HandleEnter, HandleStartup, HandleAppend, PushAudio, HandleCheck,
           HandleRetire,
                  MachineMove, lockVars
    <2>8. CASE \/ PollActiveSession(t) \/ FlushExchange(t) \/ FlushLook(t) \/ FlushStop(t)
               \/ FailCancel(t) \/ FailNotify(t)
      BY <2>8, ZenonT(30) DEF PollActiveSession, FlushExchange, FlushLook, FlushStop, FailCancel,
           FailNotify,
                  MachineMove, lockVars
    <2>9. CASE CancelStop(t) \/ RetireDetached(t) \/ StopCapture(t)
      BY <2>9, ZenonT(30) DEF CancelStop, RetireDetached, StopCapture, MachineMove, lockVars
    <2> QED
      BY <1>2, <2>2, <2>3, <2>4, <2>5, <2>6, <2>7, <2>8, <2>9 DEF Step
  <1>3. ASSUME NEW t \in Threads, Shared(t)
        PROVE  MachineMove
    BY <1>3, ZenonT(30) DEF Shared, RestoreOutput, ResetLock, ResetEmit, MaybeApplyPendingReload,
         MachineMove,
                lockVars
  <1>4. CASE Worker
    BY <1>4, ZenonT(30)
       DEF Worker, WorkerLoop, WorkerWait, WorkerFinish, WorkerPipeline, EnterPostprocessing,
           EnterEmit, WorkerProcess, WorkerTake, WorkerEmit, WorkerExcept, MachineMove, lockVars
  <1>5. CASE Shutdown \/ Quit
    BY <1>5, ZenonT(30) DEF Shutdown, Quit, ShutdownCapture, ShutdownLock, ShutdownActive,
         ShutdownJoin,
                MachineMove, lockVars
  <1>6. CASE MainFlush \/ ExpireLook \/ ExpireDestroy \/ AudioArrives \/ SessionWakes
    BY <1>6, ZenonT(30)
       DEF MainFlush, ExpireLook, ExpireDestroy, AudioArrives, SessionWakes, MachineMove,
           lockVars
  <1>7. CASE UNCHANGED vars
    BY <1>7 DEF MachineMove, vars, lockVars
  <1> QED
    BY <1>1, <1>2, <1>3, <1>4, <1>5, <1>6, <1>7 DEF Next, Terminated

(* An aborted recording keeps postprocessing_state_, but then it is         *)
(* Inactive: the invariant is inductive for the machine alone.             *)
LEMMA MoveKeepsPost ==
    ASSUME machine \in Machine, PostOnlyWhilePostprocessing, MachineMove
    PROVE  PostOnlyWhilePostprocessing'
  <1> USE DEF PostOnlyWhilePostprocessing
  <1>1. CASE UNCHANGED machine
    BY <1>1
  <1>2. CASE \E b \in BOOLEAN : machine' = OnStartRecording(machine, b).machine
    BY <1>2 DEF OnStartRecording, Accept, Reject
  <1>3. CASE \E b \in BOOLEAN : machine' = OnCancel(machine, b).machine
    <2>1. PICK b \in BOOLEAN : machine' = OnCancel(machine, b).machine
      BY <1>3
    <2>2. CASE machine.phase = "Recording"
      BY <2>1, <2>2, ZenonT(30) DEF OnCancel, Accept, AbortRecordingToIdle, Machine
    <2>3. CASE machine.phase # "Recording"
      BY <2>1, <2>3 DEF OnCancel, Accept, Reject, Machine
    <2> QED
      BY <2>2, <2>3
  <1>4. CASE \E n \in Nat : machine' = OnStopRecording(machine, n, MinSamples).machine
    BY <1>4 DEF OnStopRecording, Accept, Reject, AbortRecordingToIdle, Machine
  <1>5. CASE machine' = OnAudioError(machine).machine
    BY <1>5 DEF OnAudioError, Accept, Reject, Machine
  <1>6. CASE machine' = OnInferenceComplete(machine, TRUE).machine
    BY <1>6 DEF OnInferenceComplete, Accept, Reject, Machine
  <1>7. CASE machine' = OnResetToIdle(machine).machine \/ machine' = Clear
    BY <1>7 DEF OnResetToIdle, Accept, Clear
  <1>8. CASE machine' = AfterTake(machine)
    BY <1>8 DEF AfterTake, Machine
  <1> QED
    BY <1>1, <1>2, <1>3, <1>4, <1>5, <1>6, <1>7, <1>8, ZenonT(30) DEF MachineMove

(* A post-processing verdict is pending only while post-processing, for    *)
(* every set of clients: what one utterance left behind is never applied   *)
(* to the next one.                                                        *)
THEOREM PostScoped == Spec => []PostOnlyWhilePostprocessing
  <1>1. Init => PostOnlyWhilePostprocessing
    BY DEF Init, Clear, PostOnlyWhilePostprocessing
  <1>2. TypeInv /\ PostOnlyWhilePostprocessing /\ [Next]_vars => PostOnlyWhilePostprocessing'
    BY MachineMoves, MoveKeepsPost DEF TypeInv, FieldsOK, LockOK
  <1> QED
    BY <1>1, <1>2, InitTypes, NextTypes, PTL DEF Spec

-----------------------------------------------------------------------------
(* A failure found while flushing returns into the flush. *)
FailReturns ==
    \A t \in Callers : pc[t] \in FailLabels => frame[t].after \in {"f_dequeue", "f_exchange"}

(* At these labels a thread has yet to reap, or to look at                  *)
(* pending_capture_stop_, or to wake the main thread.                      *)
ReapLabels == {"f_wake", "f_reap", "h_wake", "x_wake", "r_wake"}
StopLabels == LookLabels \cup HandleLabels \cup FailLabels \cup TailLabels

WakeInv == TypeInv /\ FailReturns /\ WakeNotLost

(* What a step of caller t to label l owes to the protocol. *)
Owes(t, l) ==
    /\ deferred' \subseteq deferred \/ wake' \/ l \in ReapLabels
    /\ pendingStop' => pendingStop \/ wake' \/ l \in StopLabels
    /\ wake => wake' \/ (l \in ReapLabels /\ l \in StopLabels)
    /\ pc[t] \in ReapLabels => wake' \/ l \in ReapLabels \/ deferred' = {}
    /\ pc[t] \in StopLabels => wake' \/ l \in StopLabels \/ ~pendingStop'
    /\ pc[t] \in ShutdownLabels => l \in ShutdownLabels

(* The locals stay with their thread, and a failure keeps where to return. *)
KeepsLocals(t, l) ==
    /\ \A u \in Threads : u # t => frame'[u] = frame[u]
    /\ l \in FailLabels => frame'[t].after \in {"f_dequeue", "f_exchange"}

LEMMA CallersAreThreads ==
    Callers \subseteq Threads /\ "main" \in Callers /\ "worker" \in Threads /\ "worker" \notin Callers
    BY ThreadsAssumption DEF Threads, Callers

LEMMA WakeStep ==
    ASSUME WakeInv, NEW t \in Callers, NEW l, Goto(t, l), Owes(t, l), KeepsLocals(t, l)
    PROVE  FailReturns' /\ WakeNotLost'
  <1>1. \A u \in Threads : pc'[u] = IF u = t THEN l ELSE pc[u]
    BY DEF WakeInv, TypeInv, ThreadsOK, Goto
  <1>2. Callers \subseteq Threads /\ "main" \in Callers
    BY CallersAreThreads
  <1>3. FailReturns'
    BY <1>1, <1>2 DEF WakeInv, FailReturns, KeepsLocals
  <1>4. ShuttingDown => ShuttingDown'
    BY <1>1, <1>2 DEF ShuttingDown, Owes
  <1>5. ASSUME deferred' # {}, ~wake', ~ShuttingDown', l \notin ReapLabels
        PROVE  \E u \in Callers : pc'[u] \in ReapLabels
    <2>1. deferred # {} /\ ~wake /\ ~ShuttingDown
      BY <1>4, <1>5 DEF Owes
    <2>2. PICK u \in Callers : pc[u] \in ReapLabels
      BY <2>1 DEF WakeInv, WakeNotLost, ReapLabels
    <2> QED
      BY <1>1, <1>2, <1>5, <2>2 DEF Owes
  <1>6. ASSUME pendingStop', ~wake', ~ShuttingDown', l \notin StopLabels
        PROVE  \E u \in Callers : pc'[u] \in StopLabels
    <2>1. pendingStop /\ ~wake /\ ~ShuttingDown
      BY <1>4, <1>6 DEF Owes
    <2>2. PICK u \in Callers : pc[u] \in StopLabels
      BY <2>1 DEF WakeInv, WakeNotLost, StopLabels
    <2> QED
      BY <1>1, <1>2, <1>6, <2>2 DEF Owes
  <1>7. l \in ReapLabels => \E u \in Callers : pc'[u] \in ReapLabels
    BY <1>1, <1>2
  <1>8. l \in StopLabels => \E u \in Callers : pc'[u] \in StopLabels
    BY <1>1, <1>2
  <1> QED
    BY <1>3, <1>5, <1>6, <1>7, <1>8 DEF WakeNotLost, ReapLabels, StopLabels

(* A step that starts outside the protocol and parks and schedules nothing. *)
LEMMA QuietStep ==
    ASSUME WakeInv, NEW t \in Callers, NEW l, Goto(t, l), KeepsLocals(t, l),
           pc[t] \notin ReapLabels \cup StopLabels \cup ShutdownLabels,
           UNCHANGED <<deferred, wake>>, pendingStop' => pendingStop
    PROVE  FailReturns' /\ WakeNotLost'
  <1>1. Owes(t, l)
    BY DEF Owes
  <1> QED
    BY <1>1, WakeStep

(* A step of the worker is invisible to the protocol. *)
LEMMA UnseenStep ==
    ASSUME WakeInv, UNCHANGED <<deferred, wake, pendingStop>>,
           \A u \in Callers : pc'[u] = pc[u] /\ frame'[u] = frame[u]
    PROVE  FailReturns' /\ WakeNotLost'
  <1>1. "main" \in Callers
    BY CallersAreThreads
  <1> QED
    BY <1>1 DEF WakeInv, FailReturns, WakeNotLost, ShuttingDown

LEMMA KeptLocals ==
    ASSUME WakeInv, NEW t \in Threads, NEW l,
           UNCHANGED frame \/ \E f : Locals(t, f)
    PROVE  /\ l \notin FailLabels => KeepsLocals(t, l)
           /\ UNCHANGED frame /\ pc[t] \in FailLabels /\ t \in Callers => KeepsLocals(t, l)
    BY DEF WakeInv, TypeInv, ThreadsOK, Locals, KeepsLocals, FailReturns

LEMMA QuietCommands ==
    ASSUME WakeInv, NEW t \in Callers, Command(t)
    PROVE  FailReturns' /\ WakeNotLost'
  <1> USE DEF ReapLabels, StopLabels, LookLabels, HandleLabels, FailLabels, TailLabels,
              ShutdownLabels
  <1>1. t \in Threads
    BY CallersAreThreads
  <1>2. ASSUME NEW ime \in Imes(t), NEW c \in BOOLEAN, StartRecording(t, ime, c)
        PROVE  FailReturns' /\ WakeNotLost'
    <2>1. PICK l \in {"f_wake", "s_lock"} : Goto(t, l)
      BY <1>2 DEF StartRecording
    <2>2. KeepsLocals(t, l)
      BY <1>1, <1>2, KeptLocals DEF StartRecording
    <2> QED
      BY <1>2, <2>1, <2>2, QuietStep DEF StartRecording, flagVars, sessionVars
  <1>3. ASSUME NEW ime \in Imes(t), StopRecording(t, ime)
        PROVE  FailReturns' /\ WakeNotLost'
    <2>1. KeepsLocals(t, "p_stop")
      BY <1>1, <1>3, KeptLocals DEF StopRecording
    <2> QED
      BY <1>3, <2>1, QuietStep DEF StopRecording, sessionVars
  <1>4. ASSUME NEW ime \in Imes(t), NEW raw \in BOOLEAN, CancelOperation(t, ime, raw)
        PROVE  FailReturns' /\ WakeNotLost'
    <2>1. PICK l \in {"c_stop", "idle"} : Goto(t, l)
      BY <1>4 DEF CancelOperation
    <2>2. UNCHANGED frame \/ \E f : Locals(t, f)
      BY <1>4 DEF CancelOperation
    <2>3. KeepsLocals(t, l)
      BY <1>1, <2>2, KeptLocals
    <2>4. pc[t] = "idle" /\ UNCHANGED <<deferred, wake>> /\ pendingStop' = pendingStop
      BY <1>4 DEF CancelOperation
    <2> QED
      BY <2>1, <2>3, <2>4, QuietStep
  <1>5. ASSUME ReloadAsrBackend(t) \/ \E ime \in Imes(t) : InjectText(t, ime)
        PROVE  FailReturns' /\ WakeNotLost'
    BY <1>5, UnseenStep DEF ReloadAsrBackend, InjectText, flagVars, sessionVars
  <1> QED
    BY <1>2, <1>3, <1>4, <1>5 DEF Command

LEMMA WakeStart ==
    ASSUME WakeInv, NEW t \in Callers,
           \/ StartLock(t) \/ BeginRecording(t) \/ StartDisarm(t) \/ CreateSession(t)
           \/ CreateSessionFails(t) \/ StartInstall(t) \/ StartDuck(t) \/ StartNotify(t)
    PROVE  FailReturns' /\ WakeNotLost'
  <1> USE DEF ReapLabels, StopLabels, LookLabels, HandleLabels, FailLabels, TailLabels,
              ShutdownLabels
  <1>1. t \in Threads
    BY CallersAreThreads
  <1>2. UNCHANGED frame \/ \E f : Locals(t, f)
    BY ZenonT(30) DEF StartLock, BeginRecording, StartDisarm, CreateSession, CreateSessionFails,
         StartInstall,
           StartDuck, StartNotify
  <1>3. CASE StartInstall(t)
    <2>1. PICK l \in {"t_end", "s_duck"} : Goto(t, l)
      BY <1>3 DEF StartInstall
    <2>2. KeepsLocals(t, l)
      BY <1>1, <1>2, KeptLocals
    <2>3. (deferred' = deferred /\ wake' = wake) \/ wake'
      BY <1>3 DEF StartInstall, RetireIfAny
    <2>4. pc[t] = "s_install" /\ pendingStop' = pendingStop
      BY <1>3 DEF StartInstall
    <2>5. Owes(t, l)
      BY <2>1, <2>3, <2>4 DEF Owes
    <2> QED
      BY <2>1, <2>2, <2>5, WakeStep
  <1>4. CASE ~StartInstall(t)
    <2>1. PICK l \in {"idle", "s_begin", "s_create", "s_disarm", "t_restore", "s_install",
                      "s_disarm_abort", "s_notify"} : Goto(t, l)
      BY <1>4 DEF StartLock, BeginRecording, StartDisarm, CreateSession, CreateSessionFails,
                  StartDuck, StartNotify
    <2>2. KeepsLocals(t, l)
      BY <1>1, <1>2, KeptLocals
    <2>3. /\ pc[t] \in {"s_lock", "s_begin", "s_disarm", "s_disarm_abort", "s_create", "s_duck",
                        "s_notify"}
          /\ UNCHANGED <<deferred, wake>>
      BY <1>4 DEF StartLock, BeginRecording, StartDisarm, CreateSession, CreateSessionFails,
                  StartDuck, StartNotify, flagVars, sessionVars
    <2>4. pendingStop' => pendingStop
      BY <1>4, ZenonT(30)
         DEF StartLock, BeginRecording, StartDisarm, CreateSession, CreateSessionFails, StartDuck,
             StartNotify, flagVars
    <2> QED
      BY <2>1, <2>2, <2>3, <2>4, QuietStep
  <1> QED
    BY <1>3, <1>4

LEMMA WakeTail ==
    ASSUME WakeInv, NEW t \in Callers,
           EndRecording(t) \/ ScheduleCaptureStop(t) \/ WakeMainThread(t)
    PROVE  FailReturns' /\ WakeNotLost'
  <1> USE DEF ReapLabels, StopLabels, LookLabels, HandleLabels, FailLabels, TailLabels,
              ShutdownLabels
  <1>1. t \in Threads /\ frame[t] \in Frame
    BY CallersAreThreads DEF WakeInv, TypeInv, ThreadsOK
  <1>2. CASE EndRecording(t)
    <2>1. KeepsLocals(t, "t_restore")
      BY <1>1, <1>2, KeptLocals DEF EndRecording
    <2>2. Owes(t, "t_restore")
      BY <1>2 DEF EndRecording, Owes, flagVars, sessionVars
    <2> QED
      BY <1>2, <2>1, <2>2, WakeStep DEF EndRecording
  <1>3. CASE ScheduleCaptureStop(t)
    <2>1. KeepsLocals(t, "t_wake")
      BY <1>1, <1>3, KeptLocals DEF ScheduleCaptureStop
    <2>2. Owes(t, "t_wake")
      BY <1>3 DEF ScheduleCaptureStop, Owes, sessionVars
    <2> QED
      BY <1>3, <2>1, <2>2, WakeStep DEF ScheduleCaptureStop
  <1>4. CASE WakeMainThread(t)
    <2>1. PICK l : Goto(t, l) /\ (l \in FailLabels => l = "x_notify" /\ pc[t] = "x_wake")
      BY <1>1, <1>4 DEF WakeMainThread, Closing, Frame
    <2>2. KeepsLocals(t, l)
      <3>1. CASE l \in FailLabels
        <4>1. frame'[t] = frame[t]
          BY <1>1, <1>4, <2>1, <3>1 DEF WakeMainThread, Locals, WakeInv, TypeInv, ThreadsOK
        <4>2. \A u \in Threads : u # t => frame'[u] = frame[u]
          BY <1>4 DEF WakeMainThread, Locals, WakeInv, TypeInv, ThreadsOK
        <4> QED
          BY <2>1, <3>1, <4>1, <4>2 DEF KeepsLocals, WakeInv, FailReturns
      <3>2. CASE l \notin FailLabels
        BY <1>1, <1>4, <3>2, KeptLocals DEF WakeMainThread
      <3> QED
        BY <3>1, <3>2
    <2>3. Owes(t, l)
      BY <1>4 DEF WakeMainThread, Owes, sessionVars
    <2> QED
      BY <2>1, <2>2, <2>3, WakeStep
  <1> QED
    BY <1>2, <1>3, <1>4

LEMMA WakeFlush ==
    ASSUME WakeInv, NEW t \in Callers,
           \/ FlushWake(t) \/ FlushReapedSessions(t) \/ TryDequeue(t)
           \/ PollActiveSession(t) \/ FlushExchange(t) \/ FlushLook(t) \/ FlushStop(t)
    PROVE  FailReturns' /\ WakeNotLost'
  <1> USE DEF ReapLabels, StopLabels, LookLabels, HandleLabels, FailLabels, TailLabels,
              ShutdownLabels
  <1>1. t \in Threads /\ frame[t] \in Frame
    BY CallersAreThreads DEF WakeInv, TypeInv, ThreadsOK
  <1>2. CASE FlushWake(t)
    <2>1. KeepsLocals(t, "f_reap")
      BY <1>1, <1>2, KeptLocals DEF FlushWake
    <2>2. Owes(t, "f_reap")
      BY <1>2 DEF FlushWake, Owes, sessionVars
    <2> QED
      BY <1>2, <2>1, <2>2, WakeStep DEF FlushWake
  <1>3. CASE FlushReapedSessions(t)
    <2>1. PICK l \in {"f_dequeue", "f_poll"} : Goto(t, l)
      BY <1>3 DEF FlushReapedSessions
    <2>2. KeepsLocals(t, l)
      BY <1>1, <1>3, KeptLocals DEF FlushReapedSessions
    <2>3. Owes(t, l)
      BY <1>3, <2>1 DEF FlushReapedSessions, Owes, flagVars
    <2> QED
      BY <2>1, <2>2, <2>3, WakeStep
  <1>4. CASE TryDequeue(t)
    <2>1. PICK l \in {"f_poll", "h_enter"} : Goto(t, l)
      BY <1>4, ZenonT(30) DEF TryDequeue
    <2>2. UNCHANGED frame \/ \E f : Locals(t, f)
      BY <1>4, ZenonT(30) DEF TryDequeue
    <2>3. KeepsLocals(t, l)
      BY <1>1, <2>2, KeptLocals
    <2>4. Owes(t, l)
      BY <1>4, <2>1 DEF TryDequeue, Owes, flagVars, sessionVars
    <2> QED
      BY <2>1, <2>3, <2>4, WakeStep
  <1>5. CASE PollActiveSession(t)
    <2>1. /\ pc[t] = "f_poll" /\ UNCHANGED <<deferred, wake>>
          /\ pendingStop' = pendingStop
      BY <1>5 DEF PollActiveSession, flagVars, sessionVars
    <2>2. Owes(t, "f_exchange") /\ Owes(t, "x_lock")
      BY <2>1 DEF Owes
    <2>3. CASE Goto(t, "f_exchange") /\ UNCHANGED frame
      BY <1>1, <2>2, <2>3, KeptLocals, WakeStep
    <2>4. CASE Goto(t, "x_lock") /\ Locals(t, [frame[t] EXCEPT !.sess = active,
                                                               !.after = "f_exchange"])
      <3>1. KeepsLocals(t, "x_lock")
        BY <1>1, <2>4 DEF KeepsLocals, Locals, Frame, WakeInv, TypeInv, ThreadsOK
      <3> QED
        BY <2>2, <2>4, <3>1, WakeStep
    <2> QED
      BY <1>5, <2>3, <2>4 DEF PollActiveSession
  <1>6. CASE FlushExchange(t)
    <2>1. PICK l \in {"f_look", "idle", "s_lock", "w_loop"} : Goto(t, l)
      BY <1>1, <1>6 DEF FlushExchange, Frame
    <2>2. KeepsLocals(t, l)
      BY <1>1, <1>6, KeptLocals DEF FlushExchange
    <2>3. Owes(t, l)
      BY <1>6, <2>1 DEF FlushExchange, Owes, sessionVars
    <2> QED
      BY <2>1, <2>2, <2>3, WakeStep
  <1>7. CASE FlushLook(t) \/ FlushStop(t)
    <2>1. PICK l \in {"f_skip", "f_stop", "f_restore"} : Goto(t, l)
      BY <1>7 DEF FlushLook, FlushStop
    <2>2. KeepsLocals(t, l)
      BY <1>1, <1>7, KeptLocals DEF FlushLook, FlushStop
    <2> QED
      BY <1>7, <2>1, <2>2, QuietStep DEF FlushLook, FlushStop, flagVars, sessionVars
  <1> QED
    BY <1>2, <1>3, <1>4, <1>5, <1>6, <1>7

LEMMA WakeHandle ==
    ASSUME WakeInv, NEW t \in Callers,
           \/ HandleEnter(t) \/ HandleStartup(t) \/ HandleAppend(t)
           \/ PushAudio(t) \/ HandleCheck(t) \/ HandleRetire(t)
    PROVE  FailReturns' /\ WakeNotLost'
  <1> USE DEF ReapLabels, StopLabels, LookLabels, HandleLabels, FailLabels, TailLabels,
              ShutdownLabels
  <1>1. t \in Threads /\ frame[t] \in Frame
    BY CallersAreThreads DEF WakeInv, TypeInv, ThreadsOK
  <1>2. CASE HandleEnter(t) \/ HandleStartup(t) \/ HandleAppend(t) \/ HandleCheck(t)
    <2>1. PICK l \in {"h_startup", "f_dequeue", "h_append", "h_push", "h_retire"} : Goto(t, l)
      BY <1>2, ZenonT(30) DEF HandleEnter, HandleStartup, HandleAppend, HandleCheck
    <2>2. UNCHANGED frame \/ \E f : Locals(t, f)
      BY <1>2, ZenonT(30) DEF HandleEnter, HandleStartup, HandleAppend, HandleCheck
    <2>3. KeepsLocals(t, l)
      BY <1>1, <2>2, KeptLocals
    <2>4. /\ pc[t] \in {"h_enter", "h_startup", "h_append", "h_check"}
          /\ UNCHANGED <<deferred, wake>> /\ pendingStop' = pendingStop
      BY <1>2, ZenonT(30) DEF HandleEnter, HandleStartup, HandleAppend, HandleCheck, flagVars,
           sessionVars
    <2>5. Owes(t, l)
      BY <2>1, <2>4 DEF Owes
    <2> QED
      BY <2>1, <2>3, <2>5, WakeStep
  <1>3. CASE PushAudio(t)
    <2>1. pc[t] = "h_push" /\ UNCHANGED <<deferred, wake>> /\ pendingStop' = pendingStop
      BY <1>3 DEF PushAudio, flagVars, sessionVars
    <2>2. Owes(t, "h_check") /\ Owes(t, "x_lock")
      BY <2>1 DEF Owes
    <2>3. CASE Goto(t, "h_check") /\ UNCHANGED frame
      BY <1>1, <2>2, <2>3, KeptLocals, WakeStep
    <2>4. CASE Goto(t, "x_lock") /\ Locals(t, [frame[t] EXCEPT !.after = "f_dequeue", !.amount = 0])
      <3>1. KeepsLocals(t, "x_lock")
        BY <1>1, <2>4 DEF KeepsLocals, Locals, Frame, WakeInv, TypeInv, ThreadsOK
      <3> QED
        BY <2>2, <2>4, <3>1, WakeStep
    <2> QED
      BY <1>3, <2>3, <2>4 DEF PushAudio
  <1>4. CASE HandleRetire(t)
    <2>1. KeepsLocals(t, "h_wake")
      BY <1>1, <1>4, KeptLocals DEF HandleRetire
    <2>2. Owes(t, "h_wake")
      BY <1>4 DEF HandleRetire, Owes, flagVars
    <2> QED
      BY <1>4, <2>1, <2>2, WakeStep DEF HandleRetire
  <1> QED
    BY <1>2, <1>3, <1>4

LEMMA WakeFail ==
    ASSUME WakeInv, NEW t \in Callers, FailActiveSession(t) \/ FailCancel(t) \/ FailNotify(t)
    PROVE  FailReturns' /\ WakeNotLost'
  <1> USE DEF ReapLabels, StopLabels, LookLabels, HandleLabels, FailLabels, TailLabels,
              ShutdownLabels
  <1>1. t \in Threads /\ frame[t] \in Frame
    BY CallersAreThreads DEF WakeInv, TypeInv, ThreadsOK
  <1>2. CASE FailActiveSession(t)
    <2>1. /\ pc[t] = "x_lock" /\ UNCHANGED <<deferred, wake>> /\ pendingStop' = pendingStop
          /\ frame[t].after \in {"f_dequeue", "f_exchange"}
      BY <1>2 DEF FailActiveSession, WakeInv, FailReturns
    <2>2. \A l \in {"f_dequeue", "f_exchange", "x_cancel"} : Owes(t, l)
      BY <2>1 DEF Owes
    <2>3. CASE active # frame[t].sess
      <3>1. Goto(t, frame[t].after)
        BY <1>2, <2>3 DEF FailActiveSession
      <3>2. KeepsLocals(t, frame[t].after)
        BY <1>1, <1>2, <2>1, <2>3, KeptLocals DEF FailActiveSession
      <3> QED
        BY <2>1, <2>2, <3>1, <3>2, WakeStep
    <2>4. CASE active = frame[t].sess
      <3>1. KeepsLocals(t, "x_cancel")
        BY <1>1, <1>2, <2>1, <2>4, KeptLocals DEF FailActiveSession
      <3> QED
        BY <1>2, <2>2, <2>4, <3>1, WakeStep DEF FailActiveSession
    <2> QED
      BY <2>3, <2>4
  <1>3. CASE FailCancel(t)
    <2>1. KeepsLocals(t, "x_wake")
      BY <1>1, <1>3, KeptLocals DEF FailCancel
    <2>2. Owes(t, "x_wake")
      BY <1>3 DEF FailCancel, Owes, flagVars
    <2> QED
      BY <1>3, <2>1, <2>2, WakeStep DEF FailCancel
  <1>4. CASE FailNotify(t)
    <2>1. KeepsLocals(t, "t_end")
      BY <1>1, <1>4, KeptLocals DEF FailNotify
    <2>2. Owes(t, "t_end")
      BY <1>4 DEF FailNotify, Owes, flagVars, sessionVars
    <2> QED
      BY <1>4, <2>1, <2>2, WakeStep DEF FailNotify
  <1> QED
    BY <1>2, <1>3, <1>4

LEMMA WakeClose ==
    ASSUME WakeInv, NEW t \in Callers,
           CancelStop(t) \/ RetireDetached(t) \/ StopCapture(t) \/ StopLock(t)
    PROVE  FailReturns' /\ WakeNotLost'
  <1> USE DEF ReapLabels, StopLabels, LookLabels, HandleLabels, FailLabels, TailLabels,
              ShutdownLabels
  <1>1. t \in Threads
    BY CallersAreThreads
  <1>2. CASE RetireDetached(t)
    <2>1. KeepsLocals(t, "r_wake")
      BY <1>1, <1>2, KeptLocals DEF RetireDetached
    <2>2. Owes(t, "r_wake")
      BY <1>2 DEF RetireDetached, Owes, flagVars
    <2> QED
      BY <1>2, <2>1, <2>2, WakeStep DEF RetireDetached
  <1>3. CASE CancelStop(t) \/ StopCapture(t) \/ StopLock(t)
    <2>1. PICK l \in {"c_restore", "p_restore", "m_apply", "r_retire", "idle"} : Goto(t, l)
      BY <1>3 DEF CancelStop, StopCapture, StopLock
    <2>2. UNCHANGED frame \/ \E f : Locals(t, f)
      BY <1>3 DEF CancelStop, StopCapture, StopLock
    <2>3. KeepsLocals(t, l)
      BY <1>1, <2>2, KeptLocals
    <2>4. /\ pc[t] \in {"c_stop", "p_stop", "p_lock"}
          /\ UNCHANGED <<deferred, wake>> /\ pendingStop' = pendingStop
      BY <1>3 DEF CancelStop, StopCapture, StopLock, flagVars, sessionVars
    <2> QED
      BY <2>1, <2>3, <2>4, QuietStep
  <1> QED
    BY <1>2, <1>3

LEMMA WakeShared ==
    ASSUME WakeInv, NEW t \in Threads, Shared(t)
    PROVE  FailReturns' /\ WakeNotLost'
  <1> USE DEF ReapLabels, StopLabels, LookLabels, HandleLabels, FailLabels, TailLabels,
              ShutdownLabels
  <1>1. frame[t] \in Frame
    BY DEF WakeInv, TypeInv, ThreadsOK
  <1>2. UNCHANGED <<deferred, wake>> /\ pendingStop' = pendingStop
    BY DEF Shared, RestoreOutput, ResetLock, ResetEmit, MaybeApplyPendingReload, flagVars, sessionVars
  <1>3. UNCHANGED frame \/ \E f : Locals(t, f)
    BY DEF Shared, RestoreOutput, ResetLock, ResetEmit, MaybeApplyPendingReload
  <1>4. PICK l : Goto(t, l) /\ l \notin FailLabels
                 /\ (pc[t] \in StopLabels => l \in StopLabels)
                 /\ (pc[t] \in ShutdownLabels => l \in ShutdownLabels)
    <2>1. CASE RestoreOutput(t)
      BY <1>1, <2>1 DEF RestoreOutput, Closing, Frame
    <2>2. CASE ResetLock(t) \/ ResetEmit(t) \/ MaybeApplyPendingReload(t)
      BY <1>1, <2>2 DEF ResetLock, ResetEmit, MaybeApplyPendingReload, Frame
    <2> QED
      BY <2>1, <2>2 DEF Shared
  <1>5. pc[t] \notin ReapLabels
    BY DEF Shared, RestoreOutput, ResetLock, ResetEmit, MaybeApplyPendingReload
  <1>6. KeepsLocals(t, l)
    BY <1>3, <1>4, KeptLocals
  <1>7. CASE t \in Callers
    <2>1. Owes(t, l)
      BY <1>2, <1>4, <1>5 DEF Owes
    <2> QED
      BY <1>4, <1>6, <1>7, <2>1, WakeStep
  <1>8. CASE t \notin Callers
    <2>1. \A u \in Callers : pc'[u] = pc[u] /\ frame'[u] = frame[u]
      BY <1>4, <1>6, <1>8, CallersAreThreads DEF Goto, KeepsLocals, WakeInv, TypeInv, ThreadsOK
    <2> QED
      BY <1>2, <2>1, UnseenStep
  <1> QED
    BY <1>7, <1>8

LEMMA WakeWorker ==
    ASSUME WakeInv, Worker
    PROVE  FailReturns' /\ WakeNotLost'
  <1>1. UNCHANGED <<deferred, wake, pendingStop>>
    BY ZenonT(30) DEF Worker, WorkerLoop, WorkerWait, WorkerFinish, WorkerPipeline,
         EnterPostprocessing,
           EnterEmit, WorkerProcess, WorkerTake, WorkerEmit, WorkerExcept, flagVars, sessionVars
  <1>2. \E l : Goto("worker", l)
    BY ZenonT(30) DEF Worker, WorkerLoop, WorkerWait, WorkerFinish, WorkerPipeline, EnterPostprocessing,
           EnterEmit, WorkerProcess, WorkerTake, WorkerEmit, WorkerExcept
  <1>3. UNCHANGED frame \/ \E f : Locals("worker", f)
    BY ZenonT(30) DEF Worker, WorkerLoop, WorkerWait, WorkerFinish, WorkerPipeline, EnterPostprocessing,
           EnterEmit, WorkerProcess, WorkerTake, WorkerEmit, WorkerExcept
  <1>4. \A u \in Callers : pc'[u] = pc[u] /\ frame'[u] = frame[u]
    BY <1>2, <1>3, CallersAreThreads DEF Goto, Locals, WakeInv, TypeInv, ThreadsOK
  <1> QED
    BY <1>1, <1>4, UnseenStep

LEMMA WakeLoop ==
    ASSUME WakeInv,
           \/ MainFlush \/ ExpireLook \/ ExpireDestroy \/ Quit \/ Shutdown
           \/ AudioArrives \/ SessionWakes
    PROVE  FailReturns' /\ WakeNotLost'
  <1> USE DEF ReapLabels, StopLabels, LookLabels, HandleLabels, FailLabels, TailLabels,
              ShutdownLabels
  <1>1. "main" \in Callers /\ "main" \in Threads
    BY CallersAreThreads
  <1>2. CASE MainFlush \/ ExpireLook \/ ExpireDestroy \/ Quit
    <2>1. PICK l \in {"f_wake", "e_destroy", "idle", "q_capture"} : Goto("main", l)
      BY <1>2 DEF MainFlush, ExpireLook, ExpireDestroy, Quit
    <2>2. KeepsLocals("main", l)
      BY <1>1, <1>2, KeptLocals DEF MainFlush, ExpireLook, ExpireDestroy, Quit
    <2>3. pc["main"] \in {"idle", "e_destroy"} /\ UNCHANGED <<deferred, wake>>
      BY <1>2 DEF MainFlush, ExpireLook, ExpireDestroy, Quit, flagVars, sessionVars
    <2>4. pendingStop' => pendingStop
      BY <1>2, ZenonT(30) DEF MainFlush, ExpireLook, ExpireDestroy, Quit, flagVars
    <2> QED
      BY <1>1, <2>1, <2>2, <2>3, <2>4, QuietStep
  <1>3. CASE Shutdown
    <2>1. PICK l \in ShutdownLabels : Goto("main", l)
      BY <1>3 DEF Shutdown, ShutdownCapture, ShutdownLock, ShutdownActive, ShutdownJoin
    <2>2. KeepsLocals("main", l)
      BY <1>1, <1>3, <2>1, KeptLocals
         DEF Shutdown, ShutdownCapture, ShutdownLock, ShutdownActive, ShutdownJoin
    <2>3. pc["main"] \in ShutdownLabels /\ pendingStop' = pendingStop
      BY <1>3 DEF Shutdown, ShutdownCapture, ShutdownLock, ShutdownActive, ShutdownJoin, flagVars
    <2>4. deferred' \subseteq deferred \/ wake'
      BY <1>3 DEF Shutdown, ShutdownCapture, ShutdownLock, ShutdownActive, ShutdownJoin,
                  RetireIfAny, sessionVars
    <2>5. wake => wake'
      BY <1>3, ZenonT(30)
         DEF Shutdown, ShutdownCapture, ShutdownLock, ShutdownActive, ShutdownJoin, RetireIfAny,
             flagVars
    <2>6. Owes("main", l)
      BY <2>1, <2>3, <2>4, <2>5 DEF Owes
    <2> QED
      BY <1>1, <2>1, <2>2, <2>6, WakeStep
  <1>4. CASE AudioArrives \/ SessionWakes
    <2>1. wake' /\ UNCHANGED <<pc, frame>>
      BY <1>4 DEF AudioArrives, SessionWakes
    <2> QED
      BY <2>1 DEF WakeInv, FailReturns, WakeNotLost
  <1> QED
    BY <1>2, <1>3, <1>4

LEMMA WakeNext == WakeInv /\ [Next]_vars => WakeInv'
  <1> SUFFICES ASSUME WakeInv, [Next]_vars PROVE WakeInv'
    OBVIOUS
  <1>1. TypeInv'
    BY NextTypes DEF WakeInv
  <1>2. ASSUME NEW t \in Callers, Step(t)
        PROVE  FailReturns' /\ WakeNotLost'
    <2>1. CASE \/ StartLock(t) \/ BeginRecording(t) \/ StartDisarm(t) \/ CreateSession(t)
               \/ CreateSessionFails(t) \/ StartInstall(t) \/ StartDuck(t) \/ StartNotify(t)
      BY <2>1, WakeStart
    <2>2. CASE EndRecording(t) \/ ScheduleCaptureStop(t) \/ WakeMainThread(t)
      BY <2>2, WakeTail
    <2>3. CASE \/ FlushWake(t) \/ FlushReapedSessions(t) \/ TryDequeue(t)
               \/ PollActiveSession(t) \/ FlushExchange(t) \/ FlushLook(t) \/ FlushStop(t)
      BY <2>3, WakeFlush
    <2>4. CASE \/ HandleEnter(t) \/ HandleStartup(t) \/ HandleAppend(t)
               \/ PushAudio(t) \/ HandleCheck(t) \/ HandleRetire(t)
      BY <2>4, WakeHandle
    <2>5. CASE FailActiveSession(t) \/ FailCancel(t) \/ FailNotify(t)
      BY <2>5, WakeFail
    <2>6. CASE CancelStop(t) \/ RetireDetached(t) \/ StopCapture(t) \/ StopLock(t)
      BY <2>6, WakeClose
    <2> QED
      BY <1>2, <2>1, <2>2, <2>3, <2>4, <2>5, <2>6 DEF Step
  <1>3. CASE UNCHANGED vars
    <2>1. UNCHANGED <<deferred, wake, pendingStop>>
      BY <1>3 DEF vars, flagVars, sessionVars
    <2>2. \A u \in Callers : pc'[u] = pc[u] /\ frame'[u] = frame[u]
      BY <1>3 DEF vars
    <2> QED
      BY <1>1, <2>1, <2>2, UnseenStep DEF WakeInv
  <1> QED
    BY <1>1, <1>2, <1>3, QuietCommands, WakeShared, WakeWorker, WakeLoop
       DEF WakeInv, Next, Terminated

(* For every set of clients the wake-up protocol of the notify fd loses     *)
(* nothing: a session parked by RetireSession() and a stop scheduled by     *)
(* ScheduleCaptureStopOnMainThread() are seen by a flush that has yet to    *)
(* look, or the fd is readable.  A caller between parking and waking counts *)
(* because it has yet to write; one between draining the fd and looking     *)
(* counts because it will look.                                             *)
THEOREM WakeProtocol == Spec => []WakeNotLost
  <1>1. Init => FailReturns /\ WakeNotLost
    BY CallersAreThreads DEF Init, FailReturns, WakeNotLost, FailLabels
  <1>2. WakeInv => WakeNotLost
    BY DEF WakeInv
  <1>3. Init => WakeInv
    BY <1>1, InitTypes DEF WakeInv
  <1> QED
    BY <1>2, <1>3, WakeNext, PTL DEF Spec

-----------------------------------------------------------------------------
(* A daemon whose clients, if any, only cancel: who owns the utterance.    *)

OnlyCancelled == Clients = {} \/ ClientCommands \subseteq {"cancel"}

(* The pump thread of a client that never starts nor stops runs            *)
(* CancelOperation() and nothing else.                                     *)
ClientLabels == {"idle", "c_stop", "c_restore", "r_retire", "r_wake", "m_apply"}
ClientsCancel == \A t \in Clients : pc[t] \in ClientLabels /\ frame[t].ret = "idle"

(* The worker stays within WorkerMain and ResetToIdle(). *)
WorkerInPlace ==
    /\ pc["worker"] \in WorkerLabels \cup ResetLabels
    /\ frame["worker"].ret = "w_loop"

OrderForm ==
    \/ order = NoOrder \/ order = MovedOrder
    \/ order.kind = "request" /\ order.session \in Sessions

SlotTellsWorker == (order.kind = "moved") <=> WorkerBusy

PhaseTells ==
    /\ (active # NoSession) <=> (machine.phase = "Recording")
    /\ (order # NoOrder) <=> (machine.phase \in {"Inferring", "Postprocessing"})

(* What the main thread knows of the phase between its critical sections:  *)
(* a client may cancel the recording it is about to stop.                  *)
Stoppable == machine.phase = "Recording" \/ (Clients # {} /\ machine.phase = "Idle")
MainKnowsPhase ==
    /\ pc["main"] \in {"f_stop", "f_restore", "z_lock"} => machine.phase \in {"Idle", "Error"}
    /\ pc["main"] \in {"p_stop", "p_restore", "p_lock"} => Stoppable

Cleared == pc["main"] \in {"q_active", "q_join", "exit"}

(* The shutdown clears the phase under the lock; a client may cancel       *)
(* before and after.                                                       *)
ShutdownTells ==
    /\ pc["main"] \in {"q_capture", "q_restore", "q_lock"} => PhaseTells
    /\ Cleared => machine.phase = "Idle"

(* What the worker holds back is empty outside the pipeline. *)
PayloadEmitted ==
    pc["worker"] \in {"w_loop", "w_wait", "w_finish", "done"} \cup ResetLabels => payload = "none"

OwnerOK ==
    /\ WorkerInPlace /\ OrderForm /\ SlotTellsWorker /\ PayloadEmitted
    /\ ~ShuttingDown => PhaseTells /\ MainKnowsPhase
    /\ ShutdownTells

OwnerInv == TypeInv /\ PostOnlyWhilePostprocessing /\ ClientsCancel /\ OwnerOK

LEMMA TellsUntilCleared ==
    ASSUME OwnerInv, ~Cleared
    PROVE  PhaseTells
    BY DEF OwnerInv, OwnerOK, ShutdownTells, ShuttingDown, ShutdownLabels, Cleared

(* What the transitions do to the phase. *)
LEMMA CancelPhase ==
    ASSUME NEW m \in Machine, NEW b \in BOOLEAN
    PROVE  /\ (OnCancel(m, b).effect = "stop_capture") <=> (m.phase = "Recording")
           /\ OnCancel(m, b).machine.phase = IF m.phase = "Recording" THEN "Idle" ELSE m.phase
  <1>1. /\ (OnCancel(m, b).effect = "stop_capture") <=> (m.phase = "Recording")
        /\ m.phase = "Recording" => OnCancel(m, b).machine.phase = "Idle"
    BY DEF OnCancel, Accept, Reject, AbortRecordingToIdle, Machine
  <1>2. m.phase # "Recording" => OnCancel(m, b).machine.phase = m.phase
    BY DEF OnCancel, Accept, Reject, Machine
  <1> QED
    BY <1>1, <1>2

LEMMA StopPhase ==
    ASSUME NEW m \in Machine, m.phase = "Recording", NEW n, NEW k
    PROVE  OnStopRecording(m, n, k).machine.phase =
             IF OnStopRecording(m, n, k).effect = "too_short" THEN "Idle" ELSE "Inferring"
    BY DEF OnStopRecording, Accept, AbortRecordingToIdle, Machine

LEMMA OtherPhases ==
    ASSUME NEW m \in Machine
    PROVE  /\ \A b : m.phase = "Idle" => OnStartRecording(m, b).machine.phase = "Recording"
           /\ m.phase = "Recording" => OnAudioError(m).machine.phase = "Error"
           /\ OnInferenceComplete(m, TRUE).machine.phase =
                IF m.phase = "Inferring" THEN "Postprocessing" ELSE m.phase
           /\ OnResetToIdle(m).machine.phase = "Idle"
           /\ AfterTake(m).phase = m.phase
  <1>1. \A b : m.phase = "Idle" => OnStartRecording(m, b).machine.phase = "Recording"
    BY DEF OnStartRecording, Accept
  <1>2. m.phase = "Recording" => OnAudioError(m).machine.phase = "Error"
    BY DEF OnAudioError, Accept, Machine
  <1>3. OnInferenceComplete(m, TRUE).machine.phase =
          IF m.phase = "Inferring" THEN "Postprocessing" ELSE m.phase
    BY DEF OnInferenceComplete, Accept, Reject, Machine
  <1>4. OnResetToIdle(m).machine.phase = "Idle" /\ AfterTake(m).phase = m.phase
    BY DEF OnResetToIdle, AfterTake, Accept, Clear, Machine
  <1> QED
    BY <1>1, <1>2, <1>3, <1>4, ZenonT(30)

(* A step of the main thread that touches neither phase, slot nor session. *)
LEMMA MainSilent ==
    ASSUME OwnerInv, NEW l, Goto("main", l), frame'["worker"] = frame["worker"],
           UNCHANGED <<machine, order, active, payload>>,
           ~ShuttingDown, l \notin ShutdownLabels,
           l \in {"f_stop", "f_restore", "z_lock"} => machine.phase \in {"Idle", "Error"},
           l \in {"p_stop", "p_restore", "p_lock"} => Stoppable
    PROVE  OwnerOK'
  <1>1. pc'["worker"] = pc["worker"] /\ pc'["main"] = l
    BY CallersAreThreads DEF Goto, OwnerInv, TypeInv, ThreadsOK
  <1>2. WorkerInPlace' /\ OrderForm' /\ SlotTellsWorker' /\ PayloadEmitted'
    BY <1>1 DEF OwnerInv, OwnerOK, WorkerInPlace, OrderForm, SlotTellsWorker, WorkerBusy, PayloadEmitted
  <1>3. PhaseTells' /\ MainKnowsPhase'
    BY <1>1 DEF OwnerInv, OwnerOK, PhaseTells, MainKnowsPhase, Stoppable
  <1>4. ShutdownTells'
    BY <1>1 DEF ShutdownTells, Cleared, ShutdownLabels
  <1> QED
    BY <1>2, <1>3, <1>4 DEF OwnerOK

(* A step of the main thread that replaces the slot the worker has not     *)
(* taken, and with it the phase and the installed session.                 *)
LEMMA MainOwns ==
    ASSUME OwnerInv, NEW l, Goto("main", l), frame'["worker"] = frame["worker"], UNCHANGED payload,
           ~ShuttingDown, machine.phase \notin {"Inferring", "Postprocessing"},
           \/ order' = NoOrder
           \/ order'.kind = "request" /\ order'.session \in Sessions /\ order' # NoOrder,
           l \notin ShutdownLabels, PhaseTells',
           l \notin {"f_stop", "f_restore", "z_lock", "p_stop", "p_restore", "p_lock"}
    PROVE  OwnerOK'
  <1>1. pc'["worker"] = pc["worker"] /\ pc'["main"] = l
    BY CallersAreThreads DEF Goto, OwnerInv, TypeInv, ThreadsOK
  <1>2. order = NoOrder
    BY DEF OwnerInv, OwnerOK, PhaseTells
  <1>3. ~WorkerBusy
    BY <1>2 DEF OwnerInv, OwnerOK, SlotTellsWorker, NoOrder
  <1>4. order'.kind # "moved"
    BY DEF NoOrder
  <1>5. SlotTellsWorker'
    BY <1>1, <1>3, <1>4 DEF SlotTellsWorker, WorkerBusy
  <1>6. WorkerInPlace' /\ OrderForm' /\ PayloadEmitted'
    BY <1>1 DEF OwnerInv, OwnerOK, WorkerInPlace, OrderForm, PayloadEmitted
  <1>7. MainKnowsPhase' /\ ShutdownTells'
    BY <1>1 DEF MainKnowsPhase, ShutdownTells, Cleared, ShutdownLabels
  <1> QED
    BY <1>5, <1>6, <1>7 DEF OwnerOK

LEMMA OwnLocals ==
    ASSUME OwnerInv, UNCHANGED frame \/ \E f : Locals("main", f)
    PROVE  frame'["worker"] = frame["worker"]
    BY CallersAreThreads DEF OwnerInv, TypeInv, ThreadsOK, Locals

LEMMA OwnerCommands ==
    ASSUME OwnerInv, Command("main")
    PROVE  OwnerOK'
  <1> USE DEF ShutdownLabels
  <1> DEFINE m == "main"
  <1>1. machine \in Machine /\ frame[m] \in Frame
    BY CallersAreThreads DEF OwnerInv, TypeInv, FieldsOK, LockOK, ThreadsOK
  <1>2. CASE \E ime \in Imes(m), c \in BOOLEAN : StartRecording(m, ime, c)
    <2>1. PICK l \in {"f_wake", "s_lock"} : Goto(m, l)
      BY <1>2 DEF StartRecording
    <2>2. pc[m] = "idle" /\ UNCHANGED <<machine, order, active, payload>>
      BY <1>2 DEF StartRecording, lockVars, sessionVars, workVars
    <2>3. frame'["worker"] = frame["worker"]
      BY <1>2, OwnLocals DEF StartRecording
    <2> QED
      BY <2>1, <2>2, <2>3, MainSilent DEF ShuttingDown
  <1>3. CASE \E ime \in Imes(m) : StopRecording(m, ime)
    <2>1. /\ pc[m] = "idle" /\ machine.phase = "Recording" /\ Goto(m, "p_stop")
          /\ UNCHANGED <<machine, order, active, payload>> /\ UNCHANGED frame
      BY <1>3 DEF StopRecording, sessionVars, workVars
    <2>2. frame'["worker"] = frame["worker"]
      BY <2>1
    <2> QED
      BY <2>1, <2>2, MainSilent DEF ShuttingDown, Stoppable
  <1>4. CASE \E ime \in Imes(m), raw \in BOOLEAN : CancelOperation(m, ime, raw)
    <2>1. PICK ime \in Imes(m), raw \in BOOLEAN : CancelOperation(m, ime, raw)
      BY <1>4
    <2> DEFINE res == OnCancel(machine, raw)
    <2>2. PICK l \in {"c_stop", "idle"} : Goto(m, l)
      BY <2>1 DEF CancelOperation
    <2>3. UNCHANGED frame \/ \E f : Locals(m, f)
      BY <2>1 DEF CancelOperation
    <2>4. frame'["worker"] = frame["worker"]
      BY <2>3, OwnLocals
    <2>5. pc[m] = "idle" /\ UNCHANGED payload /\ machine' = res.machine
      BY <2>1 DEF CancelOperation, workVars
    <2>6. ~ShuttingDown
      BY <2>5 DEF ShuttingDown
    <2>7. /\ (res.effect = "stop_capture") <=> (machine.phase = "Recording")
          /\ res.machine.phase = IF machine.phase = "Recording" THEN "Idle" ELSE machine.phase
      BY <1>1, CancelPhase
    <2>8. CASE machine.phase = "Recording"
      <3>1. res.effect = "stop_capture" /\ machine'.phase = "Idle"
        BY <2>5, <2>7, <2>8
      <3>2. order' = NoOrder /\ active' = NoSession
        BY <2>1, <3>1 DEF CancelOperation, DetachActive
      <3>3. PhaseTells'
        BY <3>1, <3>2 DEF PhaseTells
      <3> QED
        BY <2>2, <2>4, <2>5, <2>6, <2>8, <3>2, <3>3, MainOwns
    <2>9. CASE machine.phase # "Recording"
      <3>1. res.effect # "stop_capture" /\ machine'.phase = machine.phase
        BY <2>5, <2>7, <2>9
      <3>2. UNCHANGED <<order, active>>
        BY <2>1, <3>1 DEF CancelOperation
      <3>3. pc'["worker"] = pc["worker"] /\ pc'[m] = l
        BY <2>2, CallersAreThreads DEF Goto, OwnerInv, TypeInv, ThreadsOK
      <3>4. WorkerInPlace' /\ OrderForm' /\ SlotTellsWorker' /\ PayloadEmitted'
        BY <2>4, <2>5, <3>2, <3>3
           DEF OwnerInv, OwnerOK, WorkerInPlace, OrderForm, SlotTellsWorker, WorkerBusy, PayloadEmitted
      <3>5. PhaseTells' /\ MainKnowsPhase'
        BY <2>2, <2>6, <3>1, <3>2, <3>3 DEF OwnerInv, OwnerOK, PhaseTells, MainKnowsPhase
      <3>6. ShutdownTells'
        BY <2>2, <3>3 DEF ShutdownTells, Cleared
      <3> QED
        BY <3>4, <3>5, <3>6 DEF OwnerOK
    <2> QED
      BY <2>8, <2>9
  <1>5. CASE ReloadAsrBackend(m)
    <2>1. UNCHANGED <<machine, order, active, payload, pc, frame>>
      BY <1>5 DEF ReloadAsrBackend, sessionVars, workVars
    <2> QED
      BY <2>1 DEF OwnerInv, OwnerOK, WorkerInPlace, OrderForm, SlotTellsWorker, WorkerBusy,
                  PayloadEmitted, ShuttingDown, PhaseTells, MainKnowsPhase, Stoppable,
                  ShutdownTells, Cleared
  <1>6. "inject" \notin Commands(m)
    BY CommandsAssumption DEF Commands
  <1> QED
    BY <1>2, <1>3, <1>4, <1>5, <1>6 DEF Command

(* The steps of the main thread that leave phase, slot and session alone. *)
LEMMA OwnerSilentSteps ==
    ASSUME OwnerInv, Step("main"), ~StartInstall("main"), ~FailActiveSession("main"), ~StopLock("main")
    PROVE  OwnerOK'
  <1> USE DEF ShutdownLabels
  <1> DEFINE m == "main"
  <1>1. machine \in Machine /\ frame[m] \in Frame
    BY CallersAreThreads DEF OwnerInv, TypeInv, FieldsOK, LockOK, ThreadsOK
  <1>2. CASE \/ StartLock(m) \/ BeginRecording(m) \/ StartDisarm(m) \/ CreateSession(m)
             \/ CreateSessionFails(m) \/ StartDuck(m) \/ StartNotify(m)
    <2>1. PICK l \in {"idle", "s_begin", "s_create", "s_disarm", "t_restore", "s_install",
                      "s_disarm_abort", "s_notify"} : Goto(m, l)
      BY <1>2 DEF StartLock, BeginRecording, StartDisarm, CreateSession, CreateSessionFails,
                  StartDuck, StartNotify
    <2>2. UNCHANGED frame \/ \E f : Locals(m, f)
      BY <1>2, ZenonT(30) DEF StartLock, BeginRecording, StartDisarm, CreateSession,
           CreateSessionFails,
                  StartDuck, StartNotify
    <2>3. /\ pc[m] \in {"s_lock", "s_begin", "s_disarm", "s_disarm_abort", "s_create", "s_duck",
                        "s_notify"}
          /\ UNCHANGED <<machine, order, active, payload>>
      BY <1>2 DEF StartLock, BeginRecording, StartDisarm, CreateSession, CreateSessionFails,
                  StartDuck, StartNotify, lockVars, sessionVars, workVars
    <2>4. frame'["worker"] = frame["worker"]
      BY <2>2, OwnLocals
    <2> QED
      BY <2>1, <2>3, <2>4, MainSilent DEF ShuttingDown
  <1>3. CASE \/ EndRecording(m) \/ ScheduleCaptureStop(m) \/ WakeMainThread(m) \/ FlushWake(m)
             \/ FlushReapedSessions(m) \/ TryDequeue(m) \/ PollActiveSession(m)
    <2>5. frame[m].ret \in {"idle", "s_lock", "w_loop"}
          /\ frame[m].after \in {"idle", "f_dequeue", "f_exchange"}
      BY <1>1 DEF Frame
    <2>6. WakeMainThread(m) => \E l \in {"idle", "f_dequeue", "f_exchange", "x_notify", "m_apply",
                                         "s_lock", "w_loop"} : Goto(m, l)
      BY <2>5 DEF WakeMainThread, Closing
    <2>7. ~WakeMainThread(m) => \E l \in {"t_restore", "t_wake", "f_reap", "f_dequeue", "f_poll",
                                          "h_enter", "f_exchange", "x_lock"} : Goto(m, l)
      BY <1>3, ZenonT(30) DEF EndRecording, ScheduleCaptureStop, FlushWake, FlushReapedSessions,
           TryDequeue,
                  PollActiveSession
    <2>1. PICK l \in {"idle", "f_dequeue", "f_exchange", "x_notify", "m_apply", "s_lock", "w_loop",
                      "t_restore", "t_wake", "f_reap", "f_poll", "h_enter", "x_lock"} : Goto(m, l)
      BY <2>6, <2>7
    <2>2. UNCHANGED frame \/ \E f : Locals(m, f)
      BY <1>3, ZenonT(30)
         DEF EndRecording, ScheduleCaptureStop, WakeMainThread, FlushWake, FlushReapedSessions,
             TryDequeue, PollActiveSession
    <2>3. /\ pc[m] \in {"t_end", "t_schedule", "t_wake", "h_wake", "x_wake", "r_wake", "f_wake",
                        "f_reap", "f_dequeue", "f_poll"}
          /\ UNCHANGED <<machine, order, active, payload>>
      BY <1>3 DEF EndRecording, ScheduleCaptureStop, WakeMainThread, FlushWake,
                  FlushReapedSessions, TryDequeue, PollActiveSession, lockVars, sessionVars, workVars
    <2>4. frame'["worker"] = frame["worker"]
      BY <2>2, OwnLocals
    <2> QED
      BY <2>1, <2>3, <2>4, MainSilent DEF ShuttingDown
  <1>4. CASE \/ HandleEnter(m) \/ HandleStartup(m) \/ HandleAppend(m) \/ PushAudio(m)
             \/ HandleCheck(m) \/ HandleRetire(m) \/ FailCancel(m) \/ FailNotify(m)
    <2>1. PICK l \in {"h_startup", "f_dequeue", "h_append", "h_push", "h_check", "x_lock",
                      "h_retire", "h_wake", "x_wake", "t_end"} : Goto(m, l)
      BY <1>4, ZenonT(30) DEF HandleEnter, HandleStartup, HandleAppend, PushAudio, HandleCheck,
           HandleRetire,
                  FailCancel, FailNotify
    <2>2. UNCHANGED frame \/ \E f : Locals(m, f)
      BY <1>4, ZenonT(30) DEF HandleEnter, HandleStartup, HandleAppend, PushAudio, HandleCheck,
           HandleRetire,
                  FailCancel, FailNotify
    <2>3. /\ pc[m] \in {"h_enter", "h_startup", "h_append", "h_push", "h_check", "h_retire",
                        "x_cancel", "x_notify"}
          /\ UNCHANGED <<machine, order, active, payload>>
      BY <1>4, ZenonT(30) DEF HandleEnter, HandleStartup, HandleAppend, PushAudio, HandleCheck,
           HandleRetire,
                  FailCancel, FailNotify, lockVars, sessionVars, workVars
    <2>4. frame'["worker"] = frame["worker"]
      BY <2>2, OwnLocals
    <2> QED
      BY <2>1, <2>3, <2>4, MainSilent DEF ShuttingDown
  <1>5. CASE FlushLook(m)
    <2>1. PICK l \in {"f_skip", "f_stop"} : Goto(m, l) /\ (l = "f_stop" => machine.phase \in {"Idle", "Error"})
      BY <1>1, <1>5 DEF FlushLook, Machine, Status
    <2>2. pc[m] = "f_look" /\ UNCHANGED <<machine, order, active, payload>> /\ UNCHANGED frame
      BY <1>5 DEF FlushLook, lockVars, sessionVars, workVars
    <2>3. frame'["worker"] = frame["worker"]
      BY <2>2
    <2> QED
      BY <2>1, <2>2, <2>3, MainSilent DEF ShuttingDown
  <1>6. CASE FlushExchange(m) \/ CancelStop(m) \/ RetireDetached(m)
    <2>1. PICK l \in {"f_look", "idle", "s_lock", "w_loop", "c_restore", "r_wake"} : Goto(m, l)
      BY <1>1, <1>6 DEF FlushExchange, CancelStop, RetireDetached, Frame
    <2>2. UNCHANGED frame \/ \E f : Locals(m, f)
      BY <1>6 DEF FlushExchange, CancelStop, RetireDetached
    <2>3. /\ pc[m] \in {"f_exchange", "c_stop", "r_retire"}
          /\ UNCHANGED <<machine, order, active, payload>>
      BY <1>6 DEF FlushExchange, CancelStop, RetireDetached, lockVars, sessionVars, workVars
    <2>4. frame'["worker"] = frame["worker"]
      BY <2>2, OwnLocals
    <2> QED
      BY <2>1, <2>3, <2>4, MainSilent DEF ShuttingDown
  <1>7. CASE FlushStop(m) \/ StopCapture(m)
    <2>1. \/ pc[m] = "f_stop" /\ Goto(m, "f_restore")
          \/ pc[m] = "p_stop" /\ Goto(m, "p_restore")
      BY <1>7 DEF FlushStop, StopCapture
    <2>2. UNCHANGED <<machine, order, active, payload>>
      BY <1>7 DEF FlushStop, StopCapture, lockVars, sessionVars, workVars
    <2>3. frame'["worker"] = frame["worker"]
      BY <1>7, OwnLocals DEF FlushStop, StopCapture
    <2> QED
      BY <2>1, <2>2, <2>3, MainSilent DEF ShuttingDown, OwnerInv, OwnerOK, MainKnowsPhase
  <1> QED
    BY <1>2, <1>3, <1>4, <1>5, <1>6, <1>7 DEF Step

(* The three steps of the main thread that hand the utterance over: from   *)
(* the start to the recording, from the recording to the worker, and from  *)
(* the recording to nobody.                                                *)
LEMMA OwnerInstall ==
    ASSUME OwnerInv, StartInstall("main")
    PROVE  OwnerOK'
  <1> USE DEF ShutdownLabels
  <1> DEFINE m == "main"
  <1>1. machine \in Machine /\ pc[m] = "s_install" /\ frame[m].sess # NoSession
    <2>1. Held("s_install", frame[m])
      BY CallersAreThreads DEF OwnerInv, TypeInv, ThreadsOK, StartInstall
    <2> QED
      BY <2>1, SessionsAssumption DEF Held, HoldsSession, OwnerInv, TypeInv, FieldsOK, LockOK, StartInstall
  <1>2. frame'["worker"] = frame["worker"]
    BY OwnLocals DEF StartInstall
  <1>3. UNCHANGED payload /\ ~ShuttingDown
    BY DEF StartInstall, workVars, ShuttingDown
  <1>4. CASE ~startInProgress \/ machine.phase # "Idle"
    <2>1. Goto(m, "t_end") /\ UNCHANGED <<machine, order, active, payload>>
      BY <1>3, <1>4 DEF StartInstall
    <2> QED
      BY <1>2, <1>3, <2>1, MainSilent
  <1>5. CASE ~(~startInProgress \/ machine.phase # "Idle")
    <2>1. /\ Goto(m, "s_duck") /\ order' = NoOrder /\ active' = frame[m].sess
          /\ machine' = OnStartRecording(machine, frame[m].command).machine
      BY <1>5 DEF StartInstall
    <2>2. machine'.phase = "Recording"
      BY <1>1, <1>5, <2>1, OtherPhases, ZenonT(30)
    <2>3. PhaseTells'
      BY <1>1, <2>1, <2>2 DEF PhaseTells
    <2> QED
      BY <1>2, <1>3, <1>5, <2>1, <2>3, MainOwns
  <1> QED
    BY <1>4, <1>5

LEMMA OwnerFail ==
    ASSUME OwnerInv, FailActiveSession("main")
    PROVE  OwnerOK'
  <1> USE DEF ShutdownLabels
  <1> DEFINE m == "main"
  <1>1. machine \in Machine /\ pc[m] = "x_lock" /\ frame[m].sess # NoSession
    <2>1. Held("x_lock", frame[m])
      BY CallersAreThreads DEF OwnerInv, TypeInv, ThreadsOK, FailActiveSession
    <2> QED
      BY <2>1, SessionsAssumption DEF Held, HoldsSession, OwnerInv, TypeInv, FieldsOK, LockOK, FailActiveSession
  <1>2. frame'["worker"] = frame["worker"]
    BY OwnLocals DEF FailActiveSession
  <1>3. UNCHANGED <<order, payload>> /\ ~ShuttingDown
    BY DEF FailActiveSession, workVars, ShuttingDown
  <1>4. CASE active # frame[m].sess
    <2>1. frame[m].after \in {"idle", "f_dequeue", "f_exchange"}
      BY CallersAreThreads DEF OwnerInv, TypeInv, ThreadsOK, Frame
    <2>2. PICK l \in {"idle", "f_dequeue", "f_exchange"} : Goto(m, l)
      BY <1>4, <2>1 DEF FailActiveSession
    <2>3. UNCHANGED <<machine, active>>
      BY <1>4 DEF FailActiveSession
    <2> QED
      BY <1>2, <1>3, <2>2, <2>3, MainSilent
  <1>5. CASE active = frame[m].sess
    <2>1. Goto(m, "x_cancel") /\ active' = NoSession /\ machine' = OnAudioError(machine).machine
      BY <1>5 DEF FailActiveSession, DetachActive
    <2>2. machine.phase = "Recording" /\ order = NoOrder
      BY <1>1, <1>3, <1>5 DEF OwnerInv, OwnerOK, PhaseTells
    <2>3. machine'.phase = "Error"
      BY <1>1, <2>1, <2>2, OtherPhases, ZenonT(30)
    <2>4. PhaseTells'
      BY <1>3, <2>1, <2>2, <2>3 DEF PhaseTells
    <2> QED
      BY <1>2, <1>3, <2>1, <2>2, <2>4, MainOwns
  <1> QED
    BY <1>4, <1>5

LEMMA OwnerStop ==
    ASSUME OwnerInv, StopLock("main")
    PROVE  OwnerOK'
  <1> USE DEF ShutdownLabels
  <1> DEFINE m == "main"
             res == OnStopRecording(machine, Saturate(samples + frame[m].amount), MinSamples)
  <1>1. machine \in Machine /\ pc[m] = "p_lock" /\ active \in MaybeSession /\ active' = NoSession
    BY DEF OwnerInv, TypeInv, FieldsOK, LockOK, SessionOK, StopLock, DetachActive
  <1>2. frame'["worker"] = frame["worker"]
    BY OwnLocals DEF StopLock
  <1>3. UNCHANGED payload /\ ~ShuttingDown
    BY DEF StopLock, workVars, ShuttingDown
  <1> SUFFICES ASSUME machine.phase = "Recording" PROVE OwnerOK'
    <2>1. CASE machine.phase # "Recording"
      <3>1. machine.phase = "Idle" /\ active = NoSession
        BY <1>1, <1>3, <2>1 DEF OwnerInv, OwnerOK, PhaseTells, MainKnowsPhase, Stoppable
      <3>2. Goto(m, "m_apply") /\ order' = NoOrder /\ machine' = OnResetToIdle(machine).machine
        BY <3>1 DEF StopLock
      <3>3. machine'.phase = "Idle"
        BY <1>1, <3>2, OtherPhases, ZenonT(30)
      <3>4. PhaseTells'
        BY <1>1, <3>2, <3>3 DEF PhaseTells
      <3> QED
        BY <1>2, <1>3, <3>1, <3>2, <3>4, MainOwns
    <2> QED
      BY <2>1
  <1>4. active \in Sessions
    BY <1>1, <1>3 DEF OwnerInv, OwnerOK, PhaseTells, MaybeSession
  <1>5. /\ active # NoSession /\ machine' = res.machine
        /\ res.machine.phase = IF res.effect = "too_short" THEN "Idle" ELSE "Inferring"
    BY <1>1, <1>4, StopPhase, SessionsAssumption DEF StopLock
  <1>6. CASE res.effect = "too_short"
    <2>1. Goto(m, "r_retire") /\ order' = NoOrder
      BY <1>5, <1>6 DEF StopLock
    <2>2. PhaseTells'
      BY <1>1, <1>5, <1>6, <2>1 DEF PhaseTells
    <2> QED
      BY <1>2, <1>3, <1>4, <2>1, <2>2, MainOwns
  <1>7. CASE res.effect # "too_short"
    <2>1. Goto(m, "idle") /\ order' = Request(active, sessionIme)
      BY <1>5, <1>7 DEF StopLock
    <2>2. order'.kind = "request" /\ order'.session \in Sessions /\ order' # NoOrder
      BY <1>4, <2>1 DEF Request, NoOrder
    <2>3. PhaseTells'
      BY <1>1, <1>5, <1>7, <2>2 DEF PhaseTells
    <2> QED
      BY <1>2, <1>3, <1>4, <2>1, <2>2, <2>3, MainOwns
  <1> QED
    BY <1>6, <1>7

LEMMA OwnerUnmoved ==
    ASSUME OwnerInv, UNCHANGED <<machine, order, active, payload, pc, frame>>
    PROVE  OwnerOK'
    BY DEF OwnerInv, OwnerOK, WorkerInPlace, OrderForm, SlotTellsWorker, WorkerBusy, PayloadEmitted,
           ShuttingDown, PhaseTells, MainKnowsPhase, Stoppable, ShutdownTells, Cleared

(* From the second half of the shutdown on the phase no longer tells who   *)
(* owns the utterance.                                                     *)
LEMMA OwnerShutdownStep ==
    ASSUME OwnerInv, NEW l \in ShutdownLabels, Goto("main", l), UNCHANGED <<order, payload, frame>>,
           \/ l \in {"q_capture", "q_restore", "q_lock"} /\ UNCHANGED <<machine, active>>
                /\ pc["main"] \in {"idle", "q_capture", "q_restore"}
           \/ l \in {"q_active", "q_join", "exit"} /\ machine'.phase = "Idle"
    PROVE  OwnerOK'
  <1>1. pc'["worker"] = pc["worker"] /\ pc'["main"] = l
    BY CallersAreThreads DEF Goto, OwnerInv, TypeInv, ThreadsOK
  <1>2. WorkerInPlace' /\ OrderForm' /\ SlotTellsWorker' /\ PayloadEmitted'
    BY <1>1 DEF OwnerInv, OwnerOK, WorkerInPlace, OrderForm, SlotTellsWorker, WorkerBusy, PayloadEmitted
  <1>3. ~ShuttingDown \/ pc["main"] \in {"q_capture", "q_restore"} => PhaseTells
    BY DEF OwnerInv, OwnerOK, ShutdownTells
  <1>4. ShutdownTells'
    BY <1>1, <1>3 DEF ShutdownTells, Cleared, PhaseTells, ShuttingDown, ShutdownLabels
  <1> QED
    BY <1>1, <1>2, <1>4 DEF OwnerOK, ShuttingDown

(* The poll loop, its end, and what happens around the threads. *)
LEMMA OwnerLoop ==
    ASSUME OwnerInv,
           \/ MainFlush \/ ExpireLook \/ ExpireDestroy \/ Quit \/ Shutdown
           \/ AudioArrives \/ SessionWakes \/ Terminated \/ UNCHANGED vars
    PROVE  OwnerOK'
  <1>1. CASE MainFlush \/ ExpireLook \/ ExpireDestroy
    <2>1. PICK l \in {"f_wake", "e_destroy", "idle"} : Goto("main", l)
      BY <1>1 DEF MainFlush, ExpireLook, ExpireDestroy
    <2>2. pc["main"] \in {"idle", "e_destroy"} /\ UNCHANGED <<machine, order, active, payload, frame>>
      BY <1>1 DEF MainFlush, ExpireLook, ExpireDestroy, lockVars, sessionVars, workVars
    <2> QED
      BY <2>1, <2>2, MainSilent DEF ShuttingDown, ShutdownLabels
  <1>2. CASE Quit \/ Shutdown
    <2>1. PICK l \in {"q_capture", "q_restore", "q_active", "q_join", "exit"} : Goto("main", l)
      BY <1>2 DEF Quit, Shutdown, ShutdownCapture, ShutdownLock, ShutdownActive,
           ShutdownJoin
    <2>2. UNCHANGED <<order, payload, frame>>
      BY <1>2 DEF Quit, Shutdown, ShutdownCapture, ShutdownLock, ShutdownActive, ShutdownJoin,
                  lockVars, workVars
    <2>3. CASE Quit \/ ShutdownCapture
      <3>1. PICK k \in {"q_capture", "q_restore"} : Goto("main", k)
        BY <2>3 DEF Quit, ShutdownCapture
      <3>2. UNCHANGED <<machine, active>> /\ pc["main"] \in {"idle", "q_capture"}
        BY <2>3 DEF Quit, ShutdownCapture, lockVars, sessionVars
      <3> QED
        BY <2>2, <3>1, <3>2, OwnerShutdownStep DEF ShutdownLabels
    <2>4. CASE ShutdownLock \/ ShutdownActive \/ ShutdownJoin
      <3>1. PICK k \in {"q_active", "q_join", "exit"} : Goto("main", k)
        BY <2>4 DEF ShutdownLock, ShutdownActive, ShutdownJoin
      <3>2. machine' = Clear \/ (Cleared /\ machine' = machine)
        BY <2>4 DEF ShutdownLock, ShutdownActive, ShutdownJoin, lockVars, Cleared
      <3>3. machine'.phase = "Idle"
        BY <3>2 DEF Clear, OwnerInv, OwnerOK, ShutdownTells
      <3> QED
        BY <2>2, <3>1, <3>3, OwnerShutdownStep DEF ShutdownLabels
    <2> QED
      BY <1>2, <2>3, <2>4 DEF Shutdown
  <1>3. CASE AudioArrives \/ SessionWakes \/ Terminated \/ UNCHANGED vars
    <2>1. UNCHANGED <<machine, order, active, payload, pc, frame>>
      BY <1>3 DEF AudioArrives, SessionWakes, Terminated, vars, lockVars, sessionVars, workVars
    <2> QED
      BY <2>1, OwnerUnmoved
  <1> QED
    BY <1>1, <1>2, <1>3

(* ResetToIdle() and RestoreOutputIfDucked() on the main thread. *)
LEMMA OwnerSharedMain ==
    ASSUME OwnerInv, Shared("main")
    PROVE  OwnerOK'
  <1> USE DEF ShutdownLabels
  <1> DEFINE m == "main"
  <1>1. /\ machine \in Machine
        /\ frame[m].ret \in {"idle", "s_lock", "w_loop"}
    BY CallersAreThreads DEF OwnerInv, TypeInv, FieldsOK, LockOK, ThreadsOK, Frame
  <1>2. CASE RestoreOutput(m)
    <2>1. UNCHANGED <<machine, order, active, payload, frame>>
      BY <1>2 DEF RestoreOutput, lockVars, sessionVars, workVars
    <2>2. CASE pc[m] \in {"t_restore", "c_restore", "f_skip", "z_restore"}
      <3>1. PICK l \in {"t_schedule", "r_retire", "m_apply", "idle", "s_lock", "w_loop", "z_emit"} :
              Goto(m, l)
        BY <1>1, <1>2, <2>2 DEF RestoreOutput, Closing
      <3> QED
        BY <2>1, <2>2, <3>1, MainSilent DEF ShuttingDown
    <2>3. CASE pc[m] \in {"p_restore", "f_restore"}
      <3>1. \/ pc[m] = "p_restore" /\ Goto(m, "p_lock")
            \/ pc[m] = "f_restore" /\ Goto(m, "z_lock")
        BY <1>2, <2>3 DEF RestoreOutput
      <3> QED
        BY <2>1, <3>1, MainSilent DEF ShuttingDown, OwnerInv, OwnerOK, MainKnowsPhase
    <2>4. CASE pc[m] = "q_restore"
      <3>1. Goto(m, "q_lock")
        BY <1>2, <2>4 DEF RestoreOutput
      <3> QED
        BY <2>1, <2>4, <3>1, OwnerShutdownStep
    <2> QED
      BY <1>2, <2>2, <2>3, <2>4 DEF RestoreOutput
  <1>3. CASE ResetLock(m)
    <2>1. /\ pc[m] = "z_lock" /\ Goto(m, "z_restore") /\ order' = NoOrder
          /\ UNCHANGED <<active, payload>> /\ machine' = OnResetToIdle(machine).machine
      BY <1>3 DEF ResetLock, sessionVars, workVars
    <2>2. frame'["worker"] = frame["worker"]
      BY <1>3, OwnLocals DEF ResetLock
    <2>3. ~ShuttingDown /\ machine.phase \in {"Idle", "Error"}
      BY <2>1 DEF ShuttingDown, OwnerInv, OwnerOK, MainKnowsPhase
    <2>4. active = NoSession
      BY <2>3 DEF OwnerInv, OwnerOK, PhaseTells
    <2>5. machine'.phase = "Idle"
      BY <1>1, <2>1, OtherPhases, ZenonT(30)
    <2>6. PhaseTells'
      BY <2>1, <2>4, <2>5 DEF PhaseTells
    <2> QED
      BY <2>1, <2>2, <2>3, <2>6, MainOwns
  <1>4. CASE ResetEmit(m) \/ MaybeApplyPendingReload(m)
    <2>1. PICK l \in {"m_apply", "idle", "s_lock", "w_loop"} : Goto(m, l)
      BY <1>1, <1>4 DEF ResetEmit, MaybeApplyPendingReload
    <2>2. pc[m] \in {"z_emit", "m_apply"} /\ UNCHANGED <<machine, order, active, payload>>
      BY <1>4 DEF ResetEmit, MaybeApplyPendingReload, lockVars, sessionVars, workVars
    <2>3. frame'["worker"] = frame["worker"]
      BY <1>4, OwnLocals DEF ResetEmit, MaybeApplyPendingReload
    <2> QED
      BY <2>1, <2>2, <2>3, MainSilent DEF ShuttingDown
  <1> QED
    BY <1>2, <1>3, <1>4 DEF Shared

(* A step of the worker: the main thread keeps what it knows as long as    *)
(* the worker moves the phase only while it owns the utterance.            *)
LEMMA WorkerMoves ==
    ASSUME OwnerInv, NEW l \in WorkerLabels \cup ResetLabels, Goto("worker", l),
           frame'["worker"].ret = frame["worker"].ret, UNCHANGED active,
           OrderForm', SlotTellsWorker', PayloadEmitted',
           ~Cleared =>
             /\ (order' # NoOrder) <=> (machine'.phase \in {"Inferring", "Postprocessing"})
             /\ \/ machine'.phase = machine.phase
                \/ machine.phase \in {"Inferring", "Postprocessing"} /\ machine'.phase # "Recording",
           machine.phase = "Idle" => machine'.phase = "Idle"
    PROVE  OwnerOK'
  <1>1. pc'["worker"] = l /\ pc'["main"] = pc["main"]
    BY CallersAreThreads DEF Goto, OwnerInv, TypeInv, ThreadsOK
  <1>2. WorkerInPlace'
    BY <1>1 DEF OwnerInv, OwnerOK, WorkerInPlace
  <1>3. ~ShuttingDown' => PhaseTells' /\ MainKnowsPhase'
    BY <1>1 DEF OwnerInv, OwnerOK, PhaseTells, MainKnowsPhase, Stoppable, ShuttingDown, Cleared,
                ShutdownLabels
  <1>4. ShutdownTells'
    BY <1>1 DEF OwnerInv, OwnerOK, PhaseTells, ShutdownTells, Cleared
  <1> QED
    BY <1>2, <1>3, <1>4 DEF OwnerOK

(* The worker walks on without touching the slot, inside or outside the    *)
(* part of the iteration in which it owns the utterance.                   *)
LEMMA WorkerWalks ==
    ASSUME OwnerInv, NEW l \in WorkerLabels \cup ResetLabels, Goto("worker", l),
           frame'["worker"].ret = frame["worker"].ret, UNCHANGED <<active, order>>,
           l \in {"w_loop", "w_wait", "m_apply", "z_restore", "z_emit", "done"} <=> ~WorkerBusy,
           PayloadEmitted',
           machine'.phase = machine.phase \/ OnInferenceComplete(machine, TRUE).machine = machine'
    PROVE  OwnerOK'
  <1>1. pc'["worker"] = l
    BY CallersAreThreads DEF Goto, OwnerInv, TypeInv, ThreadsOK
  <1>2. OrderForm' /\ SlotTellsWorker'
    BY <1>1 DEF OwnerInv, OwnerOK, OrderForm, SlotTellsWorker, WorkerBusy
  <1>3. machine \in Machine
    BY DEF OwnerInv, TypeInv, FieldsOK, LockOK
  <1>4. \/ machine'.phase = machine.phase
        \/ machine.phase = "Inferring" /\ machine'.phase = "Postprocessing"
    BY <1>3, OtherPhases, ZenonT(30)
  <1>5. ~Cleared => ((order # NoOrder) <=> (machine.phase \in {"Inferring", "Postprocessing"}))
    BY TellsUntilCleared DEF PhaseTells
  <1> QED
    BY <1>2, <1>4, <1>5, WorkerMoves

LEMMA WorkerLocals ==
    ASSUME OwnerInv, NEW f, f.ret = frame["worker"].ret, UNCHANGED frame \/ Locals("worker", f)
    PROVE  frame'["worker"].ret = frame["worker"].ret
    BY CallersAreThreads DEF OwnerInv, TypeInv, ThreadsOK, Locals

LEMMA WorkerFrame ==
    ASSUME OwnerInv
    PROVE  /\ frame["worker"] \in Frame
           /\ pc["worker"] \in Labels
           /\ machine \in Machine
           /\ payload \in {"none", "text", "empty", "llm", "raw"}
    BY CallersAreThreads DEF OwnerInv, TypeInv, FieldsOK, LockOK, WorkOK, ThreadsOK

LEMMA OwnerWait ==
    ASSUME OwnerInv, WorkerWait
    PROVE  OwnerOK'
  <1> USE DEF WorkerLabels, ResetLabels
  <1>1. frame["worker"] \in Frame /\ pc["worker"] = "w_wait" /\ UNCHANGED <<active, machine>>
    BY WorkerFrame DEF WorkerWait, sessionVars
  <1>2. order.kind # "moved" /\ payload = "none"
    BY <1>1 DEF OwnerInv, OwnerOK, SlotTellsWorker, WorkerBusy, PayloadEmitted
  <1>3. CASE order = NoOrder
    <2>1. Goto("worker", "done") /\ UNCHANGED <<order, frame, payload>>
      BY <1>3 DEF WorkerWait
    <2>2. PayloadEmitted'
      BY <1>2, <2>1 DEF PayloadEmitted
    <2>3. ~WorkerBusy
      BY <1>1 DEF WorkerBusy
    <2> QED
      BY <1>1, <2>1, <2>2, <2>3, WorkerWalks
  <1>4. CASE order # NoOrder
    <2>1. PICK l \in {"w_pipeline", "w_finish"} :
            Goto("worker", l) /\ (l = "w_finish" => UNCHANGED payload)
      BY <1>4 DEF WorkerWait
    <2>2. pc'["worker"] = l
      BY <2>1, CallersAreThreads DEF Goto, OwnerInv, TypeInv, ThreadsOK
    <2>3. PayloadEmitted'
      BY <1>2, <2>1, <2>2 DEF PayloadEmitted
    <2>4. order' = MovedOrder
      BY <1>4 DEF WorkerWait
    <2>5. OrderForm' /\ SlotTellsWorker' /\ order' # NoOrder
      BY <2>2, <2>4 DEF OrderForm, SlotTellsWorker, WorkerBusy, MovedOrder, NoOrder
    <2>6. frame' = [frame EXCEPT !["worker"] = [frame["worker"] EXCEPT !.sess = order.session,
                                                                       !.ime = order.ime]]
      BY <1>4 DEF WorkerWait, Locals
    <2>7. [frame["worker"] EXCEPT !.sess = order.session, !.ime = order.ime].ret = frame["worker"].ret
      BY <1>1 DEF Frame
    <2>8. frame'["worker"].ret = frame["worker"].ret
      BY <2>6, <2>7, CallersAreThreads DEF OwnerInv, TypeInv, ThreadsOK
    <2>9. ~Cleared => machine.phase \in {"Inferring", "Postprocessing"}
      BY <1>4, TellsUntilCleared DEF PhaseTells
    <2> QED
      BY <1>1, <2>1, <2>3, <2>5, <2>8, <2>9, WorkerMoves
  <1> QED
    BY <1>3, <1>4

LEMMA OwnerWorker ==
    ASSUME OwnerInv, Worker
    PROVE  OwnerOK'
  <1> USE DEF WorkerLabels, ResetLabels
  <1> DEFINE w == "worker"
  <1>1. frame[w] \in Frame /\ machine \in Machine
    BY WorkerFrame
  <1>2. \A l : Goto(w, l) => pc'[w] = l
    BY CallersAreThreads DEF Goto, OwnerInv, TypeInv, ThreadsOK
  <1>3. CASE WorkerWait
    BY <1>3, OwnerWait
  <1>4. CASE WorkerLoop
    <2>1. PICK l \in {"w_wait", "done"} : Goto(w, l)
      BY <1>4 DEF WorkerLoop
    <2>2. pc[w] = "w_loop" /\ UNCHANGED <<machine, order, active, payload, frame>>
      BY <1>4 DEF WorkerLoop, lockVars, sessionVars, workVars
    <2>3. ~WorkerBusy /\ PayloadEmitted'
      BY <2>2 DEF WorkerBusy, PayloadEmitted, OwnerInv, OwnerOK
    <2> QED
      BY <2>1, <2>2, <2>3, WorkerWalks
  <1>5. CASE WorkerFinish
    <2>1. PICK l \in {"w_pipeline", "z_lock", "w_except"} :
            Goto(w, l) /\ (l = "z_lock" => UNCHANGED payload)
      BY <1>5 DEF WorkerFinish
    <2>2. pc[w] = "w_finish" /\ UNCHANGED <<machine, order, active>>
      BY <1>5 DEF WorkerFinish, lockVars, sessionVars
    <2>3. WorkerBusy /\ PayloadEmitted'
      BY <1>2, <2>1, <2>2 DEF WorkerBusy, PayloadEmitted, OwnerInv, OwnerOK
    <2>4. [frame[w] EXCEPT !.sess = NoSession].ret = frame[w].ret
      BY <1>1 DEF Frame
    <2>5. frame'[w].ret = frame[w].ret
      BY <1>5, <2>4, WorkerLocals, ZenonT(30) DEF WorkerFinish
    <2> QED
      BY <2>1, <2>2, <2>3, <2>5, WorkerWalks
  <1>6. CASE WorkerPipeline \/ WorkerProcess
    <2>1. PICK l \in {"w_take", "w_enter", "w_except"} : Goto(w, l)
      BY <1>6 DEF WorkerPipeline, WorkerProcess
    <2>2. pc[w] \in {"w_pipeline", "w_llm"} /\ UNCHANGED <<machine, order, active, frame>>
      BY <1>6 DEF WorkerPipeline, WorkerProcess, lockVars, sessionVars
    <2>3. WorkerBusy /\ PayloadEmitted'
      BY <1>2, <2>1, <2>2 DEF WorkerBusy, PayloadEmitted
    <2> QED
      BY <2>1, <2>2, <2>3, WorkerWalks
  <1>7. CASE EnterPostprocessing \/ EnterEmit
    <2>1. PICK l \in {"w_enter_emit", "w_llm"} : Goto(w, l)
      BY <1>7, ZenonT(30) DEF EnterPostprocessing, EnterEmit
    <2>2. pc[w] \in {"w_enter", "w_enter_emit"} /\ UNCHANGED <<order, active>>
      BY <1>7, ZenonT(30) DEF EnterPostprocessing, EnterEmit, lockVars, sessionVars
    <2>3. WorkerBusy /\ PayloadEmitted'
      BY <1>2, <2>1, <2>2 DEF WorkerBusy, PayloadEmitted
    <2>4. \A b : [frame[w] EXCEPT !.wasIme = b].ret = frame[w].ret
      BY <1>1 DEF Frame
    <2>5. frame'[w].ret = frame[w].ret
      BY <1>7, <2>4, WorkerLocals, ZenonT(30) DEF EnterPostprocessing, EnterEmit
    <2>6. machine'.phase = machine.phase \/ OnInferenceComplete(machine, TRUE).machine = machine'
      BY <1>7, ZenonT(30) DEF EnterPostprocessing, EnterEmit, lockVars
    <2> QED
      BY <2>1, <2>2, <2>3, <2>5, <2>6, WorkerWalks, ZenonT(30)
  <1>8. CASE WorkerTake \/ WorkerEmit \/ WorkerExcept
    <2>1. PICK l \in {"w_emit", "z_lock"} : Goto(w, l) /\ (l = "z_lock" => payload' = "none")
      BY <1>8 DEF WorkerTake, WorkerEmit, WorkerExcept
    <2>2. pc[w] \in {"w_take", "w_emit", "w_except"} /\ UNCHANGED <<order, active, frame>>
      BY <1>8 DEF WorkerTake, WorkerEmit, WorkerExcept, lockVars, sessionVars
    <2>3. WorkerBusy /\ PayloadEmitted'
      BY <1>2, <2>1, <2>2 DEF WorkerBusy, PayloadEmitted
    <2>4. machine' = machine \/ machine' = AfterTake(machine)
      BY <1>8 DEF WorkerTake, WorkerEmit, WorkerExcept, lockVars
    <2>5. machine'.phase = machine.phase
      BY <1>1, <2>4, OtherPhases, ZenonT(30)
    <2> QED
      BY <2>1, <2>2, <2>3, <2>5, WorkerWalks
  <1> QED
    BY <1>3, <1>4, <1>5, <1>6, <1>7, <1>8 DEF Worker

(* ResetToIdle() on the worker gives the utterance up. *)
LEMMA OwnerSharedWorker ==
    ASSUME OwnerInv, Shared("worker")
    PROVE  OwnerOK'
  <1> USE DEF WorkerLabels, ResetLabels
  <1> DEFINE w == "worker"
  <1>1. /\ frame[w] \in Frame /\ machine \in Machine /\ frame[w].ret = "w_loop"
        /\ pc[w] \in WorkerLabels \cup ResetLabels
    BY WorkerFrame DEF OwnerInv, OwnerOK, WorkerInPlace
  <1>2. \A l : Goto(w, l) => pc'[w] = l
    BY CallersAreThreads DEF Goto, OwnerInv, TypeInv, ThreadsOK
  <1>3. /\ \A b : [frame[w] EXCEPT !.wasIme = b].ret = frame[w].ret
        /\ [frame[w] EXCEPT !.apply = FALSE, !.sess = NoSession].ret = frame[w].ret
    BY <1>1 DEF Frame
  <1>4. frame'[w].ret = frame[w].ret
    BY <1>3, WorkerLocals, ZenonT(30) DEF Shared, RestoreOutput, ResetLock, ResetEmit,
         MaybeApplyPendingReload
  <1>5. CASE RestoreOutput(w) \/ ResetEmit(w) \/ MaybeApplyPendingReload(w)
    <2>1. PICK l \in {"z_emit", "m_apply", "w_loop"} : Goto(w, l)
      BY <1>1, <1>5 DEF RestoreOutput, ResetEmit, MaybeApplyPendingReload
    <2>2. pc[w] \in {"z_restore", "z_emit", "m_apply"} /\ UNCHANGED <<machine, order, active, payload>>
      BY <1>1, <1>5 DEF RestoreOutput, ResetEmit, MaybeApplyPendingReload, lockVars, sessionVars,
                        workVars
    <2>3. ~WorkerBusy /\ PayloadEmitted'
      BY <2>2 DEF WorkerBusy, PayloadEmitted, OwnerInv, OwnerOK
    <2> QED
      BY <1>4, <2>1, <2>2, <2>3, WorkerWalks
  <1>6. CASE ResetLock(w)
    <2>1. /\ pc[w] = "z_lock" /\ Goto(w, "z_restore") /\ order' = NoOrder
          /\ UNCHANGED <<active, payload>> /\ machine' = OnResetToIdle(machine).machine
      BY <1>6 DEF ResetLock, sessionVars, workVars
    <2>2. OrderForm' /\ SlotTellsWorker' /\ PayloadEmitted'
      BY <1>2, <2>1 DEF OrderForm, SlotTellsWorker, WorkerBusy, NoOrder, PayloadEmitted,
           OwnerInv, OwnerOK
    <2>3. machine'.phase = "Idle"
      BY <1>1, <2>1, OtherPhases, ZenonT(30)
    <2>4. order # NoOrder
      BY <2>1 DEF OwnerInv, OwnerOK, SlotTellsWorker, WorkerBusy, NoOrder
    <2>5. ~Cleared => machine.phase \in {"Inferring", "Postprocessing"}
      BY <2>4, TellsUntilCleared DEF PhaseTells
    <2> QED
      BY <1>4, <2>1, <2>2, <2>3, <2>5, WorkerMoves
  <1> QED
    BY <1>5, <1>6 DEF Shared

(* A step of thread t moves no other thread. *)
MovesAlone(t) == \A u \in Threads : u # t => pc'[u] = pc[u] /\ frame'[u] = frame[u]

LEMMA MovingAlone ==
    ASSUME TypeInv, NEW t \in Threads, pc' = pc \/ \E l : Goto(t, l), frame' = frame \/ \E f : Locals(t, f)
    PROVE  MovesAlone(t)
    BY DEF TypeInv, ThreadsOK, Goto, Locals, MovesAlone

LEMMA StepsMoveAlone ==
    ASSUME TypeInv, NEW t \in Threads, Command(t) \/ Step(t) \/ Shared(t)
    PROVE  MovesAlone(t)
  <1>1. CASE Command(t)
    BY <1>1, MovingAlone, ZenonT(30) DEF Command, StartRecording, StopRecording, CancelOperation,
       ReloadAsrBackend, InjectText
  <1>2. CASE \/ StartLock(t) \/ BeginRecording(t) \/ StartDisarm(t) \/ CreateSession(t)
             \/ CreateSessionFails(t) \/ StartDuck(t) \/ StartNotify(t)
    BY <1>2, MovingAlone, ZenonT(30) DEF StartLock, BeginRecording, StartDisarm, CreateSession,
       CreateSessionFails, StartDuck, StartNotify
  <1>3. CASE \/ EndRecording(t) \/ ScheduleCaptureStop(t) \/ WakeMainThread(t)
             \/ FlushWake(t) \/ FlushReapedSessions(t) \/ TryDequeue(t)
    BY <1>3, MovingAlone, ZenonT(30)
       DEF EndRecording, ScheduleCaptureStop, WakeMainThread, FlushWake, FlushReapedSessions,
           TryDequeue
  <1>4. CASE \/ HandleEnter(t) \/ HandleStartup(t) \/ HandleAppend(t) \/ PushAudio(t)
             \/ HandleCheck(t) \/ HandleRetire(t)
    BY <1>4, MovingAlone, ZenonT(30) DEF HandleEnter, HandleStartup, HandleAppend, PushAudio,
         HandleCheck,
       HandleRetire
  <1>5. CASE \/ PollActiveSession(t) \/ FlushExchange(t) \/ FlushLook(t) \/ FlushStop(t)
             \/ FailCancel(t) \/ FailNotify(t) \/ CancelStop(t) \/ RetireDetached(t) \/ StopCapture(t)
    BY <1>5, MovingAlone DEF PollActiveSession, FlushExchange, FlushLook, FlushStop, FailCancel,
       FailNotify, CancelStop, RetireDetached, StopCapture
  <1>6. CASE StartInstall(t) \/ FailActiveSession(t) \/ StopLock(t)
    BY <1>6, MovingAlone DEF StartInstall, FailActiveSession, StopLock
  <1>7. CASE Shared(t)
    BY <1>7, MovingAlone DEF Shared, RestoreOutput, ResetLock, ResetEmit, MaybeApplyPendingReload
  <1> QED
    BY <1>1, <1>2, <1>3, <1>4, <1>5, <1>6, <1>7 DEF Step

LEMMA LoopsMoveAlone ==
    ASSUME TypeInv
    PROVE  /\ MainFlush \/ ExpireLook \/ ExpireDestroy \/ Quit \/ Shutdown => MovesAlone("main")
           /\ Worker => MovesAlone("worker")
  <1>1. MainFlush \/ ExpireLook \/ ExpireDestroy \/ Quit \/ Shutdown => MovesAlone("main")
    BY MovingAlone, CallersAreThreads
       DEF MainFlush, ExpireLook, ExpireDestroy, Quit, Shutdown, ShutdownCapture, ShutdownLock,
           ShutdownActive, ShutdownJoin
  <1>2. Worker => MovesAlone("worker")
    BY MovingAlone, CallersAreThreads, ZenonT(30)
       DEF Worker, WorkerLoop, WorkerWait, WorkerFinish, WorkerPipeline, EnterPostprocessing,
           EnterEmit, WorkerProcess, WorkerTake, WorkerEmit, WorkerExcept
  <1> QED
    BY <1>1, <1>2

(* The steps a client has that only cancels. *)
ClientCloses(t) ==
    \/ CancelStop(t) \/ RetireDetached(t) \/ MaybeApplyPendingReload(t)
    \/ pc[t] = "r_wake" /\ WakeMainThread(t)
    \/ pc[t] = "c_restore" /\ RestoreOutput(t)

LEMMA ClientSteps ==
    ASSUME OnlyCancelled, ClientsCancel, NEW t \in Clients, Command(t) \/ Step(t) \/ Shared(t)
    PROVE  ClientCloses(t) \/ \E ime \in Imes(t), raw \in BOOLEAN : CancelOperation(t, ime, raw)
  <1> USE DEF ClientLabels
  <1>1. pc[t] \in ClientLabels
    BY DEF ClientsCancel
  <1>2. CASE Command(t)
    <2>1. Commands(t) \subseteq {"cancel"}
      BY ThreadsAssumption DEF Commands, OnlyCancelled
    <2> QED
      BY <1>2, <2>1 DEF Command
  <1>3. /\ ~StartLock(t) /\ ~BeginRecording(t) /\ ~StartDisarm(t) /\ ~CreateSession(t)
        /\ ~CreateSessionFails(t) /\ ~StartInstall(t) /\ ~StartDuck(t) /\ ~StartNotify(t)
    BY <1>1 DEF StartLock, BeginRecording, StartDisarm, CreateSession, CreateSessionFails,
       StartInstall, StartDuck, StartNotify
  <1>4. /\ ~EndRecording(t) /\ ~ScheduleCaptureStop(t) /\ ~FlushWake(t)
        /\ ~FlushReapedSessions(t) /\ ~TryDequeue(t)
        /\ WakeMainThread(t) => pc[t] = "r_wake"
    BY <1>1 DEF EndRecording, ScheduleCaptureStop, WakeMainThread, FlushWake,
       FlushReapedSessions, TryDequeue
  <1>5. /\ ~HandleEnter(t) /\ ~HandleStartup(t) /\ ~HandleAppend(t) /\ ~PushAudio(t)
        /\ ~HandleCheck(t) /\ ~HandleRetire(t)
    BY <1>1, ZenonT(30) DEF HandleEnter, HandleStartup, HandleAppend, PushAudio, HandleCheck,
         HandleRetire
  <1>6. /\ ~PollActiveSession(t) /\ ~FlushExchange(t) /\ ~FlushLook(t) /\ ~FlushStop(t)
        /\ ~FailActiveSession(t) /\ ~FailCancel(t) /\ ~FailNotify(t)
        /\ ~StopCapture(t) /\ ~StopLock(t)
    BY <1>1 DEF PollActiveSession, FlushExchange, FlushLook, FlushStop, FailActiveSession,
       FailCancel, FailNotify, StopCapture, StopLock
  <1>7. /\ ~ResetLock(t) /\ ~ResetEmit(t)
        /\ RestoreOutput(t) => pc[t] = "c_restore"
    BY <1>1 DEF ResetLock, ResetEmit, RestoreOutput
  <1> QED
    BY <1>2, <1>3, <1>4, <1>5, <1>6, <1>7 DEF Step, Shared, ClientCloses

(* What a client does after its critical section leaves the daemon alone   *)
(* but for the microphone, the output and the session it detached.         *)
LEMMA ClientClosing ==
    ASSUME TypeInv, ClientsCancel, NEW t \in Clients, ClientCloses(t)
    PROVE  /\ \E l \in ClientLabels : Goto(t, l)
           /\ frame'[t].ret = "idle"
           /\ UNCHANGED <<machine, order, active, payload, startInProgress, accepting>>
           /\ recording' => recording /\ pc[t] # "c_stop"
  <1>1. t \in Threads /\ frame[t] \in Frame /\ frame[t].ret = "idle"
    BY DEF ClientsCancel, TypeInv, ThreadsOK, Threads, Callers
  <1>2. \A s, b : Closing(t, s, b) \in ClientLabels
    BY <1>1 DEF Closing, ClientLabels
  <1>3. CASE CancelStop(t)
    BY <1>1, <1>3, ZenonT(30) DEF CancelStop, StopStream, ClientLabels, lockVars, flagVars,
         sessionVars, workVars
  <1>4. CASE RetireDetached(t)
    <2> DEFINE f == [frame[t] EXCEPT !.sess = NoSession]
    <2>1. f.ret = "idle"
      BY <1>1 DEF Frame
    <2>2. frame'[t] = f
      BY <1>1, <1>4 DEF RetireDetached, Locals, TypeInv, ThreadsOK
    <2> HIDE DEF f
    <2> QED
      BY <1>4, <2>1, <2>2 DEF RetireDetached, ClientLabels, lockVars, flagVars, workVars, deviceVars
  <1>5. CASE MaybeApplyPendingReload(t)
    <2> DEFINE f == [frame[t] EXCEPT !.apply = FALSE, !.sess = NoSession]
    <2>1. f.ret = "idle"
      BY <1>1 DEF Frame
    <2>2. frame'[t] = f
      BY <1>1, <1>5 DEF MaybeApplyPendingReload, Locals, TypeInv, ThreadsOK
    <2> HIDE DEF f
    <2> QED
      BY <1>1, <1>5, <2>1, <2>2
         DEF MaybeApplyPendingReload, ClientLabels, flagVars, sessionVars, workVars, deviceVars
  <1>6. CASE pc[t] = "r_wake" /\ WakeMainThread(t)
    <2>1. Goto(t, Closing(t, NoSession, frame[t].apply)) /\ Locals(t, frame[t])
      BY <1>6 DEF WakeMainThread
    <2>2. frame'[t].ret = "idle"
      BY <1>1, <2>1 DEF Locals, TypeInv, ThreadsOK
    <2> QED
      BY <1>2, <1>6, <2>1, <2>2 DEF WakeMainThread, lockVars, sessionVars, workVars, deviceVars
  <1>7. CASE pc[t] = "c_restore" /\ RestoreOutput(t)
    <2>1. Goto(t, Closing(t, frame[t].sess, frame[t].apply)) /\ UNCHANGED frame
      BY <1>7 DEF RestoreOutput
    <2> QED
      BY <1>1, <1>2, <1>7, <2>1 DEF RestoreOutput, lockVars, flagVars, sessionVars, workVars
  <1> QED
    BY <1>3, <1>4, <1>5, <1>6, <1>7 DEF ClientCloses

LEMMA ClientCancelling ==
    ASSUME TypeInv, ClientsCancel, NEW t \in Clients, NEW ime, NEW raw, CancelOperation(t, ime, raw)
    PROVE  /\ \E l \in ClientLabels : Goto(t, l)
           /\ frame'[t].ret = "idle"
           /\ UNCHANGED payload
  <1>1. t \in Threads /\ frame[t] \in Frame /\ frame[t].ret = "idle"
    BY DEF ClientsCancel, TypeInv, ThreadsOK, Threads, Callers
  <1> DEFINE f == [frame[t] EXCEPT !.sess = active, !.apply = pendingReload]
  <1>2. f.ret = "idle"
    BY <1>1 DEF Frame
  <1>3. UNCHANGED frame \/ Locals(t, f)
    BY DEF CancelOperation
  <1> HIDE DEF f
  <1>4. frame'[t].ret = "idle"
    BY <1>1, <1>2, <1>3 DEF Locals, TypeInv, ThreadsOK
  <1> QED
    BY <1>4 DEF CancelOperation, ClientLabels, workVars

LEMMA ClientsStay ==
    ASSUME OnlyCancelled, TypeInv, ClientsCancel, [Next]_vars
    PROVE  ClientsCancel'
  <1>1. ASSUME NEW t \in Threads, MovesAlone(t), t \notin Clients
        PROVE  ClientsCancel'
    BY <1>1 DEF ClientsCancel, MovesAlone, Threads, Callers
  <1>2. ASSUME NEW t \in Threads, Command(t) \/ Step(t) \/ Shared(t)
        PROVE  ClientsCancel'
    <2>1. MovesAlone(t)
      BY <1>2, StepsMoveAlone
    <2>2. CASE t \in Clients
      <3>1. (\E l \in ClientLabels : Goto(t, l)) /\ frame'[t].ret = "idle"
        BY <1>2, <2>2, ClientSteps, ClientClosing, ClientCancelling, ZenonT(30)
      <3>2. pc'[t] \in ClientLabels
        BY <3>1 DEF Goto, TypeInv, ThreadsOK
      <3> QED
        BY <2>1, <3>1, <3>2 DEF ClientsCancel, MovesAlone, Threads, Callers
    <2> QED
      BY <1>1, <2>1, <2>2
  <1>3. CASE MainFlush \/ ExpireLook \/ ExpireDestroy \/ Quit \/ Shutdown
    BY <1>1, <1>3, LoopsMoveAlone, ThreadsAssumption, CallersAreThreads
  <1>4. CASE Worker
    BY <1>1, <1>4, LoopsMoveAlone, ThreadsAssumption, CallersAreThreads
  <1>5. CASE AudioArrives \/ SessionWakes \/ Terminated \/ UNCHANGED vars
    BY <1>5 DEF AudioArrives, SessionWakes, Terminated, vars, ClientsCancel
  <1> QED
    BY <1>2, <1>3, <1>4, <1>5, CallersAreThreads DEF Next

(* A step of a client that touches neither phase, slot nor session. *)
LEMMA ClientSilent ==
    ASSUME OwnerInv, NEW t \in Clients, NEW l, Goto(t, l), frame'["worker"] = frame["worker"],
           UNCHANGED <<order, active, payload>>, machine'.phase = machine.phase
    PROVE  OwnerOK'
  <1>1. pc'["worker"] = pc["worker"] /\ pc'["main"] = pc["main"]
    BY ThreadsAssumption, CallersAreThreads DEF Goto, OwnerInv, TypeInv, ThreadsOK
  <1>2. WorkerInPlace' /\ OrderForm' /\ SlotTellsWorker' /\ PayloadEmitted'
    BY <1>1 DEF OwnerInv, OwnerOK, WorkerInPlace, OrderForm, SlotTellsWorker, WorkerBusy, PayloadEmitted
  <1>3. /\ ~ShuttingDown' => PhaseTells' /\ MainKnowsPhase'
        /\ ShutdownTells'
    BY <1>1 DEF OwnerInv, OwnerOK, ShuttingDown, PhaseTells, MainKnowsPhase, Stoppable,
                ShutdownTells, Cleared
  <1> QED
    BY <1>2, <1>3 DEF OwnerOK

LEMMA OwnerClient ==
    ASSUME OnlyCancelled, OwnerInv, NEW t \in Clients, Command(t) \/ Step(t) \/ Shared(t)
    PROVE  OwnerOK'
  <1>1. t \in Threads /\ MovesAlone(t) /\ TypeInv /\ ClientsCancel /\ machine \in Machine
    BY StepsMoveAlone DEF Threads, Callers, OwnerInv, TypeInv, FieldsOK, LockOK
  <1>2. frame'["worker"] = frame["worker"] /\ pc'["worker"] = pc["worker"] /\ pc'["main"] = pc["main"]
    BY <1>1, ThreadsAssumption, CallersAreThreads DEF MovesAlone
  <1>3. CASE ClientCloses(t)
    BY <1>1, <1>2, <1>3, ClientClosing, ClientSilent
  <1>4. ASSUME NEW ime \in Imes(t), NEW raw \in BOOLEAN, CancelOperation(t, ime, raw)
        PROVE  OwnerOK'
    <2> DEFINE res == OnCancel(machine, raw)
    <2>1. PICK l \in ClientLabels : Goto(t, l) /\ UNCHANGED payload
      BY <1>1, <1>4, ClientCancelling, ZenonT(30)
    <2>2. machine' = res.machine
      BY <1>4 DEF CancelOperation
    <2>3. /\ (res.effect = "stop_capture") <=> (machine.phase = "Recording")
          /\ res.machine.phase = IF machine.phase = "Recording" THEN "Idle" ELSE machine.phase
      BY <1>1, CancelPhase
    <2>4. CASE machine.phase # "Recording"
      <3>1. res.effect # "stop_capture" /\ machine'.phase = machine.phase
        BY <2>2, <2>3, <2>4
      <3>2. UNCHANGED <<order, active>>
        BY <1>4, <3>1 DEF CancelOperation
      <3> QED
        BY <1>2, <2>1, <3>1, <3>2, ClientSilent
    <2>5. CASE machine.phase = "Recording"
      <3>1. res.effect = "stop_capture" /\ machine'.phase = "Idle"
        BY <2>2, <2>3, <2>5
      <3>2. order' = NoOrder /\ active' = NoSession
        BY <1>4, <3>1 DEF CancelOperation, DetachActive
      <3>3. PhaseTells'
        BY <3>1, <3>2 DEF PhaseTells
      <3>4. PhaseTells
        BY <2>5, TellsUntilCleared DEF OwnerInv, OwnerOK, ShutdownTells
      <3>5. ~WorkerBusy
        BY <2>5, <3>4 DEF PhaseTells, OwnerInv, OwnerOK, SlotTellsWorker, NoOrder
      <3>6. WorkerInPlace' /\ OrderForm' /\ SlotTellsWorker' /\ PayloadEmitted'
        BY <1>2, <2>1, <3>2, <3>5 DEF OwnerInv, OwnerOK, WorkerInPlace, OrderForm,
             SlotTellsWorker,
           WorkerBusy, PayloadEmitted, NoOrder
      <3>7. MainKnowsPhase' /\ ShutdownTells'
        BY <1>2, <3>1, <3>3 DEF MainKnowsPhase, Stoppable, ShutdownTells
      <3> QED
        BY <3>3, <3>6, <3>7 DEF OwnerOK
    <2> QED
      BY <2>4, <2>5
  <1> QED
    BY <1>1, <1>3, <1>4, ClientSteps

LEMMA OwnerNext ==
    ASSUME OnlyCancelled, OwnerInv, [Next]_vars
    PROVE  OwnerInv'
  <1>1. TypeInv' /\ ClientsCancel'
    BY NextTypes, ClientsStay DEF OwnerInv
  <1>2. PostOnlyWhilePostprocessing'
    BY MachineMoves, MoveKeepsPost DEF OwnerInv, TypeInv, FieldsOK, LockOK
  <1>3. CASE \E t \in Callers : Command(t) \/ Step(t)
    <2>1. \/ Command("main") \/ Step("main")
          \/ \E t \in Clients : Command(t) \/ Step(t)
      BY <1>3 DEF Callers
    <2> QED
      BY <1>1, <1>2, <2>1, OwnerCommands, OwnerSilentSteps, OwnerInstall, OwnerFail, OwnerStop,
         OwnerClient DEF OwnerInv
  <1>4. CASE \E t \in Threads : Shared(t)
    <2>1. Shared("main") \/ Shared("worker") \/ \E t \in Clients : Shared(t)
      BY <1>4 DEF Callers, Threads
    <2> QED
      BY <1>1, <1>2, <2>1, OwnerSharedMain, OwnerSharedWorker, OwnerClient DEF OwnerInv
  <1> QED
    BY <1>1, <1>2, <1>3, <1>4, OwnerLoop, OwnerWorker DEF OwnerInv, Next

LEMMA OwnerInit ==
    ASSUME Init
    PROVE  OwnerInv
  <1>1. TypeInv
    BY InitTypes
  <1>2. PostOnlyWhilePostprocessing
    BY DEF Init, Clear, PostOnlyWhilePostprocessing
  <1>3. pc["worker"] = "w_loop" /\ pc["main"] = "idle" /\ frame["worker"].ret = "w_loop"
    BY CallersAreThreads, ThreadsAssumption DEF Init, EmptyFrame
  <1>4. WorkerInPlace /\ OrderForm /\ SlotTellsWorker /\ PayloadEmitted
    BY <1>3 DEF Init, WorkerInPlace, WorkerLabels, OrderForm, SlotTellsWorker, NoOrder, WorkerBusy,
                PayloadEmitted
  <1>5. PhaseTells /\ MainKnowsPhase /\ ShutdownTells
    BY <1>3 DEF Init, Clear, PhaseTells, MainKnowsPhase, ShutdownTells, Cleared
  <1>6. ClientsCancel
    BY ThreadsAssumption DEF Init, ClientsCancel, ClientLabels, EmptyFrame, Threads, Callers
  <1> QED
    BY <1>1, <1>2, <1>4, <1>5, <1>6 DEF OwnerInv, OwnerOK

(* Besides the input method any number of clients may call                 *)
(* CancelOperation(): the phase the daemon reports, the installed session  *)
(* and the order slot always tell the same story.  StopRecording() finds   *)
(* its session unless it was cancelled, StartRecordingInternal() overwrites *)
(* no utterance, and what the worker took is its own until ResetToIdle().  *)
THEOREM PhaseOwner == ASSUME OnlyCancelled PROVE Spec => []PhaseTellsOwner
  <1>1. OwnerInv => PhaseTellsOwner
    BY DEF OwnerInv, OwnerOK, PhaseTells, SlotTellsWorker, PhaseTellsOwner
  <1>2. Init => OwnerInv
    BY OwnerInit
  <1>3. OwnerInv /\ [Next]_vars => OwnerInv'
    BY OwnerNext
  <1> QED
    BY <1>1, <1>2, <1>3, PTL DEF Spec

(* Who may touch the phase machine or the order slot, and what is known    *)
(* when it happens.                                                        *)
NobodysUtterance == ~Cleared /\ machine.phase \notin {"Inferring", "Postprocessing"}
CancelRuled == UNCHANGED order /\ \E raw \in BOOLEAN : machine' = OnCancel(machine, raw).machine
WorkerTook == UNCHANGED machine /\ frame'["worker"].sess = order.session
WorkerOwned ==
    /\ order.kind = "moved"
    /\ \/ machine' = OnInferenceComplete(machine, TRUE).machine
       \/ payload' = "none"
       \/ payload' = CASE machine.post = "CommitRaw" -> "raw"
                       [] machine.post = "Discard" -> "empty"
                       [] OTHER -> payload
SlotMove ==
    \/ UNCHANGED <<machine, order>>
    \/ NobodysUtterance \/ CancelRuled \/ WorkerTook \/ WorkerOwned
    \/ ShuttingDown /\ UNCHANGED order

LEMMA SlotMain ==
    ASSUME OwnerInv, Command("main") \/ Step("main")
    PROVE  SlotMove
  <1> USE DEF ShutdownLabels
  <1> DEFINE m == "main"
  <1>1. CASE Command(m)
    <2>1. CASE \E ime \in Imes(m), raw \in BOOLEAN : CancelOperation(m, ime, raw)
      <3>1. PICK ime \in Imes(m), raw \in BOOLEAN : CancelOperation(m, ime, raw)
        BY <2>1
      <3>2. machine \in Machine /\ ~Cleared
        BY <3>1 DEF OwnerInv, TypeInv, FieldsOK, LockOK, CancelOperation, Cleared
      <3>3. machine' = OnCancel(machine, raw).machine
        BY <3>1 DEF CancelOperation
      <3>4. CASE machine.phase = "Recording"
        BY <3>2, <3>4 DEF SlotMove, NobodysUtterance
      <3>5. CASE machine.phase # "Recording"
        <4>1. OnCancel(machine, raw).effect # "stop_capture"
          BY <3>2, <3>5, CancelPhase
        <4>2. UNCHANGED order
          BY <3>1, <4>1 DEF CancelOperation
        <4> QED
          BY <3>3, <4>2 DEF SlotMove, CancelRuled
      <3> QED
        BY <3>4, <3>5
    <2>2. CASE \/ \E ime \in Imes(m), c \in BOOLEAN : StartRecording(m, ime, c)
               \/ \E ime \in Imes(m) : StopRecording(m, ime)
               \/ ReloadAsrBackend(m)
      BY <2>2, ZenonT(30) DEF StartRecording, StopRecording, ReloadAsrBackend, SlotMove, lockVars
    <2>3. "inject" \notin Commands(m)
      BY CommandsAssumption DEF Commands
    <2> QED
      BY <1>1, <2>1, <2>2, <2>3 DEF Command
  <1>2. CASE StartInstall(m)
    BY <1>2 DEF StartInstall, SlotMove, NobodysUtterance, Cleared
  <1>3. CASE FailActiveSession(m)
    <2>1. CASE active # frame[m].sess
      BY <1>3, <2>1 DEF FailActiveSession, SlotMove
    <2>2. CASE active = frame[m].sess
      <3>1. Held("x_lock", frame[m]) /\ ~ShuttingDown
        BY <1>3, CallersAreThreads DEF OwnerInv, TypeInv, ThreadsOK, FailActiveSession, ShuttingDown
      <3>2. active # NoSession
        BY <2>2, <3>1, SessionsAssumption DEF Held, HoldsSession
      <3> QED
        BY <3>1, <3>2 DEF SlotMove, NobodysUtterance, OwnerInv, OwnerOK, PhaseTells, ShuttingDown,
                          Cleared
    <2> QED
      BY <2>1, <2>2
  <1>4. CASE StopLock(m)
    <2>1. pc[m] = "p_lock"
      BY <1>4 DEF StopLock
    <2> QED
      BY <2>1 DEF SlotMove, NobodysUtterance, OwnerInv, OwnerOK, MainKnowsPhase, Stoppable,
                  ShuttingDown, Cleared
  <1>5. CASE \/ StartLock(m) \/ BeginRecording(m) \/ StartDisarm(m) \/ CreateSession(m)
             \/ CreateSessionFails(m) \/ StartDuck(m) \/ StartNotify(m)
    BY <1>5 DEF StartLock, BeginRecording, StartDisarm, CreateSession, CreateSessionFails,
                StartDuck, StartNotify, SlotMove, lockVars
  <1>6. CASE \/ EndRecording(m) \/ ScheduleCaptureStop(m) \/ WakeMainThread(m)
             \/ FlushWake(m) \/ FlushReapedSessions(m) \/ TryDequeue(m)
    BY <1>6 DEF EndRecording, ScheduleCaptureStop, WakeMainThread, FlushWake,
                FlushReapedSessions, TryDequeue, SlotMove, lockVars
  <1>7. CASE \/ HandleEnter(m) \/ HandleStartup(m) \/ HandleAppend(m) \/ PushAudio(m)
             \/ HandleCheck(m) \/ HandleRetire(m)
    BY <1>7, ZenonT(30) DEF HandleEnter, HandleStartup, HandleAppend, PushAudio, HandleCheck,
         HandleRetire,
                SlotMove, lockVars
  <1>8. CASE \/ PollActiveSession(m) \/ FlushExchange(m) \/ FlushLook(m) \/ FlushStop(m)
             \/ FailCancel(m) \/ FailNotify(m) \/ CancelStop(m) \/ RetireDetached(m) \/ StopCapture(m)
    BY <1>8 DEF PollActiveSession, FlushExchange, FlushLook, FlushStop, FailCancel, FailNotify,
                CancelStop, RetireDetached, StopCapture, SlotMove, lockVars
  <1> QED
    BY <1>1, <1>2, <1>3, <1>4, <1>5, <1>6, <1>7, <1>8 DEF Step

LEMMA SlotShared ==
    ASSUME OwnerInv, Shared("main") \/ Shared("worker")
    PROVE  SlotMove
  <1>1. CASE ResetLock("main")
    <2>1. pc["main"] = "z_lock"
      BY <1>1 DEF ResetLock
    <2> QED
      BY <2>1 DEF SlotMove, NobodysUtterance, OwnerInv, OwnerOK, MainKnowsPhase, ShuttingDown,
                  ShutdownLabels, Cleared
  <1>2. CASE ResetLock("worker")
    <2>1. pc["worker"] = "z_lock" /\ UNCHANGED payload
      BY <1>2 DEF ResetLock, workVars
    <2>2. order.kind = "moved" /\ payload = "none"
      BY <2>1 DEF OwnerInv, OwnerOK, SlotTellsWorker, WorkerBusy, PayloadEmitted, ResetLabels
    <2> QED
      BY <2>1, <2>2 DEF SlotMove, WorkerOwned
  <1>3. ASSUME NEW t, RestoreOutput(t) \/ ResetEmit(t) \/ MaybeApplyPendingReload(t)
        PROVE  SlotMove
    BY <1>3 DEF RestoreOutput, ResetEmit, MaybeApplyPendingReload, SlotMove, lockVars
  <1> QED
    BY <1>1, <1>2, <1>3 DEF Shared

LEMMA SlotWorker ==
    ASSUME OwnerInv, Worker
    PROVE  SlotMove
  <1>1. CASE WorkerWait
    <2>1. CASE order = NoOrder
      BY <1>1, <2>1 DEF WorkerWait, SlotMove
    <2>2. CASE order # NoOrder
      <3>1. /\ frame' = [frame EXCEPT !["worker"] = [frame["worker"] EXCEPT !.sess = order.session,
                                                                            !.ime = order.ime]]
            /\ UNCHANGED machine
        BY <1>1, <2>2 DEF WorkerWait, Locals
      <3>2. [frame["worker"] EXCEPT !.sess = order.session, !.ime = order.ime].sess = order.session
        BY WorkerFrame DEF Frame
      <3>3. frame'["worker"].sess = order.session
        BY <3>1, <3>2, CallersAreThreads DEF OwnerInv, TypeInv, ThreadsOK
      <3> QED
        BY <3>1, <3>3 DEF SlotMove, WorkerTook
    <2> QED
      BY <2>1, <2>2
  <1>2. CASE EnterPostprocessing \/ WorkerTake \/ WorkerExcept
    <2>1. pc["worker"] \in {"w_enter", "w_take", "w_except"}
      BY <1>2, ZenonT(30) DEF EnterPostprocessing, WorkerTake, WorkerExcept
    <2>2. order.kind = "moved"
      BY <2>1 DEF OwnerInv, OwnerOK, SlotTellsWorker, WorkerBusy
    <2> QED
      BY <1>2, <2>2, ZenonT(30) DEF EnterPostprocessing, WorkerTake, WorkerExcept, SlotMove,
           WorkerOwned
  <1>3. CASE \/ WorkerLoop \/ WorkerFinish \/ WorkerPipeline \/ EnterEmit \/ WorkerProcess \/ WorkerEmit
    BY <1>3 DEF WorkerLoop, WorkerFinish, WorkerPipeline, EnterEmit, WorkerProcess, WorkerEmit,
                SlotMove, lockVars
  <1> QED
    BY <1>1, <1>2, <1>3 DEF Worker

LEMMA SlotClient ==
    ASSUME OnlyCancelled, OwnerInv, NEW t \in Clients, Command(t) \/ Step(t) \/ Shared(t)
    PROVE  SlotMove
  <1>1. CASE ClientCloses(t)
    BY <1>1, ClientClosing DEF OwnerInv, SlotMove
  <1>2. ASSUME NEW ime \in Imes(t), NEW raw \in BOOLEAN, CancelOperation(t, ime, raw)
        PROVE  SlotMove
    <2>1. machine \in Machine /\ machine' = OnCancel(machine, raw).machine
      BY <1>2 DEF OwnerInv, TypeInv, FieldsOK, LockOK, CancelOperation
    <2>2. CASE machine.phase = "Recording"
      BY <2>2 DEF SlotMove, NobodysUtterance, OwnerInv, OwnerOK, ShutdownTells
    <2>3. CASE machine.phase # "Recording"
      <3>1. OnCancel(machine, raw).effect # "stop_capture"
        BY <2>1, <2>3, CancelPhase
      <3>2. UNCHANGED order
        BY <1>2, <3>1 DEF CancelOperation
      <3> QED
        BY <2>1, <3>2 DEF SlotMove, CancelRuled
    <2> QED
      BY <2>2, <2>3
  <1> QED
    BY <1>1, <1>2, ClientSteps DEF OwnerInv

LEMMA SlotMoves ==
    ASSUME OnlyCancelled, OwnerInv, [Next]_vars
    PROVE  SlotMove
  <1>1. CASE \E t \in Callers : Command(t) \/ Step(t)
    BY <1>1, SlotMain, SlotClient DEF Callers
  <1>2. CASE \E t \in Threads : Shared(t)
    BY <1>2, SlotShared, SlotClient DEF Callers, Threads
  <1>3. CASE Shutdown
    <2>1. ShuttingDown /\ UNCHANGED order
      BY <1>3 DEF Shutdown, ShutdownCapture, ShutdownLock, ShutdownActive, ShutdownJoin,
                  ShuttingDown, ShutdownLabels, lockVars
    <2> QED
      BY <2>1 DEF SlotMove
  <1>4. CASE \/ MainFlush \/ ExpireLook \/ ExpireDestroy \/ Quit \/ AudioArrives \/ SessionWakes
             \/ Terminated \/ UNCHANGED vars
    BY <1>4 DEF MainFlush, ExpireLook, ExpireDestroy, Quit, AudioArrives, SessionWakes, Terminated,
                vars, lockVars, SlotMove
  <1> QED
    BY <1>1, <1>2, <1>3, <1>4, SlotWorker DEF Next

LEMMA UtteranceKept ==
    ASSUME OwnerInv, SlotMove, order.session # NoSession, order' # order
    PROVE  frame'["worker"].sess = order.session
  <1>1. order # NoOrder /\ order # MovedOrder
    BY DEF NoOrder, MovedOrder
  <1>2. ~NobodysUtterance
    BY <1>1, TellsUntilCleared DEF NobodysUtterance, PhaseTells
  <1>3. ~WorkerOwned
    BY <1>1, ZenonT(30) DEF WorkerOwned, OwnerInv, OwnerOK, OrderForm
  <1> QED
    BY <1>2, <1>3 DEF SlotMove, CancelRuled, WorkerTook

LEMMA VerdictKept ==
    ASSUME OwnerInv, SlotMove, ~ShuttingDown, machine'.post # machine.post,
           machine.post \in {"Discard", "CommitRaw"}
    PROVE  /\ machine.post = "Discard" => payload' \in {"empty", "none"}
           /\ machine.post = "CommitRaw" => payload' \in {"raw", "none"}
  <1>1. machine.phase = "Postprocessing"
    BY DEF OwnerInv, PostOnlyWhilePostprocessing
  <1>2. \A raw \in BOOLEAN : OnCancel(machine, raw).machine = machine
    BY <1>1 DEF OnCancel, CancellablePost, Reject
  <1>3. OnInferenceComplete(machine, TRUE).machine = machine
    BY <1>1 DEF OnInferenceComplete, Reject
  <1>4. WorkerOwned
    BY <1>1, <1>2 DEF SlotMove, NobodysUtterance, CancelRuled, WorkerTook
  <1> QED
    BY <1>3, <1>4, ZenonT(30) DEF WorkerOwned

(* However many clients cancel, an utterance that StopRecording() put into  *)
(* current_order_ leaves it only into WorkerMain's hands, also while the   *)
(* daemon shuts down.                                                      *)
THEOREM UtteranceTaken == ASSUME OnlyCancelled PROVE Spec => OrderOnlyTaken
  <1>1. Init => OwnerInv
    BY OwnerInit
  <1>2. OwnerInv /\ [Next]_vars => OwnerInv'
    BY OwnerNext
  <1>3. OwnerInv /\ [Next]_vars =>
          [order.session # NoSession /\ order' # order => frame'["worker"].sess = order.session]_vars
    BY SlotMoves, UtteranceKept
  <1> QED
    BY <1>1, <1>2, <1>3, PTL DEF Spec, OrderOnlyTaken

(* However many clients cancel, the cancel of the post-processing that     *)
(* OnCancel() accepted decides what the worker emits: a discarded          *)
(* utterance commits nothing, a raw commit commits the raw text.           *)
THEOREM VerdictDecides == ASSUME OnlyCancelled PROVE Spec => VerdictHonoured
  <1>1. Init => OwnerInv
    BY OwnerInit
  <1>2. OwnerInv /\ [Next]_vars => OwnerInv'
    BY OwnerNext
  <1>3. OwnerInv /\ [Next]_vars =>
          [~ShuttingDown /\ machine'.post # machine.post =>
             /\ machine.post = "Discard" => payload' \in {"empty", "none"}
             /\ machine.post = "CommitRaw" => payload' \in {"raw", "none"}]_vars
    BY SlotMoves, VerdictKept
  <1> QED
    BY <1>1, <1>2, <1>3, PTL DEF Spec, VerdictHonoured
=============================================================================
