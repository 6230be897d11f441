------------------------ MODULE DaemonRuntimeProofs ------------------------
(***************************************************************************)
(* What holds of DaemonRuntimeController for every number of clients,      *)
(* sessions and samples.                                                   *)
(***************************************************************************)
EXTENDS DaemonRuntime, TLAPS

(* The time, in seconds, a leaf that names no prover gives to each.        *)
USE SMTT(30), ZenonT(30)

-----------------------------------------------------------------------------
(* The transitions stay within Machine. *)

LEMMA TransitionTypes ==
    ASSUME NEW m \in Machine, NEW b \in BOOLEAN, NEW n \in Nat, NEW k \in Nat
    PROVE  /\ Clear \in Machine
           /\ OnStartRecording(m, b).machine \in Machine
           /\ OnStopRecording(m, n, k).machine \in Machine
           /\ OnCancel(m, b).machine \in Machine
           /\ OnAudioError(m).machine \in Machine
           /\ OnInferenceComplete(m, b).machine \in Machine
           /\ OnResetToIdle(m).machine \in Machine
           /\ AfterTake(m) \in Machine
    BY ZenonT(30) DEF Machine, Status, PostprocessingState, Clear, OnStartRecording,
         OnStopRecording, OnCancel,
           CancellablePost, OnAudioError, OnInferenceComplete, OnResetToIdle, AfterTake, Accept,
           Reject, AbortRecordingToIdle, CompleteToIdle

(* The types, one part for each group of variables. *)
LockOK ==
    /\ machine \in Machine /\ startInProgress \in BOOLEAN /\ pendingReload \in BOOLEAN
    /\ sessionIme \in BOOLEAN /\ order \in Order /\ workerRunning \in BOOLEAN
    /\ samples \in 0 .. MinSamples /\ buffered \in BOOLEAN
FlagOK ==
    /\ accepting \in BOOLEAN /\ pendingStop \in BOOLEAN /\ cancelRequested \in BOOLEAN
    /\ wake \in BOOLEAN
SessionOK == active \in MaybeSession /\ deferred \subseteq Sessions
DeviceOK ==
    /\ recording \in BOOLEAN /\ stream \in {"none", "live", "idle"} /\ queued \in 0 .. MinSamples
    /\ ducked \in BOOLEAN /\ status \in Status
WorkOK == nextPhase \in Status /\ payload \in {"none", "text", "empty", "llm", "raw"}
FieldsOK == LockOK /\ FlagOK /\ SessionOK /\ DeviceOK /\ WorkOK

HoldsSession == {"s_install", "h_push", "h_check", "h_retire", "x_lock", "x_cancel", "r_retire"}

(* What a thread holds at a label: a session wherever one is used, a chunk *)
(* wherever one is pushed.                                                 *)
Held(label, f) ==
    /\ label \in HoldsSession => f.sess \in Sessions
    /\ label \in {"h_push", "h_check"} => f.amount >= 1

ThreadsOK ==
    /\ pc \in [Threads -> Labels]
    /\ frame \in [Threads -> Frame]
    /\ \A t \in Threads : Held(pc[t], frame[t])

TypeInv == FieldsOK /\ ThreadsOK

LEMMA ThreadStep ==
    ASSUME ThreadsOK, NEW t \in Threads, NEW l \in Labels, NEW f \in Frame,
           Held(l, f), Goto(t, l), Locals(t, f)
    PROVE  ThreadsOK'
    BY DEF ThreadsOK, Held, Goto, Locals

LEMMA ThreadMoves ==
    ASSUME ThreadsOK, NEW t \in Threads, NEW l \in Labels,
           Held(l, frame[t]), Goto(t, l), UNCHANGED frame
    PROVE  ThreadsOK'
    BY DEF ThreadsOK, Held, Goto

(* The pieces the actions share. *)

LEMMA RecordTypes ==
    /\ EmptyFrame \in Frame
    /\ NoOrder \in Order
    /\ MovedOrder \in Order
    /\ \A s \in MaybeSession, ime \in BOOLEAN : Request(s, ime) \in Order
    BY DEF EmptyFrame, Frame, NoOrder, MovedOrder, Request, Order, MaybeSession

LEMMA RetireTypes ==
    ASSUME FieldsOK, NEW s \in MaybeSession, RetireIfAny(s)
    PROVE  deferred' \subseteq Sessions /\ wake' \in BOOLEAN
  <1>1. CASE s = NoSession
    BY <1>1 DEF RetireIfAny, FieldsOK, FlagOK, SessionOK
  <1>2. CASE s # NoSession
    BY <1>2 DEF RetireIfAny, Park, FieldsOK, SessionOK, MaybeSession
  <1> QED
    BY <1>1, <1>2

LEMMA SaturateTypes ==
    ASSUME NEW n \in Nat
    PROVE  Saturate(n) \in 0 .. MinSamples
    BY SizesAssumption DEF Saturate

LEMMA EmitTypes ==
    ASSUME FieldsOK, NEW st \in Status, NEW ime, Emit(st, ime)
    PROVE  status' \in Status
    BY DEF FieldsOK, DeviceOK, Emit

LEMMA StreamTypes ==
    ASSUME FieldsOK, ReleaseStream \/ StopStream
    PROVE  recording' \in BOOLEAN /\ stream' \in {"none", "live", "idle"}
  <1>1. recording' \in BOOLEAN
    BY ZenonT(30) DEF ReleaseStream, StopStream
  <1>2. stream' \in {"none", "live", "idle"}
    BY DEF ReleaseStream, StopStream, FieldsOK, DeviceOK
  <1> QED
    BY <1>1, <1>2

LEMMA Kept ==
    /\ LockOK /\ UNCHANGED lockVars => LockOK'
    /\ FlagOK /\ UNCHANGED flagVars => FlagOK'
    /\ SessionOK /\ UNCHANGED sessionVars => SessionOK'
    /\ DeviceOK /\ UNCHANGED deviceVars => DeviceOK'
    /\ WorkOK /\ UNCHANGED workVars => WorkOK'
  <1>1. LockOK /\ UNCHANGED lockVars => LockOK'
    BY DEF LockOK, lockVars
  <1>2. FlagOK /\ UNCHANGED flagVars => FlagOK'
    BY DEF FlagOK, flagVars
  <1>3. SessionOK /\ UNCHANGED sessionVars => SessionOK'
    BY DEF SessionOK, sessionVars
  <1>4. DeviceOK /\ UNCHANGED deviceVars => DeviceOK'
    BY DEF DeviceOK, deviceVars
  <1>5. WorkOK /\ UNCHANGED workVars => WorkOK'
    BY DEF WorkOK, workVars
  <1> QED
    BY <1>1, <1>2, <1>3, <1>4, <1>5

LEMMA TypesKept ==
    ASSUME TypeInv, UNCHANGED vars
    PROVE  TypeInv'
  BY Kept DEF TypeInv, FieldsOK, ThreadsOK, vars

LEMMA StartTypes ==
    ASSUME TypeInv, NEW t \in Callers
    PROVE  /\ \A ime \in BOOLEAN, c \in BOOLEAN : StartRecording(t, ime, c) => TypeInv'
           /\ StartLock(t) \/ BeginRecording(t) \/ StartDisarm(t) \/ CreateSession(t)
              \/ CreateSessionFails(t) \/ StartInstall(t) \/ StartDuck(t) \/ StartNotify(t)
              => TypeInv'
  <1> USE DEF TypeInv
  <1>1. t \in Threads /\ frame[t] \in Frame
    BY DEF Threads, ThreadsOK
  <1>2. ASSUME NEW ime \in BOOLEAN, NEW c \in BOOLEAN, StartRecording(t, ime, c)
        PROVE  TypeInv'
    <2>1. FieldsOK'
      BY <1>2, Kept DEF StartRecording, FieldsOK
    <2>2. [frame[t] EXCEPT !.ime = ime, !.command = c, !.ret = "s_lock"] \in Frame
      BY <1>1, ZenonT(30) DEF Frame
    <2>3. PICK l \in {"f_wake", "s_lock"} : Goto(t, l)
      BY <1>2 DEF StartRecording
    <2> QED
      BY <1>1, <1>2, <2>1, <2>2, <2>3, ThreadStep
         DEF StartRecording, Held, HoldsSession, Labels, StartLabels, FlushLabels, LookLabels
  <1>3. ASSUME StartLock(t)
        PROVE  TypeInv'
    <2>1. FieldsOK'
      <3>1. startInProgress' \in BOOLEAN /\ accepting' \in BOOLEAN /\ pendingStop' \in BOOLEAN
        BY <1>3, ZenonT(30) DEF StartLock, FieldsOK, LockOK, FlagOK
      <3>2. sessionIme' \in BOOLEAN
        BY <1>1, <1>3 DEF StartLock, FieldsOK, LockOK, Frame
      <3>3. samples' \in 0 .. MinSamples
        BY <1>3, SizesAssumption DEF StartLock, FieldsOK, LockOK
      <3> QED
        BY <1>3, <3>1, <3>2, <3>3, Kept DEF StartLock, FieldsOK, LockOK, FlagOK
    <2>2. CASE Busy
      <3>1. Goto(t, "idle") /\ Locals(t, EmptyFrame) /\ EmptyFrame \in Frame
        BY <1>3, <2>2 DEF StartLock, EmptyFrame, Frame, MaybeSession
      <3> QED
        BY <1>1, <2>1, <3>1, ThreadStep DEF Held, HoldsSession, Labels
    <2>3. CASE ~Busy
      <3>1. [frame[t] EXCEPT !.ret = "idle"] \in Frame
        BY <1>1 DEF Frame
      <3> QED
        BY <1>1, <1>3, <2>1, <2>3, <3>1, ThreadStep
           DEF StartLock, Held, HoldsSession, Labels, StartLabels
    <2> QED
      BY <2>2, <2>3
  <1>4. ASSUME BeginRecording(t)
        PROVE  TypeInv'
    <2>1. FieldsOK'
      <3>1. recording' \in BOOLEAN /\ stream' \in {"none", "live", "idle"}
        BY <1>4, ZenonT(30) DEF BeginRecording
      <3>2. queued' \in 0 .. MinSamples
        BY <1>4, SizesAssumption DEF BeginRecording
      <3> QED
        BY <1>4, <3>1, <3>2, Kept
           DEF BeginRecording, FieldsOK, DeviceOK
    <2>2. PICK l \in {"s_create", "s_disarm"} : Goto(t, l)
      BY <1>4 DEF BeginRecording
    <2> QED
      BY <1>1, <1>4, <2>1, <2>2, ThreadMoves
         DEF BeginRecording, Held, HoldsSession, Labels, StartLabels
  <1>5. ASSUME StartDisarm(t)
        PROVE  TypeInv'
    <2>1. FieldsOK'
      <3>1. startInProgress' \in BOOLEAN /\ accepting' \in BOOLEAN
        BY <1>5, ZenonT(30) DEF StartDisarm, Disarm
      <3>2. samples' \in 0 .. MinSamples
        BY <1>5, SizesAssumption DEF StartDisarm, Disarm
      <3> QED
        BY <1>5, <3>1, <3>2, Kept DEF StartDisarm, FieldsOK, LockOK, FlagOK
    <2>2. PICK l \in {"idle", "t_restore"} : Goto(t, l)
      BY <1>5 DEF StartDisarm
    <2>3. EmptyFrame \in Frame
      BY DEF EmptyFrame, Frame, MaybeSession
    <2> QED
      BY <1>1, <1>5, <2>1, <2>2, <2>3, ThreadStep
         DEF StartDisarm, Held, HoldsSession, Labels, TailLabels
  <1>6. ASSUME CreateSession(t)
        PROVE  TypeInv'
    <2>1. FieldsOK'
      BY <1>6, Kept DEF CreateSession, FieldsOK
    <2>2. PICK s \in Sessions : Locals(t, [frame[t] EXCEPT !.sess = s])
      BY <1>6 DEF CreateSession
    <2>3. [frame[t] EXCEPT !.sess = s] \in Frame
      BY <1>1 DEF Frame, MaybeSession
    <2>4. [frame[t] EXCEPT !.sess = s].sess \in Sessions
      BY <1>1 DEF Frame
    <2> QED
      BY <1>1, <1>6, <2>1, <2>2, <2>3, <2>4, ThreadStep, ZenonT(30)
         DEF CreateSession, Held, HoldsSession, Labels, StartLabels
  <1>7. ASSUME CreateSessionFails(t)
        PROVE  TypeInv'
    <2>1. FieldsOK'
      BY <1>7, StreamTypes, Kept
         DEF CreateSessionFails, FieldsOK, DeviceOK
    <2> QED
      BY <1>1, <1>7, <2>1, ThreadMoves
         DEF CreateSessionFails, Held, HoldsSession, Labels, StartLabels
  <1>8. ASSUME StartInstall(t)
        PROVE  TypeInv'
    <2> DEFINE f == [EmptyFrame EXCEPT !.sess = frame[t].sess]
    <2>1. EmptyFrame \in Frame /\ f \in Frame /\ frame[t].sess \in Sessions
      BY <1>1, <1>8, ZenonT(30)
         DEF StartInstall, EmptyFrame, Frame, MaybeSession, ThreadsOK, Held, HoldsSession
    <2>2. CASE ~startInProgress \/ machine.phase # "Idle"
      <3>1. FieldsOK'
        <4>1. startInProgress' \in BOOLEAN /\ accepting' \in BOOLEAN
          BY <1>8, <2>2, ZenonT(30) DEF StartInstall, Disarm
        <4>2. samples' \in 0 .. MinSamples
          BY <1>8, <2>2, SizesAssumption DEF StartInstall, Disarm
        <4> QED
          BY <1>8, <2>2, <4>1, <4>2, Kept DEF StartInstall, FieldsOK, LockOK, FlagOK, SessionOK
      <3> QED
        BY <1>1, <1>8, <2>1, <2>2, <3>1, ThreadStep
           DEF StartInstall, Held, HoldsSession, Labels, TailLabels
    <2>3. CASE ~(~startInProgress \/ machine.phase # "Idle")
      <3>1. frame[t].command \in BOOLEAN /\ MinSamples \in Nat
        BY <1>1, SizesAssumption DEF Frame
      <3>2. machine' \in Machine
        BY <1>8, <2>3, <3>1, TransitionTypes DEF StartInstall, FieldsOK, LockOK
      <3>3. order' \in Order
        BY <1>8, <2>3, RecordTypes DEF StartInstall
      <3>5. deferred' \subseteq Sessions /\ wake' \in BOOLEAN
        BY <1>8, <2>3, RetireTypes DEF StartInstall, FieldsOK, SessionOK
      <3>4. FieldsOK'
        BY <1>8, <2>1, <2>3, <3>2, <3>3, <3>5, Kept, ZenonT(30)
           DEF StartInstall, FieldsOK, LockOK, FlagOK, SessionOK, MaybeSession
      <3> QED
        BY <1>1, <1>8, <2>1, <2>3, <3>4, ThreadStep
           DEF StartInstall, Held, HoldsSession, Labels, StartLabels
    <2> QED
      BY <2>2, <2>3
  <1>9. ASSUME StartDuck(t) \/ StartNotify(t)
        PROVE  TypeInv'
    <2>1. FieldsOK'
      BY <1>9, SwitchesAssumption, Kept
         DEF StartDuck, StartNotify, Emit, FieldsOK, DeviceOK, Status
    <2>2. PICK l \in {"s_notify", "idle"} : Goto(t, l)
      BY <1>9 DEF StartDuck, StartNotify
    <2> QED
      BY <1>1, <1>9, <2>1, <2>2, ThreadMoves
         DEF StartDuck, StartNotify, Held, HoldsSession, Labels, StartLabels
  <1> QED
    BY <1>2, <1>3, <1>4, <1>5, <1>6, <1>7, <1>8, <1>9

(* The abort tail and FlushDeferredActions up to the audio. *)
LEMMA TailTypes ==
    ASSUME TypeInv, NEW t \in Callers,
           EndRecording(t) \/ ScheduleCaptureStop(t) \/ WakeMainThread(t)
    PROVE  TypeInv'
  <1> USE DEF TypeInv
  <1>1. t \in Threads /\ frame[t] \in Frame
    BY DEF Threads, ThreadsOK
  <1>2. CASE EndRecording(t)
    <2>1. FieldsOK'
      BY <1>2, StreamTypes, Kept DEF EndRecording, FieldsOK, DeviceOK
    <2> QED
      BY <1>1, <1>2, <2>1, ThreadMoves DEF EndRecording, Held, HoldsSession, Labels, TailLabels
  <1>3. CASE ScheduleCaptureStop(t)
    <2>1. FieldsOK'
      BY <1>3, Kept DEF ScheduleCaptureStop, FieldsOK, FlagOK
    <2> QED
      BY <1>1, <1>3, <2>1, ThreadMoves
         DEF ScheduleCaptureStop, Held, HoldsSession, Labels, TailLabels
  <1>4. CASE WakeMainThread(t)
    <2> DEFINE f == IF pc[t] = "t_wake"
                      THEN [frame[t] EXCEPT !.sess = NoSession, !.after = "idle"] ELSE frame[t]
    <2>1. FieldsOK'
      BY <1>4, Kept DEF WakeMainThread, FieldsOK, FlagOK
    <2>2. f \in Frame
      BY <1>1, ZenonT(30) DEF Frame, MaybeSession
    <2>3. PICK l \in {"idle", "f_dequeue", "f_exchange", "x_notify", "m_apply", "s_lock", "w_loop"} :
             Goto(t, l)
      BY <1>1, <1>4 DEF WakeMainThread, Closing, Frame
    <2> QED
      BY <1>1, <1>4, <2>1, <2>2, <2>3, ThreadStep
         DEF WakeMainThread, Held, HoldsSession, Labels, LookLabels, FlushLabels, FailLabels,
             ResetLabels, StartLabels, WorkerLabels
  <1> QED
    BY <1>2, <1>3, <1>4

LEMMA FlushTypes ==
    ASSUME TypeInv, NEW t \in Callers,
           \/ FlushWake(t) \/ FlushReapedSessions(t) \/ TryDequeue(t)
           \/ PollActiveSession(t) \/ FlushExchange(t) \/ FlushLook(t) \/ FlushStop(t)
    PROVE  TypeInv'
  <1> USE DEF TypeInv
  <1>1. t \in Threads /\ frame[t] \in Frame
    BY DEF Threads, ThreadsOK
  <1>2. CASE FlushWake(t)
    <2>1. FieldsOK'
      BY <1>2, Kept, ZenonT(30) DEF FlushWake, FieldsOK, FlagOK
    <2> QED
      BY <1>1, <1>2, <2>1, ThreadMoves
         DEF FlushWake, Held, HoldsSession, Labels, FlushLabels, LookLabels
  <1>3. CASE FlushReapedSessions(t)
    <2>1. FieldsOK'
      BY <1>3, Kept DEF FlushReapedSessions, FieldsOK, SessionOK
    <2>2. PICK l \in {"f_dequeue", "f_poll"} : Goto(t, l)
      BY <1>3 DEF FlushReapedSessions
    <2> QED
      BY <1>1, <1>3, <2>1, <2>2, ThreadMoves
         DEF FlushReapedSessions, Held, HoldsSession, Labels, FlushLabels, LookLabels
  <1>4. CASE TryDequeue(t)
    <2>1. queued' \in 0 .. MinSamples
      <3>1. queued' = queued \/ \E n \in 1 .. queued : queued' = queued - n
        BY <1>4, ZenonT(30) DEF TryDequeue
      <3> QED
        BY <3>1, SizesAssumption DEF FieldsOK, DeviceOK
    <2>2. FieldsOK'
      BY <1>4, <2>1, Kept DEF TryDequeue, FieldsOK, DeviceOK
    <2>3. CASE Goto(t, "f_poll") /\ UNCHANGED frame
      BY <1>1, <2>2, <2>3, ThreadMoves DEF Held, HoldsSession, Labels, FlushLabels, LookLabels
    <2>4. CASE \E n \in 1 .. queued :
                 Locals(t, [frame[t] EXCEPT !.amount = n]) /\ Goto(t, "h_enter")
      <3>1. PICK n \in Nat : Locals(t, [frame[t] EXCEPT !.amount = n]) /\ Goto(t, "h_enter")
        BY <2>4, SizesAssumption DEF FieldsOK, DeviceOK
      <3>2. [frame[t] EXCEPT !.amount = n] \in Frame
        BY <1>1 DEF Frame
      <3> QED
        BY <1>1, <2>2, <3>1, <3>2, ThreadStep DEF Held, HoldsSession, Labels, HandleLabels
    <2> QED
      BY <1>4, <2>3, <2>4 DEF TryDequeue
  <1>5. CASE PollActiveSession(t)
    <2>1. FieldsOK'
      BY <1>5, Kept DEF PollActiveSession, FieldsOK
    <2>2. CASE Goto(t, "f_exchange") /\ UNCHANGED frame
      BY <1>1, <2>1, <2>2, ThreadMoves DEF Held, HoldsSession, Labels, FlushLabels, LookLabels
    <2>3. CASE ~(Goto(t, "f_exchange") /\ UNCHANGED frame)
      <3> DEFINE f == [frame[t] EXCEPT !.sess = active, !.after = "f_exchange"]
      <3>1. Goto(t, "x_lock") /\ Locals(t, f) /\ active \in Sessions
        BY <1>5, <2>3 DEF PollActiveSession, FieldsOK, SessionOK, MaybeSession
      <3>2. f \in Frame /\ f.sess = active
        BY <1>1, <3>1, ZenonT(30) DEF Frame, MaybeSession
      <3> QED
        BY <1>1, <2>1, <3>1, <3>2, ThreadStep, ZenonT(30) DEF Held, HoldsSession, Labels, FailLabels
    <2> QED
      BY <2>2, <2>3
  <1>6. CASE FlushExchange(t)
    <2>1. FieldsOK'
      BY <1>6, Kept, ZenonT(30) DEF FlushExchange, FieldsOK, FlagOK
    <2>2. PICK l \in {"f_look", "idle", "s_lock", "w_loop"} : Goto(t, l)
      BY <1>1, <1>6 DEF FlushExchange, Frame
    <2> QED
      BY <1>1, <1>6, <2>1, <2>2, ThreadMoves
         DEF FlushExchange, Held, HoldsSession, Labels, FlushLabels, StartLabels, WorkerLabels
  <1>7. CASE FlushLook(t)
    <2>1. FieldsOK'
      BY <1>7, Kept DEF FlushLook, FieldsOK
    <2>2. PICK l \in {"f_skip", "f_stop"} : Goto(t, l)
      BY <1>7 DEF FlushLook
    <2> QED
      BY <1>1, <1>7, <2>1, <2>2, ThreadMoves
         DEF FlushLook, Held, HoldsSession, Labels, FlushLabels
  <1>8. CASE FlushStop(t)
    <2>1. recording' \in BOOLEAN /\ stream' \in {"none", "live", "idle"}
      BY <1>8, ZenonT(30) DEF FlushStop, FieldsOK, DeviceOK
    <2>2. queued' \in 0 .. MinSamples
      BY <1>8, SizesAssumption DEF FlushStop, FieldsOK, DeviceOK
    <2>3. FieldsOK'
      BY <1>8, <2>1, <2>2, Kept DEF FlushStop, FieldsOK, DeviceOK
    <2> QED
      BY <1>1, <1>8, <2>3, ThreadMoves DEF FlushStop, Held, HoldsSession, Labels, FlushLabels
  <1> QED
    BY <1>2, <1>3, <1>4, <1>5, <1>6, <1>7, <1>8

(* HandleIncomingAudio and FailActiveSession. *)
LEMMA HandleTypes ==
    ASSUME TypeInv, NEW t \in Callers,
           \/ HandleEnter(t) \/ HandleStartup(t) \/ HandleAppend(t)
           \/ PushAudio(t) \/ HandleCheck(t) \/ HandleRetire(t)
    PROVE  TypeInv'
  <1> USE DEF TypeInv
  <1>1. t \in Threads /\ frame[t] \in Frame
    BY DEF Threads, ThreadsOK
  <1>a. frame[t].amount \in Nat /\ samples \in Nat
    BY <1>1, SizesAssumption DEF Frame, FieldsOK, LockOK
  <1>2. CASE HandleEnter(t)
    <2> DEFINE f == [frame[t] EXCEPT !.amount = IF accepting THEN @ ELSE 0]
    <2>1. FieldsOK'
      BY <1>2, Kept DEF HandleEnter, FieldsOK
    <2>2. f \in Frame
      BY <1>1 DEF Frame
    <2>3. PICK l \in {"h_startup", "f_dequeue"} : Goto(t, l)
      BY <1>2 DEF HandleEnter
    <2> QED
      BY <1>1, <1>2, <2>1, <2>2, <2>3, ThreadStep
         DEF HandleEnter, Held, HoldsSession, Labels, FlushLabels, LookLabels, HandleLabels
  <1>3. CASE HandleStartup(t)
    <2>1. samples' \in 0 .. MinSamples
      BY <1>3, <1>a, SaturateTypes DEF HandleStartup, FieldsOK, LockOK
    <2>2. FieldsOK'
      BY <1>3, <2>1, Kept DEF HandleStartup, FieldsOK, LockOK
    <2>3. [frame[t] EXCEPT !.amount = 0] \in Frame
      BY <1>1 DEF Frame
    <2>4. CASE Goto(t, "f_dequeue") /\ Locals(t, [frame[t] EXCEPT !.amount = 0])
      BY <1>1, <2>2, <2>3, <2>4, ThreadStep DEF Held, HoldsSession, Labels, FlushLabels, LookLabels
    <2>5. CASE Goto(t, "h_append") /\ UNCHANGED frame
      BY <1>1, <2>2, <2>5, ThreadMoves DEF Held, HoldsSession, Labels, HandleLabels
    <2> QED
      BY <1>3, <2>4, <2>5 DEF HandleStartup
  <1>4. CASE HandleAppend(t)
    <2>1. samples' \in 0 .. MinSamples
      <3>1. samples' = samples \/ samples' = Saturate(samples + frame[t].amount)
        BY <1>4, ZenonT(30) DEF HandleAppend
      <3> QED
        BY <1>a, <3>1, SaturateTypes DEF FieldsOK, LockOK
    <2>2. FieldsOK'
      BY <1>4, <2>1, Kept, ZenonT(30) DEF HandleAppend, FieldsOK, LockOK
    <2>3. CASE active = NoSession
      <3>1. [frame[t] EXCEPT !.amount = 0] \in Frame
        BY <1>1 DEF Frame
      <3> QED
        BY <1>1, <1>4, <2>2, <2>3, <3>1, ThreadStep
           DEF HandleAppend, Held, HoldsSession, Labels, FlushLabels, LookLabels
    <2>4. CASE active # NoSession
      <3>1. PICK n \in 0 .. ChunksPerRead :
               /\ Locals(t, [frame[t] EXCEPT !.amount = n,
                                             !.sess = IF n = 0 THEN NoSession ELSE active])
               /\ Goto(t, IF n = 0 THEN "f_dequeue" ELSE "h_push")
        BY <1>4, <2>4, ZenonT(30) DEF HandleAppend
      <3>2. active \in Sessions
        BY <2>4 DEF FieldsOK, SessionOK, MaybeSession
      <3>3. n \in Nat /\ (n # 0 => n >= 1)
        BY SizesAssumption
      <3>4. CASE n = 0
        <4>1. [frame[t] EXCEPT !.amount = 0, !.sess = NoSession] \in Frame
          BY <1>1, ZenonT(30) DEF Frame, MaybeSession
        <4> QED
          BY <1>1, <2>2, <3>1, <3>4, <4>1, ThreadStep
             DEF Held, HoldsSession, Labels, FlushLabels, LookLabels
      <3>5. CASE n # 0
        <4> DEFINE f == [frame[t] EXCEPT !.amount = n, !.sess = active]
        <4>1. f \in Frame /\ f.amount = n /\ f.sess = active
          BY <1>1, <3>2, <3>3, ZenonT(30) DEF Frame, MaybeSession
        <4>2. Locals(t, f) /\ Goto(t, "h_push")
          BY <3>1, <3>5
        <4>3. Held("h_push", f)
          BY <3>2, <3>3, <3>5, <4>1 DEF Held
        <4> QED
          BY <1>1, <2>2, <4>1, <4>2, <4>3, ThreadStep DEF Labels, HandleLabels
      <3> QED
        BY <3>4, <3>5
    <2> QED
      BY <2>3, <2>4
  <1>5. CASE PushAudio(t)
    <2> DEFINE f == [frame[t] EXCEPT !.after = "f_dequeue", !.amount = 0]
    <2>1. FieldsOK'
      BY <1>5, Kept DEF PushAudio, FieldsOK
    <2>2. frame[t].sess \in Sessions /\ frame[t].amount >= 1
      BY <1>1, <1>5 DEF PushAudio, ThreadsOK, Held, HoldsSession
    <2>3. f \in Frame /\ f.sess = frame[t].sess
      BY <1>1, ZenonT(30) DEF Frame
    <2>4. CASE Goto(t, "h_check") /\ UNCHANGED frame
      BY <1>1, <2>1, <2>2, <2>4, ThreadMoves DEF Held, HoldsSession, Labels, HandleLabels
    <2>5. CASE Goto(t, "x_lock") /\ Locals(t, f)
      BY <1>1, <2>1, <2>2, <2>3, <2>5, ThreadStep, ZenonT(30)
         DEF Held, HoldsSession, Labels, FailLabels
    <2> QED
      BY <1>5, <2>4, <2>5 DEF PushAudio
  <1>6. CASE HandleCheck(t)
    <2> DEFINE f == [frame[t] EXCEPT !.amount = @ - 1,
                                     !.sess = IF frame[t].amount = 1 THEN NoSession ELSE @]
    <2>1. FieldsOK'
      BY <1>6, Kept DEF HandleCheck, FieldsOK
    <2>2. frame[t].sess \in Sessions /\ frame[t].amount >= 1
      BY <1>1, <1>6 DEF HandleCheck, ThreadsOK, Held, HoldsSession
    <2>a. frame[t].amount - 1 \in Nat
      BY <1>a, <2>2
    <2>b. f \in Frame
      BY <1>1, <2>a, ZenonT(30) DEF Frame, MaybeSession
    <2>3. f \in Frame /\ f.amount = frame[t].amount - 1
          /\ (frame[t].amount # 1 => f.sess = frame[t].sess)
      BY <1>1, <2>b DEF Frame
    <2>4. CASE Goto(t, "h_retire") /\ UNCHANGED frame
      BY <1>1, <2>1, <2>2, <2>4, ThreadMoves DEF Held, HoldsSession, Labels, HandleLabels
    <2>5. CASE Goto(t, "f_dequeue") /\ Locals(t, f)
      BY <1>1, <2>1, <2>3, <2>5, ThreadStep DEF Held, HoldsSession, Labels, FlushLabels, LookLabels
    <2>6. CASE Goto(t, "h_push") /\ Locals(t, f) /\ frame[t].amount # 1
      <3>1. f.amount >= 1
        BY <1>a, <2>2, <2>3, <2>6
      <3> QED
        BY <1>1, <2>1, <2>2, <2>3, <2>6, <3>1, ThreadStep, ZenonT(30) DEF Held, HoldsSession,
             Labels, HandleLabels
    <2> QED
      BY <1>6, <2>4, <2>5, <2>6 DEF HandleCheck
  <1>7. CASE HandleRetire(t)
    <2>1. frame[t].sess \in Sessions
      BY <1>1, <1>7 DEF HandleRetire, ThreadsOK, Held, HoldsSession
    <2>2. FieldsOK'
      BY <1>7, <2>1, Kept DEF HandleRetire, Park, FieldsOK, SessionOK
    <2>3. [frame[t] EXCEPT !.sess = NoSession, !.amount = 0] \in Frame
      BY <1>1, ZenonT(30) DEF Frame, MaybeSession
    <2> QED
      BY <1>1, <1>7, <2>2, <2>3, ThreadStep DEF HandleRetire, Held, HoldsSession, Labels, HandleLabels
  <1> QED
    BY <1>2, <1>3, <1>4, <1>5, <1>6, <1>7

LEMMA FailTypes ==
    ASSUME TypeInv, NEW t \in Callers, FailActiveSession(t) \/ FailCancel(t) \/ FailNotify(t)
    PROVE  TypeInv'
  <1> USE DEF TypeInv
  <1>1. t \in Threads /\ frame[t] \in Frame
    BY DEF Threads, ThreadsOK
  <1>2. CASE FailActiveSession(t)
    <2>1. frame[t].sess \in Sessions
      BY <1>1, <1>2 DEF FailActiveSession, ThreadsOK, Held, HoldsSession
    <2>2. CASE active # frame[t].sess
      <3>1. FieldsOK'
        BY <1>2, <2>2, Kept DEF FailActiveSession, FieldsOK, LockOK, FlagOK, SessionOK
      <3>2. PICK l \in {"idle", "f_dequeue", "f_exchange"} : Goto(t, l)
        BY <1>1, <1>2, <2>2 DEF FailActiveSession, Frame
      <3>3. [frame[t] EXCEPT !.sess = NoSession, !.after = "idle"] \in Frame
        BY <1>1, ZenonT(30) DEF Frame, MaybeSession
      <3> QED
        BY <1>1, <1>2, <2>2, <3>1, <3>2, <3>3, ThreadStep
           DEF FailActiveSession, Held, HoldsSession, Labels, FlushLabels, LookLabels
    <2>3. CASE active = frame[t].sess
      <3>1. machine' \in Machine
        BY <1>2, <2>3, TransitionTypes DEF FailActiveSession, FieldsOK, LockOK
      <3>2. samples' \in 0 .. MinSamples
        BY <1>2, <2>3, SizesAssumption DEF FailActiveSession, ResetRecordingState
      <3>4. buffered' \in BOOLEAN
        BY <1>2, <2>3, ZenonT(30) DEF FailActiveSession, ResetRecordingState
      <3>3. FieldsOK'
        BY <1>2, <2>3, <3>1, <3>2, <3>4, Kept, ZenonT(30)
           DEF FailActiveSession, DetachActive, FieldsOK, LockOK, FlagOK, SessionOK, MaybeSession
      <3> QED
        BY <1>1, <1>2, <2>1, <2>3, <3>3, ThreadMoves
           DEF FailActiveSession, Held, HoldsSession, Labels, FailLabels
    <2> QED
      BY <2>2, <2>3
  <1>3. CASE FailCancel(t)
    <2>1. frame[t].sess \in Sessions
      BY <1>1, <1>3 DEF FailCancel, ThreadsOK, Held, HoldsSession
    <2>2. FieldsOK'
      BY <1>3, <2>1, Kept DEF FailCancel, Park, FieldsOK, SessionOK
    <2> QED
      BY <1>1, <1>3, <2>2, ThreadMoves DEF FailCancel, Held, HoldsSession, Labels, FailLabels
  <1>4. CASE FailNotify(t)
    <2>1. status' \in Status
      BY <1>4, EmitTypes DEF FailNotify, Status
    <2>2. FieldsOK'
      BY <1>4, <2>1, Kept DEF FailNotify, FieldsOK, DeviceOK
    <2> QED
      BY <1>1, <1>4, <2>2, ThreadMoves DEF FailNotify, Held, HoldsSession, Labels, TailLabels
  <1> QED
    BY <1>2, <1>3, <1>4

(* RestoreOutputIfDucked, ResetToIdle and MaybeApplyPendingAsrBackendReload. *)
LEMMA SharedTypes ==
    ASSUME TypeInv, NEW t \in Threads, Shared(t)
    PROVE  TypeInv'
  <1> USE DEF TypeInv
  <1>1. frame[t] \in Frame
    BY DEF ThreadsOK
  <1>2. CASE RestoreOutput(t)
    <2>1. FieldsOK'
      BY <1>2, Kept, ZenonT(30) DEF RestoreOutput, FieldsOK, DeviceOK
    <2>2. \/ \E l \in {"t_schedule", "m_apply", "p_lock", "z_lock", "z_emit", "q_lock", "idle",
                       "s_lock", "w_loop"} : Goto(t, l)
          \/ Goto(t, "r_retire") /\ frame[t].sess # NoSession
      BY <1>1, <1>2 DEF RestoreOutput, Closing, Frame
    <2>3. CASE Goto(t, "r_retire") /\ frame[t].sess # NoSession
      BY <1>1, <1>2, <2>1, <2>3, ThreadMoves
         DEF RestoreOutput, Held, HoldsSession, Frame, MaybeSession, Labels, CloseLabels
    <2>4. ASSUME NEW l \in {"t_schedule", "m_apply", "p_lock", "z_lock", "z_emit", "q_lock", "idle",
                            "s_lock", "w_loop"}, Goto(t, l)
          PROVE  TypeInv'
      <3>1. l \in Labels /\ Held(l, frame[t])
        BY DEF Held, HoldsSession, Labels, TailLabels, ResetLabels, CloseLabels, ShutdownLabels,
               StartLabels, WorkerLabels
      <3> QED
        BY <1>2, <2>1, <2>4, <3>1, ThreadMoves DEF RestoreOutput
    <2> QED
      BY <2>2, <2>3, <2>4
  <1>3. CASE ResetLock(t)
    <2>1. machine' \in Machine
      BY <1>3, TransitionTypes, SizesAssumption DEF ResetLock, FieldsOK, LockOK
    <2>2. samples' \in 0 .. MinSamples
      BY <1>3, SizesAssumption DEF ResetLock, ResetRecordingState
    <2>3. order' \in Order
      BY <1>3, RecordTypes DEF ResetLock
    <2>4. startInProgress' \in BOOLEAN /\ sessionIme' \in BOOLEAN /\ buffered' \in BOOLEAN
      BY <1>3, ZenonT(30) DEF ResetLock, ResetRecordingState
    <2>5. LockOK' /\ SessionOK' /\ DeviceOK' /\ WorkOK'
      BY <1>3, <2>1, <2>2, <2>3, <2>4, Kept DEF ResetLock, FieldsOK, LockOK
    <2>6. FlagOK'
      BY <1>3, ZenonT(30) DEF ResetLock, FieldsOK, FlagOK
    <2>7. [frame[t] EXCEPT !.wasIme = sessionIme] \in Frame
      BY <1>1 DEF Frame, FieldsOK, LockOK
    <2> QED
      BY <1>3, <2>5, <2>6, <2>7, ThreadStep
         DEF ResetLock, FieldsOK, Held, HoldsSession, Labels, ResetLabels
  <1>4. CASE ResetEmit(t)
    <2>1. status' \in Status
      BY <1>4, EmitTypes DEF ResetEmit, Status
    <2>2. FieldsOK'
      BY <1>4, <2>1, Kept DEF ResetEmit, FieldsOK, DeviceOK
    <2>3. [frame[t] EXCEPT !.wasIme = TRUE] \in Frame
      BY <1>1, ZenonT(30) DEF Frame
    <2> QED
      BY <1>4, <2>2, <2>3, ThreadStep DEF ResetEmit, Held, HoldsSession, Labels, ResetLabels
  <1>5. CASE MaybeApplyPendingReload(t)
    <2>1. pendingReload' \in BOOLEAN
      BY <1>5 DEF MaybeApplyPendingReload
    <2>2. FieldsOK'
      BY <1>5, <2>1, Kept DEF MaybeApplyPendingReload, FieldsOK, LockOK
    <2>3. [frame[t] EXCEPT !.apply = FALSE, !.sess = NoSession] \in Frame
      BY <1>1, ZenonT(30) DEF Frame, MaybeSession
    <2>4. PICK l \in {"idle", "s_lock", "w_loop"} : Goto(t, l)
      BY <1>1, <1>5 DEF MaybeApplyPendingReload, Frame
    <2> QED
      BY <1>5, <2>2, <2>3, <2>4, ThreadStep
         DEF MaybeApplyPendingReload, Held, HoldsSession, Labels, StartLabels, WorkerLabels
  <1> QED
    BY <1>2, <1>3, <1>4, <1>5 DEF Shared

(* CancelOperation. *)
LEMMA CancelTypes ==
    ASSUME TypeInv, NEW t \in Callers
    PROVE  /\ \A ime \in BOOLEAN, raw \in BOOLEAN : CancelOperation(t, ime, raw) => TypeInv'
           /\ CancelStop(t) \/ RetireDetached(t) => TypeInv'
  <1> USE DEF TypeInv
  <1>1. t \in Threads /\ frame[t] \in Frame
    BY DEF Threads, ThreadsOK
  <1>2. ASSUME NEW ime \in BOOLEAN, NEW raw \in BOOLEAN, CancelOperation(t, ime, raw)
        PROVE  TypeInv'
    <2> DEFINE res == OnCancel(machine, raw)
               abort == res.effect = "stop_capture"
               f == [frame[t] EXCEPT !.sess = active, !.apply = pendingReload]
    <2>1. machine' \in Machine
      BY <1>2, TransitionTypes, SizesAssumption DEF CancelOperation, FieldsOK, LockOK
    <2>2. samples' \in 0 .. MinSamples
      BY <1>2, SizesAssumption DEF CancelOperation, FieldsOK, LockOK
    <2>3. order' \in Order
      BY <1>2, RecordTypes DEF CancelOperation, FieldsOK, LockOK
    <2>4. startInProgress' \in BOOLEAN /\ sessionIme' \in BOOLEAN /\ buffered' \in BOOLEAN
      BY <1>2, ZenonT(30) DEF CancelOperation, FieldsOK, LockOK
    <2>5. LockOK'
      BY <1>2, <2>1, <2>2, <2>3, <2>4 DEF CancelOperation, FieldsOK, LockOK
    <2>6. FlagOK'
      BY <1>2 DEF CancelOperation, FieldsOK, FlagOK
    <2>7. SessionOK'
      BY <1>2 DEF CancelOperation, DetachActive, FieldsOK, SessionOK, MaybeSession
    <2>8. DeviceOK'
      <3>1. status' \in Status
        BY <1>2, EmitTypes DEF CancelOperation, FieldsOK, DeviceOK, Status
      <3> QED
        BY <1>2, <3>1 DEF CancelOperation, FieldsOK, DeviceOK
    <2>9. FieldsOK'
      BY <1>2, <2>5, <2>6, <2>7, <2>8, Kept DEF CancelOperation, FieldsOK
    <2>10. PICK l \in {"c_stop", "idle"} : Goto(t, l)
      BY <1>2 DEF CancelOperation
    <2>11. f \in Frame
      BY <1>1, ZenonT(30) DEF Frame, FieldsOK, LockOK, SessionOK
    <2>12. l \in Labels /\ \A g \in Frame : Held(l, g)
      BY <2>10 DEF Held, HoldsSession, Labels, CloseLabels
    <2>13. Locals(t, f) \/ UNCHANGED frame
      BY <1>2 DEF CancelOperation
    <2> QED
      BY <1>1, <2>9, <2>10, <2>11, <2>12, <2>13, ThreadStep, ThreadMoves
  <1>3. ASSUME CancelStop(t)
        PROVE  TypeInv'
    <2>1. queued' \in 0 .. MinSamples
      BY <1>3, SizesAssumption DEF CancelStop
    <2>2. FieldsOK'
      BY <1>3, <2>1, StreamTypes, Kept DEF CancelStop, FieldsOK, DeviceOK
    <2> QED
      BY <1>1, <1>3, <2>2, ThreadMoves DEF CancelStop, Held, HoldsSession, Labels, CloseLabels
  <1>4. ASSUME RetireDetached(t)
        PROVE  TypeInv'
    <2>1. frame[t].sess \in Sessions
      BY <1>1, <1>4 DEF RetireDetached, ThreadsOK, Held, HoldsSession
    <2>2. FieldsOK'
      BY <1>4, <2>1, Kept DEF RetireDetached, Park, FieldsOK, SessionOK
    <2>3. [frame[t] EXCEPT !.sess = NoSession] \in Frame
      BY <1>1 DEF Frame, MaybeSession
    <2> QED
      BY <1>1, <1>4, <2>2, <2>3, ThreadStep
         DEF RetireDetached, Held, HoldsSession, Labels, CloseLabels
  <1> QED
    BY <1>2, <1>3, <1>4

(* StopRecording, ReloadAsrBackend and InjectText. *)
LEMMA StopTypes ==
    ASSUME TypeInv, NEW t \in Callers
    PROVE  /\ \A ime \in BOOLEAN : StopRecording(t, ime) \/ InjectText(t, ime) => TypeInv'
           /\ StopCapture(t) \/ StopLock(t) \/ ReloadAsrBackend(t) => TypeInv'
  <1> USE DEF TypeInv
  <1>1. t \in Threads /\ frame[t] \in Frame
    BY DEF Threads, ThreadsOK
  <1>2. ASSUME NEW ime \in BOOLEAN, StopRecording(t, ime)
        PROVE  TypeInv'
    <2>1. LockOK' /\ FlagOK'
      BY <1>2, ZenonT(30) DEF StopRecording, FieldsOK, LockOK, FlagOK
    <2>2. FieldsOK'
      BY <1>2, <2>1, Kept DEF StopRecording, FieldsOK
    <2> QED
      BY <1>1, <1>2, <2>2, ThreadMoves DEF StopRecording, Held, HoldsSession, Labels, CloseLabels
  <1>3. ASSUME NEW ime \in BOOLEAN, InjectText(t, ime)
        PROVE  TypeInv'
    <2>1. order' \in Order
      BY <1>3, RecordTypes DEF InjectText, MaybeSession
    <2>2. FieldsOK'
      BY <1>3, <2>1, Kept DEF InjectText, FieldsOK, LockOK
    <2> QED
      BY <1>3, <2>2 DEF InjectText, ThreadsOK
  <1>4. ASSUME ReloadAsrBackend(t)
        PROVE  TypeInv'
    <2>1. pendingReload' \in BOOLEAN
      BY <1>4 DEF ReloadAsrBackend
    <2>2. FieldsOK'
      BY <1>4, <2>1, Kept DEF ReloadAsrBackend, FieldsOK, LockOK
    <2> QED
      BY <1>4, <2>2 DEF ReloadAsrBackend, ThreadsOK
  <1>5. ASSUME StopCapture(t)
        PROVE  TypeInv'
    <2>1. queued' \in 0 .. MinSamples /\ queued \in Nat
      BY <1>5, SizesAssumption DEF StopCapture, FieldsOK, DeviceOK
    <2>2. FieldsOK'
      BY <1>5, <2>1, StreamTypes, Kept DEF StopCapture, FieldsOK, DeviceOK
    <2>3. [frame[t] EXCEPT !.amount = queued] \in Frame
      BY <1>1, <2>1 DEF Frame
    <2> QED
      BY <1>1, <1>5, <2>2, <2>3, ThreadStep DEF StopCapture, Held, HoldsSession, Labels, CloseLabels
  <1>6. ASSUME StopLock(t)
        PROVE  TypeInv'
    <2> DEFINE total == Saturate(samples + frame[t].amount)
               res == OnStopRecording(machine, total, MinSamples)
               f == [frame[t] EXCEPT !.amount = 0]
               g == [frame[t] EXCEPT !.amount = 0, !.sess = active, !.apply = TRUE]
    <2>1. samples + frame[t].amount \in Nat
      BY <1>1, SizesAssumption DEF Frame, FieldsOK, LockOK
    <2>2. total \in 0 .. MinSamples /\ total \in Nat /\ 0 \in 0 .. MinSamples
      BY <2>1, SaturateTypes, SizesAssumption
    <2>3. res.machine \in Machine /\ OnResetToIdle(machine).machine \in Machine
      BY <2>2, TransitionTypes, SizesAssumption DEF FieldsOK, LockOK
    <2>4. res.machine.phase \in Status /\ "Idle" \in Status
      BY <2>3 DEF Machine, Status
    <2>5. f \in Frame /\ g \in Frame /\ g.sess = active
      BY <1>1, ZenonT(30) DEF Frame, FieldsOK, SessionOK
    <2>6. SessionOK'
      BY <1>6 DEF StopLock, DetachActive, FieldsOK, SessionOK, MaybeSession
    <2>7. status' \in Status
      BY <1>6, <2>4, EmitTypes DEF StopLock
    <2>8. FlagOK' /\ DeviceOK' /\ WorkOK'
      BY <1>6, <2>7, Kept DEF StopLock, FieldsOK, DeviceOK
    <2>9. machine' \in Machine
      BY <1>6, <2>3 DEF StopLock
    <2>10. samples' \in 0 .. MinSamples
      BY <1>6, <2>2 DEF StopLock, FieldsOK, LockOK
    <2>11. order' \in Order
      BY <1>6, RecordTypes DEF StopLock, FieldsOK, LockOK, SessionOK
    <2>12. buffered' \in BOOLEAN
      BY <1>6, ZenonT(30) DEF StopLock, FieldsOK, LockOK
    <2>13. FieldsOK'
      BY <1>6, <2>6, <2>8, <2>9, <2>10, <2>11, <2>12 DEF StopLock, FieldsOK, LockOK
    <2>14. \/ Goto(t, "m_apply") /\ Locals(t, f)
           \/ Goto(t, "idle") /\ Locals(t, f)
           \/ Goto(t, "r_retire") /\ Locals(t, g) /\ active # NoSession
      BY <1>6 DEF StopLock
    <2>15. /\ "m_apply" \in Labels /\ "idle" \in Labels /\ "r_retire" \in Labels
           /\ Held("m_apply", f) /\ Held("idle", f) /\ (active # NoSession => Held("r_retire", g))
      BY <2>5 DEF Held, HoldsSession, Labels, CloseLabels, ResetLabels, FieldsOK, SessionOK, MaybeSession
    <2> QED
      BY <1>1, <2>5, <2>13, <2>14, <2>15, ThreadStep
  <1> QED
    BY <1>2, <1>3, <1>4, <1>5, <1>6

(* WorkerMain. *)
LEMMA WorkerTypes ==
    ASSUME TypeInv, Worker
    PROVE  TypeInv'
  <1> USE DEF TypeInv
  <1> DEFINE w == "worker"
  <1>1. w \in Threads /\ frame[w] \in Frame
    BY DEF Threads, ThreadsOK
  <1>2. CASE WorkerLoop
    <2>1. FieldsOK'
      BY <1>2, Kept DEF WorkerLoop, FieldsOK
    <2>2. PICK l \in {"w_wait", "done"} : Goto(w, l)
      BY <1>2 DEF WorkerLoop
    <2> QED
      BY <1>1, <1>2, <2>1, <2>2, ThreadMoves DEF WorkerLoop, Held, HoldsSession, Labels, WorkerLabels
  <1>3. CASE WorkerWait
    <2> DEFINE f == [frame[w] EXCEPT !.sess = order.session, !.ime = order.ime]
    <2>1. order' \in Order
      BY <1>3, RecordTypes DEF WorkerWait, FieldsOK, LockOK
    <2>2. payload' \in {"none", "text", "empty", "llm", "raw"}
      BY <1>3 DEF WorkerWait, FieldsOK, WorkOK
    <2>3. FieldsOK'
      BY <1>3, <2>1, <2>2, Kept DEF WorkerWait, FieldsOK, LockOK, WorkOK
    <2>4. f \in Frame
      BY <1>1, ZenonT(30) DEF Frame, FieldsOK, LockOK, Order
    <2>5. PICK l \in {"done", "w_pipeline", "w_finish"} : Goto(w, l)
      BY <1>3 DEF WorkerWait
    <2>6. Locals(w, f) \/ UNCHANGED frame
      BY <1>3 DEF WorkerWait
    <2>7. l \in Labels /\ \A g \in Frame : Held(l, g)
      BY DEF Held, HoldsSession, Labels, WorkerLabels
    <2> QED
      BY <1>1, <2>3, <2>4, <2>5, <2>6, <2>7, ThreadStep, ThreadMoves
  <1>4. CASE WorkerFinish
    <2> DEFINE f == [frame[w] EXCEPT !.sess = NoSession]
    <2>1. payload' \in {"none", "text", "empty", "llm", "raw"}
      BY <1>4 DEF WorkerFinish, FieldsOK, WorkOK
    <2>2. FieldsOK'
      BY <1>4, <2>1, Kept DEF WorkerFinish, FieldsOK, WorkOK
    <2>3. f \in Frame
      BY <1>1 DEF Frame, MaybeSession
    <2>4. PICK l \in {"w_pipeline", "z_lock", "w_except"} : Goto(w, l)
      BY <1>4 DEF WorkerFinish
    <2>5. Locals(w, f) \/ UNCHANGED frame
      BY <1>4 DEF WorkerFinish
    <2>6. l \in Labels /\ \A g \in Frame : Held(l, g)
      BY DEF Held, HoldsSession, Labels, WorkerLabels, ResetLabels
    <2> QED
      BY <1>1, <2>2, <2>3, <2>4, <2>5, <2>6, ThreadStep, ThreadMoves
  <1>5. CASE WorkerPipeline
    <2>1. FlagOK'
      BY <1>5, ZenonT(30) DEF WorkerPipeline, FieldsOK, FlagOK
    <2>2. FieldsOK'
      BY <1>5, <2>1, Kept DEF WorkerPipeline, FieldsOK
    <2>3. PICK l \in {"w_take", "w_enter"} : Goto(w, l)
      BY <1>5 DEF WorkerPipeline
    <2> QED
      BY <1>1, <1>5, <2>2, <2>3, ThreadMoves
         DEF WorkerPipeline, Held, HoldsSession, Labels, WorkerLabels
  <1>6. CASE EnterPostprocessing
    <2>1. machine' \in Machine
      BY <1>6, TransitionTypes, SizesAssumption, ZenonT(30) DEF EnterPostprocessing, FieldsOK,
           LockOK
    <2>2. nextPhase' \in Status
      BY <1>6, <2>1, ZenonT(30) DEF EnterPostprocessing, Machine
    <2>3. FieldsOK'
      BY <1>6, <2>1, <2>2, Kept, ZenonT(30) DEF EnterPostprocessing, FieldsOK, LockOK, WorkOK
    <2>4. [frame[w] EXCEPT !.wasIme = sessionIme] \in Frame
      BY <1>1 DEF Frame, FieldsOK, LockOK
    <2> QED
      BY <1>1, <1>6, <2>3, <2>4, ThreadStep
         DEF EnterPostprocessing, Held, HoldsSession, Labels, WorkerLabels
  <1>7. CASE EnterEmit
    <2>1. status' \in Status
      BY <1>7, EmitTypes DEF EnterEmit, FieldsOK, WorkOK
    <2>2. FieldsOK'
      BY <1>7, <2>1, Kept DEF EnterEmit, FieldsOK, DeviceOK, WorkOK, Status
    <2>3. [frame[w] EXCEPT !.wasIme = TRUE] \in Frame
      BY <1>1, ZenonT(30) DEF Frame
    <2> QED
      BY <1>1, <1>7, <2>2, <2>3, ThreadStep DEF EnterEmit, Held, HoldsSession, Labels, WorkerLabels
  <1>8. CASE WorkerProcess \/ WorkerEmit
    <2>1. payload' \in {"none", "text", "empty", "llm", "raw"}
      BY <1>8 DEF WorkerProcess, WorkerEmit, FieldsOK, WorkOK
    <2>2. FieldsOK'
      BY <1>8, <2>1, Kept DEF WorkerProcess, WorkerEmit, FieldsOK, WorkOK
    <2>3. PICK l \in {"w_take", "w_except", "z_lock"} : Goto(w, l)
      BY <1>8 DEF WorkerProcess, WorkerEmit
    <2> QED
      BY <1>1, <1>8, <2>2, <2>3, ThreadMoves
         DEF WorkerProcess, WorkerEmit, Held, HoldsSession, Labels, WorkerLabels, ResetLabels
  <1>9. CASE WorkerTake \/ WorkerExcept
    <2>1. machine' \in Machine
      BY <1>9, TransitionTypes, SizesAssumption DEF WorkerTake, WorkerExcept, FieldsOK, LockOK
    <2>2. payload' \in {"none", "text", "empty", "llm", "raw"}
      BY <1>9 DEF WorkerTake, WorkerExcept, FieldsOK, WorkOK
    <2>3. LockOK' /\ WorkOK'
      BY <1>9, <2>1, <2>2 DEF WorkerTake, WorkerExcept, FieldsOK, LockOK, WorkOK
    <2>4. FieldsOK'
      BY <1>9, <2>3, Kept DEF WorkerTake, WorkerExcept, FieldsOK
    <2>5. PICK l \in {"w_emit", "z_lock"} : Goto(w, l)
      BY <1>9 DEF WorkerTake, WorkerExcept
    <2> QED
      BY <1>1, <1>9, <2>4, <2>5, ThreadMoves
         DEF WorkerTake, WorkerExcept, Held, HoldsSession, Labels, WorkerLabels, ResetLabels
  <1> QED
    BY <1>2, <1>3, <1>4, <1>5, <1>6, <1>7, <1>8, <1>9 DEF Worker

(* The poll loop, Shutdown, the capture thread and the session workers. *)
LEMMA LoopTypes ==
    ASSUME TypeInv,
           \/ MainFlush \/ ExpireLook \/ ExpireDestroy \/ Quit \/ Shutdown
           \/ AudioArrives \/ SessionWakes
    PROVE  TypeInv'
  <1> USE DEF TypeInv
  <1> DEFINE m == "main"
  <1>1. m \in Threads /\ frame[m] \in Frame
    BY DEF Threads, Callers, ThreadsOK
  <1>2. CASE MainFlush \/ ExpireLook
    <2>1. FieldsOK'
      BY <1>2, Kept DEF MainFlush, ExpireLook, FieldsOK
    <2>2. PICK l \in {"f_wake", "e_destroy"} : Goto(m, l)
      BY <1>2 DEF MainFlush, ExpireLook
    <2> QED
      BY <1>1, <1>2, <2>1, <2>2, ThreadMoves
         DEF MainFlush, ExpireLook, Held, HoldsSession, Labels, FlushLabels, LookLabels
  <1>3. CASE ExpireDestroy
    <2>1. DeviceOK'
      BY <1>3, ZenonT(30) DEF ExpireDestroy, FieldsOK, DeviceOK
    <2>2. FieldsOK'
      BY <1>3, <2>1, Kept DEF ExpireDestroy, FieldsOK
    <2> QED
      BY <1>1, <1>3, <2>2, ThreadMoves DEF ExpireDestroy, Held, HoldsSession, Labels
  <1>4. CASE Quit
    <2>1. FlagOK'
      BY <1>4, ZenonT(30) DEF Quit, FieldsOK, FlagOK
    <2>2. FieldsOK'
      BY <1>4, <2>1, Kept DEF Quit, FieldsOK
    <2> QED
      BY <1>1, <1>4, <2>2, ThreadMoves DEF Quit, Held, HoldsSession, Labels, ShutdownLabels
  <1>5. CASE ShutdownCapture
    <2>1. queued' \in 0 .. MinSamples
      BY <1>5, SizesAssumption DEF ShutdownCapture
    <2>2. DeviceOK'
      BY <1>5, <2>1, ZenonT(30) DEF ShutdownCapture, FieldsOK, DeviceOK
    <2>3. FieldsOK'
      BY <1>5, <2>2, Kept DEF ShutdownCapture, FieldsOK
    <2> QED
      BY <1>1, <1>5, <2>3, ThreadMoves DEF ShutdownCapture, Held, HoldsSession, Labels, ShutdownLabels
  <1>6. CASE ShutdownLock
    <2>1. machine' \in Machine
      BY <1>6, TransitionTypes, SizesAssumption DEF ShutdownLock, FieldsOK, LockOK
    <2>2. FieldsOK'
      BY <1>6, <2>1, Kept, ZenonT(30) DEF ShutdownLock, FieldsOK, LockOK
    <2> QED
      BY <1>1, <1>6, <2>2, ThreadMoves DEF ShutdownLock, Held, HoldsSession, Labels, ShutdownLabels
  <1>7. CASE ShutdownActive
    <2>1. deferred' \subseteq Sessions /\ wake' \in BOOLEAN
      BY <1>7, RetireTypes DEF ShutdownActive, FieldsOK, SessionOK
    <2>2. FlagOK' /\ SessionOK'
      BY <1>7, <2>1 DEF ShutdownActive, DetachActive, FieldsOK, FlagOK, SessionOK, MaybeSession
    <2>3. FieldsOK'
      BY <1>7, <2>2, Kept DEF ShutdownActive, FieldsOK
    <2> QED
      BY <1>1, <1>7, <2>3, ThreadMoves DEF ShutdownActive, Held, HoldsSession, Labels, ShutdownLabels
  <1>8. CASE ShutdownJoin
    <2>1. FieldsOK'
      BY <1>8, Kept DEF ShutdownJoin, FieldsOK, SessionOK, MaybeSession
    <2> QED
      BY <1>1, <1>8, <2>1, ThreadMoves DEF ShutdownJoin, Held, HoldsSession, Labels, ShutdownLabels
  <1>9. CASE AudioArrives
    <2>1. queued' \in 0 .. MinSamples
      <3>1. queued + 1 \in Nat
        BY SizesAssumption DEF FieldsOK, DeviceOK
      <3> QED
        BY <1>9, <3>1, SaturateTypes DEF AudioArrives
    <2>2. DeviceOK' /\ FlagOK'
      BY <1>9, <2>1 DEF AudioArrives, FieldsOK, DeviceOK, FlagOK
    <2> QED
      BY <1>9, <2>2, Kept DEF AudioArrives, FieldsOK, ThreadsOK
  <1>10. CASE SessionWakes
    <2>1. FlagOK'
      BY <1>10 DEF SessionWakes, FieldsOK, FlagOK
    <2> QED
      BY <1>10, <2>1, Kept DEF SessionWakes, FieldsOK, ThreadsOK
  <1> QED
    BY <1>2, <1>3, <1>4, <1>5, <1>6, <1>7, <1>8, <1>9, <1>10 DEF Shutdown

LEMMA InitTypes == Init => TypeInv
  <1> SUFFICES ASSUME Init PROVE TypeInv
    OBVIOUS
  <1>1. Clear \in Machine
    BY DEF Clear, Machine, Status, PostprocessingState
  <1>a. 0 \in 0 .. MinSamples
    BY SizesAssumption
  <1>2. LockOK
    BY <1>1, <1>a, RecordTypes, ZenonT(30) DEF Init, LockOK
  <1>3. FlagOK /\ SessionOK /\ WorkOK
    BY ZenonT(30) DEF Init, FlagOK, SessionOK, WorkOK, MaybeSession, Status
  <1>4. DeviceOK
    BY <1>a, ZenonT(30) DEF Init, DeviceOK, Status
  <1>5. ThreadsOK
    <2> DEFINE first(t) == IF t = "worker" THEN "w_loop" ELSE "idle"
               f(t) == [EmptyFrame EXCEPT !.ret = first(t)]
    <2>1. \A t : first(t) \in {"idle", "w_loop"}
      OBVIOUS
    <2>2. \A t : f(t) \in Frame
      BY <2>1, RecordTypes DEF Frame
    <2>3. \A t : first(t) \in Labels /\ Held(first(t), f(t))
      BY <2>1 DEF Labels, WorkerLabels, Held, HoldsSession
    <2>4. pc = [t \in Threads |-> first(t)] /\ frame = [t \in Threads |-> f(t)]
      BY DEF Init
    <2> HIDE DEF f, first
    <2> QED
      BY <2>2, <2>3, <2>4 DEF ThreadsOK
  <1> QED
    BY <1>2, <1>3, <1>4, <1>5 DEF TypeInv, FieldsOK

LEMMA NextTypes == TypeInv /\ [Next]_vars => TypeInv'
  <1> SUFFICES ASSUME TypeInv, [Next]_vars PROVE TypeInv'
    OBVIOUS
  <1>1. \A t \in Callers : Imes(t) \subseteq BOOLEAN
    BY CommandsAssumption, ZenonT(30) DEF Imes
  <1>2. ASSUME NEW t \in Callers, Command(t)
        PROVE  TypeInv'
    <2>1. CASE \E ime \in Imes(t), c \in BOOLEAN : StartRecording(t, ime, c)
      BY <1>1, <2>1, StartTypes
    <2>2. CASE \E ime \in Imes(t) : StopRecording(t, ime) \/ InjectText(t, ime)
      BY <1>1, <2>2, StopTypes
    <2>3. CASE \E ime \in Imes(t), raw \in BOOLEAN : CancelOperation(t, ime, raw)
      BY <1>1, <2>3, CancelTypes
    <2>4. CASE ReloadAsrBackend(t)
      BY <2>4, StopTypes
    <2> QED
      BY <1>2, <2>1, <2>2, <2>3, <2>4 DEF Command
  <1>3. ASSUME NEW t \in Callers, Step(t)
        PROVE  TypeInv'
    <2>1. CASE \/ StartLock(t) \/ BeginRecording(t) \/ StartDisarm(t) \/ CreateSession(t)
               \/ CreateSessionFails(t) \/ StartInstall(t) \/ StartDuck(t) \/ StartNotify(t)
      BY <2>1, StartTypes
    <2>2. CASE EndRecording(t) \/ ScheduleCaptureStop(t) \/ WakeMainThread(t)
      BY <2>2, TailTypes
    <2>3. CASE \/ FlushWake(t) \/ FlushReapedSessions(t) \/ TryDequeue(t)
               \/ PollActiveSession(t) \/ FlushExchange(t) \/ FlushLook(t) \/ FlushStop(t)
      BY <2>3, FlushTypes
    <2>4. CASE \/ HandleEnter(t) \/ HandleStartup(t) \/ HandleAppend(t)
               \/ PushAudio(t) \/ HandleCheck(t) \/ HandleRetire(t)
      BY <2>4, HandleTypes
    <2>5. CASE FailActiveSession(t) \/ FailCancel(t) \/ FailNotify(t)
      BY <2>5, FailTypes
    <2>6. CASE CancelStop(t) \/ RetireDetached(t)
      BY <2>6, CancelTypes
    <2>7. CASE StopCapture(t) \/ StopLock(t)
      BY <2>7, StopTypes
    <2> QED
      BY <1>3, <2>1, <2>2, <2>3, <2>4, <2>5, <2>6, <2>7 DEF Step
  <1>4. ASSUME NEW t \in Threads, Shared(t)
        PROVE  TypeInv'
    BY <1>4, SharedTypes
  <1>5. CASE Worker
    BY <1>5, WorkerTypes
  <1>6. CASE UNCHANGED vars
    BY <1>6, TypesKept
  <1> QED
    BY <1>2, <1>3, <1>4, <1>5, <1>6, LoopTypes DEF Next, Terminated

(* Every field of the controller, of the capture and of the session manager *)
(* keeps its type, however many clients, sessions and samples there are; in *)
(* particular no path uses a session it has not got.                        *)
THEOREM TypeCorrect == Spec => []TypeOK
  <1>1. TypeInv => TypeOK
    BY DEF TypeInv, TypeOK, FieldsOK, LockOK, FlagOK, SessionOK, DeviceOK, WorkOK, ThreadsOK
  <1> QED
    BY <1>1, InitTypes, NextTypes, PTL DEF Spec
=============================================================================
