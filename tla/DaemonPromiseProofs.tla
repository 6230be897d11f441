------------------------ MODULE DaemonPromiseProofs -------------------------
(***************************************************************************)
(* What the controller holds: where a recognition session may be while     *)
(* clients cancel from their own threads, and what a recording sets up.    *)
(* And what it promises: with the input method as the only caller, every   *)
(* step of a thread is a step of PushToTalk, or changes nothing in it, for *)
(* every number of sessions and samples.                                   *)
(***************************************************************************)
EXTENDS DaemonRefinement, DaemonRuntimeSafety

(* The time, in seconds, a leaf that names no prover gives to each.        *)
USE SMTT(30), ZenonT(30)

(* Between the copy of active_session_ a flush made and its next look at   *)
(* it, a thread may hold the session that is installed.                    *)
AliasLabels == {"h_push", "h_check", "x_lock"}

(* A session in a caller's hands is not with the worker, and not installed *)
(* but for a copy.                                                         *)
HeldAreApart ==
    \A t \in Callers : frame[t].sess # NoSession =>
        /\ frame[t].sess # order.session /\ frame[t].sess # frame["worker"].sess
        /\ frame[t].sess = active => pc[t] \in AliasLabels

(* A session about to be installed is known to no one else. *)
FreshIsOwn ==
    \A t \in Callers : pc[t] = "s_install" =>
        /\ frame[t].sess \notin deferred
        /\ \A u \in Threads : u # t => frame[u].sess # frame[t].sess

InstalledIsOwn ==
    active # NoSession => active # order.session /\ active # frame["worker"].sess

Apart == HeldAreApart /\ FreshIsOwn /\ InstalledIsOwn /\ ClientsCancel /\ RetiredIsDead

SessionInv == TypeInv /\ Apart

(* What a step of thread t does to the others' locals. *)
LEMMA LocalsRead ==
    ASSUME TypeInv, NEW t \in Threads, NEW f, Locals(t, f)
    PROVE  frame'[t] = f /\ \A u \in Threads : u # t => frame'[u] = frame[u]
    BY DEF TypeInv, ThreadsOK, Locals

LEMMA GotoRead ==
    ASSUME TypeInv, NEW t \in Threads, NEW l, Goto(t, l)
    PROVE  pc'[t] = l /\ \A u \in Threads : u # t => pc'[u] = pc[u]
    BY DEF TypeInv, ThreadsOK, Goto

SessionTypes ==
    /\ active \in MaybeSession /\ deferred \subseteq Sessions /\ NoSession \notin Sessions
    /\ frame \in [Threads -> Frame] /\ pc \in [Threads -> Labels]
    /\ \A t \in Threads : frame[t].sess \in MaybeSession
    /\ \A t \in Threads : pc[t] \in HoldsSession => frame[t].sess \in Sessions
    /\ order.session \in MaybeSession

LEMMA SessionsTyped ==
    ASSUME SessionInv
    PROVE  SessionTypes
    BY SessionsAssumption DEF SessionTypes, SessionInv, TypeInv, ThreadsOK, FieldsOK, SessionOK,
       LockOK, Frame, Order, Held

(* Parking s harms nobody: it is with no one who will still use it. *)
MayPark(s) ==
    /\ s # NoSession /\ s # active' /\ s # order.session /\ s # frame["worker"].sess
    /\ \A u \in Callers : pc[u] = "s_install" => frame[u].sess # s

(* A step of thread t to label l that hands no session on, and what it     *)
(* parks may be parked.                                                    *)
SessionStays(t, l) ==
    /\ Goto(t, l)
    /\ frame'[t].sess \in {frame[t].sess, NoSession}
    /\ \A u \in Threads : u # t => frame'[u] = frame[u]
    /\ active' \in {active, NoSession} /\ order'.session \in {order.session, NoSession}
    /\ \A s \in deferred' : s \in deferred \/ MayPark(s)
    /\ l # "s_install"
    /\ t \in Callers /\ pc[t] \in AliasLabels /\ frame'[t].sess # NoSession =>
         l \in AliasLabels \/ frame[t].sess # active'
    /\ t \in Clients => l \in ClientLabels /\ frame'[t].ret = "idle"

LEMMA StaysApart ==
    ASSUME SessionInv, NEW t \in Threads, NEW l, SessionStays(t, l)
    PROVE  Apart'
  <1> USE CallersAreThreads
  <1>1. /\ \A u \in Threads : pc'[u] = IF u = t THEN l ELSE pc[u]
        /\ \A u \in Threads : frame'[u].sess \in {frame[u].sess, NoSession}
        /\ \A u \in Threads : u # t => frame'[u].sess = frame[u].sess
    BY GotoRead DEF SessionStays, SessionInv
  <1>2. HeldAreApart'
    BY <1>1 DEF SessionStays, SessionInv, Apart, HeldAreApart
  <1>3. FreshIsOwn'
    <2>1. SUFFICES ASSUME NEW u \in Callers, pc'[u] = "s_install"
                   PROVE  /\ frame'[u].sess \notin deferred'
                          /\ \A v \in Threads : v # u => frame'[v].sess # frame'[u].sess
      BY DEF FreshIsOwn
    <2>2. u # t /\ pc[u] = "s_install" /\ frame'[u].sess = frame[u].sess
      BY <1>1, <2>1 DEF SessionStays
    <2>3. frame[u].sess # NoSession /\ frame[u].sess \notin deferred
      BY <2>2, SessionsTyped DEF SessionTypes, HoldsSession, SessionInv, Apart, FreshIsOwn
    <2>4. \A v \in Threads : v # u => frame'[v].sess # frame[u].sess
      BY <1>1, <2>2, <2>3 DEF SessionInv, Apart, FreshIsOwn
    <2> QED
      BY <2>2, <2>3, <2>4 DEF SessionStays, MayPark
  <1>4. InstalledIsOwn'
    BY <1>1 DEF SessionStays, SessionInv, Apart, InstalledIsOwn
  <1>5. ClientsCancel'
    BY <1>1 DEF SessionStays, SessionInv, Apart, ClientsCancel, Threads, Callers
  <1>6. RetiredIsDead'
    BY <1>1, SessionsTyped DEF SessionStays, MayPark, SessionInv, Apart, RetiredIsDead, SessionTypes
  <1> QED
    BY <1>2, <1>3, <1>4, <1>5, <1>6 DEF Apart

(* A step of thread t to label l that copies the installed session, or     *)
(* moves it out.                                                           *)
SessionTaken(t, l) ==
    /\ Goto(t, l)
    /\ frame'[t].sess = active
    /\ \A u \in Threads : u # t => frame'[u] = frame[u]
    /\ (active' = active /\ l \in AliasLabels) \/ active' = NoSession
    /\ order'.session \in {order.session, NoSession}
    /\ UNCHANGED deferred
    /\ l # "s_install"
    /\ t \in Clients => l \in ClientLabels /\ frame'[t].ret = "idle"

LEMMA TakenApart ==
    ASSUME SessionInv, NEW t \in Callers, NEW l, SessionTaken(t, l)
    PROVE  Apart'
  <1> USE CallersAreThreads
  <1>1. /\ \A u \in Threads : pc'[u] = IF u = t THEN l ELSE pc[u]
        /\ \A u \in Threads : frame'[u].sess = IF u = t THEN active ELSE frame[u].sess
        /\ frame'["worker"].sess = frame["worker"].sess
    BY GotoRead DEF SessionTaken, SessionInv
  <1>2. HeldAreApart'
    BY <1>1 DEF SessionTaken, SessionInv, Apart, HeldAreApart, InstalledIsOwn
  <1>3. FreshIsOwn'
    <2>1. SUFFICES ASSUME NEW u \in Callers, pc'[u] = "s_install"
                   PROVE  /\ frame'[u].sess \notin deferred'
                          /\ \A v \in Threads : v # u => frame'[v].sess # frame'[u].sess
      BY DEF FreshIsOwn
    <2>2. u # t /\ pc[u] = "s_install" /\ frame'[u].sess = frame[u].sess
      BY <1>1, <2>1 DEF SessionTaken
    <2>3. frame[u].sess # NoSession /\ frame[u].sess # active
      BY <2>2, SessionsTyped DEF SessionTypes, HoldsSession, SessionInv, Apart, HeldAreApart,
                                 AliasLabels
    <2> QED
      BY <1>1, <2>2, <2>3 DEF SessionTaken, SessionInv, Apart, FreshIsOwn
  <1>4. InstalledIsOwn'
    BY <1>1 DEF SessionTaken, SessionInv, Apart, InstalledIsOwn
  <1>5. ClientsCancel'
    BY <1>1 DEF SessionTaken, SessionInv, Apart, ClientsCancel, Threads, Callers
  <1>6. RetiredIsDead'
    BY <1>1, SessionsTyped DEF SessionTaken, SessionInv, Apart, RetiredIsDead, SessionTypes
  <1> QED
    BY <1>2, <1>3, <1>4, <1>5, <1>6 DEF Apart

(* What every thread may do: nothing to the sessions, or forget its own. *)
LEMMA QuietApart ==
    ASSUME SessionInv, NEW t \in Threads, NEW l, Goto(t, l),
           \/ UNCHANGED frame
           \/ \E f : Locals(t, f) /\ f.sess \in {frame[t].sess, NoSession} /\ f.ret = frame[t].ret
           \/ t \notin Clients /\ \E f : Locals(t, f) /\ f.sess \in {frame[t].sess, NoSession},
           UNCHANGED active, deferred' \subseteq deferred,
           order'.session \in {order.session, NoSession}, l # "s_install",
           t \in Callers => pc[t] \notin AliasLabels, t \in Clients => l \in ClientLabels
    PROVE  Apart'
  <1>1. /\ frame'[t].sess \in {frame[t].sess, NoSession}
        /\ \A u \in Threads : u # t => frame'[u] = frame[u]
        /\ t \in Clients => frame'[t].ret = frame[t].ret
    BY LocalsRead DEF SessionInv
  <1>2. t \in Clients => frame'[t].ret = "idle"
    BY <1>1 DEF SessionInv, Apart, ClientsCancel
  <1>3. SessionStays(t, l)
    BY <1>1, <1>2 DEF SessionStays
  <1> QED
    BY <1>3, StaysApart

LEMMA CancelApart ==
    ASSUME SessionInv, NEW t \in Callers, NEW ime, NEW raw \in BOOLEAN, CancelOperation(t, ime, raw)
    PROVE  Apart'
  <1>1. t \in Threads /\ frame[t] \in Frame /\ pc[t] = "idle"
    BY CallersAreThreads DEF SessionInv, TypeInv, ThreadsOK, CancelOperation
  <1>2. PICK l \in {"c_stop", "idle"} : Goto(t, l)
    BY DEF CancelOperation
  <1>3. UNCHANGED deferred
    BY DEF CancelOperation
  <1>4. CASE OnCancel(machine, raw).effect = "stop_capture"
    <2>1. active' = NoSession /\ order' = NoOrder
      BY <1>4 DEF CancelOperation, DetachActive
    <2>2. Locals(t, [frame[t] EXCEPT !.sess = active, !.apply = pendingReload])
      BY <1>4 DEF CancelOperation
    <2> DEFINE f == [frame[t] EXCEPT !.sess = active, !.apply = pendingReload]
    <2>3. f.sess = active /\ f.ret = frame[t].ret
      BY <1>1 DEF Frame
    <2>4. Locals(t, f)
      BY <2>2
    <2> HIDE DEF f
    <2>5. /\ frame'[t].sess = active /\ frame'[t].ret = frame[t].ret
          /\ \A u \in Threads : u # t => frame'[u] = frame[u]
      BY <1>1, <2>3, <2>4, LocalsRead DEF SessionInv
    <2>6. t \in Clients => frame'[t].ret = "idle"
      BY <2>5 DEF SessionInv, Apart, ClientsCancel
    <2>7. SessionTaken(t, l)
      BY <1>2, <1>3, <2>1, <2>5, <2>6 DEF SessionTaken, NoOrder, ClientLabels
    <2> QED
      BY <2>7, TakenApart
  <1>5. CASE OnCancel(machine, raw).effect # "stop_capture"
    <2>1. UNCHANGED <<active, order, frame>>
      BY <1>5 DEF CancelOperation
    <2> QED
      BY <1>1, <1>2, <1>3, <2>1, QuietApart DEF ClientLabels, AliasLabels
  <1> QED
    BY <1>4, <1>5

LEMMA CommandApart ==
    ASSUME ClientCommands \subseteq {"cancel", "inject"}, SessionInv, NEW t \in Callers, Command(t)
    PROVE  Apart'
  <1>1. t \in Threads /\ frame[t] \in Frame /\ (t \in Clients => Commands(t) = ClientCommands)
    BY CallersAreThreads, ThreadsAssumption DEF SessionInv, TypeInv, ThreadsOK, Commands
  <1>2. ASSUME t \notin Clients, NEW ime \in Imes(t), NEW c \in BOOLEAN, StartRecording(t, ime, c)
        PROVE  Apart'
    <2>1. PICK l \in {"f_wake", "s_lock"} : Goto(t, l)
      BY <1>2 DEF StartRecording
    <2>2. /\ pc[t] = "idle" /\ UNCHANGED <<order, active, deferred>>
          /\ Locals(t, [frame[t] EXCEPT !.ime = ime, !.command = c, !.ret = "s_lock"])
      BY <1>2 DEF StartRecording, lockVars, sessionVars
    <2>3. [frame[t] EXCEPT !.ime = ime, !.command = c, !.ret = "s_lock"].sess = frame[t].sess
      BY <1>1 DEF Frame
    <2> QED
      BY <1>1, <1>2, <2>1, <2>2, <2>3, QuietApart, ZenonT(30) DEF AliasLabels
  <1>3. ASSUME t \notin Clients, NEW ime \in Imes(t), StopRecording(t, ime)
        PROVE  Apart'
    BY <1>1, <1>3, QuietApart DEF StopRecording, sessionVars, AliasLabels
  <1>4. ASSUME ReloadAsrBackend(t) \/ \E ime \in Imes(t) : InjectText(t, ime)
        PROVE  Apart'
    <2>1. /\ pc[t] = "idle" /\ UNCHANGED <<active, deferred, frame, pc>>
          /\ order'.session \in {order.session, NoSession}
      BY <1>4 DEF ReloadAsrBackend, InjectText, sessionVars, Request
    <2>2. Goto(t, "idle")
      BY <1>1, <2>1 DEF Goto, SessionInv, TypeInv, ThreadsOK
    <2> QED
      BY <1>1, <2>1, <2>2, QuietApart DEF AliasLabels, ClientLabels
  <1> QED
    BY <1>1, <1>2, <1>3, <1>4, CancelApart DEF Command

(* What may park: the session was taken out, and no one may use it again. *)
LEMMA ParkApart ==
    ASSUME SessionInv, NEW t \in Callers, pc[t] \in {"h_retire", "x_cancel", "r_retire"}
    PROVE  active' = active => MayPark(frame[t].sess)
  <1>1. t \in Threads /\ frame[t].sess # NoSession
    BY CallersAreThreads, SessionsTyped DEF SessionTypes, HoldsSession
  <1>2. frame[t].sess # active /\ frame[t].sess # order.session /\ frame[t].sess # frame["worker"].sess
    BY <1>1 DEF SessionInv, Apart, HeldAreApart, AliasLabels
  <1>3. \A u \in Callers : pc[u] = "s_install" => frame[u].sess # frame[t].sess
    BY <1>1 DEF SessionInv, Apart, FreshIsOwn
  <1> QED
    BY <1>1, <1>2, <1>3 DEF MayPark

LEMMA RetireApart ==
    ASSUME SessionInv, NEW t \in Callers, HandleRetire(t) \/ FailCancel(t) \/ RetireDetached(t)
    PROVE  Apart'
  <1>1. t \in Threads /\ frame[t] \in Frame
    BY CallersAreThreads DEF SessionInv, TypeInv, ThreadsOK
  <1>2. /\ pc[t] \in {"h_retire", "x_cancel", "r_retire"} /\ UNCHANGED <<active, order>>
        /\ deferred' = deferred \cup {frame[t].sess}
    BY DEF HandleRetire, FailCancel, RetireDetached, Park, lockVars
  <1>3. \A s \in deferred' : s \in deferred \/ MayPark(s)
    BY <1>2, ParkApart
  <1>4. PICK l \in {"h_wake", "x_wake", "r_wake"} : Goto(t, l) /\ (l = "r_wake" <=> RetireDetached(t))
    BY <1>2 DEF HandleRetire, FailCancel, RetireDetached
  <1>5. /\ frame'[t].sess \in {frame[t].sess, NoSession} /\ frame'[t].ret = frame[t].ret
        /\ \A u \in Threads : u # t => frame'[u] = frame[u]
    <2>1. CASE FailCancel(t)
      BY <2>1 DEF FailCancel
    <2>2. CASE HandleRetire(t) \/ RetireDetached(t)
      <3>1. PICK f : /\ Locals(t, f)
                     /\ f \in {[frame[t] EXCEPT !.sess = NoSession, !.amount = 0],
                               [frame[t] EXCEPT !.sess = NoSession]}
        BY <2>2 DEF HandleRetire, RetireDetached
      <3>2. f.sess = NoSession /\ f.ret = frame[t].ret
        BY <1>1, <3>1, ZenonT(30) DEF Frame
      <3> QED
        BY <1>1, <3>1, <3>2, LocalsRead DEF SessionInv
    <2> QED
      BY <2>1, <2>2
  <1>6. t \in Clients => l = "r_wake" /\ frame[t].ret = "idle"
    BY <1>4 DEF SessionInv, Apart, ClientsCancel, ClientLabels, HandleRetire, FailCancel
  <1>7. SessionStays(t, l)
    BY <1>2, <1>3, <1>4, <1>5, <1>6 DEF SessionStays, AliasLabels, ClientLabels
  <1> QED
    BY <1>1, <1>7, StaysApart

(* Where a closing step goes on to. *)
LEMMA ClosingLabel ==
    ASSUME SessionInv, NEW t \in Threads, NEW s, NEW b
    PROVE  /\ Closing(t, s, b) \in {"r_retire", "m_apply", "idle", "s_lock", "w_loop"}
           /\ t \in Clients => Closing(t, s, b) \in ClientLabels
           /\ frame[t].ret \in {"idle", "s_lock", "w_loop"}
           /\ t \in Clients => frame[t].ret = "idle"
    BY DEF Closing, ClientLabels, SessionInv, TypeInv, ThreadsOK, Apart, ClientsCancel, Frame

LEMMA SharedApart ==
    ASSUME SessionInv, NEW t \in Threads, Shared(t)
    PROVE  Apart'
  <1> USE DEF AliasLabels
  <1>1. frame[t] \in Frame
    BY DEF SessionInv, TypeInv, ThreadsOK
  <1>2. t \in Clients => pc[t] \in ClientLabels
    BY DEF SessionInv, Apart, ClientsCancel
  <1>3. CASE RestoreOutput(t)
    <2>1. /\ UNCHANGED <<frame, active, order, deferred>>
          /\ pc[t] \in {"t_restore", "c_restore", "p_restore", "f_skip", "f_restore", "z_restore",
                        "q_restore"}
      BY <1>3 DEF RestoreOutput, lockVars, sessionVars
    <2>2. CASE pc[t] = "c_restore"
      <3>1. Goto(t, Closing(t, frame[t].sess, frame[t].apply))
        BY <1>3, <2>2 DEF RestoreOutput
      <3>2. /\ Closing(t, frame[t].sess, frame[t].apply) # "s_install"
            /\ t \in Clients => Closing(t, frame[t].sess, frame[t].apply) \in ClientLabels
        BY ClosingLabel
      <3> QED
        BY <2>1, <3>1, <3>2, QuietApart
    <2>3. CASE pc[t] # "c_restore"
      <3>1. t \notin Clients
        BY <1>2, <2>1, <2>3 DEF ClientLabels
      <3>2. PICK l : Goto(t, l) /\ l \in {"t_schedule", "p_lock", "z_lock", "z_emit", "q_lock", frame[t].ret}
        BY <1>3, <2>1, <2>3 DEF RestoreOutput
      <3>3. l # "s_install"
        BY <3>2, ClosingLabel
      <3> QED
        BY <2>1, <3>1, <3>2, <3>3, QuietApart
    <2> QED
      BY <2>2, <2>3
  <1>4. CASE ResetLock(t)
    <2>1. t \notin Clients /\ pc[t] = "z_lock"
      BY <1>2, <1>4 DEF ResetLock, ClientLabels
    <2>2. [frame[t] EXCEPT !.wasIme = sessionIme].sess = frame[t].sess
      BY <1>1 DEF Frame
    <2>3. Goto(t, "z_restore") /\ Locals(t, [frame[t] EXCEPT !.wasIme = sessionIme])
      BY <1>4 DEF ResetLock
    <2>4. UNCHANGED <<active, deferred>> /\ order'.session = NoSession
      BY <1>4 DEF ResetLock, sessionVars, NoOrder
    <2> QED
      BY <2>1, <2>2, <2>3, <2>4, QuietApart, ZenonT(30)
  <1>5. CASE ResetEmit(t)
    <2>1. t \notin Clients /\ pc[t] = "z_emit"
      BY <1>2, <1>5 DEF ResetEmit, ClientLabels
    <2>2. [frame[t] EXCEPT !.wasIme = TRUE].sess = frame[t].sess
      BY <1>1 DEF Frame
    <2>3. Goto(t, "m_apply") /\ Locals(t, [frame[t] EXCEPT !.wasIme = TRUE])
      BY <1>5 DEF ResetEmit
    <2>4. UNCHANGED <<active, deferred, order>>
      BY <1>5 DEF ResetEmit, sessionVars, lockVars
    <2> QED
      BY <2>1, <2>2, <2>3, <2>4, QuietApart, ZenonT(30)
  <1>6. CASE MaybeApplyPendingReload(t)
    <2> DEFINE f == [frame[t] EXCEPT !.apply = FALSE, !.sess = NoSession]
    <2>1. f.sess = NoSession /\ f.ret = frame[t].ret
      BY <1>1 DEF Frame
    <2>2. Locals(t, f) /\ Goto(t, frame[t].ret) /\ UNCHANGED <<active, deferred, order>> /\ pc[t] = "m_apply"
      BY <1>6 DEF MaybeApplyPendingReload, sessionVars
    <2>3. frame[t].ret # "s_install" /\ (t \in Clients => frame[t].ret \in ClientLabels)
      BY ClosingLabel DEF ClientLabels
    <2> HIDE DEF f
    <2> QED
      BY <2>1, <2>2, <2>3, QuietApart
  <1> QED
    BY <1>3, <1>4, <1>5, <1>6 DEF Shared

LEMMA CloseApart ==
    ASSUME SessionInv, NEW t \in Callers, CancelStop(t) \/ WakeMainThread(t)
    PROVE  Apart'
  <1> USE DEF AliasLabels
  <1>1. t \in Threads /\ frame[t] \in Frame
    BY CallersAreThreads DEF SessionInv, TypeInv, ThreadsOK
  <1>2. CASE CancelStop(t)
    BY <1>1, <1>2, QuietApart DEF CancelStop, lockVars, sessionVars, ClientLabels
  <1>3. CASE WakeMainThread(t)
    <2>1. UNCHANGED <<active, order, deferred>> /\ pc[t] \in {"t_wake", "h_wake", "x_wake", "r_wake"}
      BY <1>3 DEF WakeMainThread, lockVars, sessionVars
    <2>2. CASE pc[t] = "t_wake"
      <3> DEFINE f == [frame[t] EXCEPT !.sess = NoSession, !.after = "idle"]
      <3>1. t \notin Clients /\ f.sess = NoSession
        BY <1>1, <2>2 DEF SessionInv, Apart, ClientsCancel, ClientLabels, Frame
      <3>2. Locals(t, f) /\ Goto(t, frame[t].after) /\ frame[t].after # "s_install"
        BY <1>1, <1>3, <2>2 DEF WakeMainThread, Frame
      <3> HIDE DEF f
      <3> QED
        BY <1>1, <2>1, <2>2, <3>1, <3>2, QuietApart
    <2>3. CASE pc[t] # "t_wake"
      <3>1. UNCHANGED frame
        BY <1>1, <1>3, <2>3 DEF WakeMainThread, Locals, SessionInv, TypeInv, ThreadsOK
      <3>2. CASE pc[t] = "r_wake"
        <4>1. Goto(t, Closing(t, NoSession, frame[t].apply))
          BY <1>3, <3>2 DEF WakeMainThread
        <4>2. /\ Closing(t, NoSession, frame[t].apply) # "s_install"
              /\ t \in Clients => Closing(t, NoSession, frame[t].apply) \in ClientLabels
          BY <1>1, ClosingLabel
        <4> QED
          BY <1>1, <2>1, <3>1, <3>2, <4>1, <4>2, QuietApart
      <3>3. CASE pc[t] \in {"h_wake", "x_wake"}
        <4>1. t \notin Clients
          BY <3>3 DEF SessionInv, Apart, ClientsCancel, ClientLabels
        <4>2. PICK l \in {"f_dequeue", "x_notify"} : Goto(t, l)
          BY <1>3, <3>3 DEF WakeMainThread
        <4> QED
          BY <1>1, <2>1, <3>1, <3>3, <4>1, <4>2, QuietApart
      <3> QED
        BY <2>1, <2>3, <3>2, <3>3
    <2> QED
      BY <2>2, <2>3
  <1> QED
    BY <1>2, <1>3

(* The steps of the main thread that leave every session where it is. *)
LEMMA MainQuietApart ==
    ASSUME SessionInv, NEW t \in Callers,
           \/ StartLock(t) \/ BeginRecording(t) \/ StartDisarm(t) \/ CreateSessionFails(t)
           \/ StartDuck(t) \/ StartNotify(t) \/ EndRecording(t) \/ ScheduleCaptureStop(t)
           \/ FlushWake(t) \/ FlushReapedSessions(t) \/ TryDequeue(t) \/ HandleEnter(t)
           \/ HandleStartup(t) \/ FlushExchange(t) \/ FlushLook(t) \/ FlushStop(t)
           \/ FailNotify(t) \/ StopCapture(t)
    PROVE  Apart'
  <1> USE DEF AliasLabels
  <1>1. t \in Threads /\ frame[t] \in Frame
    BY CallersAreThreads DEF SessionInv, TypeInv, ThreadsOK
  <1>2. t \notin Clients
    BY DEF SessionInv, Apart, ClientsCancel, ClientLabels, StartLock, BeginRecording, StartDisarm,
           CreateSessionFails, StartDuck, StartNotify, EndRecording, ScheduleCaptureStop, FlushWake,
           FlushReapedSessions, TryDequeue, HandleEnter, HandleStartup, FlushExchange, FlushLook,
           FlushStop, FailNotify, StopCapture
  <1>3. pc[t] \notin AliasLabels
    BY DEF StartLock, BeginRecording, StartDisarm, CreateSessionFails, StartDuck, StartNotify,
           EndRecording, ScheduleCaptureStop, FlushWake, FlushReapedSessions, TryDequeue,
           HandleEnter, HandleStartup, FlushExchange, FlushLook, FlushStop, FailNotify, StopCapture
  <1>4. UNCHANGED <<active, order>> /\ deferred' \subseteq deferred
    BY DEF StartLock, BeginRecording, StartDisarm, CreateSessionFails, StartDuck, StartNotify,
           EndRecording, ScheduleCaptureStop, FlushWake, FlushReapedSessions, TryDequeue,
           HandleEnter, HandleStartup, FlushExchange, FlushLook, FlushStop, FailNotify, StopCapture,
           lockVars, sessionVars
  <1>5. \E l : Goto(t, l) /\ l # "s_install"
    <2>1. CASE \/ StartLock(t) \/ BeginRecording(t) \/ StartDisarm(t) \/ CreateSessionFails(t)
               \/ StartDuck(t) \/ StartNotify(t) \/ EndRecording(t) \/ ScheduleCaptureStop(t)
      BY <2>1 DEF StartLock, BeginRecording, StartDisarm, CreateSessionFails, StartDuck,
                  StartNotify, EndRecording, ScheduleCaptureStop
    <2>2. CASE \/ FlushWake(t) \/ TryDequeue(t) \/ HandleStartup(t) \/ FlushStop(t) \/ FailNotify(t)
               \/ StopCapture(t)
      <3>1. PICK l \in {"f_reap", "f_poll", "h_enter", "f_dequeue", "h_append", "f_restore", "t_end",
                        "p_restore"} : Goto(t, l)
        BY <2>2, ZenonT(30) DEF FlushWake, TryDequeue, HandleStartup, FlushStop, FailNotify,
             StopCapture
      <3> QED
        BY <3>1
    <2>3. CASE FlushReapedSessions(t) \/ HandleEnter(t) \/ FlushLook(t)
      <3>1. PICK l \in {"f_dequeue", "f_poll", "h_startup", "f_skip", "f_stop"} : Goto(t, l)
        BY <2>3 DEF FlushReapedSessions, HandleEnter, FlushLook
      <3> QED
        BY <3>1
    <2>4. CASE FlushExchange(t)
      <3>1. frame[t].ret # "s_install"
        BY <1>1 DEF Frame
      <3> QED
        BY <2>4, <3>1 DEF FlushExchange
    <2> QED
      BY <2>1, <2>2, <2>3, <2>4
  <1>6. UNCHANGED frame \/ \E f : Locals(t, f) /\ f.sess \in {frame[t].sess, NoSession}
    <2>1. EmptyFrame.sess = NoSession
      BY DEF EmptyFrame
    <2>2. /\ \A n : [frame[t] EXCEPT !.amount = n].sess = frame[t].sess
          /\ [frame[t] EXCEPT !.ret = "idle"].sess = frame[t].sess
      BY <1>1 DEF Frame
    <2>3. CASE StartLock(t) \/ StartDisarm(t)
      BY <2>1, <2>2, <2>3, ZenonT(30) DEF StartLock, StartDisarm
    <2>4. CASE \/ BeginRecording(t) \/ CreateSessionFails(t) \/ StartDuck(t) \/ StartNotify(t)
               \/ EndRecording(t) \/ ScheduleCaptureStop(t) \/ FlushWake(t)
               \/ FlushReapedSessions(t) \/ FlushExchange(t) \/ FlushLook(t) \/ FlushStop(t)
               \/ FailNotify(t)
      BY <2>4 DEF BeginRecording, CreateSessionFails, StartDuck, StartNotify, EndRecording,
                  ScheduleCaptureStop, FlushWake, FlushReapedSessions, FlushExchange, FlushLook,
                  FlushStop, FailNotify
    <2>5. CASE TryDequeue(t) \/ HandleStartup(t) \/ StopCapture(t)
      BY <2>2, <2>5, ZenonT(30) DEF TryDequeue, HandleStartup, StopCapture
    <2>6. CASE HandleEnter(t)
      <3>1. PICK n : Locals(t, [frame[t] EXCEPT !.amount = n])
        BY <2>6, ZenonT(30) DEF HandleEnter
      <3> QED
        BY <2>2, <3>1, ZenonT(30)
    <2> QED
      BY <2>3, <2>4, <2>5, <2>6
  <1> QED
    BY <1>1, <1>2, <1>3, <1>4, <1>5, <1>6, QuietApart

(* The steps of a flush that copy the installed session, or look at it. *)
LEMMA FlushApart ==
    ASSUME SessionInv, NEW t \in Callers,
           HandleAppend(t) \/ PushAudio(t) \/ HandleCheck(t) \/ PollActiveSession(t)
             \/ FailActiveSession(t)
    PROVE  Apart'
  <1> USE DEF AliasLabels
  <1>1. t \in Threads /\ frame[t] \in Frame
    BY CallersAreThreads DEF SessionInv, TypeInv, ThreadsOK
  <1>2. t \notin Clients
    BY ZenonT(30) DEF SessionInv, Apart, ClientsCancel, ClientLabels, HandleAppend, PushAudio,
         HandleCheck,
           PollActiveSession, FailActiveSession
  <1>3. /\ \A n, s : [frame[t] EXCEPT !.amount = n, !.sess = s].sess = s
        /\ \A s, a : [frame[t] EXCEPT !.sess = s, !.after = a].sess = s
        /\ [frame[t] EXCEPT !.amount = 0].sess = frame[t].sess
    BY <1>1 DEF Frame
  <1>4. UNCHANGED <<order, deferred>>
    BY ZenonT(30) DEF HandleAppend, PushAudio, HandleCheck, PollActiveSession, FailActiveSession,
         lockVars,
           sessionVars
  <1>5. CASE HandleAppend(t)
    <2>1. pc[t] = "h_append" /\ UNCHANGED active
      BY <1>5, ZenonT(30) DEF HandleAppend, sessionVars
    <2>2. CASE active = NoSession
      BY <1>1, <1>2, <1>3, <1>4, <1>5, <2>1, <2>2, QuietApart, ZenonT(30) DEF HandleAppend
    <2>3. CASE active # NoSession
      <3>1. PICK n \in 0 .. ChunksPerRead :
              /\ Locals(t, [frame[t] EXCEPT !.amount = n, !.sess = IF n = 0 THEN NoSession ELSE active])
              /\ Goto(t, IF n = 0 THEN "f_dequeue" ELSE "h_push")
        BY <1>5, <2>3, ZenonT(30) DEF HandleAppend
      <3> DEFINE f == [frame[t] EXCEPT !.amount = n, !.sess = IF n = 0 THEN NoSession ELSE active]
      <3>2. Locals(t, f) /\ f.sess = IF n = 0 THEN NoSession ELSE active
        BY <1>1, <3>1 DEF Frame
      <3> HIDE DEF f
      <3>3. CASE n = 0
        <4>1. Goto(t, "f_dequeue") /\ Locals(t, f) /\ f.sess = NoSession
          BY <3>1, <3>2, <3>3
        <4> QED
          BY <1>1, <1>2, <1>4, <2>1, <4>1, QuietApart
      <3>4. CASE n # 0
        <4>1. Goto(t, "h_push") /\ Locals(t, f) /\ f.sess = active
          BY <3>1, <3>2, <3>4
        <4>2. SessionTaken(t, "h_push")
          BY <1>1, <1>2, <1>4, <2>1, <4>1, LocalsRead DEF SessionTaken, SessionInv
        <4> QED
          BY <4>2, TakenApart
      <3> QED
        BY <3>3, <3>4
    <2> QED
      BY <2>2, <2>3
  <1>6. CASE PushAudio(t)
    <2>1. PICK l \in {"h_check", "x_lock"} : Goto(t, l)
      BY <1>6 DEF PushAudio
    <2>2. UNCHANGED frame \/ \E f : Locals(t, f) /\ f.sess = frame[t].sess
      <3>1. [frame[t] EXCEPT !.after = "f_dequeue", !.amount = 0].sess = frame[t].sess
        BY <1>1 DEF Frame
      <3>2. UNCHANGED frame \/ Locals(t, [frame[t] EXCEPT !.after = "f_dequeue", !.amount = 0])
        BY <1>6 DEF PushAudio
      <3> QED
        BY <3>1, <3>2, ZenonT(30)
    <2>3. frame'[t].sess = frame[t].sess /\ \A u \in Threads : u # t => frame'[u] = frame[u]
      BY <1>1, <2>2, LocalsRead DEF SessionInv
    <2>4. UNCHANGED active
      BY <1>6 DEF PushAudio, sessionVars
    <2>5. l # "s_install" /\ l \in AliasLabels
      BY <2>1
    <2>6. \A s \in deferred' : s \in deferred \/ MayPark(s)
      BY <1>4
    <2>7. SessionStays(t, l)
      BY <1>2, <1>4, <2>1, <2>3, <2>4, <2>5, <2>6 DEF SessionStays
    <2> QED
      BY <1>1, <2>7, StaysApart
  <1>7. CASE HandleCheck(t)
    <2>1. pc[t] = "h_check" /\ UNCHANGED active
      BY <1>7 DEF HandleCheck, sessionVars
    <2>2. CASE active # frame[t].sess
      <3>1. SessionStays(t, "h_retire")
        BY <1>2, <1>4, <1>7, <2>1, <2>2 DEF SessionStays, HandleCheck
      <3> QED
        BY <1>1, <3>1, StaysApart
    <2>3. CASE active = frame[t].sess
      <3>1. PICK l \in {"f_dequeue", "h_push"} :
              /\ Goto(t, l)
              /\ Locals(t, [frame[t] EXCEPT !.amount = @ - 1,
                                            !.sess = IF frame[t].amount = 1 THEN NoSession ELSE @])
              /\ l = IF frame[t].amount = 1 THEN "f_dequeue" ELSE "h_push"
        BY <1>7, <2>3 DEF HandleCheck
      <3> DEFINE f == [frame[t] EXCEPT !.amount = @ - 1,
                                       !.sess = IF frame[t].amount = 1 THEN NoSession ELSE @]
      <3>2. Locals(t, f) /\ f.sess = IF frame[t].amount = 1 THEN NoSession ELSE frame[t].sess
        BY <1>1, <3>1 DEF Frame
      <3> HIDE DEF f
      <3>3. frame'[t].sess = f.sess /\ \A u \in Threads : u # t => frame'[u] = frame[u]
        BY <1>1, <3>2, LocalsRead DEF SessionInv
      <3>4. SessionStays(t, l)
        BY <1>2, <1>4, <2>1, <3>1, <3>2, <3>3 DEF SessionStays
      <3> QED
        BY <1>1, <3>4, StaysApart
    <2> QED
      BY <2>2, <2>3
  <1>8. CASE PollActiveSession(t)
    <2>1. pc[t] = "f_poll" /\ UNCHANGED active
      BY <1>8 DEF PollActiveSession, sessionVars
    <2>2. CASE Goto(t, "f_exchange") /\ UNCHANGED frame
      BY <1>1, <1>2, <1>4, <2>1, <2>2, QuietApart
    <2>3. CASE Locals(t, [frame[t] EXCEPT !.sess = active, !.after = "f_exchange"]) /\ Goto(t, "x_lock")
      <3>1. PICK f : Locals(t, f) /\ f.sess = active
        BY <1>3, <2>3, ZenonT(30)
      <3>2. SessionTaken(t, "x_lock")
        BY <1>1, <1>2, <1>4, <2>1, <2>3, <3>1, LocalsRead DEF SessionTaken, SessionInv
      <3> QED
        BY <3>2, TakenApart
    <2> QED
      BY <1>8, <2>2, <2>3 DEF PollActiveSession
  <1>9. CASE FailActiveSession(t)
    <2>1. pc[t] = "x_lock" /\ frame[t].after # "s_install"
      BY <1>1, <1>9 DEF FailActiveSession, Frame
    <2>2. CASE active # frame[t].sess
      <3>1. UNCHANGED active /\ Goto(t, frame[t].after)
        BY <1>9, <2>2 DEF FailActiveSession
      <3>2. PICK f : Locals(t, f) /\ f.sess = NoSession
        BY <1>3, <1>9, <2>2, ZenonT(30) DEF FailActiveSession
      <3>3. frame'[t].sess = NoSession /\ \A u \in Threads : u # t => frame'[u] = frame[u]
        BY <1>1, <3>2, LocalsRead DEF SessionInv
      <3>4. SessionStays(t, frame[t].after)
        BY <1>2, <1>4, <2>1, <3>1, <3>3 DEF SessionStays
      <3> QED
        BY <1>1, <3>4, StaysApart
    <2>3. CASE active = frame[t].sess
      <3>1. active' = NoSession /\ Goto(t, "x_cancel") /\ UNCHANGED frame
        BY <1>9, <2>3 DEF FailActiveSession, DetachActive
      <3>2. SessionStays(t, "x_cancel")
        BY <1>2, <1>4, <2>1, <3>1 DEF SessionStays
      <3> QED
        BY <1>1, <3>2, StaysApart
    <2> QED
      BY <2>2, <2>3
  <1> QED
    BY <1>5, <1>6, <1>7, <1>8, <1>9

LEMMA CreateApart ==
    ASSUME SessionInv, NEW t \in Callers, CreateSession(t)
    PROVE  Apart'
  <1> USE CallersAreThreads
  <1>1. t \in Threads /\ frame[t] \in Frame /\ t \notin Clients
    BY DEF SessionInv, TypeInv, ThreadsOK, Apart, ClientsCancel, ClientLabels, CreateSession
  <1>2. PICK s \in Sessions : ~Referenced(s) /\ Locals(t, [frame[t] EXCEPT !.sess = s])
    BY DEF CreateSession
  <1>3. /\ s # NoSession /\ s # active /\ s # order.session /\ s \notin deferred
        /\ \A u \in Threads : frame[u].sess # s
    BY <1>2, SessionsAssumption DEF Referenced
  <1> DEFINE f == [frame[t] EXCEPT !.sess = s]
  <1>4. f.sess = s /\ Locals(t, f)
    BY <1>1, <1>2 DEF Frame
  <1> HIDE DEF f
  <1>5. /\ \A u \in Threads : frame'[u].sess = IF u = t THEN s ELSE frame[u].sess
        /\ \A u \in Threads : u # t => frame'[u] = frame[u]
    BY <1>1, <1>4, LocalsRead DEF SessionInv
  <1>6. \A u \in Threads : pc'[u] = IF u = t THEN "s_install" ELSE pc[u]
    BY <1>1, GotoRead DEF CreateSession, SessionInv
  <1>7. UNCHANGED <<active, order, deferred>>
    BY DEF CreateSession, lockVars, sessionVars
  <1>8. frame'["worker"].sess = frame["worker"].sess
    BY <1>5
  <1>9. HeldAreApart'
    BY <1>3, <1>5, <1>6, <1>7, <1>8 DEF SessionInv, Apart, HeldAreApart
  <1>10. FreshIsOwn'
    BY <1>3, <1>5, <1>6, <1>7 DEF SessionInv, Apart, FreshIsOwn
  <1>11. InstalledIsOwn' /\ RetiredIsDead'
    BY <1>7, <1>8 DEF SessionInv, Apart, InstalledIsOwn, RetiredIsDead
  <1>12. ClientsCancel'
    BY <1>1, <1>5, <1>6 DEF SessionInv, Apart, ClientsCancel, Threads, Callers
  <1> QED
    BY <1>9, <1>10, <1>11, <1>12 DEF Apart

LEMMA InstallApart ==
    ASSUME SessionInv, NEW t \in Callers, StartInstall(t)
    PROVE  Apart'
  <1> USE CallersAreThreads
  <1>1. t \in Threads /\ frame[t] \in Frame /\ t \notin Clients /\ pc[t] = "s_install"
    BY DEF SessionInv, TypeInv, ThreadsOK, Apart, ClientsCancel, ClientLabels, StartInstall
  <1>2. CASE ~startInProgress \/ machine.phase # "Idle"
    <2> DEFINE f == [EmptyFrame EXCEPT !.sess = frame[t].sess]
    <2>1. f.sess = frame[t].sess
      BY DEF EmptyFrame
    <2>2. Locals(t, f) /\ Goto(t, "t_end") /\ UNCHANGED <<order, active, deferred>>
      BY <1>2 DEF StartInstall
    <2> HIDE DEF f
    <2> QED
      BY <1>1, <2>1, <2>2, QuietApart DEF AliasLabels
  <1>3. CASE ~(~startInProgress \/ machine.phase # "Idle")
    <2> DEFINE s == frame[t].sess
    <2>1. /\ order' = NoOrder /\ active' = s /\ RetireIfAny(active) /\ Locals(t, EmptyFrame)
          /\ Goto(t, "s_duck")
      BY <1>3 DEF StartInstall
    <2>2. /\ s # NoSession /\ s # active /\ s # frame["worker"].sess /\ s \notin deferred
          /\ \A u \in Threads : u # t => frame[u].sess # s
      BY <1>1, SessionsTyped DEF SessionTypes, HoldsSession, SessionInv, Apart, HeldAreApart,
                                 FreshIsOwn, AliasLabels
    <2>3. /\ \A u \in Threads : frame'[u].sess = IF u = t THEN NoSession ELSE frame[u].sess
          /\ \A u \in Threads : u # t => frame'[u] = frame[u]
      <3>1. EmptyFrame.sess = NoSession
        BY DEF EmptyFrame
      <3>2. frame'[t] = EmptyFrame /\ \A u \in Threads : u # t => frame'[u] = frame[u]
        BY <1>1, <2>1, LocalsRead, ZenonT(30) DEF SessionInv
      <3> QED
        BY <3>1, <3>2, ZenonT(30)
    <2>4. \A u \in Threads : pc'[u] = IF u = t THEN "s_duck" ELSE pc[u]
      BY <1>1, <2>1, GotoRead DEF SessionInv
    <2>5. order'.session = NoSession /\ frame'["worker"].sess = frame["worker"].sess
      BY <1>1, <2>1, <2>3 DEF NoOrder
    <2>6. \A x \in deferred' : x \in deferred \/ (x = active /\ x # NoSession)
      BY <2>1 DEF RetireIfAny, Park
    <2>7. HeldAreApart'
      BY <2>1, <2>2, <2>3, <2>4, <2>5 DEF SessionInv, Apart, HeldAreApart
    <2>8. FreshIsOwn'
      <3>1. SUFFICES ASSUME NEW u \in Callers, pc'[u] = "s_install"
                     PROVE  /\ frame'[u].sess \notin deferred'
                            /\ \A v \in Threads : v # u => frame'[v].sess # frame'[u].sess
        BY DEF FreshIsOwn
      <3>2. u # t /\ pc[u] = "s_install" /\ frame'[u].sess = frame[u].sess
        BY <2>3, <2>4, <3>1
      <3>3. frame[u].sess # NoSession /\ frame[u].sess # active /\ frame[u].sess \notin deferred
        BY <3>2, SessionsTyped DEF SessionTypes, HoldsSession, SessionInv, Apart, HeldAreApart,
                                   FreshIsOwn, AliasLabels
      <3>4. \A v \in Threads : v # u => frame'[v].sess # frame[u].sess
        BY <2>3, <3>2, <3>3 DEF SessionInv, Apart, FreshIsOwn
      <3> QED
        BY <2>6, <3>2, <3>3, <3>4
    <2>9. InstalledIsOwn'
      BY <2>1, <2>2, <2>5 DEF InstalledIsOwn
    <2>10. ClientsCancel'
      BY <1>1, <2>3, <2>4 DEF SessionInv, Apart, ClientsCancel, Threads, Callers
    <2>11. RetiredIsDead'
      <3>1. \A x \in deferred : x # NoSession
        BY SessionsTyped DEF SessionTypes
      <3> QED
        BY <2>1, <2>2, <2>5, <2>6, <3>1 DEF SessionInv, Apart, RetiredIsDead, InstalledIsOwn
    <2> QED
      BY <2>7, <2>8, <2>9, <2>10, <2>11 DEF Apart
  <1> QED
    BY <1>2, <1>3

LEMMA StopApart ==
    ASSUME SessionInv, NEW t \in Callers, StopLock(t)
    PROVE  Apart'
  <1> USE CallersAreThreads
  <1>1. t \in Threads /\ frame[t] \in Frame /\ t \notin Clients /\ pc[t] = "p_lock"
    BY DEF SessionInv, TypeInv, ThreadsOK, Apart, ClientsCancel, ClientLabels, StopLock
  <1>2. active' = NoSession /\ UNCHANGED deferred
    BY DEF StopLock, DetachActive
  <1>3. CASE active = NoSession
    <2> DEFINE f == [frame[t] EXCEPT !.amount = 0]
    <2>1. f.sess = frame[t].sess
      BY <1>1 DEF Frame
    <2>2. Locals(t, f) /\ Goto(t, "m_apply") /\ order' = NoOrder
      BY <1>3 DEF StopLock
    <2> HIDE DEF f
    <2> QED
      BY <1>1, <1>2, <1>3, <2>1, <2>2, QuietApart DEF AliasLabels, NoOrder
  <1>4. CASE /\ active # NoSession /\ order' = NoOrder /\ Goto(t, "r_retire")
             /\ Locals(t, [frame[t] EXCEPT !.amount = 0, !.sess = active, !.apply = TRUE])
    <2> DEFINE f == [frame[t] EXCEPT !.amount = 0, !.sess = active, !.apply = TRUE]
    <2>1. f.sess = active /\ Locals(t, f)
      BY <1>1, <1>4 DEF Frame
    <2> HIDE DEF f
    <2>2. frame'[t].sess = active /\ \A u \in Threads : u # t => frame'[u] = frame[u]
      BY <1>1, <2>1, LocalsRead DEF SessionInv
    <2>3. SessionTaken(t, "r_retire")
      BY <1>1, <1>2, <1>4, <2>2 DEF SessionTaken, NoOrder
    <2> QED
      BY <2>3, TakenApart
  <1>5. CASE /\ active # NoSession /\ order'.session = active /\ Goto(t, "idle")
             /\ Locals(t, [frame[t] EXCEPT !.amount = 0])
    <2> DEFINE f == [frame[t] EXCEPT !.amount = 0]
    <2>1. f.sess = frame[t].sess /\ Locals(t, f)
      BY <1>1, <1>5 DEF Frame
    <2> HIDE DEF f
    <2>2. /\ \A u \in Threads : frame'[u].sess = frame[u].sess
          /\ \A u \in Threads : u # t => frame'[u] = frame[u]
      BY <1>1, <2>1, LocalsRead DEF SessionInv
    <2>3. \A u \in Threads : pc'[u] = IF u = t THEN "idle" ELSE pc[u]
      BY <1>1, <1>5, GotoRead DEF SessionInv
    <2>4. \A u \in Callers : u # t => u \in Clients
      BY <1>1 DEF Callers
    <2>5. \A u \in Callers : pc[u] \notin AliasLabels
      BY <1>1, <2>4 DEF SessionInv, Apart, ClientsCancel, ClientLabels, AliasLabels
    <2>6. \A u \in Callers : frame[u].sess # active
      BY <1>5, <2>5 DEF SessionInv, Apart, HeldAreApart
    <2>7. HeldAreApart'
      BY <1>2, <1>5, <2>2, <2>6 DEF SessionInv, Apart, HeldAreApart
    <2>8. FreshIsOwn'
      BY <1>1, <1>2, <2>2, <2>3 DEF SessionInv, Apart, FreshIsOwn
    <2>9. InstalledIsOwn'
      BY <1>2 DEF InstalledIsOwn
    <2>10. ClientsCancel'
      BY <1>1, <2>2, <2>3 DEF SessionInv, Apart, ClientsCancel, Threads, Callers
    <2>11. RetiredIsDead'
      BY <1>2, <1>5, <2>2, SessionsTyped DEF SessionInv, Apart, RetiredIsDead, SessionTypes
    <2> QED
      BY <2>7, <2>8, <2>9, <2>10, <2>11 DEF Apart
  <1> QED
    BY <1>3, <1>4, <1>5 DEF StopLock, Request

LEMMA WorkerApart ==
    ASSUME SessionInv, Worker
    PROVE  Apart'
  <1> USE CallersAreThreads
  <1>1. frame["worker"] \in Frame /\ "worker" \notin Clients
    BY ThreadsAssumption DEF SessionInv, TypeInv, ThreadsOK
  <1>2. CASE WorkerWait /\ order # NoOrder
    <2> DEFINE f == [frame["worker"] EXCEPT !.sess = order.session, !.ime = order.ime]
    <2>1. f.sess = order.session /\ Locals("worker", f) /\ order' = MovedOrder
      BY <1>1, <1>2 DEF WorkerWait, Frame
    <2>2. PICK l \in {"w_pipeline", "w_finish"} : Goto("worker", l)
      BY <1>2 DEF WorkerWait
    <2> HIDE DEF f
    <2>3. /\ frame'["worker"].sess = order.session /\ order'.session = NoSession
          /\ \A u \in Callers : frame'[u] = frame[u] /\ pc'[u] = pc[u]
          /\ UNCHANGED <<active, deferred>>
      BY <1>2, <2>1, <2>2, LocalsRead, GotoRead DEF SessionInv, WorkerWait, sessionVars, MovedOrder
    <2>4. HeldAreApart'
      BY <2>3 DEF SessionInv, Apart, HeldAreApart
    <2>5. FreshIsOwn'
      <3>1. SUFFICES ASSUME NEW u \in Callers, pc[u] = "s_install"
                     PROVE  /\ frame[u].sess \notin deferred
                            /\ \A v \in Threads : v # u => frame'[v].sess # frame[u].sess
        BY <2>3 DEF FreshIsOwn
      <3>2. frame[u].sess # NoSession
        BY <3>1, SessionsTyped DEF SessionTypes, HoldsSession
      <3>3. frame'["worker"].sess # frame[u].sess
        BY <2>3, <3>1, <3>2 DEF SessionInv, Apart, HeldAreApart
      <3>4. \A v \in Callers : v # u => frame'[v].sess # frame[u].sess
        BY <2>3, <3>1 DEF SessionInv, Apart, FreshIsOwn
      <3> QED
        BY <3>1, <3>3, <3>4 DEF SessionInv, Apart, FreshIsOwn, Threads
    <2>6. InstalledIsOwn'
      BY <2>3 DEF SessionInv, Apart, InstalledIsOwn
    <2>7. ClientsCancel'
      BY <2>3 DEF SessionInv, Apart, ClientsCancel, Callers
    <2>8. RetiredIsDead'
      BY <2>3, SessionsTyped DEF SessionInv, Apart, RetiredIsDead, SessionTypes
    <2> QED
      BY <2>4, <2>5, <2>6, <2>7, <2>8 DEF Apart
  <1>3. CASE \/ WorkerLoop \/ (WorkerWait /\ order = NoOrder) \/ WorkerPipeline \/ WorkerProcess
             \/ WorkerTake \/ WorkerEmit \/ WorkerExcept
    <2>1. UNCHANGED <<frame, active, order, deferred>>
      BY <1>3 DEF WorkerLoop, WorkerWait, WorkerPipeline, WorkerProcess, WorkerTake, WorkerEmit,
                  WorkerExcept, lockVars, sessionVars
    <2>2. PICK l \in {"w_wait", "done", "w_take", "w_enter", "w_except", "w_emit", "z_lock"} :
            Goto("worker", l)
      BY <1>3 DEF WorkerLoop, WorkerWait, WorkerPipeline, WorkerProcess, WorkerTake, WorkerEmit,
                  WorkerExcept
    <2> QED
      BY <1>1, <2>1, <2>2, QuietApart
  <1>4. CASE WorkerFinish \/ EnterPostprocessing \/ EnterEmit
    <2>1. UNCHANGED <<active, order, deferred>>
      BY <1>4, ZenonT(30) DEF WorkerFinish, EnterPostprocessing, EnterEmit, lockVars, sessionVars
    <2>2. PICK l \in {"w_pipeline", "z_lock", "w_except", "w_enter_emit", "w_llm"} : Goto("worker", l)
      BY <1>4, ZenonT(30) DEF WorkerFinish, EnterPostprocessing, EnterEmit
    <2>3. /\ \A b : [frame["worker"] EXCEPT !.wasIme = b].sess = frame["worker"].sess
          /\ [frame["worker"] EXCEPT !.sess = NoSession].sess = NoSession
      BY <1>1 DEF Frame
    <2>4. UNCHANGED frame \/ \E f : Locals("worker", f) /\ f.sess \in {frame["worker"].sess, NoSession}
      BY <1>4, <2>3, ZenonT(30) DEF WorkerFinish, EnterPostprocessing, EnterEmit
    <2> QED
      BY <1>1, <2>1, <2>2, <2>4, QuietApart
  <1> QED
    BY <1>2, <1>3, <1>4 DEF Worker

LEMMA LoopApart ==
    ASSUME SessionInv,
           \/ MainFlush \/ ExpireLook \/ ExpireDestroy \/ Quit \/ Shutdown
           \/ AudioArrives \/ SessionWakes \/ Terminated \/ UNCHANGED vars
    PROVE  Apart'
  <1> USE CallersAreThreads DEF AliasLabels
  <1>1. "main" \notin Clients
    BY ThreadsAssumption
  <1>2. CASE MainFlush \/ ExpireLook \/ ExpireDestroy \/ Quit \/ ShutdownCapture \/ ShutdownLock
    <2>1. /\ UNCHANGED <<frame, active, order, deferred>>
          /\ pc["main"] \in {"idle", "e_destroy", "q_capture", "q_lock"}
      BY <1>2 DEF MainFlush, ExpireLook, ExpireDestroy, Quit, ShutdownCapture, ShutdownLock,
                  lockVars, sessionVars
    <2>2. PICK l \in {"f_wake", "e_destroy", "idle", "q_capture", "q_restore", "q_active"} :
            Goto("main", l)
      BY <1>2 DEF MainFlush, ExpireLook, ExpireDestroy, Quit, ShutdownCapture, ShutdownLock
    <2> QED
      BY <1>1, <2>1, <2>2, QuietApart
  <1>3. CASE ShutdownActive
    <2>1. /\ pc["main"] = "q_active" /\ UNCHANGED <<frame, order>> /\ active' = NoSession
          /\ Goto("main", "q_join") /\ RetireIfAny(active)
      BY <1>3 DEF ShutdownActive, lockVars, DetachActive
    <2>2. active # NoSession => MayPark(active)
      BY <2>1 DEF MayPark, SessionInv, Apart, InstalledIsOwn, HeldAreApart
    <2>3. \A s \in deferred' : s \in deferred \/ MayPark(s)
      BY <2>1, <2>2 DEF RetireIfAny, Park
    <2>4. SessionStays("main", "q_join")
      BY <1>1, <2>1, <2>3 DEF SessionStays
    <2> QED
      BY <2>4, StaysApart
  <1>4. CASE ShutdownJoin
    <2>1. /\ pc["main"] = "q_join" /\ UNCHANGED <<frame, order>> /\ active' = NoSession
          /\ Goto("main", "exit") /\ deferred' = {}
      BY <1>4 DEF ShutdownJoin, lockVars
    <2>2. SessionStays("main", "exit")
      BY <1>1, <2>1 DEF SessionStays
    <2> QED
      BY <2>2, StaysApart
  <1>5. CASE AudioArrives \/ SessionWakes \/ Terminated \/ UNCHANGED vars
    <2>1. UNCHANGED <<frame, active, order, deferred, pc>>
      BY <1>5 DEF AudioArrives, SessionWakes, Terminated, vars, lockVars, sessionVars
    <2> QED
      BY <2>1 DEF SessionInv, Apart, HeldAreApart, FreshIsOwn, InstalledIsOwn, ClientsCancel,
                  RetiredIsDead
  <1> QED
    BY <1>2, <1>3, <1>4, <1>5 DEF Shutdown

LEMMA SessionInit ==
    ASSUME Init
    PROVE  SessionInv
  <1>1. TypeInv
    BY InitTypes
  <1>2. \A t \in Threads : frame[t].sess = NoSession /\ pc[t] # "s_install"
    BY DEF Init, EmptyFrame
  <1>3. active = NoSession /\ deferred = {}
    BY DEF Init
  <1>4. ClientsCancel
    BY ThreadsAssumption DEF Init, ClientsCancel, ClientLabels, EmptyFrame, Threads, Callers
  <1> QED
    BY <1>1, <1>2, <1>3, <1>4, CallersAreThreads
       DEF SessionInv, Apart, HeldAreApart, FreshIsOwn, InstalledIsOwn, RetiredIsDead

LEMMA SessionNext ==
    ASSUME ClientCommands \subseteq {"cancel", "inject"}, SessionInv, [Next]_vars
    PROVE  SessionInv'
  <1>1. TypeInv'
    BY NextTypes DEF SessionInv
  <1>2. ASSUME NEW t \in Callers, Step(t)
        PROVE  Apart'
    BY <1>2, MainQuietApart, FlushApart, RetireApart, CloseApart, CreateApart, InstallApart, StopApart
       DEF Step
  <1>3. Apart'
    BY <1>2, CommandApart, SharedApart, WorkerApart, LoopApart DEF Next
  <1> QED
    BY <1>1, <1>3 DEF SessionInv

(* However many clients cancel recordings and inject texts from their own  *)
(* threads while the input method starts, stops and cancels, and also      *)
(* during shutdown: a session RetireSession() has parked is neither        *)
(* installed nor with the worker, so the main thread, which joins it in    *)
(* FlushReapedSessions(), waits for no live recognition.                   *)
THEOREM RetiredDead ==
    ASSUME ClientCommands \subseteq {"cancel", "inject"} PROVE Spec => []RetiredIsDead
  <1>1. Init => SessionInv
    BY SessionInit
  <1>2. SessionInv /\ [Next]_vars => SessionInv'
    BY SessionNext
  <1>3. SessionInv => RetiredIsDead
    BY DEF SessionInv, Apart
  <1> QED
    BY <1>1, <1>2, <1>3, PTL DEF Spec

-----------------------------------------------------------------------------
(* A daemon whose clients, if any, only cancel: what a recording sets up.  *)

Arming == {"s_begin", "s_create", "s_install", "s_disarm", "s_disarm_abort"}
Failing == {"x_cancel", "x_wake", "x_notify", "t_end"}
Stopping == {"p_stop", "p_restore", "p_lock"}

(* Whatever a recording sets up belongs to a recording the daemon reports, *)
(* or the main thread is on its way to set it up or to undo it.            *)
Reported == machine.phase = "Recording" /\ ~ShuttingDown
ArmedInPlace == startInProgress => pc["main"] \in Arming
AcceptingInPlace ==
    accepting => (Reported /\ pc["main"] \notin Stopping) \/ pc["main"] \in Arming

(* A client that cancelled the recording closes the microphone itself; the *)
(* output it restores may be ducked after that.                            *)
ClientStops == \E t \in Clients : pc[t] = "c_stop"
Heard == recording /\ ~ClientStops
Muted == ducked /\ Clients = {}

RecordingInPlace ==
    Heard => \/ Reported /\ pc["main"] \notin {"p_restore", "p_lock"}
             \/ pc["main"] \in {"s_create", "s_install", "c_stop", "q_capture"} \cup Failing
DuckedInPlace ==
    Muted => \/ Reported /\ pc["main"] # "p_lock"
             \/ pc["main"] \in {"c_stop", "c_restore", "t_restore", "q_capture", "q_restore"}
                                 \cup Failing
DuckingReported == pc["main"] = "s_duck" /\ Clients = {} => Reported
NothingLeft == pc["main"] = "exit" /\ Clients = {} => active = NoSession /\ deferred = {}

SetUpInPlace ==
    /\ ArmedInPlace /\ AcceptingInPlace /\ RecordingInPlace /\ DuckedInPlace
    /\ DuckingReported /\ NothingLeft

RecordingInv == OwnerInv /\ SetUpInPlace

(* Nothing is set up. *)
SetsNothingUp ==
    /\ startInProgress' => startInProgress
    /\ accepting' => accepting
    /\ Heard' => Heard
    /\ Muted' => Muted

(* The report lasts as long as the session is installed. *)
LEMMA ReportKept ==
    ASSUME OwnerInv, OwnerInv', UNCHANGED active, ShuttingDown' = ShuttingDown
    PROVE  Reported' <=> Reported
    BY DEF Reported, OwnerInv, OwnerOK, PhaseTells

LEMMA SetUpUnmoved ==
    ASSUME RecordingInv, OwnerInv', pc'["main"] = pc["main"], UNCHANGED active,
           Clients = {} => UNCHANGED deferred, SetsNothingUp
    PROVE  SetUpInPlace'
  <1>1. ShuttingDown' = ShuttingDown
    BY DEF ShuttingDown
  <1>2. Reported' <=> Reported
    BY <1>1, ReportKept DEF RecordingInv
  <1> QED
    BY <1>2 DEF SetsNothingUp, RecordingInv, SetUpInPlace, ArmedInPlace, AcceptingInPlace,
                RecordingInPlace, DuckedInPlace, DuckingReported, NothingLeft

(* The labels at which nothing is being set up or undone. *)
Settled ==
    Labels \ (Arming \cup Failing \cup Stopping \cup ShutdownLabels
                \cup {"c_stop", "c_restore", "t_restore"})

LEMMA SettledStep ==
    ASSUME RecordingInv, OwnerInv', NEW l, Goto("main", l), pc["main"] \in Settled,
           l \notin Stopping \cup ShutdownLabels \cup {"s_duck"}, UNCHANGED active, SetsNothingUp
    PROVE  SetUpInPlace'
  <1>1. pc'["main"] = l
    BY CallersAreThreads, GotoRead DEF RecordingInv, OwnerInv
  <1>2. ShuttingDown = FALSE /\ ShuttingDown' = FALSE
    BY <1>1 DEF ShuttingDown, Settled
  <1>3. Reported' <=> Reported
    BY <1>2, ReportKept, ZenonT(30) DEF RecordingInv
  <1>4. /\ ~startInProgress'
        /\ accepting' => Reported
        /\ Heard' => Reported
        /\ Muted' => Reported
    BY DEF SetsNothingUp, RecordingInv, SetUpInPlace, ArmedInPlace, AcceptingInPlace,
           RecordingInPlace, DuckedInPlace, Settled, ShutdownLabels, Arming
  <1> QED
    BY <1>1, <1>3, <1>4 DEF SetUpInPlace, ArmedInPlace, AcceptingInPlace, RecordingInPlace,
         DuckedInPlace, DuckingReported, NothingLeft, Stopping, ShutdownLabels

(* Flushing, and the ends of the methods. *)
LEMMA SettledSteps ==
    ASSUME RecordingInv, OwnerInv', ClientStops' <=> ClientStops, NEW m, m = "main",
           \/ StartNotify(m) \/ ScheduleCaptureStop(m) \/ FlushWake(m) \/ FlushReapedSessions(m)
           \/ TryDequeue(m) \/ HandleEnter(m) \/ HandleStartup(m) \/ HandleAppend(m) \/ PushAudio(m)
           \/ HandleCheck(m) \/ HandleRetire(m) \/ PollActiveSession(m) \/ FlushExchange(m)
           \/ FlushLook(m) \/ FlushStop(m) \/ RetireDetached(m) \/ ResetLock(m) \/ ResetEmit(m)
           \/ MaybeApplyPendingReload(m)
           \/ MainFlush \/ ExpireLook \/ ExpireDestroy
    PROVE  SetUpInPlace'
  <1> USE DEF Arming, Failing, Stopping, ShutdownLabels, Heard, Muted
  <1>1. frame[m] \in Frame /\ frame[m].ret \in {"idle", "s_lock", "w_loop"}
    BY CallersAreThreads DEF RecordingInv, OwnerInv, TypeInv, ThreadsOK, Frame
  <1>2. /\ UNCHANGED <<active, accepting, ducked>>
        /\ startInProgress' = startInProgress \/ startInProgress' = FALSE
        /\ recording' = recording \/ recording' = FALSE
    <2>1. CASE \/ StartNotify(m) \/ ScheduleCaptureStop(m) \/ FlushWake(m) \/ FlushReapedSessions(m)
               \/ TryDequeue(m) \/ HandleEnter(m) \/ HandleStartup(m) \/ HandleAppend(m) \/ PushAudio(m)
               \/ HandleCheck(m) \/ HandleRetire(m) \/ PollActiveSession(m)
      BY <2>1, ZenonT(30) DEF StartNotify, ScheduleCaptureStop, FlushWake, FlushReapedSessions,
           TryDequeue,
           HandleEnter, HandleStartup, HandleAppend, PushAudio, HandleCheck, HandleRetire,
           PollActiveSession, lockVars, flagVars, sessionVars, deviceVars
    <2>2. CASE \/ FlushExchange(m) \/ FlushLook(m) \/ FlushStop(m) \/ RetireDetached(m)
               \/ ResetLock(m) \/ ResetEmit(m) \/ MaybeApplyPendingReload(m)
               \/ MainFlush \/ ExpireLook \/ ExpireDestroy
      BY <2>2 DEF FlushExchange, FlushLook, FlushStop, RetireDetached, ResetLock, ResetEmit,
           MaybeApplyPendingReload, MainFlush, ExpireLook, ExpireDestroy,
           lockVars, flagVars, sessionVars, deviceVars
    <2> QED
      BY <2>1, <2>2, ZenonT(30)
  <1>3. SetsNothingUp
    BY <1>2 DEF SetsNothingUp
  <1>4. pc[m] \in {"s_notify", "t_schedule", "f_wake", "f_reap", "f_dequeue", "h_enter", "h_startup",
                   "h_append", "h_push", "h_check", "h_retire", "f_poll", "f_exchange", "f_look",
                   "f_stop", "r_retire", "z_lock", "z_emit", "m_apply", "idle", "e_destroy"}
    BY ZenonT(30) DEF StartNotify, ScheduleCaptureStop, FlushWake, FlushReapedSessions, TryDequeue,
           HandleEnter, HandleStartup, HandleAppend, PushAudio, HandleCheck, HandleRetire,
           PollActiveSession, FlushExchange, FlushLook, FlushStop, RetireDetached, ResetLock,
           ResetEmit, MaybeApplyPendingReload, MainFlush, ExpireLook, ExpireDestroy
  <1>5. pc[m] \in Settled
    BY <1>4 DEF Settled, Labels, StartLabels, TailLabels, FlushLabels, LookLabels,
         HandleLabels,
                ResetLabels, CloseLabels
  <1>6. PICK l : /\ Goto(m, l)
                 /\ l \in {"idle", "t_wake", "f_reap", "f_dequeue", "f_poll", "h_enter", "h_startup",
                           "h_append", "h_push", "h_check", "x_lock", "h_retire", "h_wake",
                           "f_exchange", "f_look", "f_skip", "f_stop", "f_restore", "r_wake",
                           "z_restore", "m_apply", "f_wake", "e_destroy", frame[m].ret}
    <2>1. CASE \/ StartNotify(m) \/ ScheduleCaptureStop(m) \/ FlushWake(m) \/ FlushReapedSessions(m)
               \/ TryDequeue(m) \/ HandleEnter(m) \/ HandleStartup(m)
      BY <2>1, ZenonT(30)
         DEF StartNotify, ScheduleCaptureStop, FlushWake, FlushReapedSessions, TryDequeue,
             HandleEnter, HandleStartup
    <2>2. CASE \/ HandleAppend(m) \/ PushAudio(m) \/ HandleCheck(m) \/ HandleRetire(m)
               \/ PollActiveSession(m)
      BY <2>2, ZenonT(30) DEF HandleAppend, PushAudio, HandleCheck, HandleRetire, PollActiveSession
    <2>3. CASE \/ FlushExchange(m) \/ FlushLook(m) \/ FlushStop(m) \/ RetireDetached(m)
               \/ ResetLock(m) \/ ResetEmit(m) \/ MaybeApplyPendingReload(m)
               \/ MainFlush \/ ExpireLook \/ ExpireDestroy
      BY <2>3 DEF FlushExchange, FlushLook, FlushStop, RetireDetached, ResetLock, ResetEmit,
           MaybeApplyPendingReload, MainFlush, ExpireLook, ExpireDestroy
    <2> QED
      BY <2>1, <2>2, <2>3
  <1>7. l \notin Stopping \cup ShutdownLabels \cup {"s_duck"}
    BY <1>1, <1>6
  <1> QED
    BY <1>2, <1>3, <1>5, <1>6, <1>7, SettledStep

(* A step of the main thread that sets up or undoes. *)
LEMMA MainRead ==
    ASSUME RecordingInv, NEW l, Goto("main", l)
    PROVE  pc'["main"] = l
    BY CallersAreThreads, GotoRead DEF RecordingInv, OwnerInv

LEMMA StartSteps ==
    ASSUME RecordingInv, OwnerInv', ClientStops' <=> ClientStops, NEW m, m = "main",
           \/ StartLock(m) \/ BeginRecording(m) \/ StartDisarm(m) \/ CreateSession(m)
           \/ CreateSessionFails(m) \/ StartInstall(m) \/ StartDuck(m)
    PROVE  SetUpInPlace'
  <1> USE DEF Arming, Failing, Stopping, ShutdownLabels, Heard, Muted
  <1>1. machine \in Machine
    BY DEF RecordingInv, OwnerInv, TypeInv, FieldsOK, LockOK
  <1>2. /\ ArmedInPlace /\ AcceptingInPlace /\ RecordingInPlace /\ DuckedInPlace /\ DuckingReported
    BY DEF RecordingInv, SetUpInPlace
  <1>3. CASE StartLock(m)
    <2>1. pc[m] = "s_lock" /\ UNCHANGED <<active, recording, ducked, machine>>
      BY <1>3 DEF StartLock, sessionVars, deviceVars
    <2>2. CASE Busy
      <3>1. Goto(m, "idle") /\ UNCHANGED <<startInProgress, accepting>>
        BY <1>3, <2>2 DEF StartLock
      <3>2. SetsNothingUp /\ pc[m] \in Settled
        BY <2>1, <3>1 DEF SetsNothingUp, Settled, Labels, StartLabels
      <3> QED
        BY <2>1, <3>1, <3>2, SettledStep
    <2>3. CASE ~Busy
      <3>1. machine.phase = "Idle" /\ pc'[m] = "s_begin"
        BY <1>3, <2>3, MainRead DEF StartLock, Busy
      <3>2. ~Heard /\ ~Muted
        BY <1>2, <2>1, <3>1 DEF RecordingInPlace, DuckedInPlace, Reported
      <3> QED
        BY <2>1, <3>1, <3>2 DEF SetUpInPlace, ArmedInPlace, AcceptingInPlace, RecordingInPlace,
             DuckedInPlace, DuckingReported, NothingLeft
    <2> QED
      BY <2>2, <2>3
  <1>4. CASE BeginRecording(m) \/ CreateSession(m) \/ CreateSessionFails(m)
    <2>1. /\ pc[m] \in {"s_begin", "s_create"} /\ UNCHANGED <<startInProgress, accepting, ducked, machine>>
      BY <1>4 DEF BeginRecording, CreateSession, CreateSessionFails, lockVars, flagVars, deviceVars
    <2>2. PICK l \in {"s_create", "s_disarm", "s_install", "s_disarm_abort"} :
            /\ Goto(m, l)
            /\ l \in {"s_disarm", "s_disarm_abort"} => recording' = FALSE
      BY <1>4 DEF BeginRecording, CreateSession, CreateSessionFails, ReleaseStream
    <2>3. pc'[m] = l /\ ShuttingDown' = FALSE /\ ShuttingDown = FALSE
      BY <2>1, <2>2, MainRead DEF ShuttingDown
    <2>4. Muted' => Reported'
      BY <1>2, <2>1, <2>3 DEF DuckedInPlace, Reported
    <2> QED
      BY <2>2, <2>3, <2>4 DEF SetUpInPlace, ArmedInPlace, AcceptingInPlace, RecordingInPlace,
           DuckedInPlace, DuckingReported, NothingLeft
  <1>5. CASE StartDisarm(m)
    <2>1. /\ pc[m] \in {"s_disarm", "s_disarm_abort"} /\ UNCHANGED <<recording, ducked, machine>>
          /\ startInProgress' = FALSE /\ accepting' = FALSE
      BY <1>5 DEF StartDisarm, Disarm, deviceVars
    <2>2. PICK l \in {"idle", "t_restore"} : Goto(m, l)
      BY <1>5 DEF StartDisarm
    <2>3. pc'[m] = l /\ ShuttingDown' = FALSE /\ ShuttingDown = FALSE
      BY <2>1, <2>2, MainRead DEF ShuttingDown
    <2>4. (Muted' => Reported') /\ (Heard' => Reported')
      BY <1>2, <2>1, <2>3 DEF DuckedInPlace, RecordingInPlace, Reported
    <2> QED
      BY <2>1, <2>2, <2>3, <2>4 DEF SetUpInPlace, ArmedInPlace, AcceptingInPlace, RecordingInPlace,
           DuckedInPlace, DuckingReported, NothingLeft
  <1>6. CASE StartInstall(m)
    <2>1. pc[m] = "s_install" /\ UNCHANGED <<recording, ducked>>
      BY <1>6 DEF StartInstall, deviceVars
    <2>2. CASE ~startInProgress \/ machine.phase # "Idle"
      <3>1. /\ startInProgress' = FALSE /\ accepting' = FALSE /\ Goto(m, "t_end")
        BY <1>6, <2>2 DEF StartInstall, Disarm
      <3>2. pc'[m] = "t_end"
        BY <3>1, MainRead
      <3> QED
        BY <3>1, <3>2 DEF SetUpInPlace, ArmedInPlace, AcceptingInPlace, RecordingInPlace,
             DuckedInPlace, DuckingReported, NothingLeft
    <2>3. CASE ~(~startInProgress \/ machine.phase # "Idle")
      <3>1. /\ startInProgress' = FALSE /\ Goto(m, "s_duck") /\ machine.phase = "Idle"
            /\ machine' = OnStartRecording(machine, frame[m].command).machine
        BY <1>6, <2>3 DEF StartInstall
      <3>2. pc'[m] = "s_duck"
        BY <3>1, MainRead
      <3>3. machine'.phase = "Recording"
        BY <1>1, <3>1, OtherPhases, ZenonT(30)
      <3>4. Reported'
        BY <3>2, <3>3 DEF Reported, ShuttingDown
      <3> QED
        BY <3>1, <3>2, <3>4 DEF SetUpInPlace, ArmedInPlace, AcceptingInPlace, RecordingInPlace,
             DuckedInPlace, DuckingReported, NothingLeft
    <2> QED
      BY <2>2, <2>3
  <1>7. CASE StartDuck(m)
    <2>1. /\ pc[m] = "s_duck" /\ Goto(m, "s_notify")
          /\ UNCHANGED <<recording, accepting, startInProgress, machine>>
      BY <1>7 DEF StartDuck, lockVars, flagVars
    <2>2. CASE Clients = {}
      <3>1. pc'[m] = "s_notify" /\ Reported
        BY <1>2, <2>1, <2>2, MainRead DEF DuckingReported
      <3>2. Reported' /\ ~startInProgress'
        BY <1>2, <2>1, <3>1 DEF Reported, ShuttingDown, ArmedInPlace
      <3> QED
        BY <3>1, <3>2 DEF SetUpInPlace, ArmedInPlace, AcceptingInPlace, RecordingInPlace,
             DuckedInPlace, DuckingReported, NothingLeft
    <2>3. CASE Clients # {}
      <3>1. SetsNothingUp /\ pc[m] \in Settled /\ UNCHANGED active
        BY <1>7, <2>1, <2>3 DEF SetsNothingUp, Settled, Labels, StartLabels, StartDuck, sessionVars
      <3> QED
        BY <2>1, <3>1, SettledStep
    <2> QED
      BY <2>2, <2>3
  <1> QED
    BY <1>3, <1>4, <1>5, <1>6, <1>7

LEMMA CommandSteps ==
    ASSUME RecordingInv, OwnerInv', ClientStops' <=> ClientStops, Command("main")
    PROVE  SetUpInPlace'
  <1> USE DEF Arming, Failing, Stopping, ShutdownLabels, Heard, Muted
  <1> DEFINE m == "main"
  <1>1. machine \in Machine
    BY DEF RecordingInv, OwnerInv, TypeInv, FieldsOK, LockOK
  <1>2. /\ ArmedInPlace /\ AcceptingInPlace /\ RecordingInPlace /\ DuckedInPlace /\ DuckingReported
    BY DEF RecordingInv, SetUpInPlace
  <1>3. CASE \E ime \in Imes(m), c \in BOOLEAN : StartRecording(m, ime, c)
    <2>1. PICK l \in {"f_wake", "s_lock"} : Goto(m, l)
      BY <1>3 DEF StartRecording
    <2>2. /\ pc[m] = "idle" /\ UNCHANGED <<active, startInProgress, accepting, recording, ducked>>
      BY <1>3 DEF StartRecording, lockVars, flagVars, sessionVars, deviceVars
    <2>3. SetsNothingUp /\ pc[m] \in Settled
      BY <2>2 DEF SetsNothingUp, Settled, Labels
    <2> QED
      BY <2>1, <2>2, <2>3, SettledStep
  <1>4. CASE \E ime \in Imes(m) : StopRecording(m, ime)
    <2>1. /\ pc[m] = "idle" /\ accepting' = FALSE /\ Goto(m, "p_stop")
          /\ UNCHANGED <<startInProgress, recording, ducked, machine>> /\ machine.phase = "Recording"
      BY <1>4 DEF StopRecording, deviceVars
    <2>2. pc'[m] = "p_stop"
      BY <2>1, MainRead
    <2>3. Reported' /\ ~startInProgress'
      BY <1>2, <2>1, <2>2 DEF Reported, ShuttingDown, ArmedInPlace
    <2> QED
      BY <2>1, <2>2, <2>3 DEF SetUpInPlace, ArmedInPlace, AcceptingInPlace, RecordingInPlace,
           DuckedInPlace, DuckingReported, NothingLeft
  <1>5. ASSUME NEW ime \in Imes(m), NEW raw \in BOOLEAN, CancelOperation(m, ime, raw)
        PROVE  SetUpInPlace'
    <2>1. /\ pc[m] = "idle" /\ startInProgress' = FALSE /\ UNCHANGED <<recording, ducked>>
          /\ machine' = OnCancel(machine, raw).machine
      BY <1>5 DEF CancelOperation
    <2>2. ~startInProgress
      BY <1>2, <2>1 DEF ArmedInPlace
    <2>3. CASE machine.phase = "Recording"
      <3>1. OnCancel(machine, raw).effect = "stop_capture" /\ OnCancel(machine, raw).accepted
        BY <2>3 DEF OnCancel, AbortRecordingToIdle, Accept
      <3>2. ~accepting' /\ Goto(m, "c_stop")
        BY <1>5, <3>1, ZenonT(30) DEF CancelOperation
      <3>3. pc'[m] = "c_stop"
        BY <3>2, MainRead
      <3> QED
        BY <2>1, <3>2, <3>3 DEF SetUpInPlace, ArmedInPlace, AcceptingInPlace, RecordingInPlace,
             DuckedInPlace, DuckingReported, NothingLeft
    <2>4. CASE machine.phase # "Recording"
      <3>1. OnCancel(machine, raw).effect # "stop_capture"
        BY <1>1, <2>4, CancelPhase
      <3>2. Goto(m, "idle") /\ UNCHANGED active /\ accepting' = (accepting /\ ~startInProgress)
        BY <1>5, <2>2, <3>1 DEF CancelOperation
      <3>3. SetsNothingUp
        BY <2>1, <3>2, ZenonT(30) DEF SetsNothingUp
      <3>4. pc[m] \in Settled
        BY <2>1 DEF Settled, Labels
      <3> QED
        BY <3>2, <3>3, <3>4, SettledStep
    <2> QED
      BY <2>3, <2>4
  <1>6. CASE ReloadAsrBackend(m)
    <2>1. UNCHANGED <<pc, active, deferred, startInProgress, accepting, recording, ducked>>
      BY <1>6 DEF ReloadAsrBackend, flagVars, sessionVars, deviceVars
    <2> QED
      BY <2>1, SetUpUnmoved DEF SetsNothingUp
  <1> QED
    BY <1>3, <1>4, <1>5, <1>6, CommandsAssumption DEF Command, Commands

(* The abort tail, the failure, the closing steps and the shutdown. *)
LEMMA UndoSteps ==
    ASSUME RecordingInv, OwnerInv', ClientStops' <=> ClientStops, NEW m, m = "main",
           \/ EndRecording(m) \/ FailCancel(m) \/ FailNotify(m) \/ CancelStop(m)
           \/ StopCapture(m) \/ Quit \/ ShutdownCapture \/ ShutdownLock \/ ShutdownActive
           \/ ShutdownJoin
    PROVE  SetUpInPlace'
  <1> USE DEF Arming, Failing, Stopping, ShutdownLabels, Heard, Muted
  <1>1. machine \in Machine
    BY DEF RecordingInv, OwnerInv, TypeInv, FieldsOK, LockOK
  <1>2. /\ ArmedInPlace /\ AcceptingInPlace /\ RecordingInPlace /\ DuckedInPlace /\ DuckingReported
    BY DEF RecordingInv, SetUpInPlace
  <1>3. CASE EndRecording(m) \/ FailCancel(m) \/ FailNotify(m) \/ CancelStop(m)
    <2>1. /\ UNCHANGED <<startInProgress, accepting, ducked, machine>>
          /\ recording' = recording \/ recording' = FALSE
          /\ pc[m] \in {"t_end", "x_cancel", "x_notify", "c_stop"}
      BY <1>3 DEF EndRecording, FailCancel, FailNotify, CancelStop, ReleaseStream, StopStream,
           lockVars, flagVars, deviceVars
    <2>2. PICK l \in {"t_restore", "x_wake", "t_end", "c_restore"} :
            Goto(m, l) /\ (l \in {"t_restore", "c_restore"} => recording' = FALSE)
      BY <1>3 DEF EndRecording, FailCancel, FailNotify, CancelStop, ReleaseStream, StopStream
    <2>3. pc'[m] = l /\ ShuttingDown' = FALSE /\ ShuttingDown = FALSE
      BY <2>1, <2>2, MainRead DEF ShuttingDown
    <2>4. ~startInProgress' /\ (accepting' => Reported')
      BY <1>2, <2>1, <2>3 DEF ArmedInPlace, AcceptingInPlace, Reported
    <2> QED
      BY <2>2, <2>3, <2>4 DEF SetUpInPlace, ArmedInPlace, AcceptingInPlace,
           RecordingInPlace,
           DuckedInPlace, DuckingReported, NothingLeft
  <1>4. CASE StopCapture(m)
    <2>1. /\ UNCHANGED <<startInProgress, accepting, ducked, machine>> /\ recording' = FALSE
          /\ pc[m] = "p_stop" /\ Goto(m, "p_restore")
      BY <1>4 DEF StopCapture, StopStream, lockVars, flagVars
    <2>2. pc'[m] = "p_restore" /\ ShuttingDown' = FALSE /\ ShuttingDown = FALSE
      BY <2>1, MainRead DEF ShuttingDown
    <2>3. ~startInProgress' /\ ~accepting' /\ (Muted' => Reported')
      BY <1>2, <2>1, <2>2 DEF ArmedInPlace, AcceptingInPlace, DuckedInPlace, Reported
    <2> QED
      BY <2>1, <2>2, <2>3 DEF SetUpInPlace, ArmedInPlace, AcceptingInPlace, RecordingInPlace,
           DuckedInPlace, DuckingReported, NothingLeft
  <1>5. CASE Quit
    <2>1. /\ UNCHANGED <<startInProgress, recording, ducked>> /\ accepting' = FALSE
          /\ pc[m] = "idle" /\ Goto(m, "q_capture")
      BY <1>5 DEF Quit, lockVars, deviceVars
    <2>2. pc'[m] = "q_capture" /\ ~startInProgress'
      BY <1>2, <2>1, MainRead DEF ArmedInPlace
    <2> QED
      BY <2>1, <2>2 DEF SetUpInPlace, ArmedInPlace, AcceptingInPlace, RecordingInPlace,
           DuckedInPlace, DuckingReported, NothingLeft
  <1>6. CASE ShutdownCapture \/ ShutdownLock \/ ShutdownActive \/ ShutdownJoin
    <2>1. /\ startInProgress' = startInProgress \/ startInProgress' = FALSE
          /\ UNCHANGED <<accepting, ducked>>
          /\ recording' = recording \/ recording' = FALSE
          /\ pc[m] \in {"q_capture", "q_lock", "q_active", "q_join"}
          /\ pc[m] = "q_capture" => recording' = FALSE
      BY <1>6 DEF ShutdownCapture, ShutdownLock, ShutdownActive, ShutdownJoin, lockVars, flagVars, deviceVars
    <2>2. PICK l \in {"q_restore", "q_active", "q_join", "exit"} :
            /\ Goto(m, l) /\ (l = "q_restore" <=> pc[m] = "q_capture")
            /\ l = "exit" => active' = NoSession /\ deferred' = {}
      BY <1>6 DEF ShutdownCapture, ShutdownLock, ShutdownActive, ShutdownJoin
    <2>3. pc'[m] = l /\ ShuttingDown
      BY <2>1, <2>2, MainRead DEF ShuttingDown
    <2>4. ~startInProgress' /\ ~accepting' /\ ~Heard' /\ (Muted' => l = "q_restore")
      BY <1>2, <2>1, <2>2, <2>3 DEF ArmedInPlace, AcceptingInPlace, RecordingInPlace, DuckedInPlace, Reported
    <2> QED
      BY <2>2, <2>3, <2>4 DEF SetUpInPlace, ArmedInPlace, AcceptingInPlace,
           RecordingInPlace,
           DuckedInPlace, DuckingReported, NothingLeft
  <1> QED
    BY <1>3, <1>4, <1>5, <1>6

LEMMA JudgedSteps ==
    ASSUME RecordingInv, OwnerInv', ClientStops' <=> ClientStops, NEW m, m = "main",
           WakeMainThread(m) \/ FailActiveSession(m) \/ StopLock(m) \/ RestoreOutput(m)
    PROVE  SetUpInPlace'
  <1> USE DEF Arming, Failing, Stopping, ShutdownLabels, Heard, Muted
  <1>1. /\ machine \in Machine /\ frame[m] \in Frame
        /\ frame[m].ret \in {"idle", "s_lock", "w_loop"}
        /\ frame[m].after \in {"idle", "f_dequeue", "f_exchange"}
    BY CallersAreThreads DEF RecordingInv, OwnerInv, TypeInv, FieldsOK, LockOK, ThreadsOK, Frame
  <1>2. /\ ArmedInPlace /\ AcceptingInPlace /\ RecordingInPlace /\ DuckedInPlace /\ DuckingReported
    BY DEF RecordingInv, SetUpInPlace
  <1>3. ASSUME NEW s, NEW b
        PROVE  Closing(m, s, b) \in {"r_retire", "m_apply", "idle", "s_lock", "w_loop"}
    BY <1>1 DEF Closing
  <1>4. CASE WakeMainThread(m)
    <2>1. /\ UNCHANGED <<active, startInProgress, accepting, recording, ducked, machine>>
          /\ pc[m] \in {"t_wake", "h_wake", "x_wake", "r_wake"}
      BY <1>4 DEF WakeMainThread, lockVars, sessionVars, deviceVars
    <2>2. SetsNothingUp
      BY <2>1 DEF SetsNothingUp
    <2>3. CASE pc[m] = "x_wake"
      <3>1. Goto(m, "x_notify")
        BY <1>4, <2>3 DEF WakeMainThread
      <3>2. pc'[m] = "x_notify" /\ ShuttingDown' = FALSE /\ ShuttingDown = FALSE
        BY <2>3, <3>1, MainRead DEF ShuttingDown
      <3>3. ~startInProgress' /\ (accepting' => Reported')
        BY <1>2, <2>1, <2>3, <3>2 DEF ArmedInPlace, AcceptingInPlace, Reported
      <3> QED
        BY <3>2, <3>3 DEF SetUpInPlace, ArmedInPlace, AcceptingInPlace, RecordingInPlace,
             DuckedInPlace, DuckingReported, NothingLeft
    <2>4. CASE pc[m] # "x_wake"
      <3>1. PICK l : /\ Goto(m, l)
                     /\ l \in {frame[m].after, "f_dequeue", Closing(m, NoSession, frame[m].apply)}
        BY <1>4, <2>1, <2>4 DEF WakeMainThread
      <3>2. l \notin Stopping \cup ShutdownLabels \cup {"s_duck"}
        BY <1>1, <1>3, <3>1
      <3>3. pc[m] \in Settled
        BY <2>1, <2>4 DEF Settled, Labels, TailLabels, HandleLabels, CloseLabels
      <3> QED
        BY <2>1, <2>2, <3>1, <3>2, <3>3, SettledStep
    <2> QED
      BY <2>3, <2>4
  <1>5. CASE FailActiveSession(m)
    <2>1. pc[m] = "x_lock" /\ UNCHANGED <<startInProgress, recording, ducked>>
      BY <1>5 DEF FailActiveSession, deviceVars
    <2>2. CASE active # frame[m].sess
      <3>1. Goto(m, frame[m].after) /\ UNCHANGED <<accepting, active>>
        BY <1>5, <2>2 DEF FailActiveSession
      <3>2. SetsNothingUp /\ pc[m] \in Settled
        BY <2>1, <3>1 DEF SetsNothingUp, Settled, Labels, FailLabels
      <3> QED
        BY <1>1, <3>1, <3>2, SettledStep
    <2>3. CASE active = frame[m].sess
      <3>1. Goto(m, "x_cancel") /\ accepting' = FALSE
        BY <1>5, <2>3 DEF FailActiveSession
      <3>2. pc'[m] = "x_cancel" /\ ~startInProgress'
        BY <1>2, <2>1, <3>1, MainRead DEF ArmedInPlace
      <3> QED
        BY <3>1, <3>2 DEF SetUpInPlace, ArmedInPlace, AcceptingInPlace, RecordingInPlace,
             DuckedInPlace, DuckingReported, NothingLeft
    <2> QED
      BY <2>2, <2>3
  <1>6. CASE StopLock(m)
    <2>1. pc[m] = "p_lock" /\ UNCHANGED <<startInProgress, accepting, recording, ducked>>
      BY <1>6 DEF StopLock, flagVars
    <2>2. PICK l \in {"m_apply", "r_retire", "idle"} : Goto(m, l)
      BY <1>6 DEF StopLock
    <2>3. pc'[m] = l
      BY <2>2, MainRead
    <2>4. ~startInProgress /\ ~accepting /\ ~Heard /\ ~Muted
      BY <1>2, <2>1 DEF ArmedInPlace, AcceptingInPlace, RecordingInPlace, DuckedInPlace
    <2> QED
      BY <2>1, <2>2, <2>3, <2>4 DEF SetUpInPlace, ArmedInPlace, AcceptingInPlace, RecordingInPlace,
           DuckedInPlace, DuckingReported, NothingLeft
  <1>7. CASE RestoreOutput(m)
    <2>1. /\ UNCHANGED <<active, startInProgress, accepting, recording, machine>> /\ ducked' = FALSE
          /\ pc[m] \in {"t_restore", "c_restore", "p_restore", "f_skip", "f_restore", "z_restore",
                        "q_restore"}
      BY <1>7 DEF RestoreOutput, lockVars, flagVars, sessionVars
    <2>2. PICK l : /\ Goto(m, l)
                   /\ l \in {"t_schedule", Closing(m, frame[m].sess, frame[m].apply), "p_lock",
                             frame[m].ret, "z_lock", "z_emit", "q_lock"}
                   /\ (l = "p_lock") <=> (pc[m] = "p_restore")
                   /\ (l = "q_lock") <=> (pc[m] = "q_restore")
      BY <1>1, <1>3, <1>7, <2>1 DEF RestoreOutput
    <2>3. /\ pc'[m] = l /\ ShuttingDown' = ShuttingDown
          /\ l \notin {"s_duck", "exit"}
      BY <1>1, <1>3, <2>1, <2>2, MainRead DEF ShuttingDown
    <2>4. Reported' <=> Reported
      BY <2>1, <2>3 DEF Reported
    <2>5. /\ ~startInProgress
          /\ accepting => Reported /\ pc[m] # "p_restore"
          /\ Heard => Reported /\ pc[m] # "p_restore"
      BY <1>2, <2>1 DEF ArmedInPlace, AcceptingInPlace, RecordingInPlace
    <2>6. l \notin {"p_stop", "p_restore"}
      BY <1>1, <1>3, <2>2
    <2> QED
      BY <2>1, <2>2, <2>3, <2>4, <2>5, <2>6 DEF SetUpInPlace, ArmedInPlace, AcceptingInPlace,
           RecordingInPlace, DuckedInPlace, DuckingReported, NothingLeft
  <1> QED
    BY <1>4, <1>5, <1>6, <1>7

(* The worker and the callbacks set nothing up. *)
LEMMA OtherSteps ==
    ASSUME RecordingInv, OwnerInv', ClientStops' <=> ClientStops,
           Worker \/ Shared("worker") \/ AudioArrives \/ SessionWakes \/ Terminated \/ UNCHANGED vars
    PROVE  SetUpInPlace'
  <1> USE DEF Heard, Muted
  <1>1. CASE Worker
    <2>1. UNCHANGED <<active, deferred, startInProgress, accepting, recording, ducked>>
      BY <1>1, ZenonT(30) DEF Worker, WorkerLoop, WorkerWait, WorkerFinish, WorkerPipeline,
           EnterPostprocessing,
           EnterEmit, WorkerProcess, WorkerTake, WorkerEmit, WorkerExcept, lockVars, flagVars,
           sessionVars, deviceVars
    <2>2. \E l : Goto("worker", l)
      <3>1. CASE WorkerLoop \/ WorkerWait \/ WorkerFinish \/ WorkerPipeline \/ EnterPostprocessing
        BY <3>1, ZenonT(30) DEF WorkerLoop, WorkerWait, WorkerFinish, WorkerPipeline,
             EnterPostprocessing
      <3>2. CASE EnterEmit \/ WorkerProcess \/ WorkerTake \/ WorkerEmit \/ WorkerExcept
        BY <3>2 DEF EnterEmit, WorkerProcess, WorkerTake, WorkerEmit, WorkerExcept
      <3> QED
        BY <1>1, <3>1, <3>2 DEF Worker
    <2>3. pc'["main"] = pc["main"]
      BY <2>2, CallersAreThreads, GotoRead DEF RecordingInv, OwnerInv
    <2> QED
      BY <2>1, <2>3, SetUpUnmoved DEF SetsNothingUp
  <1>2. CASE Shared("worker")
    <2>1. /\ UNCHANGED <<active, deferred, accepting, recording>>
          /\ startInProgress' = startInProgress \/ startInProgress' = FALSE
          /\ ducked' = ducked \/ ducked' = FALSE
      BY <1>2 DEF Shared, RestoreOutput, ResetLock, ResetEmit, MaybeApplyPendingReload, lockVars,
           flagVars, sessionVars, deviceVars
    <2>2. \E l : Goto("worker", l)
      BY <1>2 DEF Shared, RestoreOutput, ResetLock, ResetEmit, MaybeApplyPendingReload
    <2>3. pc'["main"] = pc["main"]
      BY <2>2, CallersAreThreads, GotoRead DEF RecordingInv, OwnerInv
    <2>4. SetsNothingUp
      BY <2>1 DEF SetsNothingUp
    <2> QED
      BY <2>1, <2>3, <2>4, SetUpUnmoved
  <1>3. CASE AudioArrives \/ SessionWakes \/ Terminated \/ UNCHANGED vars
    <2>1. UNCHANGED <<pc, active, deferred, startInProgress, accepting, recording, ducked>>
      BY <1>3 DEF AudioArrives, SessionWakes, Terminated, vars, lockVars, flagVars, sessionVars,
           deviceVars
    <2> QED
      BY <2>1, SetUpUnmoved DEF SetsNothingUp
  <1> QED
    BY <1>1, <1>2, <1>3

(* A client undoes what it cancels. *)
LEMMA ClientUndoes ==
    ASSUME OnlyCancelled, RecordingInv, OwnerInv', NEW t \in Clients,
           Command(t) \/ Step(t) \/ Shared(t)
    PROVE  SetUpInPlace'
  <1> USE DEF Heard, Muted
  <1>1. TypeInv /\ ClientsCancel /\ t \in Threads /\ machine \in Machine
    BY DEF RecordingInv, OwnerInv, TypeInv, FieldsOK, LockOK, Threads, Callers
  <1>2. MovesAlone(t)
    BY <1>1, StepsMoveAlone
  <1>3. pc'["main"] = pc["main"] /\ \A u \in Clients : u # t => pc'[u] = pc[u]
    BY <1>2, ThreadsAssumption DEF MovesAlone, Threads, Callers
  <1>4. ClientStops /\ pc[t] # "c_stop" => ClientStops'
    BY <1>3 DEF ClientStops
  <1>5. CASE ClientCloses(t)
    <2>1. /\ UNCHANGED <<active, startInProgress, accepting>>
          /\ recording' => recording /\ pc[t] # "c_stop"
      BY <1>1, <1>5, ClientClosing
    <2>2. SetsNothingUp
      BY <1>4, <2>1 DEF SetsNothingUp
    <2> QED
      BY <1>3, <2>1, <2>2, SetUpUnmoved
  <1>6. ASSUME NEW ime \in Imes(t), NEW raw \in BOOLEAN, CancelOperation(t, ime, raw)
        PROVE  SetUpInPlace'
    <2>1. /\ pc[t] = "idle" /\ startInProgress' = FALSE /\ UNCHANGED recording
          /\ accepting' => accepting
      BY <1>6, ZenonT(30) DEF CancelOperation
    <2>2. CASE machine.phase = "Recording"
      <3>1. OnCancel(machine, raw).effect = "stop_capture" /\ OnCancel(machine, raw).accepted
        BY <2>2 DEF OnCancel, AbortRecordingToIdle, Accept
      <3>2. ~accepting' /\ Goto(t, "c_stop")
        BY <1>6, <3>1, ZenonT(30) DEF CancelOperation
      <3>3. ClientStops'
        BY <1>1, <3>2, GotoRead DEF ClientStops
      <3> QED
        BY <2>1, <3>2, <3>3 DEF SetUpInPlace, ArmedInPlace, AcceptingInPlace, RecordingInPlace,
             DuckedInPlace, DuckingReported, NothingLeft
    <2>3. CASE machine.phase # "Recording"
      <3>1. OnCancel(machine, raw).effect # "stop_capture"
        BY <1>1, <2>3, CancelPhase
      <3>2. UNCHANGED active
        BY <1>6, <3>1 DEF CancelOperation
      <3>3. SetsNothingUp
        BY <1>4, <2>1 DEF SetsNothingUp
      <3> QED
        BY <1>3, <3>2, <3>3, SetUpUnmoved
    <2> QED
      BY <2>2, <2>3
  <1> QED
    BY <1>1, <1>5, <1>6, ClientSteps

LEMMA ClientsUnmoved ==
    ASSUME NEW t, t \notin Clients, MovesAlone(t)
    PROVE  ClientStops' <=> ClientStops
    BY DEF ClientStops, MovesAlone, Threads, Callers

LEMMA RecordingNext ==
    ASSUME OnlyCancelled, RecordingInv, [Next]_vars
    PROVE  RecordingInv'
  <1>1. OwnerInv' /\ TypeInv
    BY OwnerNext DEF RecordingInv, OwnerInv
  <1>2. "main" \notin Clients /\ "worker" \notin Clients
    BY ThreadsAssumption
  <1> SUFFICES SetUpInPlace'
    BY <1>1 DEF RecordingInv
  <1>3. CASE \E t \in Clients : Command(t) \/ Step(t) \/ Shared(t)
    BY <1>1, <1>3, ClientUndoes
  <1>4. CASE Command("main") \/ Step("main") \/ Shared("main")
    <2>1. ClientStops' <=> ClientStops
      BY <1>1, <1>2, <1>4, StepsMoveAlone, ClientsUnmoved, CallersAreThreads
    <2> QED
      BY <1>1, <1>4, <2>1, CommandSteps, SettledSteps, StartSteps, UndoSteps, JudgedSteps
         DEF Step, Shared
  <1>5. CASE Shared("worker")
    <2>1. ClientStops' <=> ClientStops
      BY <1>1, <1>2, <1>5, StepsMoveAlone, ClientsUnmoved, CallersAreThreads
    <2> QED
      BY <1>1, <1>5, <2>1, OtherSteps
  <1>6. CASE MainFlush \/ ExpireLook \/ ExpireDestroy \/ Worker \/ Quit \/ Shutdown
    <2>1. ClientStops' <=> ClientStops
      BY <1>1, <1>2, <1>6, LoopsMoveAlone, ClientsUnmoved
    <2> QED
      BY <1>1, <1>6, <2>1, SettledSteps, UndoSteps, OtherSteps DEF Shutdown
  <1>7. CASE AudioArrives \/ SessionWakes \/ Terminated \/ UNCHANGED vars
    <2>1. ClientStops' <=> ClientStops
      BY <1>7 DEF AudioArrives, SessionWakes, Terminated, vars, ClientStops
    <2> QED
      BY <1>1, <1>7, <2>1, OtherSteps
  <1> QED
    BY <1>3, <1>4, <1>5, <1>6, <1>7 DEF Next, Threads, Callers

LEMMA RecordingInit ==
    ASSUME Init
    PROVE  RecordingInv
  <1>1. pc["main"] = "idle" /\ ~startInProgress /\ ~accepting /\ ~recording /\ ~ducked
    BY CallersAreThreads DEF Init
  <1> QED
    BY <1>1, OwnerInit DEF RecordingInv, SetUpInPlace, ArmedInPlace, AcceptingInPlace,
       RecordingInPlace, DuckedInPlace, DuckingReported, NothingLeft, Heard, Muted

LEMMA MicrophoneInPlace ==
    ASSUME RecordingInv
    PROVE  MicrophoneClosed
  <1>1. ArmedInPlace /\ AcceptingInPlace /\ RecordingInPlace
    BY DEF RecordingInv, SetUpInPlace
  <1>2. AllReturned => pc["main"] = "idle" /\ ~ClientStops
    BY CallersAreThreads DEF AllReturned, ClientStops, Callers
  <1> QED
    BY <1>1, <1>2 DEF MicrophoneClosed, ArmedInPlace, AcceptingInPlace, RecordingInPlace, Heard,
                      Reported, Arming, Failing

(* However many clients cancel on their own threads, a cancel cleans up:   *)
(* phase, session and slot agree at every step, and once the methods have  *)
(* returned the microphone is open and audio accepted only for a recording *)
(* the daemon reports, also when CancelOperation() overtakes a start or a  *)
(* stop of the main thread between its critical sections.                  *)
THEOREM CancelCleansUp == ASSUME OnlyCancelled PROVE Spec => []CancelsAreClean
  <1>1. Init => RecordingInv
    BY RecordingInit
  <1>2. RecordingInv /\ [Next]_vars => RecordingInv'
    BY RecordingNext
  <1>3. RecordingInv => CancelsAreClean
    BY MicrophoneInPlace DEF CancelsAreClean, RecordingInv, OwnerInv, OwnerOK, PhaseTells,
       SlotTellsWorker, PhaseTellsOwner
  <1> QED
    BY <1>1, <1>2, <1>3, PTL DEF Spec

(* Driven by the input method alone, the controller undoes on every path   *)
(* what a recording sets up: once its methods have returned, microphone,   *)
(* accepted audio and ducked output belong to a recording it reports, and  *)
(* Shutdown() leaves nothing behind, whatever the worker does meanwhile.   *)
THEOREM RecordingIsUndone == ASSUME Clients = {} PROVE Spec => []RecordingUndone
  <1>1. Init => RecordingInv
    BY RecordingInit
  <1>2. RecordingInv /\ [Next]_vars => RecordingInv'
    BY RecordingNext DEF OnlyCancelled
  <1>3. RecordingInv => RecordingUndone
    <2>1. SUFFICES ASSUME RecordingInv PROVE RecordingUndone
      OBVIOUS
    <2>2. /\ ArmedInPlace /\ AcceptingInPlace /\ RecordingInPlace /\ DuckedInPlace /\ NothingLeft
      BY <2>1 DEF RecordingInv, SetUpInPlace
    <2>3. AllReturned => pc["main"] = "idle"
      BY CallersAreThreads DEF AllReturned
    <2>4. OutputRestored
      BY <2>2, <2>3 DEF OutputRestored, DuckedInPlace, Muted, Reported, Failing
    <2>5. pc["main"] = "exit" => ShuttingDown
      BY DEF ShuttingDown, ShutdownLabels
    <2>6. ShutdownIsComplete
      BY <2>2, <2>5
         DEF ShutdownIsComplete, ArmedInPlace, AcceptingInPlace, RecordingInPlace, DuckedInPlace,
             NothingLeft, Reported, Arming, Failing, Heard, Muted, ClientStops
    <2> QED
      BY <2>1, <2>4, <2>6, MicrophoneInPlace DEF RecordingUndone
  <1> QED
    BY <1>1, <1>2, <1>3, PTL DEF Spec

-----------------------------------------------------------------------------
(* The verdict lives from EnterPostprocessing() to the take that consumes  *)
(* it, on the regular path or on that of an exception.                     *)
VerdictInPlace ==
    machine.post # "Inactive" => pc["worker"] \in {"w_enter_emit", "w_llm", "w_take", "w_except"}

(* A text comes into the pipeline, and the verdict is applied only once.   *)
TextInPlace ==
    pc["worker"] \in {"w_pipeline", "w_enter", "w_enter_emit", "w_llm", "w_take"} =>
        payload \in {"text", "empty", "llm"}

PromiseInv == OwnerInv /\ VerdictInPlace /\ TextInPlace

(* What every step is shown to do: it serves the promise and leaves verdict *)
(* and text where they belong.                                             *)
Serves == [Promise!Next]_(Promise!vars) /\ VerdictInPlace' /\ TextInPlace'

(* What the promise sees is unchanged if these are. *)
LEMMA Unseen ==
    ASSUME PromiseInv, UNCHANGED <<machine, order, payload>>, pc'["worker"] = pc["worker"],
           ShuttingDown' = ShuttingDown
    PROVE  Serves
  <1>1. UNCHANGED Promise!vars
    BY DEF Promise!vars, Work, Verdict, Reply
  <1>2. VerdictInPlace' /\ TextInPlace'
    BY DEF PromiseInv, VerdictInPlace, TextInPlace
  <1> QED
    BY <1>1, <1>2 DEF Serves

(* A thread other than the worker may end a verdict, but begins none. *)
LEMMA MainKeeps ==
    ASSUME PromiseInv, pc'["worker"] = pc["worker"], UNCHANGED payload,
           machine'.post # "Inactive" => machine.post # "Inactive",
           Promise!Next
    PROVE  Serves
    BY DEF PromiseInv, VerdictInPlace, TextInPlace, Serves

(* Where the utterance is, read off the order slot and the worker. *)
LEMMA WorkRead ==
    /\ Work = "none" <=> order.kind = "none"
    /\ order.kind = "request" => Work = "queued"
    /\ order.kind = "moved" /\ pc["worker"] = "w_emit" => Work = "answer"
    /\ order.kind = "moved" /\ pc["worker"] = "z_lock" => Work = "closing"
    /\ order.kind = "moved" /\ pc["worker"] \notin {"w_emit", "z_lock"} => Work = "working"
    BY DEF Work

LEMMA VerdictRead ==
    /\ machine.post \in {"Dictation", "Command"} => Verdict = "open"
    /\ machine.post = "CommitRaw" => Verdict = "raw"
    /\ machine.post = "Discard" => Verdict = "discard"
    /\ machine.post = "Inactive" => Verdict = "none"
    BY DEF Verdict

(* An empty slot is the one whose kind says so. *)
LEMMA SlotRead ==
    ASSUME OwnerInv
    PROVE  (order = NoOrder) <=> (order.kind = "none")
    BY DEF OwnerInv, OwnerOK, OrderForm, NoOrder, MovedOrder

-----------------------------------------------------------------------------
(* The main thread. *)

LEMMA MainGoes ==
    ASSUME TypeInv, NEW l, Goto("main", l)
    PROVE  pc'["main"] = l /\ pc'["worker"] = pc["worker"]
    BY CallersAreThreads DEF Goto, TypeInv, ThreadsOK

LEMMA SilentSteps ==
    ASSUME PromiseInv, Step("main"), ~StartInstall("main"), ~FailActiveSession("main"),
           ~StopLock("main")
    PROVE  Serves
  <1> USE DEF ShutdownLabels
  <1> DEFINE m == "main"
  <1>1. frame[m] \in Frame
    BY CallersAreThreads DEF PromiseInv, OwnerInv, TypeInv, ThreadsOK
  <1>2. frame[m].ret \in {"idle", "s_lock", "w_loop"}
        /\ frame[m].after \in {"idle", "f_dequeue", "f_exchange"}
    BY <1>1 DEF Frame
  <1>3. CASE \/ StartLock(m) \/ BeginRecording(m) \/ StartDisarm(m) \/ CreateSession(m)
             \/ CreateSessionFails(m) \/ StartDuck(m) \/ StartNotify(m) \/ EndRecording(m)
             \/ ScheduleCaptureStop(m)
    <2>1. pc[m] \notin ShutdownLabels /\ UNCHANGED <<machine, order, payload>>
      BY <1>3 DEF StartLock, BeginRecording, StartDisarm, CreateSession, CreateSessionFails,
                  StartDuck, StartNotify, EndRecording, ScheduleCaptureStop, lockVars, workVars
    <2>2. \E l : l \notin ShutdownLabels /\ Goto(m, l)
      BY <1>3 DEF StartLock, BeginRecording, StartDisarm, CreateSession, CreateSessionFails,
                  StartDuck, StartNotify, EndRecording, ScheduleCaptureStop
    <2> QED
      BY <2>1, <2>2, MainGoes, Unseen DEF PromiseInv, OwnerInv, ShuttingDown
  <1>4. CASE WakeMainThread(m)
    <2>1. pc[m] \notin ShutdownLabels /\ UNCHANGED <<machine, order, payload>>
      BY <1>4 DEF WakeMainThread, lockVars, workVars
    <2>2. \E l \in {"idle", "f_dequeue", "f_exchange", "x_notify", "m_apply", "s_lock", "w_loop"} :
            Goto(m, l)
      BY <1>2, <1>4 DEF WakeMainThread, Closing
    <2> QED
      BY <2>1, <2>2, MainGoes, Unseen DEF PromiseInv, OwnerInv, ShuttingDown
  <1>5. CASE \/ FlushWake(m) \/ FlushReapedSessions(m) \/ TryDequeue(m) \/ HandleEnter(m)
             \/ HandleStartup(m) \/ HandleAppend(m) \/ PushAudio(m) \/ HandleCheck(m)
             \/ HandleRetire(m)
    <2>1. pc[m] \notin ShutdownLabels /\ UNCHANGED <<machine, order, payload>>
      BY <1>5, ZenonT(30) DEF FlushWake, FlushReapedSessions, TryDequeue, HandleEnter,
           HandleStartup,
                  HandleAppend, PushAudio, HandleCheck, HandleRetire, lockVars, workVars
    <2>2. \E l : l \notin ShutdownLabels /\ Goto(m, l)
      BY <1>5, ZenonT(30) DEF FlushWake, FlushReapedSessions, TryDequeue, HandleEnter,
           HandleStartup,
                  HandleAppend, PushAudio, HandleCheck, HandleRetire
    <2> QED
      BY <2>1, <2>2, MainGoes, Unseen DEF PromiseInv, OwnerInv, ShuttingDown
  <1>6. CASE \/ PollActiveSession(m) \/ FlushExchange(m) \/ FlushLook(m) \/ FlushStop(m)
             \/ FailCancel(m) \/ FailNotify(m) \/ CancelStop(m) \/ RetireDetached(m)
             \/ StopCapture(m)
    <2>1. pc[m] \notin ShutdownLabels /\ UNCHANGED <<machine, order, payload>>
      BY <1>6 DEF PollActiveSession, FlushExchange, FlushLook, FlushStop, FailCancel, FailNotify,
                  CancelStop, RetireDetached, StopCapture, lockVars, workVars
    <2>2. \E l : l \notin ShutdownLabels /\ Goto(m, l)
      BY <1>2, <1>6 DEF PollActiveSession, FlushExchange, FlushLook, FlushStop, FailCancel,
                        FailNotify, CancelStop, RetireDetached, StopCapture
    <2> QED
      BY <2>1, <2>2, MainGoes, Unseen DEF PromiseInv, OwnerInv, ShuttingDown
  <1> QED
    BY <1>3, <1>4, <1>5, <1>6 DEF Step

(* Facts every step of the main thread outside the shutdown starts from. *)
LEMMA Running ==
    ASSUME PromiseInv, ~ShuttingDown
    PROVE  /\ machine \in Machine
           /\ machine.phase \notin {"Inferring", "Postprocessing"} =>
                order = NoOrder /\ Work = "none" /\ machine.post = "Inactive"
  <1>1. machine \in Machine
    BY DEF PromiseInv, OwnerInv, TypeInv, FieldsOK, LockOK
  <1>2. machine.phase \notin {"Inferring", "Postprocessing"} => order = NoOrder
    BY DEF PromiseInv, OwnerInv, OwnerOK, PhaseTells
  <1>3. machine.phase # "Postprocessing" => machine.post = "Inactive"
    BY DEF PromiseInv, OwnerInv, PostOnlyWhilePostprocessing
  <1> QED
    BY <1>1, <1>2, <1>3, WorkRead, SlotRead DEF PromiseInv

LEMMA InstallBegins ==
    ASSUME PromiseInv, StartInstall("main")
    PROVE  Serves
  <1> USE DEF ShutdownLabels
  <1> DEFINE m == "main"
  <1>1. ~ShuttingDown /\ UNCHANGED payload
    BY DEF StartInstall, ShuttingDown, workVars
  <1>2. \E l : l \notin ShutdownLabels /\ Goto(m, l)
    BY DEF StartInstall
  <1>3. ShuttingDown' = ShuttingDown /\ pc'["worker"] = pc["worker"]
    BY <1>1, <1>2, MainGoes DEF PromiseInv, OwnerInv, ShuttingDown
  <1>4. CASE UNCHANGED <<machine, order>>
    BY <1>1, <1>3, <1>4, Unseen
  <1>5. CASE ~UNCHANGED <<machine, order>>
    <2>1. /\ machine.phase = "Idle" /\ order' = NoOrder
          /\ machine' = OnStartRecording(machine, frame[m].command).machine
      BY <1>5 DEF StartInstall
    <2>2. machine'.phase = "Recording" /\ machine'.post = "Inactive"
      BY <2>1 DEF OnStartRecording, Accept
    <2>3. order = NoOrder /\ Work = "none" /\ machine.post = "Inactive"
      BY <1>1, <2>1, Running
    <2>4. Work' = Work /\ Verdict' = Verdict /\ Reply' = Reply
      BY <1>1, <1>3, <2>1, <2>2, <2>3 DEF Work, Verdict, Reply
    <2>5. Promise!Begin
      BY <1>1, <1>3, <2>1, <2>2, <2>3, <2>4 DEF Promise!Begin
    <2> QED
      BY <1>1, <1>3, <2>2, <2>3, <2>5, MainKeeps DEF Promise!Next
  <1> QED
    BY <1>4, <1>5

LEMMA FailureFails ==
    ASSUME PromiseInv, FailActiveSession("main")
    PROVE  Serves
  <1> USE DEF ShutdownLabels
  <1> DEFINE m == "main"
  <1>1. /\ ~ShuttingDown /\ UNCHANGED <<payload, order>> /\ pc[m] = "x_lock"
        /\ frame[m].after \in {"idle", "f_dequeue", "f_exchange"}
    BY CallersAreThreads DEF FailActiveSession, ShuttingDown, workVars, PromiseInv, OwnerInv,
                             TypeInv, ThreadsOK, Frame
  <1>2. \E l : l \notin ShutdownLabels /\ Goto(m, l)
    BY <1>1 DEF FailActiveSession
  <1>3. ShuttingDown' = ShuttingDown /\ pc'["worker"] = pc["worker"]
    BY <1>1, <1>2, MainGoes DEF PromiseInv, OwnerInv, ShuttingDown
  <1>4. CASE UNCHANGED machine
    BY <1>1, <1>3, <1>4, Unseen
  <1>5. CASE ~UNCHANGED machine
    <2>1. active = frame[m].sess /\ machine' = OnAudioError(machine).machine
      BY <1>5 DEF FailActiveSession
    <2>2. machine.phase = "Recording"
      BY <1>5, <2>1 DEF OnAudioError, Reject
    <2>3. machine'.phase = "Error" /\ machine'.post = machine.post
      BY <1>1, <2>1, <2>2, Running DEF OnAudioError, Accept, Machine
    <2>4. Work' = Work /\ Verdict' = Verdict /\ Reply' = Reply
      BY <1>1, <1>3, <2>3 DEF Work, Verdict, Reply
    <2>5. Promise!Fail
      BY <1>1, <1>3, <2>2, <2>3, <2>4 DEF Promise!Fail
    <2> QED
      BY <1>1, <1>3, <2>2, <2>3, <2>5, MainKeeps DEF Promise!Next
  <1> QED
    BY <1>4, <1>5

(* The second half of StopRecording() hands over, or gives up. *)
LEMMA StopHandsOver ==
    ASSUME Clients = {}, PromiseInv, StopLock("main")
    PROVE  Serves
  <1> USE DEF ShutdownLabels
  <1> DEFINE m == "main"
             res == OnStopRecording(machine, Saturate(samples + frame[m].amount), MinSamples)
  <1>1. ~ShuttingDown /\ UNCHANGED payload /\ pc[m] = "p_lock"
    BY DEF StopLock, ShuttingDown, workVars
  <1>2. \E l : l \notin ShutdownLabels /\ Goto(m, l)
    BY DEF StopLock
  <1>3. ShuttingDown' = ShuttingDown /\ pc'["worker"] = pc["worker"]
    BY <1>1, <1>2, MainGoes DEF PromiseInv, OwnerInv, ShuttingDown
  <1>4. machine.phase = "Recording" /\ active # NoSession
    BY <1>1 DEF PromiseInv, OwnerInv, OwnerOK, MainKnowsPhase, Stoppable, PhaseTells
  <1>5. machine \in Machine /\ order = NoOrder /\ Work = "none" /\ machine.post = "Inactive"
    BY <1>1, <1>4, Running
  <1>6. machine' = res.machine
    BY <1>4 DEF StopLock
  <1>7. Reply' = Reply
    BY <1>1, <1>3 DEF Reply
  <1>8. CASE res.effect = "too_short"
    <2>1. order' = NoOrder
      BY <1>4, <1>8 DEF StopLock
    <2>2. machine'.phase = "Idle"
      BY <1>4, <1>5, <1>6, <1>8, StopPhase
    <2>3. machine'.post = machine.post
      BY <1>5, <1>6 DEF OnStopRecording, Accept, Reject, AbortRecordingToIdle, Machine
    <2>4. Work' = Work /\ Verdict' = Verdict
      BY <1>3, <1>5, <2>1, <2>3 DEF Work, Verdict
    <2>5. Promise!GiveUp
      BY <1>1, <1>3, <1>4, <1>7, <2>2, <2>4 DEF Promise!GiveUp
    <2> QED
      BY <1>1, <1>3, <2>2, <2>3, <2>5, MainKeeps DEF Promise!Next
  <1>9. CASE res.effect # "too_short"
    <2>1. order' = Request(active, sessionIme)
      BY <1>4, <1>9 DEF StopLock
    <2>2. machine'.phase = "Inferring"
      BY <1>4, <1>5, <1>6, <1>9, StopPhase
    <2>3. machine'.post = machine.post
      BY <1>5, <1>6 DEF OnStopRecording, Accept, Reject, AbortRecordingToIdle, Machine
    <2>4. Work' = "queued" /\ Verdict' = Verdict
      BY <1>3, <2>1, <2>3 DEF Work, Verdict, Request
    <2>5. Promise!HandOver
      BY <1>1, <1>3, <1>4, <1>5, <1>7, <2>2, <2>4 DEF Promise!HandOver
    <2> QED
      BY <1>1, <1>3, <2>2, <2>3, <2>5, MainKeeps DEF Promise!Next
  <1> QED
    BY <1>8, <1>9

(* A cancel gives a recording up, or judges the rewriting. *)
LEMMA CancelJudges ==
    ASSUME PromiseInv, NEW ime, NEW raw \in BOOLEAN, CancelOperation("main", ime, raw)
    PROVE  Serves
  <1> USE DEF ShutdownLabels
  <1> DEFINE m == "main"
             res == OnCancel(machine, raw)
  <1>1. ~ShuttingDown /\ UNCHANGED payload /\ machine' = res.machine
    BY DEF CancelOperation, ShuttingDown, workVars
  <1>2. \E l \in {"c_stop", "idle"} : Goto(m, l)
    BY DEF CancelOperation
  <1>3. ShuttingDown' = ShuttingDown /\ pc'["worker"] = pc["worker"] /\ machine \in Machine
    BY <1>1, <1>2, MainGoes, Running DEF PromiseInv, OwnerInv, ShuttingDown
  <1>4. Reply' = Reply
    BY <1>1, <1>3 DEF Reply
  <1>5. CASE machine.phase = "Recording"
    <2>1. machine'.phase = "Idle" /\ machine'.post = machine.post
      BY <1>1, <1>3, <1>5, ZenonT(30) DEF OnCancel, AbortRecordingToIdle, Accept, Machine
    <2>2. order = NoOrder /\ order' = NoOrder
      BY <1>1, <1>3, <1>5, Running, CancelPhase DEF CancelOperation
    <2>3. Work' = Work /\ Verdict' = Verdict
      BY <1>3, <2>1, <2>2 DEF Work, Verdict
    <2>4. Promise!GiveUp
      BY <1>1, <1>3, <1>4, <1>5, <2>1, <2>3 DEF Promise!GiveUp
    <2> QED
      BY <1>1, <1>3, <2>1, <2>4, MainKeeps DEF Promise!Next
  <1>6. CASE machine.phase # "Recording"
    <2>1. UNCHANGED order
      BY <1>3, <1>6, CancelPhase DEF CancelOperation
    <2>2. Work' = Work
      BY <1>3, <2>1 DEF Work
    <2>3. CASE machine' = machine
      BY <1>1, <1>3, <2>1, <2>3, Unseen
    <2>4. CASE machine' # machine
      <3>1. machine.phase = "Postprocessing" /\ CancellablePost(machine, raw)
        BY <1>1, <1>6, <2>4 DEF OnCancel, Accept, Reject
      <3>2. machine'.phase = machine.phase /\ machine'.post \in {"CommitRaw", "Discard"}
        BY <1>1, <1>3, <3>1 DEF OnCancel, Accept, Machine
      <3>3. Verdict = "open" /\ Verdict' \in {"raw", "discard"}
        BY <3>1, <3>2 DEF Verdict, CancellablePost
      <3>4. Promise!Judge
        BY <1>1, <1>3, <1>4, <2>2, <3>1, <3>2, <3>3 DEF Promise!Judge
      <3> QED
        BY <1>1, <1>3, <3>1, <3>4, MainKeeps DEF Promise!Next, CancellablePost
    <2> QED
      BY <2>3, <2>4
  <1> QED
    BY <1>5, <1>6

LEMMA CommandsServe ==
    ASSUME PromiseInv, Command("main")
    PROVE  Serves
  <1> USE DEF ShutdownLabels
  <1> DEFINE m == "main"
  <1>1. CASE \E ime \in Imes(m), raw \in BOOLEAN : CancelOperation(m, ime, raw)
    BY <1>1, CancelJudges
  <1>2. CASE \/ \E ime \in Imes(m), c \in BOOLEAN : StartRecording(m, ime, c)
             \/ \E ime \in Imes(m) : StopRecording(m, ime)
    <2>1. UNCHANGED <<machine, order, payload>> /\ pc[m] = "idle"
      BY <1>2, ZenonT(30) DEF StartRecording, StopRecording, lockVars, workVars
    <2>2. \E l \in {"f_wake", "s_lock", "p_stop"} : Goto(m, l)
      BY <1>2, ZenonT(30) DEF StartRecording, StopRecording
    <2> QED
      BY <2>1, <2>2, MainGoes, Unseen DEF PromiseInv, OwnerInv, ShuttingDown
  <1>3. CASE ReloadAsrBackend(m)
    <2>1. UNCHANGED <<machine, order, payload, pc>>
      BY <1>3 DEF ReloadAsrBackend, workVars
    <2> QED
      BY <2>1, Unseen DEF ShuttingDown
  <1>4. "inject" \notin Commands(m)
    BY CommandsAssumption DEF Commands
  <1> QED
    BY <1>1, <1>2, <1>3, <1>4 DEF Command

LEMMA MainResets ==
    ASSUME PromiseInv, ResetLock("main")
    PROVE  Serves
  <1> USE DEF ShutdownLabels
  <1>1. /\ ~ShuttingDown /\ pc["main"] = "z_lock" /\ UNCHANGED payload
        /\ Goto("main", "z_restore") /\ machine' = Clear /\ order' = NoOrder
    BY DEF ResetLock, ShuttingDown, workVars, OnResetToIdle, Accept
  <1>2. machine.phase \in {"Idle", "Error"}
    BY <1>1 DEF PromiseInv, OwnerInv, OwnerOK, MainKnowsPhase
  <1>3. ShuttingDown' = ShuttingDown /\ pc'["worker"] = pc["worker"]
    BY <1>1, MainGoes DEF PromiseInv, OwnerInv, ShuttingDown
  <1>4. order = NoOrder /\ machine.post = "Inactive"
    BY <1>1, <1>2, Running
  <1>5. machine'.phase = "Idle" /\ machine'.post = "Inactive"
    BY <1>1 DEF Clear
  <1>6. Work' = Work /\ Verdict' = Verdict /\ Reply' = Reply
    BY <1>1, <1>3, <1>4, <1>5 DEF Work, Verdict, Reply
  <1>7. CASE machine.phase = "Error"
    <2>1. Promise!Recover
      BY <1>3, <1>5, <1>6, <1>7 DEF Promise!Recover
    <2> QED
      BY <1>1, <1>3, <1>5, <2>1, MainKeeps DEF Promise!Next
  <1>8. CASE machine.phase = "Idle"
    <2>1. UNCHANGED Promise!vars
      BY <1>3, <1>5, <1>6, <1>8 DEF Promise!vars
    <2> QED
      BY <1>1, <1>3, <1>5, <2>1 DEF Serves, PromiseInv, VerdictInPlace, TextInPlace
  <1> QED
    BY <1>2, <1>7, <1>8

LEMMA SharedMainServes ==
    ASSUME PromiseInv, Shared("main")
    PROVE  Serves
  <1> USE DEF ShutdownLabels
  <1> DEFINE m == "main"
  <1>1. frame[m].ret \in {"idle", "s_lock", "w_loop"}
    BY CallersAreThreads DEF PromiseInv, OwnerInv, TypeInv, ThreadsOK, Frame
  <1>2. CASE RestoreOutput(m)
    <2>1. UNCHANGED <<machine, order, payload>>
      BY <1>2 DEF RestoreOutput, lockVars, workVars
    <2>2. CASE pc[m] = "q_restore"
      <3>1. Goto(m, "q_lock")
        BY <1>2, <2>2 DEF RestoreOutput
      <3> QED
        BY <2>1, <2>2, <3>1, MainGoes, Unseen DEF PromiseInv, OwnerInv, ShuttingDown
    <2>3. CASE pc[m] # "q_restore"
      <3>1. /\ pc[m] \notin ShutdownLabels
            /\ \E l \in {"t_schedule", "r_retire", "m_apply", "idle", "s_lock", "w_loop", "p_lock",
                         "z_lock", "z_emit"} : Goto(m, l)
        BY <1>1, <1>2, <2>3 DEF RestoreOutput, Closing
      <3> QED
        BY <2>1, <3>1, MainGoes, Unseen DEF PromiseInv, OwnerInv, ShuttingDown
    <2> QED
      BY <2>2, <2>3
  <1>3. CASE ResetEmit(m) \/ MaybeApplyPendingReload(m)
    <2>1. /\ UNCHANGED <<machine, order, payload>> /\ pc[m] \notin ShutdownLabels
          /\ \E l \in {"m_apply", "idle", "s_lock", "w_loop"} : Goto(m, l)
      BY <1>1, <1>3 DEF ResetEmit, MaybeApplyPendingReload, lockVars, workVars
    <2> QED
      BY <2>1, MainGoes, Unseen DEF PromiseInv, OwnerInv, ShuttingDown
  <1> QED
    BY <1>2, <1>3, MainResets DEF Shared

(* The poll loop, the shutdown, the callbacks, and stuttering. *)
LEMMA LoopServes ==
    ASSUME PromiseInv,
           \/ MainFlush \/ ExpireLook \/ ExpireDestroy \/ Quit \/ Shutdown
           \/ AudioArrives \/ SessionWakes \/ Terminated \/ UNCHANGED vars
    PROVE  Serves
  <1> USE DEF ShutdownLabels
  <1> DEFINE m == "main"
  <1>1. CASE MainFlush \/ ExpireLook \/ ExpireDestroy
    <2>1. /\ UNCHANGED <<machine, order, payload>> /\ pc[m] \in {"idle", "e_destroy"}
          /\ \E l \in {"f_wake", "e_destroy", "idle"} : Goto(m, l)
      BY <1>1 DEF MainFlush, ExpireLook, ExpireDestroy, lockVars, workVars
    <2> QED
      BY <2>1, MainGoes, Unseen DEF PromiseInv, OwnerInv, ShuttingDown
  <1>2. CASE Quit
    <2>1. UNCHANGED <<machine, order, payload>> /\ pc[m] = "idle" /\ Goto(m, "q_capture")
      BY <1>2 DEF Quit, lockVars, workVars
    <2>2. /\ pc'["worker"] = pc["worker"] /\ ~ShuttingDown /\ ShuttingDown' = TRUE
      BY <2>1, MainGoes DEF PromiseInv, OwnerInv, ShuttingDown
    <2>3. Work' = Work /\ Verdict' = Verdict /\ Reply' = Reply
      BY <2>1, <2>2 DEF Work, Verdict, Reply
    <2>4. Promise!Quit
      BY <2>1, <2>2, <2>3 DEF Promise!Quit
    <2> QED
      BY <2>1, <2>2, <2>4, MainKeeps DEF Promise!Next
  <1>3. CASE ShutdownLock
    <2>1. /\ UNCHANGED <<order, payload>> /\ pc[m] = "q_lock" /\ Goto(m, "q_active")
          /\ machine' = Clear
      BY <1>3 DEF ShutdownLock, workVars
    <2>2. pc'["worker"] = pc["worker"] /\ ShuttingDown /\ ShuttingDown' = ShuttingDown
      BY <2>1, MainGoes DEF PromiseInv, OwnerInv, ShuttingDown
    <2>3. machine'.phase = "Idle" /\ machine'.post = "Inactive"
      BY <2>1 DEF Clear
    <2>4. Work' = Work /\ Verdict' = "none" /\ Reply' = Reply
      BY <2>1, <2>2, <2>3 DEF Work, Verdict, Reply
    <2>5. Promise!Forget
      BY <2>1, <2>2, <2>3, <2>4 DEF Promise!Forget
    <2> QED
      BY <2>1, <2>2, <2>3, <2>5, MainKeeps DEF Promise!Next
  <1>4. CASE ShutdownCapture \/ ShutdownActive \/ ShutdownJoin
    <2>1. /\ UNCHANGED <<machine, order, payload>> /\ pc[m] \in ShutdownLabels
          /\ \E l \in ShutdownLabels : Goto(m, l)
      BY <1>4 DEF ShutdownCapture, ShutdownActive, ShutdownJoin, lockVars, workVars
    <2> QED
      BY <2>1, MainGoes, Unseen DEF PromiseInv, OwnerInv, ShuttingDown
  <1>5. CASE AudioArrives \/ SessionWakes \/ Terminated \/ UNCHANGED vars
    <2>1. UNCHANGED <<machine, order, payload, pc>>
      BY <1>5 DEF AudioArrives, SessionWakes, Terminated, vars, lockVars, workVars
    <2> QED
      BY <2>1, Unseen DEF ShuttingDown
  <1> QED
    BY <1>1, <1>2, <1>3, <1>4, <1>5 DEF Shutdown

-----------------------------------------------------------------------------
(* The worker. *)

LEMMA WorkerGoes ==
    ASSUME PromiseInv, NEW l, Goto("worker", l)
    PROVE  pc'["worker"] = l /\ ShuttingDown' = ShuttingDown
    BY CallersAreThreads DEF Goto, PromiseInv, OwnerInv, TypeInv, ThreadsOK, ShuttingDown

(* Between two looks at the order, and between taking it and the answer,   *)
(* the worker walks unseen.                                                *)
LEMMA WorkerUnseen ==
    ASSUME PromiseInv, NEW l, Goto("worker", l), UNCHANGED <<machine, order>>,
           order.kind = "moved" => pc["worker"] \notin {"w_emit", "z_lock"},
           order.kind = "moved" => l \notin {"w_emit", "z_lock"},
           pc["worker"] # "w_emit", l # "w_emit",
           VerdictInPlace', TextInPlace'
    PROVE  Serves
  <1>1. pc'["worker"] = l /\ ShuttingDown' = ShuttingDown
    BY WorkerGoes
  <1>2. Work' = Work /\ Verdict' = Verdict /\ Reply' = Reply
    BY <1>1 DEF Work, Verdict, Reply
  <1> QED
    BY <1>1, <1>2 DEF Serves, Promise!vars

LEMMA TakesOrder ==
    ASSUME PromiseInv, WorkerWait
    PROVE  Serves
  <1>1. pc["worker"] = "w_wait" /\ UNCHANGED machine
    BY DEF WorkerWait
  <1>2. order.kind # "moved" /\ machine.post = "Inactive"
    BY <1>1 DEF PromiseInv, OwnerInv, OwnerOK, SlotTellsWorker, WorkerBusy, VerdictInPlace
  <1>3. CASE order = NoOrder
    <2>1. Goto("worker", "done") /\ UNCHANGED <<order, payload>>
      BY <1>3 DEF WorkerWait
    <2>2. pc'["worker"] = "done"
      BY <2>1, WorkerGoes
    <2>3. VerdictInPlace' /\ TextInPlace'
      BY <1>1, <1>2, <2>2 DEF VerdictInPlace, TextInPlace
    <2> QED
      BY <1>1, <1>2, <2>1, <2>3, WorkerUnseen
  <1>4. CASE order # NoOrder
    <2>1. order.kind = "request"
      BY <1>2, <1>4 DEF PromiseInv, OwnerInv, OwnerOK, OrderForm, MovedOrder
    <2>2. order' = MovedOrder
      BY <1>4 DEF WorkerWait
    <2>3. \/ payload' \in {"text", "empty"} /\ Goto("worker", "w_pipeline")
          \/ UNCHANGED payload /\ Goto("worker", "w_finish")
      BY <1>4 DEF WorkerWait
    <2>4. /\ ShuttingDown' = ShuttingDown
          /\ \/ pc'["worker"] = "w_pipeline" /\ payload' \in {"text", "empty"}
             \/ pc'["worker"] = "w_finish"
      BY <2>3, WorkerGoes
    <2>5. Work = "queued" /\ Work' = "working" /\ Verdict' = Verdict /\ Reply' = Reply
      BY <1>1, <2>1, <2>2, <2>4 DEF Work, MovedOrder, Verdict, Reply
    <2>6. Promise!Take
      BY <1>1, <2>4, <2>5 DEF Promise!Take
    <2>7. VerdictInPlace' /\ TextInPlace'
      BY <1>1, <1>2, <2>4 DEF VerdictInPlace, TextInPlace
    <2> QED
      BY <2>6, <2>7 DEF Serves, Promise!Next
  <1> QED
    BY <1>3, <1>4

LEMMA FinishesSession ==
    ASSUME PromiseInv, WorkerFinish
    PROVE  Serves
  <1>1. pc["worker"] = "w_finish" /\ UNCHANGED <<machine, order>>
    BY DEF WorkerFinish, lockVars
  <1>2. order.kind = "moved" /\ machine.post = "Inactive"
    BY <1>1 DEF PromiseInv, OwnerInv, OwnerOK, SlotTellsWorker, WorkerBusy, VerdictInPlace
  <1>3. CASE payload' \in {"text", "empty"} /\ Goto("worker", "w_pipeline")
    <2>1. pc'["worker"] = "w_pipeline"
      BY <1>3, WorkerGoes
    <2>2. VerdictInPlace' /\ TextInPlace'
      BY <1>1, <1>2, <1>3, <2>1 DEF VerdictInPlace, TextInPlace
    <2> QED
      BY <1>1, <1>3, <2>2, WorkerUnseen
  <1>4. CASE UNCHANGED payload /\ Goto("worker", "w_except")
    <2>1. pc'["worker"] = "w_except"
      BY <1>4, WorkerGoes
    <2>2. VerdictInPlace' /\ TextInPlace'
      BY <2>1 DEF VerdictInPlace, TextInPlace
    <2> QED
      BY <1>1, <1>4, <2>2, WorkerUnseen
  <1>5. CASE UNCHANGED payload /\ Goto("worker", "z_lock")
    <2>1. pc'["worker"] = "z_lock" /\ ShuttingDown' = ShuttingDown
      BY <1>5, WorkerGoes
    <2>2. /\ Work = "working" /\ Work' = "closing" /\ Verdict = "none" /\ Verdict' = "none"
          /\ Reply' = Reply
      BY <1>1, <1>2, <2>1 DEF Work, Verdict, Reply
    <2>3. Promise!Abandon
      BY <1>1, <2>1, <2>2 DEF Promise!Abandon
    <2>4. VerdictInPlace' /\ TextInPlace'
      BY <1>1, <1>2, <2>1 DEF VerdictInPlace, TextInPlace
    <2> QED
      BY <2>3, <2>4 DEF Serves, Promise!Next
  <1> QED
    BY <1>3, <1>4, <1>5 DEF WorkerFinish

LEMMA EntersPostprocessing ==
    ASSUME PromiseInv, EnterPostprocessing
    PROVE  Serves
  <1>1. /\ pc["worker"] = "w_enter" /\ UNCHANGED <<order, payload>> /\ Goto("worker", "w_enter_emit")
        /\ machine' = OnInferenceComplete(machine, TRUE).machine
    BY DEF EnterPostprocessing
  <1>2. pc'["worker"] = "w_enter_emit" /\ ShuttingDown' = ShuttingDown /\ machine \in Machine
    BY <1>1, WorkerGoes DEF PromiseInv, OwnerInv, TypeInv, FieldsOK, LockOK
  <1>3. order.kind = "moved"
    BY <1>1 DEF PromiseInv, OwnerInv, OwnerOK, SlotTellsWorker, WorkerBusy
  <1>4. Work = "working" /\ Work' = "working" /\ Reply' = Reply
    BY <1>1, <1>2, <1>3 DEF Work, Reply
  <1>5. VerdictInPlace' /\ TextInPlace'
    BY <1>1, <1>2 DEF PromiseInv, VerdictInPlace, TextInPlace
  <1>6. CASE machine.phase = "Inferring"
    <2>1. machine'.phase = "Postprocessing" /\ machine'.post \in {"Command", "Dictation"}
      BY <1>1, <1>2, <1>6, ZenonT(30) DEF OnInferenceComplete, Accept, Machine
    <2>2. Verdict' = "open"
      BY <2>1 DEF Verdict
    <2>3. Promise!Rewrite
      BY <1>2, <1>4, <1>6, <2>1, <2>2 DEF Promise!Rewrite
    <2> QED
      BY <1>5, <2>3 DEF Serves, Promise!Next
  <1>7. CASE machine.phase # "Inferring"
    <2>1. machine' = machine
      BY <1>1, <1>7 DEF OnInferenceComplete, Reject
    <2>2. Verdict' = Verdict
      BY <2>1 DEF Verdict
    <2> QED
      BY <1>2, <1>4, <1>5, <2>1, <2>2 DEF Serves, Promise!vars
  <1> QED
    BY <1>6, <1>7

(* TakePostprocessingState() decides what is answered, once. *)
LEMMA TakesVerdict ==
    ASSUME PromiseInv, WorkerTake
    PROVE  Serves
  <1>1. /\ pc["worker"] = "w_take" /\ UNCHANGED order /\ Goto("worker", "w_emit")
        /\ machine' = AfterTake(machine)
    BY DEF WorkerTake
  <1>2. pc'["worker"] = "w_emit" /\ ShuttingDown' = ShuttingDown /\ machine \in Machine
    BY <1>1, WorkerGoes DEF PromiseInv, OwnerInv, TypeInv, FieldsOK, LockOK
  <1>3. order.kind = "moved" /\ payload \in {"text", "empty", "llm"}
    BY <1>1 DEF PromiseInv, OwnerInv, OwnerOK, SlotTellsWorker, WorkerBusy, TextInPlace
  <1>4. machine'.phase = machine.phase /\ machine'.post = "Inactive"
    BY <1>1, <1>2 DEF AfterTake, Machine
  <1>5. Work = "working" /\ Work' = "answer" /\ Verdict' = "none" /\ Reply' = payload'
    BY <1>1, <1>2, <1>3, <1>4 DEF Work, Verdict, Reply
  <1>6. payload' \in Promise!Answers(Verdict)
    <2>1. CASE machine.post = "CommitRaw"
      BY <2>1 DEF WorkerTake, Verdict, Promise!Answers
    <2>2. CASE machine.post = "Discard"
      BY <2>2 DEF WorkerTake, Verdict, Promise!Answers
    <2>3. CASE machine.post \notin {"CommitRaw", "Discard"}
      <3>1. payload' = payload /\ Verdict \in {"open", "none"}
        BY <2>3 DEF WorkerTake, Verdict
      <3> QED
        BY <1>3, <3>1 DEF Promise!Answers
    <2> QED
      BY <2>1, <2>2, <2>3
  <1>7. Promise!Answer
    BY <1>2, <1>4, <1>5, <1>6 DEF Promise!Answer
  <1>8. VerdictInPlace' /\ TextInPlace'
    BY <1>2, <1>4 DEF VerdictInPlace, TextInPlace
  <1> QED
    BY <1>7, <1>8 DEF Serves, Promise!Next

LEMMA EmitsOrGivesUp ==
    ASSUME PromiseInv, WorkerEmit \/ WorkerExcept
    PROVE  Serves
  <1>1. /\ UNCHANGED order /\ Goto("worker", "z_lock") /\ machine \in Machine
        /\ pc["worker"] \in {"w_emit", "w_except"}
    BY DEF WorkerEmit, WorkerExcept, lockVars, PromiseInv, OwnerInv, TypeInv, FieldsOK, LockOK
  <1>2. pc'["worker"] = "z_lock" /\ ShuttingDown' = ShuttingDown /\ order.kind = "moved"
    BY <1>1, WorkerGoes DEF PromiseInv, OwnerInv, OwnerOK, SlotTellsWorker, WorkerBusy
  <1>3. CASE WorkerEmit
    <2>1. pc["worker"] = "w_emit" /\ UNCHANGED machine
      BY <1>3 DEF WorkerEmit, lockVars
    <2>2. Work = "answer" /\ Work' = "closing" /\ Verdict' = Verdict /\ Reply' = "none"
      BY <1>1, <1>2, <2>1 DEF Work, Verdict, Reply
    <2>3. Promise!Deliver
      BY <1>2, <2>1, <2>2 DEF Promise!Deliver
    <2>4. VerdictInPlace' /\ TextInPlace'
      BY <1>2, <2>1 DEF PromiseInv, VerdictInPlace, TextInPlace
    <2> QED
      BY <2>3, <2>4 DEF Serves, Promise!Next
  <1>4. CASE WorkerExcept
    <2>1. /\ pc["worker"] = "w_except"
          /\ machine'.phase = machine.phase /\ machine'.post = "Inactive"
      BY <1>1, <1>4 DEF WorkerExcept, AfterTake, Machine
    <2>2. Work = "working" /\ Work' = "closing" /\ Verdict' = "none" /\ Reply' = Reply
      BY <1>1, <1>2, <2>1 DEF Work, Verdict, Reply
    <2>3. Promise!Abandon
      BY <1>2, <2>1, <2>2 DEF Promise!Abandon
    <2>4. VerdictInPlace' /\ TextInPlace'
      BY <1>2, <2>1 DEF VerdictInPlace, TextInPlace
    <2> QED
      BY <2>3, <2>4 DEF Serves, Promise!Next
  <1> QED
    BY <1>3, <1>4

LEMMA WorkerServes ==
    ASSUME PromiseInv, Worker
    PROVE  Serves
  <1>1. CASE WorkerLoop
    <2>1. pc["worker"] = "w_loop" /\ UNCHANGED <<machine, order, payload>>
      BY <1>1 DEF WorkerLoop, lockVars, workVars
    <2>2. PICK l \in {"w_wait", "done"} : Goto("worker", l)
      BY <1>1 DEF WorkerLoop
    <2>3. pc'["worker"] = l /\ order.kind # "moved"
      BY <2>1, <2>2, WorkerGoes DEF PromiseInv, OwnerInv, OwnerOK, SlotTellsWorker, WorkerBusy
    <2>4. VerdictInPlace' /\ TextInPlace'
      BY <2>1, <2>2, <2>3 DEF PromiseInv, VerdictInPlace, TextInPlace
    <2> QED
      BY <2>1, <2>2, <2>3, <2>4, WorkerUnseen
  <1>2. CASE WorkerPipeline \/ EnterEmit \/ WorkerProcess
    <2>1. /\ pc["worker"] \in {"w_pipeline", "w_enter_emit", "w_llm"}
          /\ UNCHANGED <<machine, order>> /\ payload' \in {payload, "llm"}
      BY <1>2 DEF WorkerPipeline, EnterEmit, WorkerProcess, lockVars, workVars
    <2>2. PICK l \in {"w_take", "w_enter", "w_llm", "w_except"} :
            Goto("worker", l) /\ (l = "w_enter" => pc["worker"] = "w_pipeline")
      BY <1>2 DEF WorkerPipeline, EnterEmit, WorkerProcess
    <2>3. pc'["worker"] = l
      BY <2>2, WorkerGoes
    <2>4. TextInPlace'
      BY <2>1, <2>2, <2>3 DEF PromiseInv, TextInPlace
    <2>5. VerdictInPlace'
      BY <2>1, <2>2, <2>3 DEF PromiseInv, VerdictInPlace
    <2> QED
      BY <2>1, <2>2, <2>4, <2>5, WorkerUnseen
  <1> QED
    BY <1>1, <1>2, TakesOrder, FinishesSession, EntersPostprocessing, TakesVerdict, EmitsOrGivesUp
       DEF Worker

(* The end of an iteration: ResetToIdle() closes the utterance. *)
LEMMA SharedWorkerServes ==
    ASSUME PromiseInv, Shared("worker")
    PROVE  Serves
  <1> USE DEF WorkerLabels, ResetLabels
  <1>1. frame["worker"].ret = "w_loop" /\ pc["worker"] \in WorkerLabels \cup ResetLabels
    BY DEF PromiseInv, OwnerInv, OwnerOK, WorkerInPlace
  <1>2. CASE ResetLock("worker")
    <2>1. /\ pc["worker"] = "z_lock" /\ Goto("worker", "z_restore") /\ UNCHANGED payload
          /\ machine' = Clear /\ order' = NoOrder
      BY <1>2 DEF ResetLock, OnResetToIdle, Accept, workVars
    <2>2. order.kind = "moved" /\ machine.post = "Inactive"
      BY <2>1 DEF PromiseInv, OwnerInv, OwnerOK, SlotTellsWorker, WorkerBusy, VerdictInPlace
    <2>3. pc'["worker"] = "z_restore" /\ ShuttingDown' = ShuttingDown
      BY <2>1, WorkerGoes
    <2>4. machine'.phase = "Idle" /\ machine'.post = "Inactive"
      BY <2>1 DEF Clear
    <2>5. Work = "closing" /\ Work' = "none" /\ Verdict' = Verdict /\ Reply' = Reply
      BY <2>1, <2>2, <2>3, <2>4 DEF Work, NoOrder, Verdict, Reply
    <2>6. Promise!Close
      BY <2>3, <2>4, <2>5 DEF Promise!Close
    <2>7. VerdictInPlace' /\ TextInPlace'
      BY <2>3, <2>4 DEF VerdictInPlace, TextInPlace
    <2> QED
      BY <2>6, <2>7 DEF Serves, Promise!Next
  <1>3. CASE RestoreOutput("worker") \/ ResetEmit("worker") \/ MaybeApplyPendingReload("worker")
    <2>1. UNCHANGED <<machine, order, payload>> /\ pc["worker"] \in {"z_restore", "z_emit", "m_apply"}
      BY <1>1, <1>3 DEF RestoreOutput, ResetEmit, MaybeApplyPendingReload, lockVars, workVars
    <2>2. PICK l \in {"z_emit", "m_apply", "w_loop"} : Goto("worker", l)
      BY <1>1, <1>3, <2>1 DEF RestoreOutput, ResetEmit, MaybeApplyPendingReload
    <2>3. pc'["worker"] = l /\ order.kind # "moved" /\ machine.post = "Inactive"
      BY <2>1, <2>2, WorkerGoes DEF PromiseInv, OwnerInv, OwnerOK, SlotTellsWorker, WorkerBusy,
                                    VerdictInPlace
    <2>4. VerdictInPlace' /\ TextInPlace'
      BY <2>1, <2>2, <2>3 DEF VerdictInPlace, TextInPlace
    <2> QED
      BY <2>1, <2>2, <2>3, <2>4, WorkerUnseen
  <1> QED
    BY <1>2, <1>3 DEF Shared

-----------------------------------------------------------------------------
LEMMA PromiseStep ==
    ASSUME Clients = {}, PromiseInv, [Next]_vars
    PROVE  PromiseInv' /\ [Promise!Next]_(Promise!vars)
  <1>1. OwnerInv'
    BY OwnerNext DEF PromiseInv, OnlyCancelled
  <1>2. CASE \E t \in Callers : Command(t) \/ Step(t)
    <2>1. Command("main") \/ Step("main")
      BY <1>2 DEF Callers
    <2>2. Serves
      BY <2>1, CommandsServe, SilentSteps, InstallBegins, FailureFails, StopHandsOver
    <2> QED
      BY <1>1, <2>2 DEF PromiseInv, Serves
  <1>3. CASE \E t \in Threads : Shared(t)
    <2>1. Shared("main") \/ Shared("worker")
      BY <1>3 DEF Callers, Threads
    <2>2. Serves
      BY <2>1, SharedMainServes, SharedWorkerServes
    <2> QED
      BY <1>1, <2>2 DEF PromiseInv, Serves
  <1>4. CASE \/ MainFlush \/ ExpireLook \/ ExpireDestroy \/ Quit \/ Shutdown
             \/ AudioArrives \/ SessionWakes \/ Terminated \/ UNCHANGED vars \/ Worker
    <2>1. Serves
      BY <1>4, LoopServes, WorkerServes
    <2> QED
      BY <1>1, <2>1 DEF PromiseInv, Serves
  <1> QED
    BY <1>2, <1>3, <1>4 DEF Next

LEMMA PromiseInit ==
    ASSUME Init
    PROVE  PromiseInv /\ Promise!Init
  <1>1. OwnerInv
    BY OwnerInit
  <1>2. /\ pc["worker"] = "w_loop" /\ pc["main"] = "idle"
        /\ machine.phase = "Idle" /\ machine.post = "Inactive" /\ order.kind = "none"
    BY CallersAreThreads, ThreadsAssumption DEF Init, Clear, NoOrder
  <1>3. VerdictInPlace /\ TextInPlace
    BY <1>2 DEF VerdictInPlace, TextInPlace
  <1>4. Work = "none" /\ Verdict = "none" /\ Reply = "none" /\ ShuttingDown = FALSE
    BY <1>2 DEF Work, Verdict, Reply, ShuttingDown, ShutdownLabels
  <1> QED
    BY <1>1, <1>2, <1>3, <1>4 DEF PromiseInv, Promise!Init

(* With the input method as the only caller, DaemonRuntimeController with    *)
(* its worker, its deferred actions and its shutdown implements PushToTalk: *)
(* one utterance at a time, answered at most once and in the way that was   *)
(* asked for, and no recording before the last one is done with.            *)
THEOREM KeepsPromise == ASSUME Clients = {} PROVE Spec => ImplementsPushToTalk
  <1>1. Init => PromiseInv /\ Promise!Init
    BY PromiseInit
  <1>2. PromiseInv /\ [Next]_vars => PromiseInv' /\ [Promise!Next]_(Promise!vars)
    BY PromiseStep
  <1> QED
    BY <1>1, <1>2, PTL DEF Spec, ImplementsPushToTalk, Promise!Spec
=============================================================================
