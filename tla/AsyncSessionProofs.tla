------------------------- MODULE AsyncSessionProofs -------------------------
(***************************************************************************)
(* AsyncRecognitionSession: why no chunk is lost silently, why a session   *)
(* is ended once and before it is freed, and why an utterance has one      *)
(* outcome, for any sizes, bounds and texts.                               *)
(***************************************************************************)
EXTENDS AsyncSession, TLAPS, WellFoundedInduction

(* The time, in seconds, a leaf that names no prover gives to each.        *)
USE SMTT(30), ZenonT(30)

(* All that is assumed of the constants. *)
Bounds == MaxTexts \in Nat /\ ChunkSizes \subseteq Nat

(* Types that hold whatever the bounds are. *)
ChunkType == [id : Nat, size : ChunkSizes]
SessionType == [queue : Seq(ChunkType), queued : Int, finish : BOOLEAN,
                cancel : BOOLEAN, complete : BOOLEAN, success : BOOLEAN, failed : BOOLEAN,
                events : Seq(Event)]
WorkerType == [at : {"wait", "push", "publish", "append", "wake", "announce", "finish",
                     "cancel", "complete", "exited"},
               chunk : Nat, hand : Seq(Event), ok : BOOLEAN,
               then : {"wait", "announce", "complete"}]
BackendType == [received : Seq(Nat), texts : Nat, ends : Nat, interrupted : BOOLEAN]
MainType == [at : {"loop", "poll", "failure", "fail", "cancel", "interrupt", "retire", "reap"},
             taken : Seq(Event)]
HistoryType == [offered : Seq(Nat), cancelled : BOOLEAN, broke : BOOLEAN, reports : Nat,
                result : {"none", "ok", "failed"}]

Types ==
    /\ session \in SessionType /\ worker \in WorkerType /\ backend \in BackendType
    /\ main \in MainType /\ history \in HistoryType
    /\ asr \in {"idle", "finish", "wait", "drop", "done"}
    /\ holder \in {"active", "main", "retired", "order", "destroyed"}

(* Who owns the session, and what its owner may be doing with it. *)
Ownership ==
    /\ main.at \in {"poll", "failure", "fail"} => holder = "active"
    /\ main.at \in {"cancel", "interrupt", "retire"} <=> holder = "main"
    /\ main.at = "reap" => holder = "retired"
    /\ asr # "idle" => holder \in {"order", "destroyed"}
    /\ session.finish => asr \in {"wait", "drop", "done"}
    /\ holder = "destroyed" => worker.at = "exited" /\ asr \in {"idle", "done"}
    /\ main.taken # <<>> => main.at = "failure"

(* The backend was ended: Finish() or Cancel() was called on it. *)
Ended == worker.at \in {"complete", "exited"}
           \/ (worker.at \in {"append", "wake"} /\ worker.then = "complete")

(* Where the worker is and what the session's flags say. *)
WorkerInStep ==
    /\ backend.ends = IF Ended THEN 1 ELSE 0
    /\ session.complete <=> worker.at = "exited"
    /\ session.success => session.complete /\ worker.ok
    /\ worker.ok => Ended
    /\ worker.at = "finish" \/ worker.ok =>
         session.finish /\ ~session.cancel /\ session.queue = <<>>
    /\ worker.at \in {"cancel", "announce"}
         \/ (worker.at \in {"append", "wake"} /\ worker.then = "announce") => session.cancel
    /\ Ended => session.finish \/ session.cancel
    /\ worker.hand # <<>> => worker.at \in {"append", "publish"}

(* Chunks are numbered: the backend has the first ones, the worker the     *)
(* next one and the queue those that follow, up to the last one offered    *)
(* unless the session gave up.                                             *)
Taken == Len(backend.received) + (IF worker.at \in {"push", "publish"} THEN 1 ELSE 0)
AudioInPlace ==
    /\ \A k \in 1..Len(history.offered) : history.offered[k] = k
    /\ \A k \in 1..Len(backend.received) : backend.received[k] = k
    /\ worker.at \in {"push", "publish"} => worker.chunk = Len(backend.received) + 1
    /\ \A k \in 1..Len(session.queue) : session.queue[k].id = Taken + k
    /\ Taken + Len(session.queue) <= Len(history.offered)
    /\ ~session.cancel => Taken + Len(session.queue) = Len(history.offered)
    /\ session.cancel => session.queue = <<>>
    /\ history.result = "ok" => worker.ok

(* At most one report, none of a cancelled utterance. *)
Reports ==
    /\ holder = "active" \/ (holder = "order" /\ asr \in {"idle", "finish", "wait"}) =>
         history.reports = 0 /\ ~history.cancelled /\ history.result = "none"
    /\ history.reports <= 1
    /\ history.cancelled => history.reports = 0 /\ holder \in {"main", "retired", "destroyed"}
                              /\ asr = "idle"
    /\ history.result # "none" => asr \in {"drop", "done"}

(* The backend's last final text is on its way: in the worker's hand, in   *)
(* the session's events, in the main thread's hand or applied.             *)
TextInPlace ==
    /\ history.result # "failed" =>
         LastFinal(worker.hand, LastFinal(session.events, LastFinal(main.taken, text)))
           = backend.texts
    /\ history.result = "ok" => session.events = <<>> /\ worker.at = "exited"

(* The inductive invariant. *)
AsyncInv == Types /\ Ownership /\ WorkerInStep /\ AudioInPlace /\ Reports /\ TextInPlace

(* A non-empty set of numbers up to n has a greatest one. *)
LEMMA MaxExists ==
    ASSUME NEW n \in Nat, NEW S, S \subseteq 1..n, S # {}
    PROVE  Max(S) \in S /\ \A y \in S : y <= Max(S)
  <1> DEFINE T == {n - i : i \in S}
  <1>1. \A i \in S : i \in Nat /\ n - i \in Nat
    OBVIOUS
  <1>2. T \subseteq Nat /\ T # {}
    BY <1>1, ZenonT(30)
  <1>3. PICK x \in T : \A y \in T : ~(<<y, x>> \in OpToRel(<, Nat))
    BY <1>2, WFMin, NatLessThanWellFounded, ZenonT(30)
  <1>4. \A y \in T : ~(y < x)
    <2> HIDE DEF T
    <2> TAKE y \in T
    <2>0. y \in Nat /\ x \in Nat
      BY <1>2
    <2>1. <<y,x>> \in Nat \X Nat /\ <<y,x>>[1] = y /\ <<y,x>>[2] = x
      BY <2>0
    <2>2. <<y, x>> \in OpToRel(<, Nat) <=> y < x
      BY <2>1 DEF OpToRel
    <2> QED BY ZenonT(30), <1>3, <2>2
  <1>5. PICK i \in S : x = n - i
    OBVIOUS
  <1>6. \A j \in S : j <= i
    <2> TAKE j \in S
    <2>1. ~(n - j < n - i)
     BY <1>4, <1>5
    <2> QED BY <1>1, <2>1
  <1> QED
    BY <1>5, <1>6, <1>1, ZenonT(30) DEF Max

(* The places of the final texts. *)
Finals(s) == {i \in DOMAIN s : s[i].kind = "final"}

(* The text LastFinal returns, by the places of the final texts. *)
LEMMA LastFinalOf ==
    ASSUME NEW s, NEW k
    PROVE  LastFinal(s, k) = IF Finals(s) = {} THEN k ELSE s[Max(Finals(s))].text
    BY DEF LastFinal, Finals

(* An upper bound that belongs to the set is its maximum. *)
LEMMA MaxUnique ==
    ASSUME NEW S, S \subseteq Nat, NEW m \in S, \A y \in S : y <= m
    PROVE  Max(S) = m
  <1>1. Max(S) \in S /\ \A y \in S : Max(S) >= y
    BY ZenonT(30) DEF Max
  <1>2. Max(S) \in Nat /\ m \in Nat /\ m <= Max(S) /\ Max(S) <= m
    BY <1>1, ZenonT(30)
  <1> QED
    BY <1>2

(* Polling in two portions or in one gives the same text. *)
LEMMA LastFinalConcat ==
    ASSUME NEW a \in Seq(Event), NEW b \in Seq(Event), NEW k
    PROVE  LastFinal(a \o b, k) = LastFinal(b, LastFinal(a, k))
  <1> DEFINE c == a \o b
  <1>0. /\ Len(c) = Len(a) + Len(b) /\ DOMAIN c = 1..(Len(a) + Len(b))
        /\ \A i \in 1..Len(a) : c[i] = a[i]
        /\ \A i \in 1..Len(b) : c[Len(a) + i] = b[i]
        /\ DOMAIN a = 1..Len(a) /\ DOMAIN b = 1..Len(b) /\ Len(a) \in Nat /\ Len(b) \in Nat
    OBVIOUS
  <1> HIDE DEF c
  <1>a. /\ Finals(a) \subseteq 1..Len(a) /\ Finals(b) \subseteq 1..Len(b)
        /\ Finals(c) \subseteq 1..(Len(a) + Len(b))
    BY <1>0 DEF Finals
  <1>1. CASE Finals(b) = {}
    <2>1. \A i \in 1..(Len(a) + Len(b)) :
            i \notin 1..Len(a) => c[i] = b[i - Len(a)] /\ i - Len(a) \in 1..Len(b)
      <3> TAKE i \in 1..(Len(a) + Len(b))
      <3>1. i \notin 1..Len(a) => i - Len(a) \in 1..Len(b) /\ Len(a) + (i - Len(a)) = i
        BY <1>0
      <3> QED
        BY <1>0, <3>1
    <2>2. Finals(c) = Finals(a)
      <3>1. \A i \in Finals(a) : i \in Finals(c)
        BY <1>0 DEF Finals
      <3>2. ASSUME NEW i \in Finals(c)
            PROVE  i \in Finals(a)
        <4>1. i \in 1..(Len(a) + Len(b)) /\ c[i].kind = "final"
          BY <1>0, <3>2 DEF Finals
        <4>2. CASE i \in 1..Len(a)
          BY <1>0, <4>1, <4>2 DEF Finals
        <4>3. CASE i \notin 1..Len(a)
          <5>1. i - Len(a) \in Finals(b)
            BY <1>0, <2>1, <4>1, <4>3 DEF Finals
          <5> QED
            BY <1>1, <5>1
        <4> QED
          BY <4>2, <4>3
      <3> QED
        BY <3>1, <3>2, ZenonT(30)
    <2>3. Finals(a) # {} => Max(Finals(a)) \in 1..Len(a)
      BY <1>0, <1>a, MaxExists
    <2> QED
      BY <1>0, <1>1, <2>2, <2>3, LastFinalOf, ZenonT(30) DEF c
  <1>2. CASE Finals(b) # {}
    <2> DEFINE m == Max(Finals(b))
    <2>1. m \in Finals(b) /\ \A y \in Finals(b) : y <= m
      BY <1>0, <1>a, <1>2, MaxExists
    <2> HIDE DEF m
    <2>2. m \in 1..Len(b) /\ c[Len(a) + m] = b[m] /\ Len(a) + m \in 1..(Len(a) + Len(b))
      BY <1>0, <1>a, <2>1
    <2>3. Len(a) + m \in Finals(c)
      BY <1>0, <2>1, <2>2 DEF Finals
    <2>4. ASSUME NEW i \in Finals(c)
          PROVE  i <= Len(a) + m
      <3>1. CASE i <= Len(a)
        BY <1>0, <1>a, <3>1, <2>2
      <3>2. CASE ~(i <= Len(a))
        <4>1. /\ i - Len(a) \in 1..Len(b) /\ Len(a) + (i - Len(a)) = i
              /\ c[Len(a) + (i - Len(a))] = b[i - Len(a)]
          BY <1>0, <1>a, <3>2
        <4>2. i - Len(a) \in Finals(b)
          BY <1>0, <4>1, <2>4 DEF Finals
        <4> QED
          BY <1>0, <1>a, <2>1, <2>2, <4>2
      <3> QED BY <3>1, <3>2
    <2>5. Max(Finals(c)) = Len(a) + m
      BY <1>a, <1>0, <2>3, <2>4, MaxUnique
    <2>6. LastFinal(c, k) = c[Len(a) + m].text
      BY <2>3, <2>5, LastFinalOf
    <2>7. LastFinal(b, LastFinal(a, k)) = b[m].text
      BY <1>2, LastFinalOf DEF m
    <2> QED
      BY <2>2, <2>6, <2>7 DEF c
  <1> QED
    BY <1>1, <1>2

(* Events without a final text leave the known one. *)
LEMMA NoFinals ==
    ASSUME NEW s \in Seq(Event), \A i \in 1..Len(s) : s[i].kind # "final", NEW k
    PROVE  LastFinal(s, k) = k
  <1>1. DOMAIN s = 1..Len(s)
    OBVIOUS
  <1>2. Finals(s) = {}
    BY <1>1 DEF Finals
  <1> QED
    BY <1>2, LastFinalOf

(* No events leave the known text. *)
LEMMA LastFinalEmpty ==
    ASSUME NEW k
    PROVE  LastFinal(<<>>, k) = k
  <1>1. <<>> \in Seq(Event) /\ \A i \in 1..Len(<<>>) : FALSE
    OBVIOUS
  <1> QED
    BY <1>1, NoFinals, ZenonT(30)

(* What a call of the backend may leave to be polled. *)
LEMMA EmitsTyped ==
    ASSUME Bounds, NEW n \in Nat, NEW events \in Emits(n)
    PROVE  events \in Seq(Event) /\ LastFinal(events, n) \in Nat
  <1>1. CASE events = <<>>
    BY <1>1, LastFinalEmpty
  <1>2. CASE events = <<Plain("partial")>>
    <2>1. Plain("partial") \in Event
      BY DEF Plain, Event
    <2>2. events \in Seq(Event) /\ Len(events) = 1 /\ events[1].kind = "partial"
      BY <1>2, <2>1 DEF Plain
    <2>3. LastFinal(events, n) = n
      BY <2>2, NoFinals
    <2> QED
      BY <2>2, <2>3
  <1>3. CASE n < MaxTexts /\ events = <<[kind |-> "final", text |-> n + 1]>>
    <2>1. [kind |-> "final", text |-> n + 1] \in Event
      BY <1>3 DEF Event, Bounds
    <2>2. /\ events \in Seq(Event) /\ DOMAIN events = {1}
          /\ events[1].kind = "final" /\ events[1].text = n + 1
      BY <1>3, <2>1
    <2>3. Finals(events) = {1}
      BY <2>2 DEF Finals
    <2>4. Max(Finals(events)) = 1
      BY <2>3, MaxUnique
    <2>5. LastFinal(events, n) = n + 1
      BY <2>2, <2>3, <2>4, LastFinalOf, ZenonT(30)
    <2> QED
      BY <2>2, <2>5
  <1> QED
    BY <1>1, <1>2, <1>3 DEF Emits

(* An event that carries no final text. *)
LEMMA PlainTyped ==
    ASSUME NEW kind \in {"partial", "completed", "error"}
    PROVE  /\ Plain(kind) \in Event /\ Plain(kind).kind # "final"
    BY DEF Plain, Event

(* The events of a failure, of the end or of both. *)
LEMMA PlainEvents ==
    ASSUME NEW events \in {<<>>, <<Plain("error")>>, <<Plain("completed")>>,
                           <<Plain("error"), Plain("completed")>>}
    PROVE  events \in Seq(Event) /\ \A k : LastFinal(events, k) = k
  <1>0. Plain("error") \in Event /\ Plain("completed") \in Event
    BY PlainTyped
  <1>1. events \in Seq(Event)
    <2>1. /\ <<>> \in Seq(Event) /\ <<Plain("error")>> \in Seq(Event)
          /\ <<Plain("completed")>> \in Seq(Event)
      BY <1>0
    <2>2. <<Plain("error"), Plain("completed")>> \in Seq(Event)
      BY <1>0
    <2> QED
      BY <2>1, <2>2, ZenonT(30)
  <1>2. \A i \in 1..Len(events) : events[i].kind # "final"
    BY PlainTyped
  <1> QED
    BY <1>1, <1>2, NoFinals

(* What giving up changes in the session. *)
LEMMA EmptiedEffect ==
    ASSUME NEW s \in SessionType
    PROVE  /\ Emptied(s) \in SessionType
           /\ Emptied(s).cancel = TRUE /\ Emptied(s).queue = <<>> /\ Emptied(s).finish = s.finish
           /\ Emptied(s).complete = s.complete /\ Emptied(s).success = s.success
           /\ Emptied(s).events = s.events
  <1> DEFINE none == <<>>
             zero == 0
             yes == TRUE
  <1>1. none \in Seq(ChunkType) /\ zero \in Int /\ yes \in BOOLEAN
    OBVIOUS
  <1>2. Emptied(s) = [s EXCEPT !.cancel = yes, !.queue = none, !.queued = zero]
    BY DEF Emptied
  <1> HIDE DEF none, zero, yes
  <1>3. /\ Emptied(s).cancel = yes /\ Emptied(s).queue = none /\ Emptied(s).finish = s.finish
        /\ Emptied(s).complete = s.complete /\ Emptied(s).success = s.success
        /\ Emptied(s).events = s.events
    BY <1>2 DEF SessionType
  <1>4. Emptied(s) \in SessionType
    BY <1>1, <1>2, ZenonT(30) DEF SessionType
  <1> QED
    BY <1>3, <1>4 DEF none, yes

(* PushAudio takes the chunk, refuses it or gives up the session. *)
LEMMA PushAudioEffect ==
    ASSUME Bounds, NEW s \in SessionType, NEW c \in ChunkType
    PROVE  /\ PushAudio(s, c).session \in SessionType
           /\ PushAudio(s, c).ok \in BOOLEAN
           /\ PushAudio(s, c).session.finish = s.finish
           /\ PushAudio(s, c).session.complete = s.complete
           /\ PushAudio(s, c).session.success = s.success
           /\ PushAudio(s, c).session.events = s.events
           /\ PushAudio(s, c).ok =>
                /\ ~Refuses(s) /\ PushAudio(s, c).session.cancel = s.cancel
                /\ PushAudio(s, c).session.queue = Append(s.queue, c)
           /\ ~PushAudio(s, c).ok =>
                \/ Refuses(s) /\ PushAudio(s, c).session = s
                \/ PushAudio(s, c).session.cancel /\ PushAudio(s, c).session.queue = <<>>
  <1>1. CASE Refuses(s)
    BY <1>1 DEF PushAudio
  <1>2. CASE ~Refuses(s) /\ Overflows(s, c.size)
    <2>1. PushAudio(s, c) = [ok |-> FALSE, session |-> Emptied(s)]
      BY <1>2 DEF PushAudio
    <2>2. PushAudio(s, c).ok = FALSE /\ PushAudio(s, c).session = Emptied(s)
      BY <2>1
    <2> QED
      BY <2>2, EmptiedEffect, ZenonT(30)
  <1>3. CASE ~Refuses(s) /\ ~Overflows(s, c.size)
    <2> DEFINE q == Append(s.queue, c)
               n == s.queued + c.size
               r == [s EXCEPT !.queue = q, !.queued = n]
    <2>1. s.queue \in Seq(ChunkType) /\ s.queued \in Int /\ c.size \in Nat
      BY ZenonT(30) DEF SessionType, Bounds, ChunkType
    <2>2. q \in Seq(ChunkType) /\ n \in Int
      BY <2>1
    <2>3. PushAudio(s, c) = [ok |-> TRUE, session |-> r]
      BY <1>3 DEF PushAudio
    <2> HIDE DEF q, n
    <2>4. /\ r \in SessionType /\ r.finish = s.finish /\ r.complete = s.complete
          /\ r.success = s.success /\ r.events = s.events /\ r.cancel = s.cancel /\ r.queue = q
      BY <2>2, ZenonT(30) DEF SessionType
    <2> HIDE DEF r
    <2>5. PushAudio(s, c).ok = TRUE /\ PushAudio(s, c).session = r
      BY <2>3
    <2> QED
      BY <1>3, <2>4, <2>5, ZenonT(30) DEF q
  <1> QED
    BY <1>1, <1>2, <1>3

(* The updates of the records, one lemma each, for values that are only    *)
(* known by their type.                                                    *)

Verdicts == {"none", "ok", "failed"}

(* The events queued for the owner. *)
LEMMA EventsSet ==
    ASSUME NEW r \in SessionType, NEW e \in Seq(Event),
           NEW t, t = [r EXCEPT !.events = e]
    PROVE  /\ t \in SessionType /\ t.queue = r.queue /\ t.finish = r.finish
           /\ t.cancel = r.cancel /\ t.complete = r.complete /\ t.success = r.success
           /\ t.events = e
    BY DEF SessionType

(* Asking for the end. *)
LEMMA FinishSet ==
    ASSUME NEW r \in SessionType, NEW b \in BOOLEAN,
           NEW t, t = [r EXCEPT !.finish = b]
    PROVE  /\ t \in SessionType /\ t.queue = r.queue /\ t.finish = b /\ t.cancel = r.cancel
           /\ t.complete = r.complete /\ t.success = r.success /\ t.events = r.events
    BY DEF SessionType

(* Counting a report. *)
LEMMA ReportsSet ==
    ASSUME NEW r \in HistoryType, NEW n \in Nat,
           NEW t, t = [r EXCEPT !.reports = n]
    PROVE  /\ t \in HistoryType /\ t.offered = r.offered /\ t.cancelled = r.cancelled
           /\ t.reports = n /\ t.result = r.result
    BY DEF HistoryType

(* Offering a chunk. *)
LEMMA OfferedSet ==
    ASSUME NEW r \in HistoryType, NEW q \in Seq(Nat),
           NEW t, t = [r EXCEPT !.offered = q]
    PROVE  /\ t \in HistoryType /\ t.offered = q /\ t.cancelled = r.cancelled
           /\ t.reports = r.reports /\ t.result = r.result
    BY DEF HistoryType

(* Giving up: the queue is emptied and no chunk follows. *)
LEMMA GivesUp ==
    ASSUME Types, AudioInPlace, session'.cancel = TRUE, session'.queue = <<>>,
           backend'.received = backend.received, worker'.ok = worker.ok,
           history'.offered \in Seq(Nat), Len(history.offered) <= Len(history'.offered),
           \A k \in 1..Len(history'.offered) : history'.offered[k] = k,
           history'.result = "ok" => history.result = "ok",
           worker'.at \in {"push", "publish"} => worker'.at = worker.at /\ worker'.chunk = worker.chunk
    PROVE  AudioInPlace'
  <1>1. /\ Len(session.queue) \in Nat /\ Len(backend.received) \in Nat /\ Len(history.offered) \in Nat
        /\ Len(history'.offered) \in Nat /\ Len(session'.queue) = 0
    BY DEF Types, SessionType, BackendType, HistoryType
  <1>2. Taken \in Nat /\ Taken' \in Nat /\ Taken' <= Taken
    <2>1. /\ worker.at \in {"push", "publish"} => Taken = Len(backend.received) + 1
          /\ worker.at \notin {"push", "publish"} => Taken = Len(backend.received) + 0
      BY ZenonT(30) DEF Taken
    <2>2. /\ worker'.at \in {"push", "publish"} => Taken' = Len(backend'.received) + 1
          /\ worker'.at \notin {"push", "publish"} => Taken' = Len(backend'.received) + 0
      BY ZenonT(30) DEF Taken
    <2>3. Len(backend'.received) = Len(backend.received)
      OBVIOUS
    <2> HIDE DEF Taken
    <2> QED
      BY <1>1, <2>1, <2>2, <2>3
  <1>3. Taken + Len(session.queue) <= Len(history.offered)
    BY DEF AudioInPlace
  <1>4. Taken' + Len(session'.queue) <= Len(history'.offered)
    BY <1>1, <1>2, <1>3
  <1>5. \A k \in 1..Len(session'.queue) : FALSE
    BY <1>1
  <1> QED
    BY <1>4, <1>5 DEF AudioInPlace

(* A step that moves no chunk. *)
LEMMA MovesNoChunk ==
    ASSUME AudioInPlace, session'.queue = session.queue, session'.cancel = session.cancel,
           backend'.received = backend.received, history'.offered = history.offered,
           history'.result = history.result, worker.ok => worker'.ok,
           worker'.at \in {"push", "publish"} <=> worker.at \in {"push", "publish"},
           worker'.chunk = worker.chunk
    PROVE  AudioInPlace'
  <1>1. Taken' = Taken
    BY ZenonT(30) DEF Taken
  <1> QED
    BY <1>1 DEF AudioInPlace

(* A wake-up is served. *)
LEMMA FlushKeeps ==
    ASSUME Bounds, AsyncInv, FlushDeferredActions
    PROVE  AsyncInv'
  <1>0. Types /\ Ownership /\ WorkerInStep /\ AudioInPlace /\ Reports /\ TextInPlace
    BY DEF AsyncInv
  <1>1. /\ main.at = "loop" /\ session' = session /\ worker' = worker /\ backend' = backend
        /\ main' \in MainType
        /\ main'.at = (IF holder = "retired" THEN "reap" ELSE IF holder = "active" THEN "poll" ELSE "loop")
        /\ main'.taken = main.taken /\ asr' = asr /\ holder' = holder /\ text' = text
        /\ history' = history
    BY <1>0, ZenonT(30)
       DEF FlushDeferredActions, Types, SessionType, WorkerType, BackendType, MainType,
           HistoryType
  <1>2. Types'
    BY <1>0, <1>1 DEF Types
  <1>3. Ownership'
    BY <1>0, <1>1 DEF Ownership
  <1>4. WorkerInStep'
    BY <1>0, <1>1 DEF WorkerInStep, Ended, Ownership
  <1>5. AudioInPlace'
    BY <1>0, <1>1, MovesNoChunk
  <1>6. Reports'
    BY <1>0, <1>1 DEF Reports, Ownership
  <1>7. TextInPlace'
    BY <1>0, <1>1 DEF TextInPlace, Ownership, WorkerInStep
  <1> QED
    BY <1>2, <1>3, <1>4, <1>5, <1>6, <1>7 DEF AsyncInv

(* The events are taken from the session. *)
LEMMA PollKeeps ==
    ASSUME Bounds, AsyncInv, PollEvents
    PROVE  AsyncInv'
  <1>0. Types /\ Ownership /\ WorkerInStep /\ AudioInPlace /\ Reports /\ TextInPlace
    BY DEF AsyncInv
  <1>1. /\ main.at = "poll" /\ session' \in SessionType /\ session'.queue = session.queue
        /\ session'.finish = session.finish /\ session'.cancel = session.cancel
        /\ session'.complete = session.complete /\ session'.success = session.success
        /\ session'.events = <<>> /\ worker' = worker /\ backend' = backend
        /\ main' \in MainType /\ main'.at = "failure" /\ main'.taken = session.events
        /\ asr' = asr /\ holder' = holder /\ text' = text /\ history' = history
    <2> DEFINE e == <<>>
    <2>1. session' = [session EXCEPT !.events = e] /\ e \in Seq(Event) /\ session \in SessionType
      BY <1>0 DEF PollEvents, Types
    <2> HIDE DEF e
    <2>2. /\ session' \in SessionType /\ session'.queue = session.queue
          /\ session'.finish = session.finish /\ session'.cancel = session.cancel
          /\ session'.complete = session.complete /\ session'.success = session.success
          /\ session'.events = e
      BY <2>1, EventsSet
    <2>3. session.events \in Seq(Event)
      BY <1>0 DEF Types, SessionType
    <2>4. main' = [at |-> "failure", taken |-> session.events] /\ main' \in MainType
      BY <2>3 DEF PollEvents, MainType
    <2> QED
      BY <2>2, <2>4 DEF PollEvents, e
  <1>2. Types'
    BY <1>0, <1>1 DEF Types
  <1>3. Ownership'
    BY <1>0, <1>1 DEF Ownership
  <1>4. WorkerInStep'
    BY <1>0, <1>1 DEF WorkerInStep, Ended, Ownership
  <1>5. AudioInPlace'
    BY <1>0, <1>1, MovesNoChunk
  <1>6. Reports'
    BY <1>0, <1>1 DEF Reports, Ownership
  <1>7. TextInPlace'
    <2>1. main.taken = <<>>
      BY <1>0, <1>1 DEF Ownership
    <2>2. history.result # "ok"
      BY <1>0, <1>1 DEF Ownership, Reports
    <2> QED
      BY <1>0, <1>1, <2>1, <2>2, LastFinalEmpty DEF TextInPlace
  <1> QED
    BY <1>2, <1>3, <1>4, <1>5, <1>6, <1>7 DEF AsyncInv

(* The events taken are applied. *)
LEMMA FailureKeeps ==
    ASSUME Bounds, AsyncInv, FailureError
    PROVE  AsyncInv'
  <1>0. Types /\ Ownership /\ WorkerInStep /\ AudioInPlace /\ Reports /\ TextInPlace
    BY DEF AsyncInv
  <1>1. /\ main.at = "failure" /\ main'.at \in {"fail", "loop"} /\ session' = session
        /\ worker' = worker /\ backend' = backend /\ main' \in MainType /\ main'.taken = <<>>
        /\ asr' = asr /\ holder' = holder /\ text' = LastFinal(main.taken, text)
        /\ history' = history
    BY <1>0 DEF FailureError, Types, SessionType, WorkerType, BackendType, MainType, HistoryType
  <1>2. Types'
    BY <1>0, <1>1 DEF Types
  <1>3. Ownership'
    BY <1>0, <1>1 DEF Ownership
  <1>4. WorkerInStep'
    BY <1>0, <1>1 DEF WorkerInStep, Ended, Ownership
  <1>5. AudioInPlace'
    BY <1>0, <1>1, MovesNoChunk
  <1>6. Reports'
    BY <1>0, <1>1 DEF Reports, Ownership
  <1>7. TextInPlace'
    BY <1>0, <1>1, LastFinalEmpty DEF TextInPlace
  <1> QED
    BY <1>2, <1>3, <1>4, <1>5, <1>6, <1>7 DEF AsyncInv

(* The failure is reported and the session detached. *)
LEMMA FailKeeps ==
    ASSUME Bounds, AsyncInv, FailActiveSession
    PROVE  AsyncInv'
  <1>0. Types /\ Ownership /\ WorkerInStep /\ AudioInPlace /\ Reports /\ TextInPlace
    BY DEF AsyncInv
  <1>1. /\ main.at = "fail" /\ session' = session /\ worker' = worker /\ backend' = backend
        /\ main' \in MainType /\ main'.at = "cancel" /\ main'.taken = main.taken /\ asr' = asr
        /\ holder' = "main" /\ text' = text /\ history' \in HistoryType
        /\ history'.offered = history.offered /\ history'.cancelled = history.cancelled
        /\ history'.reports = history.reports + 1 /\ history'.result = history.result
    <2>1. history' = [history EXCEPT !.reports = history.reports + 1] /\ history.reports + 1 \in Nat
      BY <1>0 DEF FailActiveSession, Types, HistoryType
    <2>2. /\ history' \in HistoryType /\ history'.offered = history.offered
          /\ history'.cancelled = history.cancelled /\ history'.result = history.result
          /\ history'.reports = history.reports + 1
      BY <1>0, <2>1, ReportsSet DEF Types
    <2> QED
      BY <1>0, <2>2 DEF FailActiveSession, Types, MainType
  <1>2. Types'
    BY <1>0, <1>1 DEF Types
  <1>3. Ownership'
    BY <1>0, <1>1 DEF Ownership
  <1>4. WorkerInStep'
    BY <1>0, <1>1 DEF WorkerInStep, Ended, Ownership
  <1>5. AudioInPlace'
    BY <1>0, <1>1, MovesNoChunk
  <1>6. Reports'
    BY <1>0, <1>1 DEF Reports, Ownership
  <1>7. TextInPlace'
    BY <1>0, <1>1 DEF TextInPlace, Ownership, WorkerInStep
  <1> QED
    BY <1>2, <1>3, <1>4, <1>5, <1>6, <1>7 DEF AsyncInv

(* The user cancels. *)
LEMMA CancelRecordingKeeps ==
    ASSUME Bounds, AsyncInv, CancelRecording
    PROVE  AsyncInv'
  <1>0. Types /\ Ownership /\ WorkerInStep /\ AudioInPlace /\ Reports /\ TextInPlace
    BY DEF AsyncInv
  <1>1. /\ main.at = "loop" /\ holder = "active" /\ session' = session /\ worker' = worker
        /\ backend' = backend /\ main' \in MainType /\ main'.at = "cancel"
        /\ main'.taken = main.taken /\ asr' = asr /\ holder' = "main" /\ text' = text
        /\ history' \in HistoryType /\ history'.offered = history.offered
        /\ history'.cancelled = TRUE /\ history'.reports = history.reports
        /\ history'.result = history.result
    BY <1>0, ZenonT(30) DEF CancelRecording, Types, SessionType, WorkerType, BackendType, MainType,
         HistoryType
  <1>2. Types'
    BY <1>0, <1>1 DEF Types
  <1>3. Ownership'
    BY <1>0, <1>1 DEF Ownership
  <1>4. WorkerInStep'
    BY <1>0, <1>1 DEF WorkerInStep, Ended, Ownership
  <1>5. AudioInPlace'
    BY <1>0, <1>1, MovesNoChunk
  <1>6. Reports'
    BY <1>0, <1>1 DEF Reports, Ownership
  <1>7. TextInPlace'
    BY <1>0, <1>1 DEF TextInPlace, Ownership, WorkerInStep
  <1> QED
    BY <1>2, <1>3, <1>4, <1>5, <1>6, <1>7 DEF AsyncInv

(* The critical section of Cancel(): the queue is emptied, or the session   *)
(* was over already.                                                       *)
LEMMA CancelKeeps ==
    ASSUME Bounds, AsyncInv, Cancel
    PROVE  AsyncInv'
  <1>0. Types /\ Ownership /\ WorkerInStep /\ AudioInPlace /\ Reports /\ TextInPlace
    BY DEF AsyncInv
  <1>1. /\ main.at = "cancel" /\ main'.at \in {"retire", "interrupt"}
        /\ ((session'.cancel = TRUE /\ session'.queue = <<>>) \/ session' = session)
        /\ session' \in SessionType /\ session'.finish = session.finish
        /\ session'.complete = session.complete /\ session'.success = session.success
        /\ session'.events = session.events /\ worker' = worker /\ backend' = backend
        /\ main' \in MainType /\ main'.taken = main.taken /\ asr' = asr /\ holder' = holder
        /\ text' = text /\ history' = history
    <2>1. CASE session.complete \/ session.cancel
      BY <1>0, <2>1 DEF Cancel, Types, MainType
    <2>2. CASE ~(session.complete \/ session.cancel)
      <3>1. session' = Emptied(session) /\ session \in SessionType
        BY <1>0, <2>2 DEF Cancel, Types
      <3> QED
        BY <1>0, <2>2, <3>1, EmptiedEffect, ZenonT(30) DEF Cancel, Types, MainType
    <2> QED
      BY <2>1, <2>2, ZenonT(30)
  <1>2. Types'
    BY <1>0, <1>1 DEF Types
  <1>3. Ownership'
    BY <1>0, <1>1 DEF Ownership
  <1>4. WorkerInStep'
    <2>1. session.finish = FALSE
      BY <1>0, <1>1 DEF Types, SessionType, Ownership
    <2>2. worker.at # "finish" /\ ~worker.ok
      BY <1>0, <2>1 DEF WorkerInStep
    <2> QED
      BY <1>0, <1>1, <2>2 DEF WorkerInStep, Ended
  <1>5. AudioInPlace'
    <2>1. CASE session' = session
      BY <1>0, <1>1, <2>1, ZenonT(30) DEF AudioInPlace, Taken
    <2>2. CASE session'.cancel = TRUE /\ session'.queue = <<>>
      <3>1. history.offered \in Seq(Nat) /\ Len(history.offered) <= Len(history.offered)
        BY <1>0 DEF Types, HistoryType
      <3> QED
        BY <1>0, <1>1, <2>2, <3>1, GivesUp, ZenonT(30) DEF AudioInPlace
    <2> QED
      BY <1>1, <2>1, <2>2, ZenonT(30)
  <1>6. Reports'
    BY <1>0, <1>1 DEF Reports, Ownership
  <1>7. TextInPlace'
    BY <1>0, <1>1 DEF TextInPlace, Ownership, WorkerInStep
  <1> QED
    BY <1>2, <1>3, <1>4, <1>5, <1>6, <1>7 DEF AsyncInv

(* The backend call in flight is interrupted. *)
LEMMA InterruptKeeps ==
    ASSUME Bounds, AsyncInv, Interrupt
    PROVE  AsyncInv'
  <1>0. Types /\ Ownership /\ WorkerInStep /\ AudioInPlace /\ Reports /\ TextInPlace
    BY DEF AsyncInv
  <1>1. /\ main.at = "interrupt" /\ session' = session /\ worker' = worker
        /\ backend' \in BackendType /\ backend'.received = backend.received
        /\ backend'.texts = backend.texts /\ backend'.ends = backend.ends /\ main' \in MainType
        /\ main'.at = "retire" /\ main'.taken = main.taken /\ asr' = asr /\ holder' = holder
        /\ text' = text /\ history' = history
    BY <1>0, ZenonT(30) DEF Interrupt, Types, SessionType, WorkerType, BackendType, MainType,
         HistoryType
  <1>2. Types'
    BY <1>0, <1>1 DEF Types
  <1>3. Ownership'
    BY <1>0, <1>1 DEF Ownership
  <1>4. WorkerInStep'
    BY <1>0, <1>1 DEF WorkerInStep, Ended, Ownership
  <1>5. AudioInPlace'
    BY <1>0, <1>1, MovesNoChunk
  <1>6. Reports'
    BY <1>0, <1>1 DEF Reports, Ownership
  <1>7. TextInPlace'
    BY <1>0, <1>1 DEF TextInPlace, Ownership, WorkerInStep
  <1> QED
    BY <1>2, <1>3, <1>4, <1>5, <1>6, <1>7 DEF AsyncInv

(* The session is left to be reaped. *)
LEMMA RetireKeeps ==
    ASSUME Bounds, AsyncInv, RetireSession
    PROVE  AsyncInv'
  <1>0. Types /\ Ownership /\ WorkerInStep /\ AudioInPlace /\ Reports /\ TextInPlace
    BY DEF AsyncInv
  <1>1. /\ main.at = "retire" /\ session' = session /\ worker' = worker /\ backend' = backend
        /\ main' \in MainType /\ main'.at = "loop" /\ main'.taken = main.taken /\ asr' = asr
        /\ holder' = "retired" /\ text' = text /\ history' = history
    BY <1>0, ZenonT(30) DEF RetireSession, Types, SessionType, WorkerType, BackendType, MainType,
         HistoryType
  <1>2. Types'
    BY <1>0, <1>1 DEF Types
  <1>3. Ownership'
    BY <1>0, <1>1 DEF Ownership
  <1>4. WorkerInStep'
    BY <1>0, <1>1 DEF WorkerInStep, Ended, Ownership
  <1>5. AudioInPlace'
    BY <1>0, <1>1, MovesNoChunk
  <1>6. Reports'
    BY <1>0, <1>1 DEF Reports, Ownership
  <1>7. TextInPlace'
    BY <1>0, <1>1 DEF TextInPlace, Ownership, WorkerInStep
  <1> QED
    BY <1>2, <1>3, <1>4, <1>5, <1>6, <1>7 DEF AsyncInv

(* The destructor joins the worker. *)
LEMMA ReapKeeps ==
    ASSUME Bounds, AsyncInv, FlushReapedSessions
    PROVE  AsyncInv'
  <1>0. Types /\ Ownership /\ WorkerInStep /\ AudioInPlace /\ Reports /\ TextInPlace
    BY DEF AsyncInv
  <1>1. /\ main.at = "reap" /\ worker.at = "exited" /\ session' = session /\ worker' = worker
        /\ backend' = backend /\ main' \in MainType /\ main'.at = "loop"
        /\ main'.taken = main.taken /\ asr' = asr /\ holder' = "destroyed" /\ text' = text
        /\ history' = history
    BY <1>0
       DEF FlushReapedSessions, Joined, Types, SessionType, WorkerType, BackendType, MainType,
           HistoryType
  <1>2. Types'
    BY <1>0, <1>1 DEF Types
  <1>3. Ownership'
    BY <1>0, <1>1 DEF Ownership
  <1>4. WorkerInStep'
    BY <1>0, <1>1 DEF WorkerInStep, Ended, Ownership
  <1>5. AudioInPlace'
    BY <1>0, <1>1, MovesNoChunk
  <1>6. Reports'
    BY <1>0, <1>1 DEF Reports, Ownership
  <1>7. TextInPlace'
    BY <1>0, <1>1 DEF TextInPlace, Ownership, WorkerInStep
  <1> QED
    BY <1>2, <1>3, <1>4, <1>5, <1>6, <1>7 DEF AsyncInv

(* The session becomes part of an order. *)
LEMMA StopKeeps ==
    ASSUME Bounds, AsyncInv, StopRecording
    PROVE  AsyncInv'
  <1>0. Types /\ Ownership /\ WorkerInStep /\ AudioInPlace /\ Reports /\ TextInPlace
    BY DEF AsyncInv
  <1>1. /\ main.at = "loop" /\ holder = "active" /\ session' = session /\ worker' = worker
        /\ backend' = backend /\ main' = main /\ asr' = asr /\ holder' = "order" /\ text' = text
        /\ history' = history
    BY <1>0 DEF StopRecording, Types, SessionType, WorkerType, BackendType, MainType, HistoryType
  <1>2. Types'
    BY <1>0, <1>1 DEF Types
  <1>3. Ownership'
    BY <1>0, <1>1 DEF Ownership
  <1>4. WorkerInStep'
    BY <1>0, <1>1 DEF WorkerInStep, Ended, Ownership
  <1>5. AudioInPlace'
    BY <1>0, <1>1, MovesNoChunk
  <1>6. Reports'
    BY <1>0, <1>1 DEF Reports, Ownership
  <1>7. TextInPlace'
    BY <1>0, <1>1 DEF TextInPlace, Ownership, WorkerInStep
  <1> QED
    BY <1>2, <1>3, <1>4, <1>5, <1>6, <1>7 DEF AsyncInv

(* The order drops the session once its worker is joined. *)
LEMMA DropKeeps ==
    ASSUME Bounds, AsyncInv, DropSession
    PROVE  AsyncInv'
  <1>0. Types /\ Ownership /\ WorkerInStep /\ AudioInPlace /\ Reports /\ TextInPlace
    BY DEF AsyncInv
  <1>1. /\ asr = "drop" /\ worker.at = "exited" /\ session' = session /\ worker' = worker
        /\ backend' = backend /\ main' = main /\ asr' = "done" /\ holder' = "destroyed"
        /\ text' = text /\ history' = history
    BY <1>0 DEF DropSession, Joined, Types, SessionType, WorkerType, BackendType, MainType, HistoryType
  <1>2. Types'
    BY <1>0, <1>1 DEF Types
  <1>3. Ownership'
    BY <1>0, <1>1 DEF Ownership
  <1>4. WorkerInStep'
    BY <1>0, <1>1 DEF WorkerInStep, Ended, Ownership
  <1>5. AudioInPlace'
    BY <1>0, <1>1, MovesNoChunk
  <1>6. Reports'
    BY <1>0, <1>1 DEF Reports, Ownership
  <1>7. TextInPlace'
    BY <1>0, <1>1 DEF TextInPlace, Ownership, WorkerInStep
  <1> QED
    BY <1>2, <1>3, <1>4, <1>5, <1>6, <1>7 DEF AsyncInv

(* The chunk offered next has the next number. *)
LEMMA NextIsNext ==
    ASSUME Bounds, Types, NEW size \in ChunkSizes
    PROVE  /\ NextChunk(size) \in ChunkType
           /\ NextChunk(size).id = Len(history.offered) + 1
           /\ Offered(NextChunk(size).id) \in HistoryType
           /\ Offered(NextChunk(size).id).offered = Append(history.offered, Len(history.offered) + 1)
           /\ Offered(NextChunk(size).id).cancelled = history.cancelled
           /\ Offered(NextChunk(size).id).reports = history.reports
           /\ Offered(NextChunk(size).id).result = history.result
  <1>1. history \in HistoryType /\ history.offered \in Seq(Nat) /\ Len(history.offered) + 1 \in Nat
    BY DEF Types, HistoryType
  <1>2. /\ NextChunk(size) \in ChunkType
        /\ NextChunk(size).id = Len(history.offered) + 1
    BY <1>1 DEF NextChunk, ChunkType
  <1> DEFINE q == Append(history.offered, Len(history.offered) + 1)
  <1>3. q \in Seq(Nat)
    BY <1>1
  <1>4. Offered(NextChunk(size).id) = [history EXCEPT !.offered = q]
    BY <1>2 DEF Offered
  <1> HIDE DEF q
  <1>5. /\ Offered(NextChunk(size).id) \in HistoryType
        /\ Offered(NextChunk(size).id).offered = q
        /\ Offered(NextChunk(size).id).cancelled = history.cancelled
        /\ Offered(NextChunk(size).id).reports = history.reports
        /\ Offered(NextChunk(size).id).result = history.result
    BY <1>1, <1>3, <1>4, OfferedSet
  <1> QED
    BY <1>2, <1>5 DEF q

(* A chunk offered by whoever owns the session before Finish(): it is      *)
(* queued behind the others, or the session gives up.                      *)
LEMMA PushKeeps ==
    ASSUME Bounds, Types, Ownership, WorkerInStep, AudioInPlace, asr = "idle",
           NEW size \in ChunkSizes, session' = PushAudio(session, NextChunk(size)).session,
           history'.offered = Append(history.offered, Len(history.offered) + 1),
           history'.result = "ok" => history.result = "ok",
           worker' = worker, backend' = backend
    PROVE  WorkerInStep' /\ AudioInPlace' /\ session' \in SessionType
             /\ session'.finish = session.finish /\ session'.events = session.events
  <1> DEFINE c == NextChunk(size)
             p == PushAudio(session, c)
  <1>1. c \in ChunkType /\ c.id = Len(history.offered) + 1
    BY NextIsNext DEF ChunkType
  <1>2. session \in SessionType /\ history.offered \in Seq(Nat)
    BY DEF Types, HistoryType
  <1>3. /\ session' \in SessionType /\ session'.finish = session.finish
        /\ session'.complete = session.complete /\ session'.success = session.success
        /\ session'.events = session.events
        /\ p.ok => /\ ~Refuses(session) /\ session'.cancel = session.cancel
                   /\ session'.queue = Append(session.queue, c)
        /\ ~p.ok => \/ Refuses(session) /\ session' = session
                    \/ session'.cancel /\ session'.queue = <<>>
    <2> HIDE DEF c
    <2> QED
      BY <1>1, <1>2, PushAudioEffect DEF c
  <1> HIDE DEF c, p
  <1>4. ~session.finish /\ worker.at # "finish" /\ ~worker.ok
    BY DEF Ownership, WorkerInStep
  <1>5. Refuses(session) => session.cancel
    BY <1>4 DEF Refuses, WorkerInStep, Ended
  <1>6. session.cancel => session'.cancel
    BY <1>3 DEF Refuses
  <1>7. WorkerInStep'
    BY <1>3, <1>4, <1>6 DEF WorkerInStep, Ended
  <1>8. /\ history'.offered \in Seq(Nat) /\ Len(history'.offered) = Len(history.offered) + 1
        /\ \A k \in 1..Len(history'.offered) : history'.offered[k] = k
        /\ Len(history.offered) \in Nat
    BY <1>2 DEF AudioInPlace
  <1>9. CASE ~p.ok
    <2>1. session'.cancel = TRUE /\ session'.queue = <<>>
      BY <1>3, <1>5, <1>9 DEF AudioInPlace, SessionType
    <2>2. Len(history.offered) <= Len(history'.offered)
      BY <1>8
    <2>3. AudioInPlace'
      BY <1>8, <2>1, <2>2, GivesUp, ZenonT(30)
    <2> QED
      BY <1>3, <1>7, <2>3
  <1>10. CASE p.ok
    <2>1. ~session.cancel /\ ~session'.cancel /\ session'.queue = Append(session.queue, c)
      BY <1>3, <1>10 DEF Refuses
    <2>2. session.queue \in Seq(ChunkType) /\ Len(session.queue) \in Nat
            /\ Len(backend.received) \in Nat
      BY DEF Types, SessionType, BackendType
    <2>3. Taken' = Taken /\ Taken \in Nat
      <3>1. Taken' = Taken
        BY DEF Taken
      <3>2. Taken = Len(backend.received) + 1 \/ Taken = Len(backend.received) + 0
        BY ZenonT(30) DEF Taken
      <3> QED
        BY <2>2, <3>1, <3>2
    <2>4. Taken + Len(session.queue) = Len(history.offered)
      BY <2>1 DEF AudioInPlace
    <2>5. Len(session'.queue) = Len(session.queue) + 1
      BY <1>1, <2>1, <2>2
    <2>6. /\ \A k \in 1..Len(session.queue) : session'.queue[k] = session.queue[k]
          /\ session'.queue[Len(session.queue) + 1] = c
      BY <1>1, <2>1, <2>2
    <2>7. \A k \in 1..Len(session'.queue) : session'.queue[k].id = Taken + k
      <3> TAKE k \in 1..Len(session'.queue)
      <3>1. CASE k \in 1..Len(session.queue)
        BY <2>6, <3>1 DEF AudioInPlace
      <3>2. CASE k = Len(session.queue) + 1
        <4>1. session'.queue[k].id = Len(history.offered) + 1
          BY <1>1, <2>6, <3>2
        <4>2. Len(session.queue) \in Nat
          BY <2>2
        <4>3. Len(history.offered) + 1 = Taken + k
          BY <2>3, <2>4, <3>2, <4>2
        <4> QED
          BY <4>1, <4>3
      <3> QED
        BY <2>2, <2>5, <3>1, <3>2
    <2>8. Taken' + Len(session'.queue) = Len(history'.offered)
      <3>1. Len(history'.offered) = Len(history.offered) + 1
        BY <1>8
      <3>2. Len(session.queue) \in Nat
        BY <2>2
      <3> QED
        BY <2>3, <2>4, <2>5, <3>1, <3>2
    <2>9. AudioInPlace'
      <3>1. Len(history'.offered) \in Nat /\ Taken' + Len(session'.queue) <= Len(history'.offered)
        BY <1>8, <2>8
      <3> QED
        BY <1>8, <2>1, <2>3, <2>7, <2>8, <3>1, ZenonT(30) DEF AudioInPlace
    <2> QED
      BY <1>3, <1>7, <2>9
  <1> QED
    BY <1>9, <1>10

(* The main thread offers a chunk. *)
LEMMA IncomingKeeps ==
    ASSUME Bounds, AsyncInv, NEW size \in ChunkSizes, HandleIncomingAudio(size)
    PROVE  AsyncInv'
  <1>0. Types /\ Ownership /\ WorkerInStep /\ AudioInPlace /\ Reports /\ TextInPlace
    BY DEF AsyncInv
  <1>1. /\ main.at = "loop" /\ holder = "active" /\ main'.at \in {"loop", "fail"}
        /\ session' = PushAudio(session, NextChunk(size)).session /\ worker' = worker
        /\ backend' = backend /\ main' \in MainType /\ main'.taken = main.taken /\ asr' = asr
        /\ holder' = holder /\ text' = text /\ history' \in HistoryType
        /\ history'.offered = Append(history.offered, Len(history.offered) + 1)
        /\ history'.cancelled = history.cancelled /\ history'.reports = history.reports
        /\ history'.result = history.result
    <2>1. history' = Offered(NextChunk(size).id)
      BY DEF HandleIncomingAudio
    <2>2. main' \in MainType /\ main'.at \in {"loop", "fail"} /\ main'.taken = main.taken
      BY <1>0 DEF HandleIncomingAudio, Types, MainType
    <2> QED
      BY <1>0, <2>1, <2>2, NextIsNext DEF HandleIncomingAudio
  <1> WorkerInStep' /\ AudioInPlace' /\ session' \in SessionType
        /\ session'.finish = session.finish /\ session'.events = session.events
    BY <1>0, <1>1, PushKeeps DEF Ownership
  <1>2. Types'
    BY <1>0, <1>1 DEF Types
  <1>3. Ownership'
    BY <1>0, <1>1 DEF Ownership
  <1>4. WorkerInStep'
    OBVIOUS
  <1>5. AudioInPlace'
    OBVIOUS
  <1>6. Reports'
    BY <1>0, <1>1 DEF Reports, Ownership
  <1>7. TextInPlace'
    BY <1>0, <1>1 DEF TextInPlace, Ownership, WorkerInStep
  <1> QED
    BY <1>2, <1>3, <1>4, <1>5, <1>6, <1>7 DEF AsyncInv

(* The recognition thread offers the tail of the recording, if there is    *)
(* any; a refused one is the utterance's failure.                          *)
LEMMA TailKeeps ==
    ASSUME Bounds, AsyncInv, PushTail
    PROVE  AsyncInv'
  <1>0. Types /\ Ownership /\ WorkerInStep /\ AudioInPlace /\ Reports /\ TextInPlace
    BY DEF AsyncInv
  <1>1. /\ asr = "idle" /\ holder = "order" /\ worker' = worker /\ backend' = backend
        /\ main' = main /\ holder' = holder /\ text' = text /\ asr' \in {"finish", "drop"}
    BY ZenonT(30) DEF PushTail
  <1>2. CASE asr' = "finish" /\ UNCHANGED <<session, history>>
    <2>1. Types' /\ Ownership' /\ Reports' /\ TextInPlace'
      BY <1>0, <1>1, <1>2 DEF Types, Ownership, Reports, TextInPlace
    <2>2. WorkerInStep' /\ AudioInPlace'
      BY <1>0, <1>1, <1>2, ZenonT(30) DEF WorkerInStep, Ended, AudioInPlace, Taken
    <2> QED
      BY <2>1, <2>2 DEF AsyncInv
  <1>3. ASSUME NEW size \in ChunkSizes,
               session' = PushAudio(session, NextChunk(size)).session,
               asr' = IF PushAudio(session, NextChunk(size)).ok THEN "finish" ELSE "drop",
               history' = IF PushAudio(session, NextChunk(size)).ok
                            THEN Offered(NextChunk(size).id)
                            ELSE [Offered(NextChunk(size).id) EXCEPT !.reports = @ + 1,
                                                                     !.result = "failed"]
        PROVE  AsyncInv'
    <2> DEFINE o == Offered(NextChunk(size).id)
    <2>1. /\ o \in HistoryType
          /\ o.offered = Append(history.offered, Len(history.offered) + 1)
          /\ o.cancelled = history.cancelled /\ o.reports = history.reports
          /\ o.result = history.result
      BY <1>0, <1>3, NextIsNext
    <2>2. \/ asr' = "finish" /\ history' = o
          \/ asr' = "drop" /\ history' = [o EXCEPT !.reports = o.reports + 1, !.result = "failed"]
      BY <1>3
    <2> HIDE DEF o
    <2>3. /\ history' \in HistoryType
          /\ history'.offered = Append(history.offered, Len(history.offered) + 1)
          /\ history'.cancelled = history.cancelled
          /\ \/ asr' = "finish" /\ history'.reports = history.reports
                                /\ history'.result = history.result
             \/ asr' = "drop" /\ history'.reports = history.reports + 1
                              /\ history'.result = "failed"
      <3>1. o.reports + 1 \in Nat
        BY <2>1 DEF HistoryType
      <3>2. CASE asr' = "finish" /\ history' = o
        BY <2>1, <3>2
      <3>3. CASE asr' = "drop" /\ history' = [o EXCEPT !.reports = o.reports + 1, !.result = "failed"]
        <4> DEFINE n == o.reports + 1
                   verdict == "failed"
        <4>1. history' = [o EXCEPT !.reports = n, !.result = verdict] /\ n \in Nat
                /\ verdict \in Verdicts
          BY <3>1, <3>3 DEF Verdicts
        <4> HIDE DEF n, verdict
        <4>2. /\ history' \in HistoryType /\ history'.offered = o.offered
              /\ history'.cancelled = o.cancelled /\ history'.reports = n
              /\ history'.result = verdict
          BY <2>1, <4>1, ZenonT(30) DEF HistoryType, Verdicts
        <4> QED
          BY <2>1, <3>3, <4>2 DEF n, verdict
      <3> QED
        BY <2>2, <3>2, <3>3
    <2>4. WorkerInStep' /\ AudioInPlace' /\ session' \in SessionType
             /\ session'.finish = session.finish /\ session'.events = session.events
      BY <1>0, <1>1, <1>3, <2>3, PushKeeps
    <2>5. Types' /\ Ownership'
      BY <1>0, <1>1, <2>3, <2>4 DEF Types, Ownership
    <2>6. Reports'
      BY <1>0, <1>1, <2>3 DEF Reports, Types, HistoryType
    <2>7. TextInPlace'
      BY <1>0, <1>1, <2>3, <2>4 DEF TextInPlace, Reports
    <2> QED
      BY <2>4, <2>5, <2>6, <2>7 DEF AsyncInv
  <1> QED
    BY <1>2, <1>3, ZenonT(30) DEF PushTail

(* The recognition thread asks for the end. *)
LEMMA FinishKeeps ==
    ASSUME Bounds, AsyncInv, Finish
    PROVE  AsyncInv'
  <1>0. Types /\ Ownership /\ WorkerInStep /\ AudioInPlace /\ Reports /\ TextInPlace
    BY DEF AsyncInv
  <1>1. /\ asr = "finish" /\ (session.finish => session'.finish) /\ session' \in SessionType
        /\ session'.queue = session.queue /\ session'.cancel = session.cancel
        /\ session'.complete = session.complete /\ session'.success = session.success
        /\ session'.events = session.events /\ worker' = worker /\ backend' = backend
        /\ main' = main /\ asr' = "wait" /\ holder' = holder /\ text' = text
        /\ history' = history
    <2>1. session' = session \/ session' = [session EXCEPT !.finish = TRUE]
      BY DEF Finish, RequestFinish
    <2>2. session \in SessionType
      BY <1>0 DEF Types
    <2>3. /\ session' \in SessionType /\ session'.queue = session.queue
          /\ session'.cancel = session.cancel /\ session'.complete = session.complete
          /\ session'.success = session.success /\ session'.events = session.events
          /\ session.finish => session'.finish
      BY <2>1, <2>2, FinishSet, ZenonT(30)
    <2> QED
      BY <2>3 DEF Finish
  <1>2. Types'
    BY <1>0, <1>1 DEF Types
  <1>3. Ownership'
    BY <1>0, <1>1 DEF Ownership
  <1>4. WorkerInStep'
    BY <1>0, <1>1 DEF WorkerInStep, Ended, Ownership
  <1>5. AudioInPlace'
    BY <1>0, <1>1, MovesNoChunk
  <1>6. Reports'
    BY <1>0, <1>1 DEF Reports, Ownership
  <1>7. TextInPlace'
    BY <1>0, <1>1 DEF TextInPlace, Ownership, WorkerInStep
  <1> QED
    BY <1>2, <1>3, <1>4, <1>5, <1>6, <1>7 DEF AsyncInv

(* The result is collected once the session is complete: the events that   *)
(* are left are the last ones.                                             *)
LEMMA CollectKeeps ==
    ASSUME Bounds, AsyncInv, FinishSessionAndCollectResult
    PROVE  AsyncInv'
  <1>0. Types /\ Ownership /\ WorkerInStep /\ AudioInPlace /\ Reports /\ TextInPlace
    BY DEF AsyncInv
  <1>1. /\ asr = "wait" /\ session.complete
        /\ \/ /\ history'.result = "ok" /\ session.success /\ history'.reports = history.reports
              /\ text' = LastFinal(session.events, text)
           \/ history'.result = "failed" /\ history'.reports = history.reports + 1
        /\ session' \in SessionType /\ session'.queue = session.queue
        /\ session'.finish = session.finish /\ session'.cancel = session.cancel
        /\ session'.complete = session.complete /\ session'.success = session.success
        /\ session'.events = <<>> /\ worker' = worker /\ backend' = backend /\ main' = main
        /\ asr' = "drop" /\ holder' = holder /\ history' \in HistoryType
        /\ history'.offered = history.offered /\ history'.cancelled = history.cancelled
    <2> DEFINE e == <<>>
               ok == session.success /\ ~HasError(session.events)
               n == IF ok THEN history.reports ELSE history.reports + 1
               verdict == IF ok THEN "ok" ELSE "failed"
    <2>1. session' = [session EXCEPT !.events = e] /\ e \in Seq(Event) /\ session \in SessionType
      BY <1>0 DEF FinishSessionAndCollectResult, Types
    <2>2. /\ history' = [history EXCEPT !.result = verdict, !.reports = n]
          /\ text' = IF ok THEN LastFinal(session.events, text) ELSE text
          /\ asr = "wait" /\ session.complete /\ asr' = "drop" /\ worker' = worker
          /\ backend' = backend /\ main' = main /\ holder' = holder
      BY DEF FinishSessionAndCollectResult
    <2>3. n \in Nat /\ verdict \in Verdicts /\ history \in HistoryType
      BY <1>0 DEF Types, HistoryType, Verdicts
    <2>4. /\ ok => verdict = "ok" /\ n = history.reports /\ session.success
          /\ ~ok => verdict = "failed" /\ n = history.reports + 1
      OBVIOUS
    <2> HIDE DEF e, ok, n, verdict
    <2>5. /\ history' \in HistoryType /\ history'.offered = history.offered
          /\ history'.cancelled = history.cancelled /\ history'.result = verdict
          /\ history'.reports = n
      BY <2>2, <2>3, ZenonT(30) DEF HistoryType, Verdicts
    <2>6. /\ session' \in SessionType /\ session'.queue = session.queue
          /\ session'.finish = session.finish /\ session'.cancel = session.cancel
          /\ session'.complete = session.complete /\ session'.success = session.success
          /\ session'.events = e
      BY <2>1, EventsSet
    <2> QED
      BY <2>2, <2>4, <2>5, <2>6 DEF e
  <1>2. Types'
    BY <1>0, <1>1 DEF Types
  <1>3. Ownership'
    BY <1>0, <1>1 DEF Ownership
  <1>4. WorkerInStep'
    BY <1>0, <1>1 DEF WorkerInStep, Ended, Ownership
  <1>5. AudioInPlace'
    BY <1>0, <1>1, ZenonT(30) DEF AudioInPlace, Taken, WorkerInStep, Ended, Ownership
  <1>6. Reports'
    <2>1. holder = "order" /\ history.reports = 0 /\ ~history.cancelled
      BY <1>0, <1>1 DEF Reports, Ownership
    <2> QED
      BY <1>1, <2>1 DEF Reports
  <1>7. TextInPlace'
    <2>1. worker.hand = <<>> /\ main.taken = <<>>
      BY <1>0, <1>1 DEF WorkerInStep, Ownership
    <2>2. history.result = "none"
      BY <1>0, <1>1 DEF Reports
    <2>3. history'.result = "ok" => text' = backend.texts
      BY <1>0, <1>1, <2>1, <2>2, LastFinalEmpty DEF TextInPlace
    <2>4. worker'.at = "exited"
      BY <1>0, <1>1 DEF WorkerInStep
    <2> QED
      BY <1>1, <2>1, <2>3, <2>4, LastFinalEmpty DEF TextInPlace
  <1> QED
    BY <1>2, <1>3, <1>4, <1>5, <1>6, <1>7 DEF AsyncInv

(* What the worker does with the events it polled. *)
LEMMA ForwardEffect ==
    ASSUME worker \in WorkerType, NEW events \in Seq(Event),
           NEW then \in {"wait", "announce", "complete"}
    PROVE  /\ Forward(events, then) \in WorkerType /\ Forward(events, then).hand = events
           /\ Forward(events, then).then = then /\ Forward(events, then).ok = worker.ok
           /\ Forward(events, then).chunk = worker.chunk
           /\ Forward(events, then).at = (IF events = <<>> THEN then ELSE "append")
  <1> DEFINE a == IF events = <<>> THEN then ELSE "append"
  <1>1. Forward(events, then) = [worker EXCEPT !.hand = events, !.then = then, !.at = a]
    BY DEF Forward
  <1>2. a \in {"wait", "announce", "complete", "append"}
    OBVIOUS
  <1> HIDE DEF a
  <1>3. /\ Forward(events, then) \in WorkerType /\ Forward(events, then).hand = events
        /\ Forward(events, then).then = then /\ Forward(events, then).ok = worker.ok
        /\ Forward(events, then).chunk = worker.chunk /\ Forward(events, then).at = a
    BY <1>1, <1>2, ZenonT(30) DEF WorkerType
  <1> QED
    BY <1>3 DEF a

(* The number of the chunk the worker takes next. *)
LEMMA TakenIs ==
    ASSUME Types
    PROVE  /\ Len(backend.received) \in Nat /\ Len(session.queue) \in Nat
           /\ Len(history.offered) \in Nat /\ Taken \in Nat
           /\ worker.at \in {"push", "publish"} => Taken = Len(backend.received) + 1
           /\ worker.at \notin {"push", "publish"} => Taken = Len(backend.received) + 0
  <1>1. /\ Len(backend.received) \in Nat /\ Len(session.queue) \in Nat
        /\ Len(history.offered) \in Nat
    BY DEF Types, BackendType, SessionType, HistoryType
  <1>2. /\ worker.at \in {"push", "publish"} => Taken = Len(backend.received) + 1
        /\ worker.at \notin {"push", "publish"} => Taken = Len(backend.received) + 0
    BY ZenonT(30) DEF Taken
  <1> QED
    BY <1>1, <1>2

(* Run() wakes up to a cancelled session. *)
LEMMA WaitKeepsCancel ==
    ASSUME Bounds, AsyncInv, session.cancel, RunWait
    PROVE  AsyncInv'
  <1>0. Types /\ Ownership /\ WorkerInStep /\ AudioInPlace /\ Reports /\ TextInPlace
    BY DEF AsyncInv
  <1>1. /\ worker.at = "wait" /\ session' = session /\ worker' \in WorkerType
        /\ worker'.at = "cancel" /\ worker'.chunk = worker.chunk /\ worker'.hand = worker.hand
        /\ worker'.then = worker.then /\ worker'.ok = worker.ok /\ backend' = backend
        /\ main' = main /\ asr' = asr /\ holder' = holder /\ text' = text /\ history' = history
    BY <1>0, ZenonT(30) DEF RunWait, Types, SessionType, WorkerType, BackendType, MainType,
         HistoryType
  <1>2. Types'
    BY <1>0, <1>1 DEF Types
  <1>3. Ownership'
    BY <1>0, <1>1 DEF Ownership
  <1>4. WorkerInStep'
    BY <1>0, <1>1 DEF WorkerInStep, Ended, Ownership
  <1>5. AudioInPlace'
    BY <1>0, <1>1, MovesNoChunk, ZenonT(30)
  <1>6. Reports'
    BY <1>0, <1>1 DEF Reports, Ownership
  <1>7. TextInPlace'
    BY <1>0, <1>1 DEF TextInPlace, Ownership, WorkerInStep
  <1> QED
    BY <1>2, <1>3, <1>4, <1>5, <1>6, <1>7 DEF AsyncInv

(* Run() wakes up to the request to finish. *)
LEMMA WaitKeepsFinish ==
    ASSUME Bounds, AsyncInv, ~session.cancel, session.queue = <<>>, RunWait
    PROVE  AsyncInv'
  <1>0. Types /\ Ownership /\ WorkerInStep /\ AudioInPlace /\ Reports /\ TextInPlace
    BY DEF AsyncInv
  <1>1. /\ worker.at = "wait" /\ session.finish /\ session' = session /\ worker' \in WorkerType
        /\ worker'.at = "finish" /\ worker'.chunk = worker.chunk /\ worker'.hand = worker.hand
        /\ worker'.then = worker.then /\ worker'.ok = worker.ok /\ backend' = backend
        /\ main' = main /\ asr' = asr /\ holder' = holder /\ text' = text /\ history' = history
    BY <1>0, ZenonT(30)
       DEF RunWait, Types, SessionType, WorkerType, BackendType, MainType, HistoryType
  <1>2. Types'
    BY <1>0, <1>1 DEF Types
  <1>3. Ownership'
    BY <1>0, <1>1 DEF Ownership
  <1>4. WorkerInStep'
    BY <1>0, <1>1 DEF WorkerInStep, Ended, Ownership
  <1>5. AudioInPlace'
    BY <1>0, <1>1, MovesNoChunk
  <1>6. Reports'
    BY <1>0, <1>1 DEF Reports, Ownership
  <1>7. TextInPlace'
    BY <1>0, <1>1 DEF TextInPlace, Ownership, WorkerInStep
  <1> QED
    BY <1>2, <1>3, <1>4, <1>5, <1>6, <1>7 DEF AsyncInv

(* Run() takes the next chunk. *)
LEMMA WaitKeepsChunk ==
    ASSUME Bounds, AsyncInv, ~session.cancel, session.queue # <<>>, RunWait
    PROVE  AsyncInv'
  <1>0. Types /\ Ownership /\ WorkerInStep /\ AudioInPlace /\ Reports /\ TextInPlace
    BY DEF AsyncInv
  <1>1. /\ worker.at = "wait" /\ session' \in SessionType
        /\ session'.queue = Tail(session.queue) /\ session'.finish = session.finish
        /\ session'.cancel = session.cancel /\ session'.complete = session.complete
        /\ session'.success = session.success /\ session'.events = session.events
        /\ worker' \in WorkerType /\ worker'.at = "push"
        /\ worker'.chunk = Head(session.queue).id /\ worker'.hand = worker.hand
        /\ worker'.then = worker.then /\ worker'.ok = worker.ok /\ backend' = backend
        /\ main' = main /\ asr' = asr /\ holder' = holder /\ text' = text /\ history' = history
    <2> DEFINE q == Tail(session.queue)
               c == Head(session.queue)
               n == session.queued - c.size
    <2>1. session.queue \in Seq(ChunkType) /\ session.queued \in Int
            /\ session \in SessionType /\ worker \in WorkerType
      BY <1>0 DEF Types, SessionType
    <2>2. q \in Seq(ChunkType) /\ c \in ChunkType
      BY <2>1
    <2>3. n \in Int /\ c.id \in Nat
      <3>1. c.id \in Nat /\ c.size \in Nat
        BY <2>2, ZenonT(30) DEF Bounds, ChunkType
      <3> QED
        BY <2>1, <3>1
    <2>4. /\ worker.at = "wait" /\ worker' = [worker EXCEPT !.at = "push", !.chunk = c.id]
          /\ session' = [session EXCEPT !.queue = q, !.queued = n]
          /\ UNCHANGED <<backend, main, asr, holder, text, history>>
      BY DEF RunWait
    <2> HIDE DEF q, c, n
    <2>5. /\ session' \in SessionType /\ session'.queue = q /\ session'.finish = session.finish
          /\ session'.cancel = session.cancel /\ session'.complete = session.complete
          /\ session'.success = session.success /\ session'.events = session.events
      BY <2>1, <2>2, <2>3, <2>4, ZenonT(30) DEF SessionType
    <2>6. /\ worker' \in WorkerType /\ worker'.at = "push" /\ worker'.chunk = c.id
          /\ worker'.hand = worker.hand /\ worker'.then = worker.then /\ worker'.ok = worker.ok
      BY <2>1, <2>3, <2>4, ZenonT(30) DEF WorkerType
    <2> QED
      BY <2>4, <2>5, <2>6 DEF q, c
  <1>2. Types'
    BY <1>0, <1>1 DEF Types
  <1>3. Ownership'
    BY <1>0, <1>1 DEF Ownership
  <1>4. WorkerInStep'
    BY <1>0, <1>1 DEF WorkerInStep, Ended, Ownership
  <1>5. AudioInPlace'
    <2>1. /\ Len(backend.received) \in Nat /\ Len(session.queue) \in Nat
          /\ Taken = Len(backend.received) + 0 /\ Taken \in Nat
      BY <1>0, <1>1, TakenIs
    <2>2. Taken' = Taken + 1 /\ Taken \in Nat
      <3>1. Taken' = Len(backend.received) + 1
        BY <1>1 DEF Taken
      <3> QED
        BY <2>1, <3>1
    <2>3. session.queue \in Seq(ChunkType)
      BY <1>0 DEF Types, SessionType
    <2>4. /\ Len(session.queue) # 0 /\ Len(session'.queue) = Len(session.queue) - 1
      BY <1>1, <2>3
    <2>5. /\ \A k \in 1..Len(session'.queue) : session'.queue[k] = session.queue[k + 1]
          /\ Head(session.queue) = session.queue[1]
      BY <1>1, <2>3
    <2>6. worker'.chunk = Len(backend.received) + 1
      BY <1>0, <1>1, <2>1, <2>4, <2>5 DEF AudioInPlace
    <2>7. \A k \in 1..Len(session'.queue) : session'.queue[k].id = Taken' + k
      <3> TAKE k \in 1..Len(session'.queue)
      <3>1. k + 1 \in 1..Len(session.queue) /\ k \in Nat
        BY <2>1, <2>4
      <3>2. session.queue[k + 1].id = Taken + (k + 1)
        BY <1>0, <3>1 DEF AudioInPlace
      <3>3. Taken + (k + 1) = Taken' + k
        BY <2>2, <3>1
      <3> QED
        BY <2>5, <3>2, <3>3
    <2>8. Taken' + Len(session'.queue) = Taken + Len(session.queue)
      <3> DEFINE a == Len(session'.queue)
                 b == Len(session.queue)
                 t == Taken
      <3>1. b \in Nat /\ a = b - 1 /\ t \in Nat
        BY <2>1, <2>2, <2>4
      <3> HIDE DEF a, b, t
      <3>2. (t + 1) + a = t + b
        BY <3>1
      <3> QED
        BY <2>2, <3>2, ZenonT(30) DEF a, b, t
    <2> QED
      BY <1>0, <1>1, <2>7, <2>8, <2>6 DEF AudioInPlace
  <1>6. Reports'
    BY <1>0, <1>1 DEF Reports, Ownership
  <1>7. TextInPlace'
    BY <1>0, <1>1 DEF TextInPlace, Ownership, WorkerInStep
  <1> QED
    BY <1>2, <1>3, <1>4, <1>5, <1>6, <1>7 DEF AsyncInv

(* The backend takes the chunk, with or without a new text. *)
LEMMA BackendPushKeeps ==
    ASSUME Bounds, AsyncInv, BackendPushAudio
    PROVE  AsyncInv'
  <1>0. Types /\ Ownership /\ WorkerInStep /\ AudioInPlace /\ Reports /\ TextInPlace
    BY DEF AsyncInv
  <1>1. /\ worker.at = "push" /\ session' = session /\ main' = main /\ asr' = asr
        /\ holder' = holder /\ text' = text /\ history' = history
    BY DEF BackendPushAudio
  <1>2. PICK events \in Emits(backend.texts) :
          /\ worker' = Forward(events, "wait")
          /\ backend' = [backend EXCEPT !.received = Append(backend.received, worker.chunk),
                                        !.texts = LastFinal(events, backend.texts)]
    BY ZenonT(30) DEF BackendPushAudio, TextsAfter
  <1>3. /\ backend \in BackendType /\ worker \in WorkerType /\ backend.received \in Seq(Nat)
        /\ backend.texts \in Nat /\ worker.chunk \in Nat
    BY <1>0 DEF Types, BackendType, WorkerType
  <1>4. events \in Seq(Event) /\ LastFinal(events, backend.texts) \in Nat
    BY <1>3, EmitsTyped
  <1>5. /\ worker' \in WorkerType /\ worker'.hand = events /\ worker'.then = "wait"
        /\ worker'.ok = worker.ok /\ worker'.chunk = worker.chunk
        /\ worker'.at = (IF events = <<>> THEN "wait" ELSE "append")
    BY <1>2, <1>3, <1>4, ForwardEffect
  <1> DEFINE q == Append(backend.received, worker.chunk)
             n == LastFinal(events, backend.texts)
  <1>6. q \in Seq(Nat) /\ n \in Nat
    BY <1>3, <1>4
  <1>7. backend' = [backend EXCEPT !.received = q, !.texts = n]
    BY <1>2
  <1> HIDE DEF q, n
  <1>8. /\ backend' \in BackendType /\ backend'.received = q /\ backend'.texts = n
        /\ backend'.ends = backend.ends
    BY <1>3, <1>6, <1>7, ZenonT(30) DEF BackendType
  <1>9. Types' /\ Ownership' /\ Reports'
    BY <1>0, <1>1, <1>5, <1>8 DEF Types, Ownership, Reports
  <1>10. WorkerInStep'
    BY <1>0, <1>1, <1>5, <1>8 DEF WorkerInStep, Ended
  <1>11. AudioInPlace'
    <2>1. /\ Len(backend.received) \in Nat /\ Len(session.queue) \in Nat
          /\ Taken = Len(backend.received) + 1
      BY <1>0, <1>1, TakenIs
    <2>2. worker.chunk = Len(backend.received) + 1
      BY <1>0, <1>1 DEF AudioInPlace
    <2>3. /\ Len(backend'.received) = Len(backend.received) + 1
          /\ \A k \in 1..Len(backend'.received) : backend'.received[k] = k
      BY <1>0, <1>3, <1>8, <2>1, <2>2 DEF AudioInPlace, q
    <2>4. Taken' = Len(backend'.received) + 0
      BY <1>5 DEF Taken
    <2>5. Taken' = Taken
      BY <2>1, <2>3, <2>4
    <2>6. worker'.at \notin {"push", "publish"}
      BY <1>5
    <2> QED
      BY <1>0, <1>1, <1>5, <2>3, <2>5, <2>6 DEF AudioInPlace
  <1>12. TextInPlace'
    <2>1. worker.hand = <<>>
      BY <1>0, <1>1 DEF WorkerInStep
    <2> QED
      BY <1>0, <1>1, <1>5, <1>8, <2>1, LastFinalEmpty DEF TextInPlace, n
  <1> QED
    BY <1>9, <1>10, <1>11, <1>12 DEF AsyncInv

(* The backend rejects the chunk; what it says about it is no final text. *)
LEMMA RejectKeeps ==
    ASSUME Bounds, AsyncInv, BackendRejectsAudio
    PROVE  AsyncInv'
  <1>0. Types /\ Ownership /\ WorkerInStep /\ AudioInPlace /\ Reports /\ TextInPlace
    BY DEF AsyncInv
  <1>a. PICK events \in {<<>>, <<Plain("error")>>, <<Plain("error"), Plain("completed")>>} :
          worker' = [worker EXCEPT !.hand = events, !.at = "publish"]
    BY ZenonT(30) DEF BackendRejectsAudio
  <1>b. events \in Seq(Event) /\ \A k : LastFinal(events, k) = k
    BY <1>a, PlainEvents, ZenonT(30)
  <1>1. /\ worker.at = "push" /\ session' = session /\ worker' \in WorkerType
        /\ worker'.at = "publish" /\ worker'.chunk = worker.chunk /\ worker'.then = worker.then
        /\ worker'.ok = worker.ok /\ backend' = backend /\ main' = main /\ asr' = asr
        /\ holder' = holder /\ text' = text /\ history' \in HistoryType
        /\ history'.offered = history.offered /\ history'.cancelled = history.cancelled
        /\ history'.reports = history.reports /\ history'.result = history.result
    <2> DEFINE b == history.broke \/ ~backend.interrupted
    <2>1. b \in BOOLEAN
      OBVIOUS
    <2>2. history' = [history EXCEPT !.broke = b]
      BY DEF BackendRejectsAudio
    <2> HIDE DEF b
    <2>3. history \in HistoryType /\ worker \in WorkerType
      BY <1>0 DEF Types
    <2>4. /\ history' \in HistoryType /\ history'.offered = history.offered
          /\ history'.cancelled = history.cancelled /\ history'.reports = history.reports
          /\ history'.result = history.result
      BY <2>1, <2>2, <2>3 DEF HistoryType
    <2>5. /\ worker' \in WorkerType /\ worker'.at = "publish" /\ worker'.hand = events
          /\ worker'.chunk = worker.chunk /\ worker'.then = worker.then /\ worker'.ok = worker.ok
      BY <1>a, <1>b, <2>3, ZenonT(30) DEF WorkerType
    <2> QED
      BY <2>4, <2>5 DEF BackendRejectsAudio
  <1>2. Types'
    BY <1>0, <1>1 DEF Types
  <1>3. Ownership'
    BY <1>0, <1>1 DEF Ownership
  <1>4. WorkerInStep'
    BY <1>0, <1>1 DEF WorkerInStep, Ended, Ownership
  <1>5. AudioInPlace'
    BY <1>0, <1>1, MovesNoChunk
  <1>6. Reports'
    BY <1>0, <1>1 DEF Reports, Ownership
  <1>7. TextInPlace'
    <2>1. worker.hand = <<>>
      BY <1>0, <1>1 DEF WorkerInStep
    <2>2. worker'.hand = events
      BY <1>0, <1>a, <1>b DEF Types, WorkerType
    <2> QED
      BY <1>0, <1>1, <1>b, <2>1, <2>2, LastFinalEmpty DEF TextInPlace
  <1> QED
    BY <1>2, <1>3, <1>4, <1>5, <1>6, <1>7 DEF AsyncInv

(* The failure is published: the session is emptied and refuses from now on. *)
LEMMA PublishKeeps ==
    ASSUME Bounds, AsyncInv, PublishFailure
    PROVE  AsyncInv'
  <1>0. Types /\ Ownership /\ WorkerInStep /\ AudioInPlace /\ Reports /\ TextInPlace
    BY DEF AsyncInv
  <1>1. /\ worker.at = "publish" /\ session' \in SessionType /\ session'.queue = <<>>
        /\ session'.finish = session.finish /\ session'.cancel = TRUE
        /\ session'.complete = session.complete /\ session'.success = session.success
        /\ session'.events = session.events /\ worker' \in WorkerType
        /\ worker'.at = (IF worker.hand = <<>> THEN "announce" ELSE "append")
        /\ worker'.chunk = worker.chunk /\ worker'.hand = worker.hand
        /\ worker'.then = "announce" /\ worker'.ok = worker.ok /\ backend' = backend
        /\ main' = main /\ asr' = asr /\ holder' = holder /\ text' = text /\ history' = history
    <2> DEFINE s == Emptied(session)
               b == TRUE
    <2>1. /\ session \in SessionType /\ worker \in WorkerType /\ worker.hand \in Seq(Event)
          /\ b \in BOOLEAN
      BY <1>0 DEF Types, WorkerType
    <2>2. /\ s \in SessionType /\ s.cancel = TRUE /\ s.queue = <<>> /\ s.finish = session.finish
          /\ s.complete = session.complete /\ s.success = session.success
          /\ s.events = session.events
      BY <2>1, EmptiedEffect, ZenonT(30)
    <2>3. /\ worker.at = "publish" /\ session' = [s EXCEPT !.failed = b]
          /\ worker' = Forward(worker.hand, "announce")
          /\ UNCHANGED <<backend, main, asr, holder, text, history>>
      BY DEF PublishFailure, PublishedFailure
    <2> HIDE DEF s, b
    <2>4. /\ session' \in SessionType /\ session'.queue = s.queue /\ session'.finish = s.finish
          /\ session'.cancel = s.cancel /\ session'.complete = s.complete
          /\ session'.success = s.success /\ session'.events = s.events
      BY <2>1, <2>2, <2>3 DEF SessionType
    <2>5. /\ worker' \in WorkerType /\ worker'.hand = worker.hand /\ worker'.then = "announce"
          /\ worker'.ok = worker.ok /\ worker'.chunk = worker.chunk
          /\ worker'.at = (IF worker.hand = <<>> THEN "announce" ELSE "append")
      BY <2>1, <2>3, ForwardEffect
    <2> QED
      BY <2>2, <2>3, <2>4, <2>5
  <1>2. Types'
    BY <1>0, <1>1 DEF Types
  <1>3. Ownership'
    BY <1>0, <1>1 DEF Ownership
  <1>4. WorkerInStep'
    BY <1>0, <1>1 DEF WorkerInStep, Ended, Ownership
  <1>5. AudioInPlace'
    <2>1. history.offered \in Seq(Nat) /\ Len(history.offered) <= Len(history.offered)
      BY <1>0 DEF Types, HistoryType
    <2> QED
      BY <1>0, <1>1, <2>1, GivesUp, ZenonT(30) DEF AudioInPlace
  <1>6. Reports'
    BY <1>0, <1>1 DEF Reports, Ownership
  <1>7. TextInPlace'
    BY <1>0, <1>1 DEF TextInPlace, Ownership, WorkerInStep
  <1> QED
    BY <1>2, <1>3, <1>4, <1>5, <1>6, <1>7 DEF AsyncInv

(* The events go behind those that nobody polled yet. *)
LEMMA AppendKeeps ==
    ASSUME Bounds, AsyncInv, AppendEvents
    PROVE  AsyncInv'
  <1>0. Types /\ Ownership /\ WorkerInStep /\ AudioInPlace /\ Reports /\ TextInPlace
    BY DEF AsyncInv
  <1>1. /\ worker.at = "append" /\ session' \in SessionType /\ session'.queue = session.queue
        /\ session'.finish = session.finish /\ session'.cancel = session.cancel
        /\ session'.complete = session.complete /\ session'.success = session.success
        /\ session'.events = session.events \o worker.hand /\ worker' \in WorkerType
        /\ worker'.at = "wake" /\ worker'.chunk = worker.chunk /\ worker'.hand = <<>>
        /\ worker'.then = worker.then /\ worker'.ok = worker.ok /\ backend' = backend
        /\ main' = main /\ asr' = asr /\ holder' = holder /\ text' = text /\ history' = history
    <2> DEFINE e == session.events \o worker.hand
               h == <<>>
    <2>1. /\ session \in SessionType /\ worker \in WorkerType /\ e \in Seq(Event)
          /\ h \in Seq(Event)
      BY <1>0 DEF Types, SessionType, WorkerType
    <2>2. /\ worker.at = "append" /\ session' = [session EXCEPT !.events = e]
          /\ worker' = [worker EXCEPT !.at = "wake", !.hand = h]
          /\ UNCHANGED <<backend, main, asr, holder, text, history>>
      BY DEF AppendEvents
    <2> HIDE DEF e, h
    <2>3. /\ session' \in SessionType /\ session'.queue = session.queue
          /\ session'.finish = session.finish /\ session'.cancel = session.cancel
          /\ session'.complete = session.complete /\ session'.success = session.success
          /\ session'.events = e
      BY <2>1, <2>2, EventsSet
    <2>4. /\ worker' \in WorkerType /\ worker'.at = "wake" /\ worker'.hand = h
          /\ worker'.chunk = worker.chunk /\ worker'.then = worker.then /\ worker'.ok = worker.ok
      BY <2>1, <2>2, ZenonT(30) DEF WorkerType
    <2> QED
      BY <2>2, <2>3, <2>4, ZenonT(30) DEF e, h
  <1>2. Types'
    BY <1>0, <1>1 DEF Types
  <1>3. Ownership'
    BY <1>0, <1>1 DEF Ownership
  <1>4. WorkerInStep'
    BY <1>0, <1>1 DEF WorkerInStep, Ended, Ownership
  <1>5. AudioInPlace'
    BY <1>0, <1>1, MovesNoChunk
  <1>6. Reports'
    BY <1>0, <1>1 DEF Reports, Ownership
  <1>7. TextInPlace'
    <2>1. session.events \in Seq(Event) /\ worker.hand \in Seq(Event)
      BY <1>0 DEF Types, SessionType, WorkerType
    <2>2. \A k : LastFinal(session.events \o worker.hand, k)
                   = LastFinal(worker.hand, LastFinal(session.events, k))
      BY <2>1, LastFinalConcat
    <2> QED
      BY <1>0, <1>1, <2>2, LastFinalEmpty DEF TextInPlace
  <1> QED
    BY <1>2, <1>3, <1>4, <1>5, <1>6, <1>7 DEF AsyncInv

(* The main thread is woken. *)
LEMMA WakeKeeps ==
    ASSUME Bounds, AsyncInv, InvokeWakeCallback
    PROVE  AsyncInv'
  <1>0. Types /\ Ownership /\ WorkerInStep /\ AudioInPlace /\ Reports /\ TextInPlace
    BY DEF AsyncInv
  <1>1. /\ worker.at \in {"wake", "announce"} /\ session' = session /\ worker' \in WorkerType
        /\ worker'.at = (IF worker.at = "wake" THEN worker.then ELSE "cancel")
        /\ worker'.chunk = worker.chunk /\ worker'.hand = worker.hand
        /\ worker'.then = worker.then /\ worker'.ok = worker.ok /\ backend' = backend
        /\ main' = main /\ asr' = asr /\ holder' = holder /\ text' = text /\ history' = history
    <2> DEFINE a == IF worker.at = "wake" THEN worker.then ELSE "cancel"
    <2>1. worker \in WorkerType /\ a \in {"wait", "announce", "complete", "cancel"}
      BY <1>0 DEF Types, WorkerType
    <2>2. /\ worker.at \in {"wake", "announce"} /\ worker' = [worker EXCEPT !.at = a]
          /\ UNCHANGED <<session, backend, main, asr, holder, text, history>>
      BY DEF InvokeWakeCallback
    <2> HIDE DEF a
    <2>3. /\ worker' \in WorkerType /\ worker'.at = a /\ worker'.hand = worker.hand
          /\ worker'.chunk = worker.chunk /\ worker'.then = worker.then /\ worker'.ok = worker.ok
      BY <2>1, <2>2 DEF WorkerType
    <2> QED
      BY <2>2, <2>3 DEF a
  <1>2. Types'
    BY <1>0, <1>1 DEF Types
  <1>3. Ownership'
    BY <1>0, <1>1 DEF Ownership
  <1>4. WorkerInStep'
    <2>1. worker.then \in {"wait", "announce", "complete"}
      BY <1>0 DEF Types, WorkerType
    <2> QED
      BY <1>0, <1>1, <2>1 DEF WorkerInStep, Ended
  <1>5. AudioInPlace'
    <2>1. worker.then \in {"wait", "announce", "complete"}
      BY <1>0 DEF Types, WorkerType
    <2> QED
      BY <1>0, <1>1, <2>1, MovesNoChunk
  <1>6. Reports'
    BY <1>0, <1>1 DEF Reports, Ownership
  <1>7. TextInPlace'
    BY <1>0, <1>1 DEF TextInPlace, Ownership, WorkerInStep
  <1> QED
    BY <1>2, <1>3, <1>4, <1>5, <1>6, <1>7 DEF AsyncInv

(* What Finish() leaves to be polled: a last text, then what is said of    *)
(* the failure and the end.                                                *)
LEMMA FinishEvents ==
    ASSUME Bounds, NEW n \in Nat, NEW last \in Emits(n), NEW ok \in BOOLEAN, NEW complains \in BOOLEAN,
           NEW events, events = last \o (IF complains THEN <<Plain("error")>> ELSE <<>>)
                                     \o (IF ok \/ complains THEN <<Plain("completed")>> ELSE <<>>)
    PROVE  events \in Seq(Event) /\ LastFinal(events, n) \in Nat
  <1> DEFINE a == IF complains THEN <<Plain("error")>> ELSE <<>>
             b == IF ok \/ complains THEN <<Plain("completed")>> ELSE <<>>
  <1>1. last \in Seq(Event) /\ LastFinal(last, n) \in Nat
    BY EmitsTyped
  <1>2. a \in {<<>>, <<Plain("error")>>} /\ b \in {<<>>, <<Plain("completed")>>}
    OBVIOUS
  <1> DEFINE c == last \o a
  <1>3. events = c \o b
    OBVIOUS
  <1> HIDE DEF a, b
  <1>4. a \in Seq(Event) /\ b \in Seq(Event)
    BY <1>2, PlainEvents, ZenonT(30)
  <1>5. \A k : LastFinal(a, k) = k /\ LastFinal(b, k) = k
    BY <1>2, PlainEvents
  <1>6. c \in Seq(Event)
    BY <1>1, <1>4
  <1>7. LastFinal(c, n) = LastFinal(a, LastFinal(last, n))
    <2>1. last \in Seq(Event) /\ a \in Seq(Event)
      BY <1>1, <1>4
    <2>2. LastFinal(last \o a, n) = LastFinal(a, LastFinal(last, n))
      BY ONLY <2>1, LastFinalConcat
    <2> QED
      BY <2>2
  <1> HIDE DEF c
  <1>8. events \in Seq(Event)
    <2>1. c \o b \in Seq(Event)
      BY ONLY <1>4, <1>6
    <2> QED
      BY <1>3, <2>1, ZenonT(30)
  <1>9. LastFinal(events, n) = LastFinal(b, LastFinal(c, n))
    <2>1. LastFinal(c \o b, n) = LastFinal(b, LastFinal(c, n))
      BY <1>4, <1>6, LastFinalConcat
    <2> QED
      BY <1>3, <2>1, ZenonT(30)
  <1>10. LastFinal(events, n) = LastFinal(last, n)
    BY <1>5, <1>7, <1>9
  <1> QED
    BY <1>1, <1>8, <1>10

(* The backend is ended: the worker holds its last events and its verdict. *)
LEMMA EndedEffect ==
    ASSUME worker \in WorkerType, NEW events \in Seq(Event), NEW ok \in BOOLEAN,
           worker' = [Forward(events, "complete") EXCEPT !.ok = ok]
    PROVE  /\ worker' \in WorkerType /\ worker'.hand = events /\ worker'.then = "complete"
           /\ worker'.ok = ok /\ worker'.chunk = worker.chunk
           /\ worker'.at = (IF events = <<>> THEN "complete" ELSE "append")
  <1> DEFINE w == Forward(events, "complete")
  <1>1. /\ w \in WorkerType /\ w.hand = events /\ w.then = "complete"
        /\ w.chunk = worker.chunk /\ w.at = (IF events = <<>> THEN "complete" ELSE "append")
    BY ForwardEffect
  <1>2. worker' = [w EXCEPT !.ok = ok]
    OBVIOUS
  <1> HIDE DEF w
  <1>3. /\ worker' \in WorkerType /\ worker'.hand = w.hand /\ worker'.then = w.then
        /\ worker'.ok = ok /\ worker'.chunk = w.chunk /\ worker'.at = w.at
    BY <1>1, <1>2 DEF WorkerType
  <1> QED
    BY <1>1, <1>3

(* Ending the backend moves no chunk and is done once. *)
LEMMA EndedKeeps ==
    ASSUME AsyncInv, worker.at \in {"finish", "cancel"},
           NEW events \in Seq(Event), NEW ok \in BOOLEAN, worker.at = "cancel" => ~ok,
           worker' = [Forward(events, "complete") EXCEPT !.ok = ok],
           backend' \in BackendType, backend'.received = backend.received,
           backend'.ends = backend.ends + 1, backend'.texts = LastFinal(events, backend.texts),
           history' \in HistoryType, history'.offered = history.offered,
           history'.cancelled = history.cancelled, history'.reports = history.reports,
           history'.result = history.result,
           session' = session, main' = main, asr' = asr, holder' = holder, text' = text
    PROVE  AsyncInv'
  <1>0. Types /\ Ownership /\ WorkerInStep /\ AudioInPlace /\ Reports /\ TextInPlace
    BY DEF AsyncInv
  <1>1. /\ worker' \in WorkerType /\ worker'.hand = events /\ worker'.then = "complete"
        /\ worker'.ok = ok /\ worker'.chunk = worker.chunk
        /\ worker'.at = (IF events = <<>> THEN "complete" ELSE "append")
    <2>1. worker \in WorkerType
      BY <1>0 DEF Types
    <2> QED
      BY <2>1, EndedEffect
  <1>2. Types' /\ Ownership' /\ Reports'
    BY <1>0, <1>1 DEF Types, Ownership, Reports
  <1>3. WorkerInStep'
    <2>1. Ended' /\ ~Ended
      BY <1>1 DEF Ended
    <2>2. backend.ends = 0 /\ backend'.ends = 1
      BY <1>0, <2>1 DEF WorkerInStep
    <2> QED
      BY <1>0, <1>1, <2>1, <2>2 DEF WorkerInStep
  <1>4. AudioInPlace'
    <2>1. ~worker.ok
      BY <1>0 DEF WorkerInStep, Ended
    <2> QED
      BY <1>0, <1>1, <2>1, MovesNoChunk
  <1>5. TextInPlace'
    <2>1. worker.hand = <<>>
      BY <1>0 DEF WorkerInStep
    <2> QED
      BY <1>0, <1>1, <2>1, LastFinalEmpty DEF TextInPlace
  <1> QED
    BY <1>2, <1>3, <1>4, <1>5 DEF AsyncInv

(* Finish() of the backend returns. *)
LEMMA BackendFinishKeeps ==
    ASSUME Bounds, AsyncInv, BackendFinish
    PROVE  AsyncInv'
  <1>0. /\ backend \in BackendType /\ history \in HistoryType /\ backend.texts \in Nat
        /\ backend.ends \in Nat
    BY DEF AsyncInv, Types, BackendType
  <1>1. PICK ok \in BOOLEAN, last \in Emits(backend.texts), complains \in BOOLEAN :
          LET events == last \o (IF complains THEN <<Plain("error")>> ELSE <<>>)
                             \o (IF ok \/ complains THEN <<Plain("completed")>> ELSE <<>>)
          IN  /\ worker' = [Forward(events, "complete") EXCEPT !.ok = ok]
              /\ backend' = [backend EXCEPT !.ends = backend.ends + 1,
                                            !.texts = LastFinal(events, backend.texts)]
              /\ history' = [history EXCEPT !.broke = history.broke \/ ~ok]
    BY ZenonT(30) DEF BackendFinish, TextsAfter
  <1> DEFINE events == last \o (IF complains THEN <<Plain("error")>> ELSE <<>>)
                            \o (IF ok \/ complains THEN <<Plain("completed")>> ELSE <<>>)
             n == LastFinal(events, backend.texts)
             m == backend.ends + 1
             b == history.broke \/ ~ok
  <1>2. events \in Seq(Event) /\ n \in Nat
    BY <1>0, FinishEvents, ZenonT(30)
  <1>3. m \in Nat /\ b \in BOOLEAN
    BY <1>0
  <1>4. /\ worker' = [Forward(events, "complete") EXCEPT !.ok = ok]
        /\ backend' = [backend EXCEPT !.ends = m, !.texts = n]
        /\ history' = [history EXCEPT !.broke = b]
    BY <1>1
  <1>5. /\ worker.at = "finish" /\ session' = session /\ main' = main /\ asr' = asr
        /\ holder' = holder /\ text' = text
    BY DEF BackendFinish
  <1> HIDE DEF events
  <1>6. /\ backend' \in BackendType /\ backend'.received = backend.received
        /\ backend'.ends = m /\ backend'.texts = n
    <2> HIDE DEF n, m
    <2> QED
      BY <1>0, <1>2, <1>3, <1>4, ZenonT(30) DEF BackendType
  <1>7. /\ history' \in HistoryType /\ history'.offered = history.offered
        /\ history'.cancelled = history.cancelled /\ history'.reports = history.reports
        /\ history'.result = history.result
    <2> HIDE DEF b
    <2> QED
      BY <1>0, <1>3, <1>4, ZenonT(30) DEF HistoryType
  <1> QED
    BY <1>2, <1>4, <1>5, <1>6, <1>7, EndedKeeps

(* Cancel() of the backend returns. *)
LEMMA BackendCancelKeeps ==
    ASSUME Bounds, AsyncInv, BackendCancel
    PROVE  AsyncInv'
  <1>0. /\ backend \in BackendType /\ history \in HistoryType /\ backend.ends \in Nat
    BY DEF AsyncInv, Types, BackendType
  <1>1. PICK events \in {<<>>, <<Plain("completed")>>} :
          worker' = [Forward(events, "complete") EXCEPT !.ok = FALSE]
    BY ZenonT(30) DEF BackendCancel
  <1> DEFINE m == backend.ends + 1
             no == FALSE
  <1>2. m \in Nat /\ no \in BOOLEAN /\ ~no
    BY <1>0
  <1>3. events \in Seq(Event) /\ LastFinal(events, backend.texts) = backend.texts
    BY PlainEvents, ZenonT(30)
  <1>4. /\ worker.at = "cancel" /\ backend' = [backend EXCEPT !.ends = m]
        /\ session' = session /\ main' = main /\ asr' = asr /\ holder' = holder
        /\ text' = text /\ history' = history
    BY DEF BackendCancel
  <1>5. worker' = [Forward(events, "complete") EXCEPT !.ok = no]
    BY <1>1
  <1> HIDE DEF no
  <1>6. /\ backend' \in BackendType /\ backend'.received = backend.received
        /\ backend'.ends = m /\ backend'.texts = backend.texts
    <2> HIDE DEF m
    <2> QED
      BY <1>0, <1>2, <1>4 DEF BackendType
  <1> QED
    BY <1>0, <1>2, <1>3, <1>4, <1>5, <1>6, EndedKeeps

(* The worker leaves its verdict and exits. *)
LEMMA CompleteKeeps ==
    ASSUME Bounds, AsyncInv, Complete
    PROVE  AsyncInv'
  <1>0. Types /\ Ownership /\ WorkerInStep /\ AudioInPlace /\ Reports /\ TextInPlace
    BY DEF AsyncInv
  <1>1. /\ worker.at = "complete" /\ session' \in SessionType /\ session'.queue = session.queue
        /\ session'.finish = session.finish /\ session'.cancel = session.cancel
        /\ session'.complete = TRUE /\ session'.success = worker.ok
        /\ session'.events = session.events /\ worker' \in WorkerType /\ worker'.at = "exited"
        /\ worker'.chunk = worker.chunk /\ worker'.hand = worker.hand
        /\ worker'.then = worker.then /\ worker'.ok = worker.ok /\ backend' = backend
        /\ main' = main /\ asr' = asr /\ holder' = holder /\ text' = text /\ history' = history
    <2> DEFINE b == TRUE
               c == worker.ok
    <2>1. /\ session \in SessionType /\ worker \in WorkerType /\ b \in BOOLEAN
          /\ c \in BOOLEAN
      BY <1>0 DEF Types, WorkerType
    <2>2. /\ worker.at = "complete"
          /\ session' = [session EXCEPT !.complete = b, !.success = c]
          /\ worker' = [worker EXCEPT !.at = "exited"]
          /\ UNCHANGED <<backend, main, asr, holder, text, history>>
      BY DEF Complete
    <2> HIDE DEF b, c
    <2>3. /\ session' \in SessionType /\ session'.queue = session.queue
          /\ session'.finish = session.finish /\ session'.cancel = session.cancel
          /\ session'.complete = b /\ session'.success = c
          /\ session'.events = session.events
      BY <2>1, <2>2, ZenonT(30) DEF SessionType
    <2>4. /\ worker' \in WorkerType /\ worker'.at = "exited" /\ worker'.hand = worker.hand
          /\ worker'.chunk = worker.chunk /\ worker'.then = worker.then /\ worker'.ok = worker.ok
      BY <2>1, <2>2 DEF WorkerType
    <2> QED
      BY <2>2, <2>3, <2>4 DEF b, c
  <1>2. Types'
    BY <1>0, <1>1 DEF Types
  <1>3. Ownership'
    BY <1>0, <1>1 DEF Ownership
  <1>4. WorkerInStep'
    BY <1>0, <1>1 DEF WorkerInStep, Ended, Ownership
  <1>5. AudioInPlace'
    BY <1>0, <1>1, MovesNoChunk
  <1>6. Reports'
    BY <1>0, <1>1 DEF Reports, Ownership
  <1>7. TextInPlace'
    BY <1>0, <1>1 DEF TextInPlace, Ownership, WorkerInStep
  <1> QED
    BY <1>2, <1>3, <1>4, <1>5, <1>6, <1>7 DEF AsyncInv

-----------------------------------------------------------------------------
(* A session that was just installed. *)
LEMMA AsyncStart == Bounds /\ Init => AsyncInv
  <1> SUFFICES ASSUME Bounds, Init PROVE AsyncInv
    OBVIOUS
  <1> DEFINE e == <<>>
  <1>0. /\ e \in Seq(ChunkType) /\ e \in Seq(Event) /\ e \in Seq(Nat) /\ Len(e) = 0
        /\ \A k \in 1..Len(e) : FALSE
    OBVIOUS
  <1>1. /\ session = [queue |-> e, queued |-> 0, finish |-> FALSE, cancel |-> FALSE,
                      complete |-> FALSE, success |-> FALSE, failed |-> FALSE, events |-> e]
        /\ worker = [at |-> "wait", chunk |-> 0, hand |-> e, then |-> "wait", ok |-> FALSE]
        /\ backend = [received |-> e, texts |-> 0, ends |-> 0, interrupted |-> FALSE]
        /\ main = [at |-> "loop", taken |-> e] /\ asr = "idle" /\ holder = "active"
        /\ text = 0
        /\ history = [offered |-> e, cancelled |-> FALSE, broke |-> FALSE, reports |-> 0,
                      result |-> "none"]
    BY DEF Init
  <1>2. \A k : LastFinal(e, k) = k
    BY LastFinalEmpty
  <1>3. e = <<>>
    OBVIOUS
  <1> HIDE DEF e
  <1>4. session \in SessionType
    BY <1>0, <1>1 DEF SessionType
  <1>5. worker \in WorkerType
    BY <1>0, <1>1 DEF WorkerType
  <1>6. backend \in BackendType /\ main \in MainType
    BY <1>0, <1>1 DEF BackendType, MainType
  <1>7. history \in HistoryType
    BY <1>0, <1>1 DEF HistoryType
  <1>8. Types
    BY <1>1, <1>4, <1>5, <1>6, <1>7 DEF Types
  <1>9. Ownership
    BY <1>1, <1>3 DEF Ownership
  <1>10. WorkerInStep
    BY <1>1, <1>3 DEF WorkerInStep, Ended
  <1>11. AudioInPlace
    <2>1. Taken = 0
      BY <1>0, <1>1 DEF Taken
    <2>2. /\ session.queue = e /\ backend.received = e /\ history.offered = e
          /\ worker.at = "wait" /\ session.cancel = FALSE /\ history.result = "none"
      BY <1>1
    <2> QED
      BY <1>0, <2>1, <2>2 DEF AudioInPlace
  <1>12. Reports
    BY <1>1 DEF Reports
  <1>13. TextInPlace
    BY <1>1, <1>2 DEF TextInPlace
  <1> QED
    BY <1>8, <1>9, <1>10, <1>11, <1>12, <1>13 DEF AsyncInv

(* Run() wakes up. *)
LEMMA WaitKeeps ==
    ASSUME Bounds, AsyncInv, RunWait
    PROVE  AsyncInv'
  <1>1. CASE session.cancel
    BY <1>1, WaitKeepsCancel
  <1>2. CASE ~session.cancel /\ session.queue # <<>>
    BY <1>2, WaitKeepsChunk
  <1>3. CASE ~session.cancel /\ session.queue = <<>>
    BY <1>3, WaitKeepsFinish
  <1> QED
    BY <1>1, <1>2, <1>3

(* Every step of the three threads keeps the invariant. *)
LEMMA AsyncStep ==
    ASSUME Bounds, AsyncInv, [Next]_vars
    PROVE  AsyncInv'
  <1>1. CASE Run
    BY <1>1, WaitKeeps, BackendPushKeeps, RejectKeeps, PublishKeeps, AppendKeeps, WakeKeeps,
       BackendFinishKeeps, BackendCancelKeeps, CompleteKeeps DEF Run
  <1>2. CASE MainThread
    BY <1>2, IncomingKeeps, FlushKeeps, PollKeeps, FailureKeeps, FailKeeps,
       CancelRecordingKeeps, CancelKeeps, InterruptKeeps, RetireKeeps, ReapKeeps, StopKeeps
       DEF MainThread
  <1>3. CASE AsrThread
    BY <1>3, TailKeeps, FinishKeeps, CollectKeeps, DropKeeps DEF AsrThread
  <1>4. CASE UNCHANGED vars
    BY <1>4, ZenonT(30) DEF vars, AsyncInv, Types, Ownership, WorkerInStep, Ended, AudioInPlace,
         Taken,
       Reports, TextInPlace
  <1> QED
    BY <1>1, <1>2, <1>3, <1>4 DEF Next

(* The state of one session, whatever the order in which the worker, the   *)
(* main thread and the recognition thread take their critical sections.    *)
THEOREM AsyncInvariant == ASSUME Bounds PROVE Spec => []AsyncInv
  <1>1. Init => AsyncInv
    BY AsyncStart
  <1>2. AsyncInv /\ [Next]_vars => AsyncInv'
    BY AsyncStep
  <1> QED
    BY <1>1, <1>2, PTL DEF Spec

(* What PushAudio, Run and FinishSessionAndCollectResult promise for the   *)
(* recording: the backend heard a prefix of what was offered, in order,    *)
(* and all of it when the utterance counts as recognised.  Chunks are      *)
(* numbered and accounted for: backend, worker, queue.                     *)
THEOREM AudioComplete == ASSUME Bounds PROVE Spec => []NoAudioLostSilently
  <1>1. AsyncInv => NoAudioLostSilently
    <2> SUFFICES ASSUME AsyncInv PROVE NoAudioLostSilently
      OBVIOUS
    <2> DEFINE r == backend.received
               o == history.offered
    <2>0. Types /\ Ownership /\ WorkerInStep /\ AudioInPlace
      BY DEF AsyncInv
    <2>1. r \in Seq(Nat) /\ o \in Seq(Nat)
      BY <2>0 DEF Types, BackendType, HistoryType
    <2>2. /\ \A k \in 1..Len(r) : r[k] = k
          /\ \A k \in 1..Len(o) : o[k] = k
      BY <2>0 DEF AudioInPlace
    <2>3. Taken + Len(session.queue) <= Len(o)
      BY <2>0 DEF AudioInPlace
    <2>4. Len(r) <= Len(o)
      <3>1. /\ Len(r) \in Nat /\ Len(session.queue) \in Nat /\ Len(o) \in Nat /\ Taken \in Nat
            /\ Taken = Len(r) + 0 \/ Taken = Len(r) + 1
        BY <2>0, TakenIs
      <3> QED
        BY <2>3, <3>1
    <2>5. r = SubSeq(o, 1, Len(r))
      <3> HIDE DEF r, o
      <3> QED
        BY <2>1, <2>2, <2>4
    <2>6. ASSUME history.result = "ok" PROVE r = o
      <3>1. /\ worker.ok /\ session.queue = <<>> /\ ~session.cancel
            /\ worker.at \notin {"push", "publish"}
        BY <2>0, <2>6 DEF AudioInPlace, WorkerInStep, Ended
      <3>2. Taken + Len(session.queue) = Len(o) /\ Len(session.queue) = 0
        BY <2>0, <3>1 DEF AudioInPlace
      <3>3. Taken = Len(r) + 0 /\ Len(r) \in Nat /\ Len(o) \in Nat /\ Taken \in Nat
        BY <2>0, <3>1, TakenIs
      <3>4. Len(r) = Len(o)
        BY <3>2, <3>3
      <3> HIDE DEF r, o
      <3> QED
        BY <2>1, <2>2, <3>4
    <2> QED
      BY <2>4, <2>5, <2>6 DEF NoAudioLostSilently
  <1> QED
    BY <1>1, AsyncInvariant, PTL

(* The backend is ended at most once, and by the time the destructor is    *)
(* through, exactly once and with its worker gone.                         *)
THEOREM EndedOnce == ASSUME Bounds PROVE Spec => []EndedOnceBeforeDestruction
  <1>1. AsyncInv => EndedOnceBeforeDestruction
    BY DEF AsyncInv, Ownership, WorkerInStep, Ended, EndedOnceBeforeDestruction
  <1> QED
    BY <1>1, AsyncInvariant, PTL

(* An utterance has one outcome: at most one error notification, none for  *)
(* a cancelled one, and the text of a recognised one is the last final     *)
(* text the backend produced; the backend was ended once.                  *)
THEOREM OutcomeIsOne == ASSUME Bounds PROVE Spec => []OneOutcome
  <1>1. AsyncInv => OneOutcome
    <2> SUFFICES ASSUME AsyncInv PROVE OneOutcome
      OBVIOUS
    <2>1. history.reports <= 1 /\ (history.cancelled => history.reports = 0)
      BY DEF AsyncInv, Reports
    <2>2. ASSUME history.result = "ok" PROVE text = backend.texts
      <3>1. session.events = <<>> /\ worker.at = "exited"
        BY <2>2 DEF AsyncInv, TextInPlace
      <3>2. worker.hand = <<>> /\ main.taken = <<>>
        BY <2>2, <3>1 DEF AsyncInv, WorkerInStep, Ownership, Reports
      <3>3. LastFinal(worker.hand, LastFinal(session.events, LastFinal(main.taken, text)))
              = backend.texts
        BY <2>2 DEF AsyncInv, TextInPlace
      <3> QED
        BY <3>1, <3>2, <3>3, LastFinalEmpty
    <2>3. EndedOnceBeforeDestruction
      BY DEF AsyncInv, Ownership, WorkerInStep, Ended, EndedOnceBeforeDestruction
    <2> QED
      BY <2>1, <2>2, <2>3 DEF OneOutcome
  <1> QED
    BY <1>1, AsyncInvariant, PTL
=============================================================================
