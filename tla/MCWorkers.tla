----------------------------- MODULE MCWorkers ------------------------------
(***************************************************************************)
(* What is left to threads of its own, for one run of TLC: the two kinds   *)
(* of session, the output ducker, the emits of the D-Bus loop, and the     *)
(* downloads of the window's resource page.  They share no state here, so  *)
(* a behaviour picks one and runs it while the others rest in an initial   *)
(* state.  What is shown of one is what its own module says.               *)
(***************************************************************************)
EXTENDS AsyncSession

CONSTANTS Partials, MaxPushes, MaxLines, MaxVolume, Percent, MaxCalls,
          None, Emitters, Calls, MaxEmits, Downloads, MaxRefreshes

ASSUME ChunkSizesAreSizes == ChunkSizes \subseteq Nat \ {0}
ASSUME BoundsAreNatural ==
    {MaxQueuedSamples, MaxChunks, MaxTexts, MaxPushes, MaxLines, MaxVolume, MaxCalls} \subseteq Nat
ASSUME ScaleIsClamped == Percent \in 0..100

VARIABLES
    part,   \* the one that runs
    cs, job, child, stopper, said,
    queue, logical_ducked, worker_ducked, saved_volume, step, stop, flushing, volume, past,
    loop, revents, notify, emitQueue, local, wire, inbox, ringing, runningFlag, made, failed,
    button, generation, waiting, waitFor, i18n, pool, events, shown, current, download, boxes,
    model, bar, clicks, superseded, crossed

Stream == INSTANCE CommandStreaming
Ducker == INSTANCE OutputDucker
Bus == INSTANCE DbusService WITH Workers <- Emitters, MethodOf <- Calls, Calls <- DOMAIN Calls
AModel == CHOOSE d \in Downloads : TRUE
Page == INSTANCE ResourcePage WITH
    Workers <- Downloads, worker <- download,
    KindOf <- [w \in Downloads |-> IF w = AModel THEN "model" ELSE "script"]

streamVars == <<cs, job, child, stopper, said>>
duckerVars == <<queue, logical_ducked, worker_ducked, saved_volume, step, stop, flushing, volume,
                past>>
busVars == <<loop, revents, notify, emitQueue, local, wire, inbox, ringing, runningFlag, made, failed>>
pageVars == <<button, generation, waiting, waitFor, i18n, pool, events, shown, current, download,
              boxes, model, bar, clicks, superseded, crossed>>
workersVars == <<part, vars, streamVars, duckerVars, busVars, pageVars>>

(* One call of each kind of method.                                        *)
SmallCalls == [start |-> "StartRecording", get |-> "GetStatus", adapter |-> "StartAdapter"]

WorkersInit ==
    /\ part \in {"async", "stream", "ducker", "emits", "calls", "downloads", "refreshes"}
    /\ Init /\ Stream!Init /\ Ducker!Init /\ Bus!Init /\ Page!Init
    /\ part # "ducker" => volume = 0

Rest(v) == UNCHANGED <<part, v>>

(* Threads that emit beside one call, or calls of every kind.              *)
BusNext ==
    /\ Bus!Next
    /\ \/ part = "emits" /\ \A i \in DOMAIN inbox' : inbox'[i] = "start"
       \/ part = "calls" /\ ringing' = {}

(* Two downloads that cross, or one that crosses refreshes of the user.    *)
PageNext ==
    /\ Page!Next
    /\ \/ part = "downloads" /\ clicks' = clicks
       \/ part = "refreshes" /\ \A d \in Downloads \ {AModel} : download'[d] = download[d]

WorkersNext ==
    \/ /\ part = "async" /\ Next
       /\ Rest(<<streamVars, duckerVars, busVars, pageVars>>)
    \/ /\ part = "stream" /\ Stream!Next
       /\ Rest(<<vars, duckerVars, busVars, pageVars>>)
    \/ /\ part = "ducker" /\ Ducker!Next
       /\ Rest(<<vars, streamVars, busVars, pageVars>>)
    \/ /\ BusNext
       /\ Rest(<<vars, streamVars, duckerVars, pageVars>>)
    \/ /\ PageNext
       /\ Rest(<<vars, streamVars, duckerVars, busVars>>)

(* The fairness of the part that runs. *)
WorkersSpec ==
    /\ WorkersInit /\ [][WorkersNext]_workersVars
    /\ \/ part = "async" /\ Fairness
       \/ part = "stream" /\ Stream!StreamFairness
       \/ part = "ducker" /\ Ducker!Fairness
       \/ part \in {"emits", "calls"} /\ Bus!Fairness
       \/ part \in {"downloads", "refreshes"} /\ Page!Fairness

(* Finish() of a command provider returns whatever the provider does, what *)
(* it returns agrees with the events that were polled, and an interrupted  *)
(* session leaves no provider running.                                     *)
FinishIsTruthful ==
    /\ Stream!FinishEnds
    /\ [](part = "stream" => Stream!VerdictMatchesEvents /\ Stream!ProviderNotLeftBehind)

(* The volume is the user's or its ducked value, and the user's at exit;   *)
(* after Restore() the ducking is undone, Flush() and the destructor end.  *)
DuckingIsUndone == [](part = "ducker" => Ducker!NeverDuckedTwice) /\ Ducker!EventuallyRestored

(* What any thread emits goes out on the bus, in the order of the emits    *)
(* and after the reply of the call it answers.                             *)
EmitsReachTheBus == [](part \in {"emits", "calls"} => Bus!EmitsInOrder) /\ Bus!EmitsReachTheBus

(* The resource page never shows a refresh as over before it is, nor keeps *)
(* it open for ever; it loses no download, and looks at rest when it is.   *)
PageFollowsItsWork ==
    /\ [](part \in {"downloads", "refreshes"} =>
            Page!RefreshIsOver /\ Page!DownloadIsKept /\ Page!RestLooksIdle)
    /\ (part \in {"downloads", "refreshes"} /\ ~button) ~> button
=============================================================================
