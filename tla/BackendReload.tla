--------------------------- MODULE BackendReload ---------------------------
(***************************************************************************)
(* RecognitionSessionManager: the ASR backend the daemon records with, and *)
(* the worker thread that replaces it when the configuration changes.      *)
(* A configuration is abstracted to the part BuildRuntimeSignature reads,  *)
(* so a configuration is its own signature and names its provider and      *)
(* model; NoProvider is one without an active provider.  A backend is the  *)
(* configuration it was built from.  Calls into the manager come from the  *)
(* daemon's main thread; one critical section of state_mutex_ is one step. *)
(***************************************************************************)
EXTENDS Naturals, FiniteSets

CONSTANTS
    Configs,      \* configurations with an active provider
    NoProvider,   \* a configuration without one
    None,         \* no backend, no signature
    MaxRequests   \* bound: calls of SynchronizeBackend

VARIABLES
    manager,    \* the members guarded by state_mutex_
    effective,  \* effective_backend_ with the signature it is filed under
    worker,     \* the reload worker: label and the request in hand
    caller,     \* the main thread's label and the configuration in hand
    history     \* the latest request, requests made, what failed

vars == <<manager, effective, worker, caller, history>>

NoBackend == [backend |-> None, signature |-> None]

Init ==
    /\ manager = [running |-> FALSE, requested |-> FALSE, inProgress |-> FALSE,
                  pending |-> NoProvider, target |-> None, error |-> FALSE]
    /\ effective = NoBackend
    /\ worker = [at |-> "absent", settings |-> NoProvider, signature |-> None]
    /\ caller = [at |-> "new", settings |-> NoProvider]
    /\ history = [wanted |-> NoProvider, requests |-> 0,
                  failed |-> None, crossed |-> FALSE]

-----------------------------------------------------------------------------
(* The main thread.                                                        *)

(* ApplyDisabledStateLocked(), short of the effective backend. *)
DisabledState(m) ==
    [m EXCEPT !.pending = NoProvider, !.target = None, !.error = FALSE,
              !.requested = FALSE, !.inProgress = FALSE]

(* ActivatePreparedBackend: a backend filed under its own configuration. *)
Activated(config) == [backend |-> config, signature |-> config]

(* Initialize(): disabled, or prepared and activated on the spot, or a     *)
(* failure that leaves no backend and no target.  Only success starts the  *)
(* worker.                                                                 *)
Initialize(config) ==
    /\ caller.at = "new"
    /\ \/ /\ config = NoProvider
          /\ manager' = DisabledState(manager)
          /\ UNCHANGED <<effective, worker>>
       \/ /\ config # NoProvider
          /\ manager' = [manager EXCEPT !.target = None, !.error = TRUE]
          /\ UNCHANGED <<effective, worker>>
       \/ /\ config # NoProvider
          /\ effective' = Activated(config)
          /\ manager' = [manager EXCEPT !.target = config, !.error = FALSE, !.running = TRUE]
          /\ worker' = [worker EXCEPT !.at = "wait"]
    /\ caller' = [caller EXCEPT !.at = "idle"]
    /\ history' = [history EXCEPT !.wanted = config]

SynchronizeDisabled ==
    /\ caller.at = "idle" /\ history.requests < MaxRequests
    /\ manager' = DisabledState(manager)
    /\ effective' = NoBackend
    /\ history' = [history EXCEPT !.wanted = NoProvider, !.requests = @ + 1,
                                  !.crossed = @ \/ worker.at \in {"prepare", "apply"}]
    /\ UNCHANGED <<worker, caller>>

(* SynchronizeBackend() first makes sure the worker exists ... *)
EnsureReloadWorkerStarted(config) ==
    /\ caller.at = "idle" /\ history.requests < MaxRequests
    /\ caller' = [at |-> "synchronize", settings |-> config]
    /\ manager' = [manager EXCEPT !.running = TRUE]
    /\ worker' = IF manager.running THEN worker ELSE [worker EXCEPT !.at = "wait"]
    /\ history' = [history EXCEPT !.wanted = config, !.requests = @ + 1]
    /\ UNCHANGED <<effective>>

(* Faulty variant: the early return ignores a reload that is under way. *)
MatchesEffective(config) == effective.signature = config

AlreadyEffective(config) ==
    effective.backend # None /\ effective.signature = config /\ ~manager.inProgress

(* ... then either finds the configuration effective or queues a reload.   *)
(* The early return does not withdraw a reload queued before it.           *)
SynchronizeBackend ==
    /\ caller.at = "synchronize"
    /\ LET config == caller.settings
       IN  IF AlreadyEffective(config)
             THEN /\ manager' = [manager EXCEPT !.target = config, !.error = FALSE]
                  /\ history' = [history EXCEPT !.crossed = @ \/ manager.requested]
             ELSE /\ manager' = [manager EXCEPT !.pending = config, !.target = config,
                                                !.requested = TRUE, !.error = FALSE]
                  /\ UNCHANGED history
    /\ caller' = [at |-> "idle", settings |-> NoProvider]
    /\ UNCHANGED <<effective, worker>>

Shutdown ==
    /\ caller.at = "idle"
    /\ manager' = [manager EXCEPT !.running = FALSE, !.requested = FALSE]
    /\ caller' = [caller EXCEPT !.at = "join"]
    /\ UNCHANGED <<effective, worker, history>>

ShutdownJoin ==
    /\ caller.at = "join" /\ worker.at \in {"absent", "exited"}
    /\ effective' = NoBackend
    /\ manager' = [manager EXCEPT !.target = None, !.error = FALSE]
    /\ caller' = [caller EXCEPT !.at = "gone"]
    /\ UNCHANGED <<worker, history>>

-----------------------------------------------------------------------------
(* The reload worker.                                                      *)

(* The settings and the signature they are filed under are read together,  *)
(* but they were written by calls that need not be the same.               *)
ReloadWorkerTake ==
    /\ worker.at = "wait"
    /\ manager.requested \/ ~manager.running
    /\ IF ~manager.running
         THEN /\ worker' = [worker EXCEPT !.at = "exited"]
              /\ UNCHANGED <<manager, history>>
         ELSE /\ worker' = [at |-> "prepare", settings |-> manager.pending,
                            signature |-> manager.target]
              /\ manager' = [manager EXCEPT !.requested = FALSE, !.inProgress = TRUE]
              /\ UNCHANGED history
    /\ UNCHANGED <<effective, caller>>

(* Faulty variant: the old backend is dropped before the new one is ready. *)
PreparationFailsWithoutSwap ==
    /\ worker.at = "prepare"
    /\ effective' = NoBackend
    /\ manager' = [manager EXCEPT !.error = TRUE, !.inProgress = FALSE]
    /\ worker' = [worker EXCEPT !.at = "notify"]
    /\ UNCHANGED <<caller, history>>

(* Faulty variant: the worker gives up after the first failure. *)
PreparationFailureEndsWorker ==
    /\ worker.at = "prepare"
    /\ manager' = [manager EXCEPT !.error = TRUE, !.inProgress = FALSE]
    /\ worker' = [worker EXCEPT !.at = "exited"]
    /\ history' = [history EXCEPT !.failed = worker.settings]
    /\ UNCHANGED <<effective, caller>>

(* CreatePreparedBackendForReload runs without the lock; a failure leaves  *)
(* the backend in place and is recorded.                                   *)
PreparationFails ==
    /\ worker.at = "prepare"
    /\ manager' = [manager EXCEPT !.error = TRUE, !.inProgress = FALSE]
    /\ worker' = [worker EXCEPT !.at = "notify"]
    /\ history' = [history EXCEPT !.failed = worker.settings]
    /\ UNCHANGED <<effective, caller>>

PreparationSucceeds ==
    /\ worker.at = "prepare"
    /\ worker' = [worker EXCEPT !.at = "apply"]
    /\ UNCHANGED <<manager, effective, caller, history>>

Applied(m) == [m EXCEPT !.error = FALSE, !.inProgress = FALSE]

(* CreatePreparedBackendForReload files it under the signature it was told. *)
PreparedForReload(w) == [backend |-> w.settings, signature |-> w.signature]

ApplyBackend ==
    /\ worker.at = "apply"
    /\ effective' = PreparedForReload(worker)
    /\ manager' = Applied(manager)
    /\ worker' = [worker EXCEPT !.at = "notify"]
    /\ UNCHANGED <<caller, history>>

NotifyReloadResult ==
    /\ worker.at = "notify"
    /\ worker' = [at |-> "wait", settings |-> NoProvider, signature |-> None]
    /\ UNCHANGED <<manager, effective, caller, history>>

(* ClassifyRequestedAsrBackend(): the status the front ends show for a     *)
(* configuration they asked for.                                           *)
RequestedStatus(config) ==
    CASE manager.inProgress /\ manager.target = config -> "ReloadInProgress"
      [] manager.error /\ manager.target = config /\ effective.backend # config ->
           IF effective.backend # None THEN "FailedStillUsingPrevious"
                                       ELSE "FailedNoUsableBackend"
      [] effective.backend = config -> "Applied"
      [] manager.target = config -> "ConfigSaved"
      [] OTHER -> "Unknown"

ReloadWorkerMain == ReloadWorkerTake \/ PreparationFails \/ PreparationSucceeds
                      \/ ApplyBackend \/ NotifyReloadResult

MainThread == \/ \E config \in Configs \cup {NoProvider} : Initialize(config)
              \/ SynchronizeDisabled
              \/ \E config \in Configs : EnsureReloadWorkerStarted(config)
              \/ SynchronizeBackend \/ Shutdown \/ ShutdownJoin

Next == MainThread \/ ReloadWorkerMain

(* The worker runs, and a call of the main thread that has begun ends. *)
Fairness == WF_vars(ReloadWorkerMain) /\ WF_vars(SynchronizeBackend \/ ShutdownJoin)

Spec == Init /\ [][Next]_vars /\ Fairness

-----------------------------------------------------------------------------
(* Types of the state. *)
TypeOK ==
    /\ manager \in [running : BOOLEAN, requested : BOOLEAN, inProgress : BOOLEAN,
                    pending : Configs \cup {NoProvider}, target : Configs \cup {None},
                    error : BOOLEAN]
    /\ effective \in [backend : Configs \cup {None}, signature : Configs \cup {None}]
    /\ worker \in [at : {"absent", "wait", "prepare", "apply", "notify", "exited"},
                   settings : Configs \cup {NoProvider}, signature : Configs \cup {None}]
    /\ caller \in [at : {"new", "idle", "synchronize", "join", "gone"},
                   settings : Configs \cup {NoProvider}]
    /\ history \in [wanted : Configs \cup {NoProvider}, requests : 0..MaxRequests,
                    failed : Configs \cup {None}, crossed : BOOLEAN]

(* Nothing of the manager is under way. *)
Quiet == /\ caller.at = "idle" /\ worker.at \in {"absent", "wait"} /\ ~manager.requested

(* As long as no request crossed a reload that was queued or running, the  *)
(* last configuration asked for decides: once nothing is under way its     *)
(* backend is in use, or its own failure (not an older one) is on record,  *)
(* or ASR is disabled.                                                     *)
LastRequestWins ==
    Quiet /\ ~history.crossed =>
      CASE history.wanted = NoProvider -> effective = NoBackend
        [] manager.target = history.wanted ->
             \/ effective.backend = history.wanted
             \/ manager.error /\ history.failed = history.wanted
        [] OTHER -> manager.target = None /\ manager.error

(* Reloading never leaves a daemon that could recognise without a backend: *)
(* a broken model or provider keeps the previous working backend, only a   *)
(* configuration without a provider and shutdown take it away.             *)
WorkingBackendKept ==
    [][effective.backend # None /\ effective'.backend = None
         => history'.wanted = NoProvider \/ caller'.at = "gone"]_vars

(* A queued reload is taken up and its result notified, whatever failed    *)
(* before it, unless ASR is disabled or the manager shut down first, and   *)
(* Shutdown() gets past its join wherever the worker is.                   *)
ReloadsEnd ==
    /\ manager.requested
         ~> worker.at = "notify" \/ ~manager.running \/ history.wanted = NoProvider
    /\ caller.at = "join" ~> caller.at = "gone"

(* The menu feedback reflects the runtime: once nothing is under way, the  *)
(* configuration last asked for is shown as applied or as failed.          *)
MenuReflectsRuntime ==
    Quiet /\ manager.target # None /\ manager.target = history.wanted
      => RequestedStatus(history.wanted)
           \in {"Applied", "FailedStillUsingPrevious", "FailedNoUsableBackend"}
=============================================================================
