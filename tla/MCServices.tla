------------------------------ MODULE MCServices ------------------------------
(***************************************************************************)
(* The backend manager and the addon, for one run of TLC: they share no    *)
(* state here, so a behaviour picks one of them and runs it while the      *)
(* other rests in an initial state.  What is shown of one is what its own  *)
(* module says.                                                            *)
(***************************************************************************)
EXTENDS BackendReload, Frontend

ASSUME ConfigsAreConfigs == NoProvider \notin Configs /\ None \notin Configs /\ NoProvider # None
ASSUME BoundsAreNatural == {MaxRequests, MaxEvents, MaxCrashes} \subseteq Nat
ASSUME ContextsAreContexts == Nobody \notin Contexts \cup Keys
ASSUME KnownModes == Modes \subseteq {"Hold", "Tap", "Both"} /\ Keys \subseteq {"trigger", "command"}

VARIABLE part   \* the service that runs

servicesVars == <<part, vars, frontVars>>

ServicesInit ==
    /\ part \in {"reload", "addon"}
    /\ Init /\ FrontInit
    /\ part # "addon" => user.mode = CHOOSE mode \in Modes : TRUE

ServicesNext ==
    \/ part = "reload" /\ Next /\ UNCHANGED <<part, frontVars>>
    \/ part = "addon" /\ FrontNext /\ UNCHANGED <<part, vars>>

(* The fairness of the part that runs. *)
ServicesSpec ==
    /\ ServicesInit /\ [][ServicesNext]_servicesVars
    /\ \/ part = "reload" /\ Fairness
       \/ part = "addon" /\ FrontFairness

(* A queued reload is taken up and its result notified; Shutdown() ends;   *)
(* and a broken configuration keeps the previous working backend.          *)
RequestsAnswered == ReloadsEnd /\ WorkingBackendKept
=============================================================================
