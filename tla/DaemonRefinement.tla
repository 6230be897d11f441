-------------------------- MODULE DaemonRefinement --------------------------
(***************************************************************************)
(* The refinement mapping under which the controller implements the        *)
(* promise of PushToTalk.                                                  *)
(***************************************************************************)
EXTENDS DaemonRuntime

(* Where the utterance handed over is: in the order slot, with the worker, *)
(* decided and about to be emitted, or emitted or given up and about to be *)
(* forgotten by ResetToIdle().                                             *)
Work ==
    CASE order.kind = "none" -> "none"
      [] order.kind = "request" -> "queued"
      [] order.kind = "moved" /\ pc["worker"] = "w_emit" -> "answer"
      [] order.kind = "moved" /\ pc["worker"] = "z_lock" -> "closing"
      [] OTHER -> "working"

Verdict ==
    CASE machine.post \in {"Dictation", "Command"} -> "open"
      [] machine.post = "CommitRaw" -> "raw"
      [] machine.post = "Discard" -> "discard"
      [] OTHER -> "none"

(* What is about to be emitted. *)
Reply == IF pc["worker"] = "w_emit" THEN payload ELSE "none"

Promise == INSTANCE PushToTalk WITH
    phase <- machine.phase,
    work <- Work,
    verdict <- Verdict,
    answer <- Reply,
    quitting <- ShuttingDown

(* The controller keeps the promise: every behaviour of its threads is,    *)
(* under the mapping above, a behaviour of PushToTalk.                     *)
ImplementsPushToTalk == Promise!Spec
=============================================================================
