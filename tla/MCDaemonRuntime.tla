-------------------------- MODULE MCDaemonRuntime --------------------------
(* The controller with small sets of sessions.  Sessions are identities    *)
(* the model only compares, so the runs with a client, which check safety, *)
(* use them as a symmetry set.                                             *)
EXTENDS DaemonRefinement, TLC

SessionSymmetry == Permutations(Sessions)

(* What was put off is done: a session parked for joining is joined, a     *)
(* reload that came while busy is applied once the daemon stays idle, and  *)
(* a stream kept for reuse is taken up again or destroyed.                 *)
DeferredIsDone == RetiredAreJoined /\ ReloadApplied /\ IdleStreamReleased
=============================================================================
