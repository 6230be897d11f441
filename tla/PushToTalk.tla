----------------------------- MODULE PushToTalk -----------------------------
(***************************************************************************)
(* What the daemon promises its user, without threads, locks, devices or   *)
(* sessions: one utterance at a time is recorded, handed over, possibly    *)
(* rewritten, answered once and only then forgotten; a rewriting that was  *)
(* called off is answered with what was asked for.  DaemonRefinement shows *)
(* that DaemonRuntime implements it.                                       *)
(***************************************************************************)

VARIABLES
    phase,    \* what the daemon says it does
    work,     \* the utterance handed over: none, queued, working, answer, closing
    verdict,  \* of the rewriting: none, open, raw, discard
    answer,   \* what is about to be delivered
    quitting

vars == <<phase, work, verdict, answer, quitting>>

Init ==
    /\ phase = "Idle" /\ work = "none" /\ verdict = "none" /\ answer = "none"
    /\ quitting = FALSE

(* Recording, and the ways out of it.  A new one only after everything.    *)
Begin ==
    /\ phase = "Idle" /\ work = "none" /\ ~quitting
    /\ phase' = "Recording"
    /\ UNCHANGED <<work, verdict, answer, quitting>>

GiveUp == phase = "Recording" /\ phase' = "Idle" /\ UNCHANGED <<work, verdict, answer, quitting>>
Fail == phase = "Recording" /\ phase' = "Error" /\ UNCHANGED <<work, verdict, answer, quitting>>
Recover == phase = "Error" /\ phase' = "Idle" /\ UNCHANGED <<work, verdict, answer, quitting>>

HandOver ==
    /\ phase = "Recording" /\ work = "none" /\ ~quitting
    /\ phase' = "Inferring" /\ work' = "queued"
    /\ UNCHANGED <<verdict, answer, quitting>>

(* The utterance is worked on; no one else can end this.                   *)
Take == work = "queued" /\ work' = "working" /\ UNCHANGED <<phase, verdict, answer, quitting>>

Rewrite ==
    /\ work = "working" /\ phase = "Inferring"
    /\ phase' = "Postprocessing" /\ verdict' = "open"
    /\ UNCHANGED <<work, answer, quitting>>

Judge ==
    /\ phase = "Postprocessing" /\ verdict = "open" /\ ~quitting
    /\ verdict' \in {"raw", "discard"}
    /\ UNCHANGED <<phase, work, answer, quitting>>

Answers(v) ==
    CASE v = "discard" -> {"empty"}
      [] v = "raw" -> {"raw"}
      [] OTHER -> {"text", "llm", "empty"}

Answer ==
    /\ work = "working"
    /\ work' = "answer" /\ answer' \in Answers(verdict) /\ verdict' = "none"
    /\ UNCHANGED <<phase, quitting>>

Deliver ==
    /\ work = "answer"
    /\ work' = "closing" /\ answer' = "none"
    /\ UNCHANGED <<phase, verdict, quitting>>

(* Recognition or rewriting failed: nothing is delivered.                  *)
Abandon ==
    /\ work = "working"
    /\ work' = "closing" /\ verdict' = "none"
    /\ UNCHANGED <<phase, answer, quitting>>

Close ==
    /\ work = "closing"
    /\ work' = "none" /\ phase' = "Idle"
    /\ UNCHANGED <<verdict, answer, quitting>>

(* The daemon is told to end; it reports Idle and finishes what it has.    *)
Quit == ~quitting /\ quitting' = TRUE /\ UNCHANGED <<phase, work, verdict, answer>>
Forget ==
    /\ quitting
    /\ phase' = "Idle" /\ verdict' = "none"
    /\ UNCHANGED <<work, answer, quitting>>

Next ==
    \/ Begin \/ GiveUp \/ Fail \/ Recover \/ HandOver \/ Take \/ Rewrite \/ Judge \/ Answer
    \/ Deliver \/ Abandon \/ Close \/ Quit \/ Forget

Spec == Init /\ [][Next]_vars
=============================================================================
