------------------------ MODULE RuntimeStateMachine ------------------------
(***************************************************************************)
(* The phase machine of the daemon: what every On...() method of           *)
(* RuntimeStateMachine does to (phase_, postprocessing_state_,             *)
(* is_command_), as a function from the machine to the transition it       *)
(* returns.  The controller applies these under state_mutex_.              *)
(* selected_text_ is payload that no decision reads and is left out.       *)
(***************************************************************************)
EXTENDS Naturals

Status == {"Idle", "Recording", "Inferring", "Postprocessing", "Error"}

PostprocessingState == {"Inactive", "Dictation", "Command", "Discard", "CommitRaw"}

Machine == [phase : Status, post : PostprocessingState, command : BOOLEAN]

(* Clear(), also the state the constructor leaves. *)
Clear == [phase |-> "Idle", post |-> "Inactive", command |-> FALSE]

(* StateTransitionResult: the machine afterwards, whether the event was    *)
(* accepted, and the one consequence the controller branches on.           *)
Effect == {"none", "stop_capture", "too_short", "cancel_postprocessing"}

Accept(m, effect) == [accepted |-> TRUE, machine |-> m, effect |-> effect]

Reject(m) == [accepted |-> FALSE, machine |-> m, effect |-> "none"]

(* postprocessing_state_ is deliberately not part of the abort. *)
AbortRecordingToIdle(m, effect) ==
    Accept([m EXCEPT !.phase = "Idle", !.command = FALSE], effect)

CompleteToIdle(m) == Accept(Clear, "none")

(* Faulty variant: the verdict is preset when the recording starts. *)
OnStartRecordingPresetsPost(m, isCommand) ==
    Accept([phase |-> "Recording", post |-> "Dictation", command |-> isCommand], "none")

OnStartRecording(m, isCommand) ==
    IF m.phase = "Idle"
      THEN Accept([phase |-> "Recording", post |-> "Inactive", command |-> isCommand], "none")
      ELSE Reject(m)

OnStopRecording(m, sampleCount, minSamples) ==
    IF m.phase # "Recording" THEN Reject(m)
    ELSE IF sampleCount < minSamples THEN AbortRecordingToIdle(m, "too_short")
    ELSE Accept([m EXCEPT !.phase = "Inferring"], "none")

(* Faulty variant: a verdict once given can be replaced. *)
CancellablePostAlways(m, commitRaw) == TRUE

(* Which post-processing verdicts are still open to a cancel request. *)
CancellablePost(m, commitRaw) ==
    m.post = "Dictation" \/ (m.post = "Command" /\ ~commitRaw)

(* Faulty variant: an utterance being inferred is aborted like a recording. *)
OnCancelAbortsInference(m, commitRaw) ==
    IF m.phase \in {"Recording", "Inferring"}
      THEN AbortRecordingToIdle(m, "stop_capture") ELSE Accept(m, "none")

OnCancel(m, commitRaw) ==
    CASE m.phase = "Idle" -> Accept(m, "none")
      [] m.phase = "Recording" -> AbortRecordingToIdle(m, "stop_capture")
      [] m.phase = "Postprocessing" /\ CancellablePost(m, commitRaw) ->
           Accept([m EXCEPT !.post = IF commitRaw THEN "CommitRaw" ELSE "Discard"],
                  "cancel_postprocessing")
      [] OTHER -> Reject(m)

(* Faulty variant: the error leaves the phase alone. *)
OnAudioErrorIgnored(m) == Reject(m)

OnAudioError(m) ==
    IF m.phase = "Recording" THEN Accept([m EXCEPT !.phase = "Error"], "none") ELSE Reject(m)

OnInferenceComplete(m, hasScene) ==
    IF m.phase # "Inferring" THEN Reject(m)
    ELSE IF hasScene
      THEN Accept([m EXCEPT !.phase = "Postprocessing",
                            !.post = IF m.command THEN "Command" ELSE "Dictation"], "none")
      ELSE CompleteToIdle(m)

OnInferenceError(m) ==
    IF m.phase = "Inferring" THEN Accept([m EXCEPT !.phase = "Error"], "none") ELSE Reject(m)

OnPostprocessingComplete(m) ==
    IF m.phase = "Postprocessing" THEN CompleteToIdle(m) ELSE Reject(m)

OnResetToIdle(m) == Accept(Clear, "none")

(* TakePostprocessingState() returns m.post and leaves this machine. *)
AfterTake(m) == [m EXCEPT !.post = "Inactive"]
=============================================================================
