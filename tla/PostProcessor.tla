--------------------------- MODULE PostProcessor ----------------------------
(***************************************************************************)
(* From recognised text to what the addon does with it: the recognition    *)
(* pipeline (daemon/runtime/recognition_pipeline.cpp), the post-processor  *)
(* that has a language model rewrite the text (daemon/postprocess/), the   *)
(* payload on the wire (common/asr/recognition_result.cpp) and what        *)
(* the addon reads from it.  One request is followed from its start; it    *)
(* may be cancelled, or the daemon shut down, at any point.                *)
(*                                                                         *)
(* A text is [core, pad]: its trimmed part ("" when blank) and whether     *)
(* there is white space around it.                                         *)
(***************************************************************************)
EXTENDS Naturals, Sequences, FiniteSets, SequencesExt

CONSTANTS
    Requests,   \* requests followed: [command, text, selected, scene, target, badPrompt];
                \* target is what the scene's provider id names: "unset", "none"
                \* (nothing configured), "provider" (OpenAI-compatible) or "adapter"
    kMaxLlmMaxCandidates,  \* the most rewrites a scene may ask for
    Answers     \* what a model or an adapter may print: [json, lines]

VARIABLES
    request,    \* the request, constant over a behaviour
    stage,      \* start, asking, answered, done
    answer,     \* what the rewriter returned: a failure, or the candidates
    cancelled,  \* the request's cancel flag or shutting_down_
    payload,    \* the payload the pipeline produced
    error,      \* an error message is reported with it
    inTime      \* ghost: the rewriter saw the answer before any cancellation

vars == <<request, stage, answer, cancelled, payload, error, inTime>>

Text(core, pad) == [core |-> core, pad |-> pad]
NoText == Text("", FALSE)
Trim(t) == Text(t.core, FALSE)
IsEmpty(t) == t = NoText
IsBlank(t) == t.core = ""

Candidate(text, source) == [text |-> text, source |-> source]
NoPayload == [commit |-> NoText, candidates |-> <<>>]
NoAnswer == [ok |-> FALSE, candidates |-> <<>>]

(* NormalizeLlmMaxCandidates clamps to the range of the configuration; no  *)
(* count here is negative.                                                 *)
MaxLlmCandidates(scene) ==
    IF scene.count > kMaxLlmMaxCandidates THEN kMaxLlmMaxCandidates ELSE scene.count

Init ==
    /\ request \in Requests
    /\ stage = "start"
    /\ answer = NoAnswer
    /\ cancelled \in BOOLEAN
    /\ payload = NoPayload
    /\ error = FALSE
    /\ inTime = FALSE

TypeOK ==
    /\ request \in Requests
    /\ stage \in {"start", "asking", "answered", "done"}
    /\ answer.ok \in BOOLEAN
    /\ {cancelled, error, inTime} \subseteq BOOLEAN

-----------------------------------------------------------------------------
(* ExtractCandidatesAuto: a JSON list of strings, one text when only one   *)
(* is wanted, or a candidate per line; blank ones are skipped and the list *)
(* is cut at the number wanted.                                            *)
FirstN(s, n) == SubSeq(s, 1, IF Len(s) < n THEN Len(s) ELSE n)
NonBlank(lines) == SelectSeq(lines, LAMBDA t : ~IsBlank(t))
Whole(lines) == IF Len(lines) = 1 THEN <<Trim(lines[1])>> ELSE <<Text("several lines", FALSE)>>

ExtractCandidatesAuto(raw, max) ==
    LET lines == [i \in DOMAIN NonBlank(raw.lines) |-> Trim(NonBlank(raw.lines)[i])]
    IN  CASE raw.lines = <<>> \/ max = 0 -> <<>>
          [] raw.json -> FirstN(lines, max)
          [] ~raw.json /\ max = 1 -> IF lines = <<>> THEN <<>> ELSE Whole(NonBlank(raw.lines))
          [] OTHER -> FirstN(lines, max)

(* AppendCandidate trims and skips blank texts.                            *)
AppendCandidate(list, text, source) ==
    IF IsBlank(text) THEN list ELSE Append(list, Candidate(Trim(text), source))

(* The texts of a rewrite that are new, each once, up to the number        *)
(* wanted; seen holds the texts already offered.                           *)
Fresh(texts, seen) ==
    LET new(i) == texts[i] \notin seen /\ \A j \in 1 .. i - 1 : texts[j] # texts[i]
        kept   == SelectSeq([i \in DOMAIN texts |-> i], new)
    IN  [i \in DOMAIN kept |-> texts[kept[i]]]

(* Mutant of Accepted: does not look whether a text was offered before.    *)
AcceptedAll(texts, seen, max) == FirstN(texts, max)

Accepted(texts, seen, max) == FirstN(Fresh(texts, seen), max)

LlmCandidates(texts) == [i \in DOMAIN texts |-> Candidate(texts[i], "llm")]

(* PostProcessor::Process once the rewriter has returned.                  *)
Process(r, rewritten) ==
    LET normalized == Trim(r.text)
        fallback   == [commit |-> normalized, candidates |-> AppendCandidate(<<>>, normalized, "raw")]
        raw        == IF r.scene.rawCand THEN AppendCandidate(<<>>, normalized, "raw") ELSE <<>>
        seen       == IF r.scene.rawCand THEN {normalized} ELSE {}
        texts      == Accepted(rewritten.candidates, seen, MaxLlmCandidates(r.scene))
        list       == raw \o LlmCandidates(texts)
    IN  IF IsBlank(normalized) THEN NoPayload
        ELSE IF ~rewritten.ok \/ list = <<>> THEN fallback
        ELSE [commit |-> IF texts = <<>> THEN normalized ELSE texts[1], candidates |-> list]

(* PostProcessor::ProcessCommand: the selected text, the spoken command,   *)
(* then the rewrites.                                                      *)
CommandFallback(r) ==
    LET text == IF IsBlank(r.text) THEN r.selected ELSE Trim(r.text)
    IN  [commit |-> text, candidates |-> AppendCandidate(<<>>, text, "raw")]

ProcessCommand(r, rewritten) ==
    LET asr   == Trim(r.text)
        first == AppendCandidate(<<>>, r.selected, "raw")
        both  == IF asr = r.selected THEN first ELSE AppendCandidate(first, asr, "asr")
        texts == Accepted(rewritten.candidates, {r.selected, asr}, MaxLlmCandidates(r.scene))
    IN  [commit |-> IF texts = <<>> THEN r.selected ELSE texts[1], candidates |-> both \o LlmCandidates(texts)]

-----------------------------------------------------------------------------
Finish(p, err) ==
    /\ payload' = p
    /\ error' = err
    /\ stage' = "done"

(* RecognitionPipeline::Process: no scene, or one that asks for no         *)
(* rewriting, passes the text through.                                     *)
Wanted(r) == r.scene.known /\ r.scene.count > 0 /\ r.target # "unset"

PassThrough ==
    /\ stage = "start"
    /\ IsEmpty(request.text) \/ ~Wanted(request)
    /\ Finish([commit |-> request.text, candidates |-> <<>>], ~request.command /\ ~request.scene.known)
    /\ UNCHANGED <<request, answer, cancelled, inTime>>

(* The post-processor turns back before it asks: nothing to rewrite,       *)
(* nobody to ask, or (command mode) a prompt file it cannot read.          *)
TurnsBack(r) ==
    \/ IsBlank(r.text)
    \/ r.command /\ IsEmpty(r.selected)
    \/ r.target = "none"

BadPrompt(r) == r.target = "provider" /\ r.badPrompt

TurnBack ==
    /\ stage = "start"
    /\ ~IsEmpty(request.text) /\ Wanted(request)
    /\ \/ TurnsBack(request) /\ error' = FALSE
       \/ ~TurnsBack(request) /\ request.command /\ BadPrompt(request) /\ error' = TRUE
    /\ payload' = IF request.command THEN CommandFallback(request) ELSE Process(request, NoAnswer)
    /\ stage' = "done"
    /\ UNCHANGED <<request, answer, cancelled, inTime>>

(* The rewriters.  Both look at the flags first; a missing URL, command or *)
(* prompt file fails them before anything is sent.                         *)
Ask ==
    /\ stage = "start"
    /\ ~IsEmpty(request.text) /\ Wanted(request) /\ ~TurnsBack(request)
    /\ ~(request.command /\ BadPrompt(request))
    /\ \/ cancelled /\ stage' = "answered" /\ error' = FALSE
       \/ ~cancelled /\ BadPrompt(request) /\ stage' = "answered" /\ error' = TRUE
       \/ ~cancelled /\ stage' = "answered" /\ error' = (request.target = "adapter")
       \/ ~cancelled /\ ~BadPrompt(request) /\ stage' = "asking" /\ UNCHANGED error
    /\ UNCHANGED <<request, answer, cancelled, payload, inTime>>

(* RewriteWithOpenAiCompatible after the request: cancelled (the transfer  *)
(* polls the flags), failed with a message, answered with something that   *)
(* is no list of candidates, or answered.                                  *)
OpenAiReturns ==
    /\ stage = "asking"
    /\ request.target = "provider"
    /\ stage' = "answered"
    /\ \/ cancelled /\ error' = FALSE /\ UNCHANGED <<answer, inTime>>
       \/ ~cancelled /\ error' \in BOOLEAN /\ UNCHANGED <<answer, inTime>>
       \/ /\ ~cancelled
          /\ \E raw \in Answers :
                LET texts == ExtractCandidatesAuto(raw, MaxLlmCandidates(request.scene))
                IN  answer' = [ok |-> texts # <<>>, candidates |-> texts]
          /\ error' = FALSE /\ inTime' = TRUE
    /\ UNCHANGED <<request, cancelled, payload>>

(* Mutant of AdapterReturns: does not look at the flags after the run.     *)
AdapterReturnsUnchecked ==
    /\ stage = "asking"
    /\ request.target = "adapter"
    /\ stage' = "answered"
    /\ \/ error' \in BOOLEAN /\ UNCHANGED <<answer, inTime>>
       \/ /\ \E raw \in Answers :
                LET texts == ExtractCandidatesAuto(raw, MaxLlmCandidates(request.scene))
                IN  answer' = [ok |-> texts # <<>>, candidates |-> texts]
          /\ error' = FALSE /\ inTime' = ~cancelled
    /\ UNCHANGED <<request, cancelled, payload>>

(* RewriteWithCommandAdapter: the command runs to its end, cancelled or    *)
(* not; the flags are looked at before its outcome is.                     *)
AdapterReturns ==
    /\ stage = "asking"
    /\ request.target = "adapter"
    /\ stage' = "answered"
    /\ \/ cancelled /\ error' = FALSE /\ UNCHANGED <<answer, inTime>>
       \/ ~cancelled /\ error' \in BOOLEAN /\ UNCHANGED <<answer, inTime>>
       \/ /\ ~cancelled
          /\ \E raw \in Answers :
                LET texts == ExtractCandidatesAuto(raw, MaxLlmCandidates(request.scene))
                IN  answer' = [ok |-> texts # <<>>, candidates |-> texts]
          /\ error' = FALSE /\ inTime' = TRUE
    /\ UNCHANGED <<request, cancelled, payload>>

Build ==
    /\ stage = "answered"
    /\ Finish(IF request.command THEN ProcessCommand(request, answer) ELSE Process(request, answer), error)
    /\ UNCHANGED <<request, answer, cancelled, inTime>>

(* CancelOperation, or Shutdown.                                           *)
Cancel ==
    /\ ~cancelled
    /\ stage # "done"
    /\ cancelled' = TRUE
    /\ UNCHANGED <<request, stage, answer, payload, error, inTime>>

Next == PassThrough \/ TurnBack \/ Ask \/ OpenAiReturns \/ AdapterReturns \/ Build \/ Cancel

Spec == Init /\ [][Next]_vars

-----------------------------------------------------------------------------
(* Mutant of Parse: a payload without candidates stays without.            *)
ParseBare(p) == [p EXCEPT !.candidates = SelectSeq(p.candidates, LAMBDA c : ~IsEmpty(c.text))]

(* Serialize and Parse: what the addon makes of the payload.  A payload    *)
(* without candidates gets its text as the raw one, one without commit     *)
(* text its first candidate.                                               *)
Parse(p) ==
    LET list   == SelectSeq(p.candidates, LAMBDA c : ~IsEmpty(c.text))
        commit == IF IsEmpty(p.commit) /\ list # <<>> THEN list[1].text ELSE p.commit
    IN  [commit |-> commit,
         candidates |-> IF list = <<>> /\ ~IsEmpty(commit) THEN <<Candidate(commit, "raw")>> ELSE list]

(* handleRecognitionResult: which text goes into the history as spoken.    *)
Spoken(r, p) ==
    LET asr == SelectSeq(p.candidates, LAMBDA c : c.source = "asr")
        raw == SelectSeq(p.candidates, LAMBDA c : c.source = "raw" /\ (r.command => c.text # r.selected))
    IN  IF asr # <<>> THEN asr[1].text ELSE IF raw # <<>> THEN raw[1].text ELSE NoText

Llm(p) == SelectSeq(p.candidates, LAMBDA c : c.source = "llm")

-----------------------------------------------------------------------------
(* What is offered is coherent however the request went: no more rewrites  *)
(* than the scene wants, no rewrite twice or equal to a text offered       *)
(* already (a padded selection aside), the text to commit among what is    *)
(* offered (or the blank selection, left alone), and the user's own text   *)
(* first when it is offered at all.                                        *)
PayloadSound ==
    stage = "done" /\ payload.candidates # <<>> =>
        LET texts == [i \in DOMAIN payload.candidates |-> payload.candidates[i].text]
        IN  /\ Len(Llm(payload)) <= MaxLlmCandidates(request.scene)
            /\ request.selected.pad \/ Cardinality(ToSet(texts)) = Len(texts)
            /\ Trim(payload.commit) \in ToSet(texts) \/ payload.commit = request.selected
            /\ \A i \in DOMAIN payload.candidates : payload.candidates[i].source # "llm"
                  => \A j \in 1 .. i : payload.candidates[j].source # "llm"

(* A rewrite reaches the user only when the model answered and nobody had  *)
(* cancelled before the answer was taken; otherwise the text to commit is  *)
(* the user's own.  A cancellation seen by the rewriter reports no error.  *)
RewriteOnlyWhenAnswered ==
    stage = "done" /\ ~inTime =>
        /\ Llm(payload) = <<>>
        /\ payload.commit \in {NoText, request.text, Trim(request.text), request.selected}

(* Something said is not lost on the way to the user: when text was        *)
(* recognised, the addon has something to commit or to choose from, and    *)
(* it records as spoken what was spoken, never the selected text.  Two     *)
(* exceptions: a scene that hides the spoken text, and a command that      *)
(* repeats the selection.                                                  *)
SpokenTextArrives ==
    stage = "done" /\ ~IsBlank(request.text) =>
        LET p == Parse(payload)
        IN  /\ ~IsEmpty(p.commit)
            /\ \/ Spoken(request, p).core = request.text.core
               \/ ~request.command /\ ~request.scene.rawCand /\ inTime
               \/ request.command /\ request.text.core = request.selected.core
=============================================================================
