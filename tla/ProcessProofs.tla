--------------------------- MODULE ProcessProofs ----------------------------
(***************************************************************************)
(* The commands the daemon runs: why a command backend says only what its  *)
(* command printed, and why the streams of a streaming session arrive in   *)
(* order and nothing survives its cancel.                                  *)
(***************************************************************************)
EXTENDS CommandBatch, ProcessSession, TLAPS

(* The time, in seconds, a leaf that names no prover gives to each.        *)
USE SMTT(30), ZenonT(30)

Saids == {<<>>, <<"completed">>, <<"error", "completed">>, <<"final", "completed">>}

BatchType ==
    [at : {"idle", "run", "done"}, timeout : BOOLEAN, finished : BOOLEAN, pcm : Nat, said : Saids,
     ok : BOOLEAN, notified : Nat]

RunType ==
    [at : {"none", "loop", "poll", "write", "drain", "after", "result", "over"}, offset : Nat,
     in_open : BOOLEAN, input_closed : BOOLEAN, open : SUBSET Outs,
     ready : SUBSET (Outs \cup {"in"}),
     text : [Outs -> Nat], exited : BOOLEAN, drained : BOOLEAN, timed_out : BOOLEAN, broke : BOOLEAN]

CommandType ==
    [life : {"none", "running", "zombie", "reaped"}, code : {0, 1},
     doing : {"think", "in", "out", "err", "exit", "hang"}, holds : SUBSET (Outs \cup {"in"}),
     eof : BOOLEAN, printed : [Outs -> Nat], blank : BOOLEAN, helper : BOOLEAN, late : Nat]

BatchTypes ==
    /\ batch \in BatchType /\ run \in RunType /\ command \in CommandType
    /\ pipes \in [Outs \cup {"in"} -> Nat] /\ \A c \in Outs \cup {"in"} : pipes[c] <= PipeSize

(* All that the leader has printed on c so far is in hand. *)
Whole(c) == run.text[c] >= command.printed[c]

(* What is printed is in hand or in the pipe, and a channel is closed only *)
(* when everything is in hand and nobody can print on it.                  *)
NothingDropped ==
    \A c \in Outs : /\ run.text[c] + pipes[c] >= command.printed[c]
                    /\ run.at # "none" /\ c \notin run.open => Whole(c) /\ ~Held(c)

(* A channel that was not ready when the child was known to have ended has *)
(* nothing left of it, so the round after it takes the rest.               *)
RestIsTaken ==
    /\ run.exited => command.life = "reaped"
    /\ run.exited /\ run.at \in {"write", "drain"} => \A c \in Outs : c \in run.ready \/ Whole(c)
    /\ run.drained => run.exited /\ \A c \in Outs : Whole(c)
    /\ run.at \in {"after", "result", "over"} /\ ~run.timed_out /\ ~run.broke =>
         run.exited /\ \A c \in Outs : Whole(c)

(* The child waits only on what it holds, and stdin is open for as long as *)
(* there is something to write.                                            *)
InputIsFed ==
    /\ command.life = "running" => run.at # "none"
    /\ command.life = "running" /\ command.doing \in Outs => command.doing \in command.holds
    /\ run.in_open => run.at # "none" /\ run.offset < batch.pcm
    /\ run.at = "write" /\ "in" \in run.ready => run.in_open
    /\ run.at # "none" /\ ~run.timed_out => run.in_open \/ run.input_closed
    /\ run.at \in {"result", "over"} => run.input_closed

(* The session speaks once, when Run is over or was never called. *)
SaidAtTheEnd ==
    /\ batch.at = "idle" => run.at = "none" /\ ~batch.ok
    /\ batch.at = "done" => batch.said # <<>>
    /\ run.at = "over" => /\ command.life = "reaped" /\ (run.timed_out => ~command.helper)
                          /\ ~run.timed_out /\ ~run.broke =>
                               batch.notified >= DeliverStderr(command.printed["err"])
    /\ batch.ok => /\ run.at = "over" /\ command.code = 0 /\ ~command.blank
                   /\ ~run.timed_out /\ run.text["out"] > 0

BatchInv == BatchTypes /\ NothingDropped /\ RestIsTaken /\ InputIsFed /\ SaidAtTheEnd

-----------------------------------------------------------------------------
LEMMA MinOfTwo ==
    ASSUME NEW a \in Nat, NEW b \in Nat
    PROVE  Min({a, b}) = IF a <= b THEN a ELSE b
  <1>1. \E x \in {a, b} : \A y \in {a, b} : x <= y
    OBVIOUS
  <1>2. Min({a, b}) \in {a, b} /\ \A y \in {a, b} : Min({a, b}) <= y
    BY <1>1 DEF Min
  <1> QED
    BY <1>2

LEMMA TruthfulFromBatchInv == BatchInv => BatchIsTruthful
  <1> SUFFICES ASSUME BatchInv PROVE BatchIsTruthful
    OBVIOUS
  <1>1. OutputIsWhole
    BY DEF BatchInv, RestIsTaken, SaidAtTheEnd, OutputIsWhole, Whole
  <1>2. AnswerIsTrue
    BY DEF BatchInv, BatchTypes, BatchType, Saids, SaidAtTheEnd, AnswerIsTrue
  <1>3. NothingLeftRunning
    BY DEF BatchInv, InputIsFed, SaidAtTheEnd, NothingLeftRunning
  <1>4. NeitherWaitsForTheOther
    <2>1. ASSUME NEW c \in Outs, Does(c), command.life = "running" PROVE c \in run.open
      BY <2>1 DEF BatchInv, InputIsFed, NothingDropped, Held, Does
    <2> QED
      BY <2>1 DEF BatchInv, InputIsFed, NeitherWaitsForTheOther
  <1> QED
    BY <1>1, <1>2, <1>3, <1>4 DEF BatchIsTruthful

LEMMA NotifiedMono ==
    /\ \A n \in Nat : DeliverStderr(n) \in Nat
    /\ \A m, n \in Nat : m <= n => DeliverStderr(m) <= DeliverStderr(n)
  <1>1. \A n \in Nat : DeliverStderr(n) = IF n <= MaxBatchLines THEN n ELSE MaxBatchLines
    BY LinesAreCounted, MinOfTwo DEF DeliverStderr
  <1> QED
    BY <1>1, LinesAreCounted

LEMMA TypesOf ==
    ASSUME BatchTypes
    PROVE  /\ batch \in BatchType /\ run \in RunType /\ command \in CommandType
           /\ pipes \in [Outs \cup {"in"} -> Nat]
           /\ \A c \in Outs \cup {"in"} : pipes[c] <= PipeSize
           /\ \A c \in Outs : run.text[c] \in Nat /\ command.printed[c] \in Nat
           /\ run.text["err"] \in Nat /\ command.printed["err"] \in Nat
           /\ run.text["out"] \in Nat
  BY DEF BatchTypes, RunType, CommandType, Outs

LEMMA FinishEndsGives ==
    ASSUME BatchTypes, NEW started \in BOOLEAN, NEW code, NEW lines \in Nat,
           FinishEnds(started, code, lines)
    PROVE  /\ batch' \in BatchType /\ batch'.at = "done" /\ batch'.said # <<>>
           /\ batch'.notified = DeliverStderr(lines) /\ batch'.pcm = batch.pcm
           /\ batch'.ok => /\ started /\ ~run.timed_out /\ code = 0
                           /\ run.text["out"] > 0 /\ ~command.blank
  <1> DEFINE ok == /\ started /\ ~run.timed_out /\ code = 0
                   /\ run.text["out"] > 0 /\ ~command.blank
             said == <<IF ok THEN "final" ELSE "error", "completed">>
             n == DeliverStderr(lines)
  <1>1. batch' = [batch EXCEPT !.at = "done", !.finished = TRUE, !.ok = ok, !.notified = n, !.said = said]
    BY ZenonT(30) DEF FinishEnds
  <1>2. said \in Saids /\ said # <<>>
    BY DEF Saids
  <1>3. n \in Nat /\ ok \in BOOLEAN
    BY NotifiedMono
  <1> HIDE DEF said, n
  <1>4. batch'.ok = ok
    BY <1>1, TypesOf
  <1> HIDE DEF ok
  <1>5. batch' \in BatchType /\ batch'.at = "done" /\ batch'.said = said /\ batch'.notified = n
        /\ batch'.pcm = batch.pcm
    BY <1>1, <1>2, <1>3, TypesOf, ZenonT(30) DEF BatchType
  <1> QED
    BY <1>2, <1>4, <1>5 DEF n, ok

LEMMA PushAudioKeeps ==
    ASSUME BatchInv, PushAudio
    PROVE  BatchInv'
  <1> USE DEF BatchInv
  <1>1. BatchTypes'
    <2>1. batch' \in BatchType
      BY TypesOf DEF BatchType, PushAudio
    <2> QED
      BY <2>1, TypesOf DEF BatchTypes, PushAudio
  <1>2. NothingDropped'
    BY TypesOf DEF NothingDropped, Whole, Held, PushAudio
  <1>3. RestIsTaken'
    BY TypesOf DEF RestIsTaken, Whole, PushAudio
  <1>4. InputIsFed'
    BY TypesOf DEF InputIsFed, SaidAtTheEnd, PushAudio
  <1>5. SaidAtTheEnd'
    BY TypesOf DEF SaidAtTheEnd, PushAudio
  <1> QED
    BY <1>1, <1>2, <1>3, <1>4, <1>5

LEMMA FinishCannotStartKeeps ==
    ASSUME BatchInv, FinishCannotStart
    PROVE  BatchInv'
  <1> USE DEF BatchInv
  <1>0. /\ batch' \in BatchType /\ batch'.at = "done" /\ batch'.said # <<>>
        /\ batch'.notified = DeliverStderr(1)
        /\ batch'.ok => FALSE /\ ~run.timed_out /\ 0 = 0 /\ run.text["out"] > 0 /\ ~command.blank
    BY TypesOf, FinishEndsGives, ZenonT(30) DEF FinishCannotStart
  <1>1. BatchTypes'
    BY <1>0, TypesOf DEF BatchTypes, FinishCannotStart
  <1>2. NothingDropped'
    BY TypesOf DEF NothingDropped, Whole, Held, FinishCannotStart
  <1>3. RestIsTaken'
    BY TypesOf DEF RestIsTaken, Whole, FinishCannotStart
  <1>4. InputIsFed'
    BY TypesOf DEF InputIsFed, SaidAtTheEnd, FinishCannotStart
  <1>5. SaidAtTheEnd'
    BY <1>0, NotifiedMono, TypesOf DEF SaidAtTheEnd, FinishCannotStart
  <1> QED
    BY <1>1, <1>2, <1>3, <1>4, <1>5

LEMMA CancelBatchKeeps ==
    ASSUME BatchInv, CancelBatch
    PROVE  BatchInv'
  <1> USE DEF BatchInv
  <1>1. BatchTypes'
    <2>1. <<"completed">> \in Saids
      BY DEF Saids
    <2>2. batch' \in BatchType
      BY <2>1, TypesOf, ZenonT(30) DEF BatchType, CancelBatch
    <2> QED
      BY <2>2, TypesOf DEF BatchTypes, CancelBatch
  <1>2. NothingDropped'
    BY TypesOf DEF NothingDropped, Whole, Held, CancelBatch
  <1>3. RestIsTaken'
    BY TypesOf DEF RestIsTaken, Whole, CancelBatch
  <1>4. InputIsFed'
    BY TypesOf DEF InputIsFed, SaidAtTheEnd, CancelBatch
  <1>5. SaidAtTheEnd'
    BY TypesOf DEF SaidAtTheEnd, CancelBatch
  <1> QED
    BY <1>1, <1>2, <1>3, <1>4, <1>5

LEMMA FinishKeeps ==
    ASSUME BatchInv, Finish
    PROVE  BatchInv'
  <1> USE DEF BatchInv
  <1> DEFINE some == batch.pcm > 0
             none == batch.pcm = 0
  <1>0. /\ run' = [NoRun EXCEPT !.at = "loop", !.in_open = some, !.input_closed = none, !.open = Outs]
        /\ some \in BOOLEAN /\ none \in BOOLEAN /\ (some \/ none) /\ (some => 0 < batch.pcm)
    BY TypesOf DEF Finish, BatchType
  <1> HIDE DEF some, none
  <1>1. BatchTypes'
    <2>1. batch' \in BatchType
      BY TypesOf, ZenonT(30) DEF BatchType, Finish
    <2>2. run' \in RunType
      BY <1>0, ZenonT(30) DEF RunType, NoRun
    <2>3. command' \in CommandType
      BY TypesOf, ZenonT(30) DEF CommandType, Finish, NoChild
    <2> QED
      BY <2>1, <2>2, <2>3, TypesOf DEF BatchTypes, Finish
  <1>2. NothingDropped'
    BY TypesOf DEF NothingDropped, Finish, NoRun, NoChild
  <1>3. RestIsTaken'
    BY TypesOf DEF RestIsTaken, Finish, NoRun
  <1>6. /\ run'.in_open = some /\ run'.input_closed = none /\ run'.offset = 0 /\ run'.at = "loop"
        /\ batch'.pcm = batch.pcm /\ command'.doing = "think"
    BY <1>0, TypesOf, ZenonT(30) DEF NoRun, BatchType, NoChild, Finish
  <1>4. InputIsFed'
    BY <1>0, <1>6 DEF InputIsFed, Outs
  <1>5. SaidAtTheEnd'
    BY TypesOf DEF SaidAtTheEnd, Finish
  <1> QED
    BY <1>1, <1>2, <1>3, <1>4, <1>5

LEMMA LoopEndsKeeps ==
    ASSUME BatchInv, LoopEnds
    PROVE  BatchInv'
  <1> USE DEF BatchInv
  <1>1. BatchTypes'
    <2>1. run' \in RunType
      BY TypesOf DEF RunType, LoopEnds
    <2> QED
      BY <2>1, TypesOf DEF BatchTypes, LoopEnds
  <1>2. NothingDropped'
    BY TypesOf DEF NothingDropped, Whole, Held, LoopEnds
  <1>3. RestIsTaken'
    BY TypesOf DEF NothingDropped, RestIsTaken, Whole, LoopEnds, Looping
  <1>4. InputIsFed'
    BY TypesOf DEF InputIsFed, LoopEnds
  <1>5. SaidAtTheEnd'
    BY TypesOf DEF SaidAtTheEnd, LoopEnds
  <1> QED
    BY <1>1, <1>2, <1>3, <1>4, <1>5

LEMMA DeadlinePassesKeeps ==
    ASSUME BatchInv, DeadlinePasses
    PROVE  BatchInv'
  <1> USE DEF BatchInv
  <1>1. BatchTypes'
    <2>1. run' \in RunType
      BY TypesOf, ZenonT(30) DEF RunType, DeadlinePasses, Looked, FinishInput
    <2>2. command' \in CommandType
      BY TypesOf DEF CommandType, DeadlinePasses, LookForExit
    <2> QED
      BY <2>1, <2>2, TypesOf DEF BatchTypes, DeadlinePasses, LookForExit
  <1>2. NothingDropped'
    BY TypesOf
       DEF NothingDropped, Whole, Held, DeadlinePasses, LookForExit, Looked, FinishInput, Looping
  <1>3. RestIsTaken'
    BY TypesOf DEF RestIsTaken, Whole, DeadlinePasses, LookForExit, Looked, FinishInput
  <1>4. InputIsFed'
    BY TypesOf DEF InputIsFed, DeadlinePasses, LookForExit
  <1>5. SaidAtTheEnd'
    BY TypesOf DEF SaidAtTheEnd, DeadlinePasses, LookForExit, Looping
  <1> QED
    BY <1>1, <1>2, <1>3, <1>4, <1>5

LEMMA GracePassesKeeps ==
    ASSUME BatchInv, GracePasses
    PROVE  BatchInv'
  <1> USE DEF BatchInv
  <1>1. BatchTypes'
    <2>1. run' \in RunType
      BY TypesOf, ZenonT(30) DEF RunType, GracePasses, Looked, FinishInput
    <2>2. command' \in CommandType
      BY TypesOf DEF CommandType, GracePasses, LookForExit
    <2> QED
      BY <2>1, <2>2, TypesOf DEF BatchTypes, GracePasses, LookForExit
  <1>2. NothingDropped'
    BY TypesOf
       DEF NothingDropped, Whole, Held, GracePasses, LookForExit, Looked, FinishInput, Looping
  <1>3. RestIsTaken'
    BY TypesOf DEF RestIsTaken, Whole, GracePasses, GraceOver, LookForExit, Looked, FinishInput
  <1>4. InputIsFed'
    BY TypesOf DEF InputIsFed, GracePasses, LookForExit, Looked, FinishInput, Looping
  <1>5. SaidAtTheEnd'
    BY TypesOf DEF SaidAtTheEnd, GracePasses, LookForExit, Looping
  <1> QED
    BY <1>1, <1>2, <1>3, <1>4, <1>5

LEMMA TimeLeftKeeps ==
    ASSUME BatchInv, TimeLeft
    PROVE  BatchInv'
  <1> USE DEF BatchInv
  <1>1. BatchTypes'
    <2>1. run' \in RunType
      BY TypesOf, ZenonT(30) DEF RunType, TimeLeft, Looked, FinishInput
    <2>2. command' \in CommandType
      BY TypesOf DEF CommandType, TimeLeft, LookForExit
    <2> QED
      BY <2>1, <2>2, TypesOf DEF BatchTypes, TimeLeft, LookForExit
  <1>2. NothingDropped'
    BY TypesOf
       DEF NothingDropped, Whole, Held, TimeLeft, LookForExit, Looked, FinishInput, Looping
  <1>3. RestIsTaken'
    BY TypesOf DEF RestIsTaken, Whole, TimeLeft, LookForExit, Looked, FinishInput
  <1>4. InputIsFed'
    BY TypesOf DEF InputIsFed, TimeLeft, LookForExit, Looked, FinishInput, Looping
  <1>5. SaidAtTheEnd'
    BY TypesOf DEF SaidAtTheEnd, TimeLeft, LookForExit, Looping
  <1> QED
    BY <1>1, <1>2, <1>3, <1>4, <1>5

LEMMA PollPipesKeeps ==
    ASSUME BatchInv, PollPipes
    PROVE  BatchInv'
  <1> USE DEF BatchInv
  <1>1. BatchTypes'
    <2>1. run' \in RunType
      BY TypesOf, ZenonT(30) DEF RunType, PollPipes
    <2> QED
      BY <2>1, TypesOf DEF BatchTypes, PollPipes
  <1>2. NothingDropped'
    BY TypesOf DEF NothingDropped, Whole, Held, PollPipes, Held
  <1>3. RestIsTaken'
    BY TypesOf DEF NothingDropped, RestIsTaken, Whole, PollPipes
  <1>4. InputIsFed'
    BY TypesOf DEF RunType, Outs, InputIsFed, PollPipes
  <1>5. SaidAtTheEnd'
    BY TypesOf DEF SaidAtTheEnd, PollPipes
  <1> QED
    BY <1>1, <1>2, <1>3, <1>4, <1>5

LEMMA PollPipesFailsKeeps ==
    ASSUME BatchInv, PollPipesFails
    PROVE  BatchInv'
  <1> USE DEF BatchInv
  <1>1. BatchTypes'
    <2>1. run' \in RunType
      BY TypesOf, ZenonT(30) DEF RunType, PollPipesFails
    <2> QED
      BY <2>1, TypesOf DEF BatchTypes, PollPipesFails
  <1>2. NothingDropped'
    BY TypesOf DEF NothingDropped, Whole, Held, PollPipesFails
  <1>3. RestIsTaken'
    BY TypesOf DEF RestIsTaken, Whole, PollPipesFails
  <1>4. InputIsFed'
    BY TypesOf DEF InputIsFed, PollPipesFails
  <1>5. SaidAtTheEnd'
    BY TypesOf DEF SaidAtTheEnd, PollPipesFails
  <1> QED
    BY <1>1, <1>2, <1>3, <1>4, <1>5

LEMMA PumpEndsKeeps ==
    ASSUME BatchInv, PumpEnds
    PROVE  BatchInv'
  <1> USE DEF BatchInv
  <1>1. BatchTypes'
    <2>1. run' \in RunType
      BY TypesOf, ZenonT(30) DEF RunType, PumpEnds, FinishInput
    <2>2. command' \in CommandType
      BY TypesOf DEF CommandType, PumpEnds
    <2> QED
      BY <2>1, <2>2, TypesOf DEF BatchTypes, PumpEnds
  <1>2. NothingDropped'
    BY TypesOf DEF NothingDropped, Whole, Held, PumpEnds, FinishInput
  <1>3. RestIsTaken'
    BY TypesOf DEF RunType, RestIsTaken, Whole, PumpEnds, FinishInput
  <1>4. InputIsFed'
    BY TypesOf DEF InputIsFed, PumpEnds, FinishInput
  <1>5. SaidAtTheEnd'
    BY TypesOf DEF SaidAtTheEnd, PumpEnds
  <1> QED
    BY <1>1, <1>2, <1>3, <1>4, <1>5

LEMMA RunTimedOutKeeps ==
    ASSUME BatchInv, RunTimedOut
    PROVE  BatchInv'
  <1> USE DEF BatchInv
  <1>0. /\ batch' \in BatchType /\ batch'.at = "done" /\ batch'.said # <<>>
        /\ batch'.notified = DeliverStderr(run.text["err"]) /\ batch'.pcm = batch.pcm
        /\ batch'.ok => ~run.timed_out /\ 1 = 0 /\ run.text["out"] > 0 /\ ~command.blank
    BY TypesOf, FinishEndsGives, ZenonT(30) DEF RunTimedOut
  <1>1. BatchTypes'
    <2>1. run' \in RunType
      BY TypesOf DEF RunType, RunTimedOut, Over
    <2>2. command' \in CommandType
      BY TypesOf, ZenonT(30) DEF CommandType, RunTimedOut, KillGroup
    <2> QED
      BY <1>0, <2>1, <2>2, TypesOf DEF BatchTypes, RunTimedOut, Over
  <1>2. NothingDropped'
    BY TypesOf DEF NothingDropped, Whole, Held, RunTimedOut, KillGroup, Over
  <1>3. RestIsTaken'
    BY TypesOf DEF RestIsTaken, Whole, RunTimedOut, KillGroup, Over
  <1>4. InputIsFed'
    BY <1>0, TypesOf DEF InputIsFed, RunTimedOut, KillGroup, Over
  <1>5. SaidAtTheEnd'
    BY <1>0, NotifiedMono, TypesOf DEF SaidAtTheEnd, RunTimedOut, KillGroup, Over
  <1> QED
    BY <1>1, <1>2, <1>3, <1>4, <1>5

LEMMA RunExitedKeeps ==
    ASSUME BatchInv, RunExited
    PROVE  BatchInv'
  <1> USE DEF BatchInv
  <1>0. /\ batch' \in BatchType /\ batch'.at = "done" /\ batch'.said # <<>>
        /\ batch'.notified = DeliverStderr(run.text["err"]) /\ batch'.pcm = batch.pcm
        /\ batch'.ok => ~run.timed_out /\ command.code = 0 /\ run.text["out"] > 0 /\ ~command.blank
    BY TypesOf, FinishEndsGives, ZenonT(30) DEF RunExited
  <1>1. BatchTypes'
    <2>1. run' \in RunType
      BY TypesOf DEF RunType, RunExited, Over
    <2> QED
      BY <1>0, <2>1, TypesOf DEF BatchTypes, RunExited, Over
  <1>2. NothingDropped'
    BY TypesOf DEF NothingDropped, Whole, Held, RunExited, Over
  <1>3. RestIsTaken'
    BY TypesOf DEF RestIsTaken, Whole, RunExited, Over
  <1>4. InputIsFed'
    BY <1>0, TypesOf DEF InputIsFed, RunExited, Over
  <1>5. SaidAtTheEnd'
    BY <1>0, NotifiedMono, TypesOf
       DEF Outs, InputIsFed, SaidAtTheEnd, RestIsTaken, Whole, RunExited, Over
  <1> QED
    BY <1>1, <1>2, <1>3, <1>4, <1>5

LEMMA RunWaitsKeeps ==
    ASSUME BatchInv, RunWaits
    PROVE  BatchInv'
  <1> USE DEF BatchInv
  <1>0. /\ batch' \in BatchType /\ batch'.at = "done" /\ batch'.said # <<>>
        /\ batch'.notified = DeliverStderr(run.text["err"]) /\ batch'.pcm = batch.pcm
        /\ batch'.ok => ~run.timed_out /\ command.code = 0 /\ run.text["out"] > 0 /\ ~command.blank
    BY TypesOf, FinishEndsGives, ZenonT(30) DEF RunWaits
  <1>1. BatchTypes'
    <2>1. run' \in RunType
      BY TypesOf DEF RunType, RunWaits, Over
    <2>2. command' \in CommandType
      BY TypesOf DEF CommandType, RunWaits
    <2> QED
      BY <1>0, <2>1, <2>2, TypesOf DEF BatchTypes, RunWaits, Over
  <1>2. NothingDropped'
    BY TypesOf DEF NothingDropped, Whole, Held, RunWaits, Over
  <1>3. RestIsTaken'
    BY TypesOf DEF RestIsTaken, RunWaits, Over
  <1>4. InputIsFed'
    BY <1>0, TypesOf DEF InputIsFed, RunWaits, Over
  <1>5. SaidAtTheEnd'
    BY <1>0, NotifiedMono, TypesOf DEF SaidAtTheEnd, RestIsTaken, RunWaits, Over
  <1> QED
    BY <1>1, <1>2, <1>3, <1>4, <1>5

LEMMA ThinksKeeps ==
    ASSUME BatchInv, Thinks
    PROVE  BatchInv'
  <1> USE DEF BatchInv
  <1>1. BatchTypes'
    <2>1. command' \in CommandType
      BY TypesOf DEF CommandType, Thinks, Outs
    <2> QED
      BY <2>1, TypesOf DEF BatchTypes, Thinks
  <1>2. NothingDropped'
    BY TypesOf DEF NothingDropped, Whole, Held, Thinks
  <1>3. RestIsTaken'
    BY TypesOf DEF RestIsTaken, Thinks, Does
  <1>4. InputIsFed'
    BY TypesOf DEF Outs, InputIsFed, Thinks
  <1>5. SaidAtTheEnd'
    BY TypesOf DEF SaidAtTheEnd, Thinks
  <1> QED
    BY <1>1, <1>2, <1>3, <1>4, <1>5

LEMMA ReadsKeeps ==
    ASSUME BatchInv, Reads
    PROVE  BatchInv'
  <1> USE DEF BatchInv
  <1>1. BatchTypes'
    <2>1. command' \in CommandType
      BY TypesOf, ZenonT(30) DEF CommandType, Reads
    <2>2. pipes' \in [Outs \cup {"in"} -> Nat] /\ \A x \in Outs \cup {"in"} : pipes'[x] <= PipeSize
      BY TypesOf, BudgetCoversPipe DEF Reads
    <2> QED
      BY <2>1, <2>2, TypesOf DEF BatchTypes, Reads
  <1>2. NothingDropped'
    BY TypesOf DEF Outs, NothingDropped, Whole, Held, Reads
  <1>3. RestIsTaken'
    BY TypesOf DEF RestIsTaken, Reads, Does
  <1>4. InputIsFed'
    BY TypesOf DEF Outs, InputIsFed, Reads
  <1>5. SaidAtTheEnd'
    BY TypesOf DEF SaidAtTheEnd, Reads
  <1> QED
    BY <1>1, <1>2, <1>3, <1>4, <1>5

LEMMA ClosesKeeps ==
    ASSUME BatchInv, Closes
    PROVE  BatchInv'
  <1> USE DEF BatchInv
  <1>1. BatchTypes'
    <2>1. command' \in CommandType
      BY TypesOf DEF CommandType, Closes
    <2> QED
      BY <2>1, TypesOf DEF BatchTypes, Closes
  <1>2. NothingDropped'
    BY TypesOf DEF NothingDropped, Whole, Held, Closes
  <1>3. RestIsTaken'
    BY TypesOf DEF RestIsTaken, Closes, Does
  <1>4. InputIsFed'
    BY TypesOf DEF Outs, InputIsFed, Closes, Does
  <1>5. SaidAtTheEnd'
    BY TypesOf DEF SaidAtTheEnd, Closes
  <1> QED
    BY <1>1, <1>2, <1>3, <1>4, <1>5

LEMMA ExitsKeeps ==
    ASSUME BatchInv, Exits
    PROVE  BatchInv'
  <1> USE DEF BatchInv
  <1>1. BatchTypes'
    <2>1. command' \in CommandType
      BY TypesOf, ZenonT(30) DEF CommandType, Exits
    <2> QED
      BY <2>1, TypesOf DEF BatchTypes, Exits
  <1>2. NothingDropped'
    BY TypesOf DEF NothingDropped, Whole, Held, Exits, Does
  <1>3. RestIsTaken'
    BY TypesOf DEF RestIsTaken, Exits, Does
  <1>4. InputIsFed'
    BY TypesOf DEF InputIsFed, Exits
  <1>5. SaidAtTheEnd'
    BY TypesOf DEF SaidAtTheEnd, Exits, Does
  <1> QED
    BY <1>1, <1>2, <1>3, <1>4, <1>5

LEMMA HangsKeeps ==
    ASSUME BatchInv, Hangs
    PROVE  BatchInv'
  <1> USE DEF BatchInv
  <1>1. BatchTypes'
    <2>1. command' \in CommandType
      BY TypesOf DEF CommandType, Hangs
    <2> QED
      BY <2>1, TypesOf DEF BatchTypes, Hangs
  <1>2. NothingDropped'
    BY TypesOf DEF NothingDropped, Whole, Held, Hangs
  <1>3. RestIsTaken'
    BY TypesOf DEF RestIsTaken, Hangs, Does
  <1>4. InputIsFed'
    BY TypesOf DEF Outs, InputIsFed, Hangs
  <1>5. SaidAtTheEnd'
    BY TypesOf DEF SaidAtTheEnd, Hangs
  <1> QED
    BY <1>1, <1>2, <1>3, <1>4, <1>5

LEMMA HelperExitsKeeps ==
    ASSUME BatchInv, HelperExits
    PROVE  BatchInv'
  <1> USE DEF BatchInv
  <1>1. BatchTypes'
    <2>1. command' \in CommandType
      BY TypesOf, ZenonT(30) DEF CommandType, HelperExits
    <2> QED
      BY <2>1, TypesOf DEF BatchTypes, HelperExits
  <1>2. NothingDropped'
    BY TypesOf DEF NothingDropped, Whole, Held, HelperExits
  <1>3. RestIsTaken'
    BY TypesOf DEF RestIsTaken, Whole, HelperExits
  <1>4. InputIsFed'
    BY TypesOf DEF InputIsFed, HelperExits
  <1>5. SaidAtTheEnd'
    BY TypesOf DEF SaidAtTheEnd, HelperExits
  <1> QED
    BY <1>1, <1>2, <1>3, <1>4, <1>5

LEMMA PrintsKeeps ==
    ASSUME BatchInv, NEW c \in Outs, Prints(c)
    PROVE  BatchInv'
  <1> USE DEF BatchInv
  <1>1. BatchTypes'
    <2> DEFINE p == [command.printed EXCEPT ![c] = @ + 1]
    <2>3. p \in [Outs -> Nat] /\ command' = [command EXCEPT !.doing = "think", !.printed = p]
      BY TypesOf DEF Prints, CommandType
    <2> HIDE DEF p
    <2>1. command' \in CommandType
      BY <2>3, TypesOf, ZenonT(30) DEF CommandType
    <2>2. pipes' \in [Outs \cup {"in"} -> Nat] /\ \A x \in Outs \cup {"in"} : pipes'[x] <= PipeSize
      BY TypesOf, BudgetCoversPipe DEF Prints
    <2> QED
      BY <2>1, <2>2, TypesOf DEF BatchTypes, Prints
  <1>2. NothingDropped'
    BY TypesOf DEF CommandType, NothingDropped, InputIsFed, Whole, Held, Prints, Does
  <1>3. RestIsTaken'
    BY TypesOf DEF RestIsTaken, Prints, Does
  <1>4. InputIsFed'
    BY TypesOf DEF Outs, InputIsFed, Prints
  <1>5. SaidAtTheEnd'
    BY TypesOf DEF SaidAtTheEnd, Prints, Does
  <1> QED
    BY <1>1, <1>2, <1>3, <1>4, <1>5

LEMMA HelperPrintsKeeps ==
    ASSUME BatchInv, NEW c \in Outs, HelperPrints(c)
    PROVE  BatchInv'
  <1> USE DEF BatchInv
  <1>1. BatchTypes'
    <2>1. command' \in CommandType
      BY TypesOf DEF CommandType, HelperPrints
    <2>2. pipes' \in [Outs \cup {"in"} -> Nat] /\ \A x \in Outs \cup {"in"} : pipes'[x] <= PipeSize
      BY TypesOf, BudgetCoversPipe DEF HelperPrints
    <2> QED
      BY <2>1, <2>2, TypesOf DEF BatchTypes, HelperPrints
  <1>2. NothingDropped'
    BY TypesOf DEF NothingDropped, Whole, Held, HelperPrints
  <1>3. RestIsTaken'
    BY TypesOf DEF RestIsTaken, Whole, HelperPrints
  <1>4. InputIsFed'
    BY TypesOf DEF InputIsFed, HelperPrints
  <1>5. SaidAtTheEnd'
    BY TypesOf DEF SaidAtTheEnd, HelperPrints
  <1> QED
    BY <1>1, <1>2, <1>3, <1>4, <1>5

LEMMA WriteInputKeeps ==
    ASSUME BatchInv, WriteInput
    PROVE  BatchInv'
  <1> USE DEF BatchInv
  <1> DEFINE written == Min({PipeSize - pipes["in"], batch.pcm - run.offset})
             offset == run.offset + written
             fed == [run EXCEPT !.at = "drain", !.offset = offset]
  <1>1. run.at = "write" /\ batch' = batch /\ command' = command
    BY DEF WriteInput
  <1>2. \/ run' = [run EXCEPT !.at = "drain"] /\ pipes' = pipes
        \/ run' = [FinishInput(run) EXCEPT !.at = "drain"] /\ pipes' = pipes
        \/ /\ run.in_open /\ pipes' = [pipes EXCEPT !["in"] = @ + written]
           /\ \/ run' = FinishInput(fed)
              \/ run' = fed /\ ~(fed.offset >= batch.pcm)
    BY <1>1 DEF WriteInput, InputIsFed, AllWritten
  <1>3. run.in_open => written \in Nat /\ pipes["in"] + written <= PipeSize
    <2> SUFFICES ASSUME run.in_open PROVE written \in Nat /\ pipes["in"] + written <= PipeSize
      OBVIOUS
    <2> DEFINE a == PipeSize - pipes["in"]
               b == batch.pcm - run.offset
    <2>1. a \in Nat /\ b \in Nat /\ pipes["in"] \in Nat /\ pipes["in"] + a = PipeSize
      BY TypesOf, BudgetCoversPipe DEF BatchType, RunType, InputIsFed
    <2> HIDE DEF a, b
    <2>2. written = IF a <= b THEN a ELSE b
      BY <2>1, MinOfTwo DEF b
    <2> HIDE DEF written
    <2> QED
      BY <2>1, <2>2, BudgetCoversPipe
  <1> HIDE DEF written
  <1>4. /\ pipes' \in [Outs \cup {"in"} -> Nat] /\ \A c \in Outs \cup {"in"} : pipes'[c] <= PipeSize
        /\ \A c \in Outs : pipes'[c] = pipes[c]
    BY <1>2, <1>3, TypesOf DEF Outs
  <1>5. /\ run' \in RunType /\ run'.at = "drain"
        /\ run'.open = run.open /\ run'.ready = run.ready /\ run'.text = run.text
        /\ run'.exited = run.exited /\ run'.drained = run.drained /\ run'.broke = run.broke
        /\ run'.timed_out = run.timed_out
    <2>1. CASE run' = [run EXCEPT !.at = "drain"] \/ run' = [FinishInput(run) EXCEPT !.at = "drain"]
      BY <2>1, TypesOf, ZenonT(30) DEF RunType, FinishInput
    <2>2. CASE run.in_open /\ (run' = FinishInput(fed) \/ run' = fed)
      <3>1. /\ fed \in RunType /\ fed.at = "drain"
            /\ fed.open = run.open /\ fed.ready = run.ready /\ fed.text = run.text
            /\ fed.exited = run.exited /\ fed.drained = run.drained /\ fed.broke = run.broke
            /\ fed.timed_out = run.timed_out
        <4>1. offset \in Nat
          BY <1>3, <2>2, TypesOf DEF RunType
        <4> HIDE DEF offset
        <4> QED
          BY <4>1, TypesOf, ZenonT(30) DEF RunType
      <3> HIDE DEF fed
      <3> QED
        BY <2>2, <3>1, ZenonT(30) DEF RunType, FinishInput
    <2> QED
      BY <1>2, <2>1, <2>2
  <1>6. /\ run'.in_open => run.in_open /\ run'.offset < batch.pcm
        /\ run.in_open \/ run.input_closed => run'.in_open \/ run'.input_closed
    <2>1. CASE run' = [run EXCEPT !.at = "drain"]
      BY <2>1, TypesOf DEF InputIsFed
    <2>2. CASE run' = [FinishInput(run) EXCEPT !.at = "drain"] \/ run' = FinishInput(fed)
      BY <2>2, TypesOf, ZenonT(30) DEF RunType, FinishInput
    <2>3. CASE run.in_open /\ run' = fed /\ ~(fed.offset >= batch.pcm)
      BY <1>3, <2>3, TypesOf DEF RunType, BatchType
    <2> QED
      BY <1>2, <2>1, <2>2, <2>3
  <1>7. BatchTypes'
    BY <1>1, <1>4, <1>5, TypesOf DEF BatchTypes
  <1>8. NothingDropped' /\ RestIsTaken'
    BY <1>1, <1>4, <1>5 DEF NothingDropped, RestIsTaken, Whole, Held
  <1>9. InputIsFed'
    BY <1>1, <1>5, <1>6 DEF InputIsFed
  <1>10. SaidAtTheEnd'
    BY <1>1, <1>5 DEF SaidAtTheEnd
  <1> QED
    BY <1>7, <1>8, <1>9, <1>10

LEMMA DrainOutputsKeeps ==
    ASSUME BatchInv, DrainOutputs
    PROVE  BatchInv'
  <1> USE DEF BatchInv
  <1> DEFINE read == [c \in Outs |-> DrainBudgeted(c)]
             text == [c \in Outs |-> run.text[c] + read[c]]
             open == {c \in run.open : c \in run.ready => ~SeenClosed(c, read[c])}
  <1>0. run.at = "drain" /\ batch' = batch /\ command' = command
    BY DEF DrainOutputs
  <1>1. /\ run' = [run EXCEPT !.at = "loop", !.drained = run.exited, !.ready = {}, !.text = text,
                              !.open = open]
        /\ pipes' = [c \in DOMAIN pipes |-> IF c \in Outs THEN pipes[c] - read[c] ELSE pipes[c]]
    BY ZenonT(30) DEF DrainOutputs
  (* The budget covers all that a pipe holds. *)
  <1>2. \A c \in Outs : read[c] = IF c \in run.ready THEN pipes[c] ELSE 0
    <2> SUFFICES ASSUME NEW c \in Outs PROVE DrainBudgeted(c) = IF c \in run.ready THEN pipes[c] ELSE 0
      OBVIOUS
    <2>1. pipes[c] \in Nat /\ pipes[c] <= Budget /\ Budget \in Nat
      BY TypesOf, BudgetCoversPipe
    <2> QED
      BY <2>1, MinOfTwo DEF DrainBudgeted
  <1> HIDE DEF read
  <1>3. /\ text \in [Outs -> Nat] /\ \A c \in Outs : text[c] = run.text[c] + read[c]
        /\ open \in SUBSET Outs
        /\ \A c \in run.open \ open : c \in run.ready /\ ~Held(c)
    BY <1>2, TypesOf DEF RunType, SeenClosed
  <1> HIDE DEF text, open
  <1>4. /\ pipes' \in [Outs \cup {"in"} -> Nat] /\ \A c \in Outs \cup {"in"} : pipes'[c] <= PipeSize
        /\ \A c \in Outs : pipes'[c] = IF c \in run.ready THEN 0 ELSE pipes[c]
    BY <1>1, <1>2, TypesOf, BudgetCoversPipe
  <1>5. /\ run' \in RunType /\ run'.at = "loop" /\ run'.open = open /\ run'.text = text
        /\ run'.ready = {} /\ run'.exited = run.exited /\ run'.drained = run.exited
        /\ run'.broke = run.broke /\ run'.timed_out = run.timed_out
        /\ run'.in_open = run.in_open /\ run'.input_closed = run.input_closed
        /\ run'.offset = run.offset
    BY <1>1, <1>3, TypesOf, ZenonT(30) DEF RunType
  <1>6. BatchTypes'
    BY <1>0, <1>4, <1>5, TypesOf DEF BatchTypes
  <1>7. \A c \in Outs :
          /\ c \in run.ready => text[c] >= command.printed[c]
          /\ Whole(c) => text[c] >= command.printed[c]
          /\ text[c] + pipes'[c] >= command.printed[c]
    <2> SUFFICES ASSUME NEW c \in Outs
                 PROVE  /\ c \in run.ready => text[c] >= command.printed[c]
                        /\ Whole(c) => text[c] >= command.printed[c]
                        /\ text[c] + pipes'[c] >= command.printed[c]
      OBVIOUS
    <2>1. /\ run.text[c] \in Nat /\ command.printed[c] \in Nat /\ pipes[c] \in Nat
          /\ run.text[c] + pipes[c] >= command.printed[c]
      BY TypesOf DEF NothingDropped
    <2> QED
      BY <1>2, <1>3, <1>4, <2>1 DEF Whole
  <1>8. NothingDropped'
    <2> SUFFICES ASSUME NEW c \in Outs
                 PROVE  /\ run'.text[c] + pipes'[c] >= command'.printed[c]
                        /\ c \notin run'.open => Whole(c)' /\ ~Held(c)'
      BY DEF NothingDropped
    <2>1. Held(c)' <=> Held(c)
      BY <1>0 DEF Held
    <2>2. Whole(c)' <=> text[c] >= command.printed[c]
      BY <1>0, <1>5 DEF Whole
    <2>3. c \notin run.open => Whole(c) /\ ~Held(c)
      BY <1>0 DEF NothingDropped
    <2>4. /\ c \in run.ready => text[c] >= command.printed[c]
          /\ Whole(c) => text[c] >= command.printed[c]
          /\ text[c] + pipes'[c] >= command.printed[c]
      BY <1>7
    <2>5. c \in run.open /\ c \notin open => c \in run.ready /\ ~Held(c)
      BY <1>3
    <2>6. run'.text = text /\ run'.open = open /\ command' = command
      BY <1>0, <1>5
    <2> QED
      BY <2>1, <2>2, <2>3, <2>4, <2>5, <2>6
  <1>9. RestIsTaken'
    <2>1. ASSUME run.exited, NEW c \in Outs PROVE Whole(c)'
      <3>1. c \in run.ready \/ Whole(c)
        BY <1>0, <2>1 DEF RestIsTaken
      <3>2. Whole(c)' <=> text[c] >= command.printed[c]
        BY <1>0, <1>5 DEF Whole
      <3>3. (c \in run.ready \/ Whole(c)) => text[c] >= command.printed[c]
        BY <1>7
      <3> QED
        BY <3>1, <3>2, <3>3
    <2> QED
      BY <1>0, <1>5, <2>1 DEF RestIsTaken
  <1>10. InputIsFed' /\ SaidAtTheEnd'
    BY <1>0, <1>5 DEF InputIsFed, SaidAtTheEnd
  <1> QED
    BY <1>6, <1>8, <1>9, <1>10

(* Nothing the leader prints is lost, a final text is the answer of a      *)
(* child that ended well and in time, Run returns only when it has reaped  *)
(* the child, and neither of them waits for the other, whatever the child  *)
(* does with its pipes, for any amount of audio and output.                *)
THEOREM BatchTruthful == BatchSpec => []BatchIsTruthful
  <1>1. BatchInit => BatchInv
    <2> SUFFICES ASSUME BatchInit PROVE BatchInv
      OBVIOUS
    <2>1. PICK timeout \in BOOLEAN :
            batch = [at |-> "idle", timeout |-> timeout, finished |-> FALSE, pcm |-> 0,
                     said |-> <<>>, ok |-> FALSE, notified |-> 0]
      BY ZenonT(30) DEF BatchInit
    <2>2. batch \in BatchType
      <3>1. <<>> \in Saids
        BY DEF Saids
      <3> QED
        BY <2>1, <3>1 DEF BatchType
    <2>3. run \in RunType
      BY DEF BatchInit, NoRun, RunType
    <2>4. command \in CommandType
      BY DEF BatchInit, NoChild, CommandType, Outs
    <2>5. BatchTypes
      BY <2>2, <2>3, <2>4, BudgetCoversPipe DEF BatchInit, BatchTypes
    <2>6. NothingDropped
      BY DEF BatchInit, NothingDropped, NoRun, NoChild, Whole
    <2>7. RestIsTaken /\ InputIsFed
      BY DEF BatchInit, RestIsTaken, InputIsFed, NoRun, NoChild
    <2>8. SaidAtTheEnd
      BY <2>1 DEF BatchInit, SaidAtTheEnd, NoRun
    <2> QED
      BY <2>5, <2>6, <2>7, <2>8 DEF BatchInv
  <1>2. BatchInv /\ [BatchNext]_batchVars => BatchInv'
    <2> SUFFICES ASSUME BatchInv, [BatchNext]_batchVars PROVE BatchInv'
      OBVIOUS
    <2>1. CASE UNCHANGED batchVars
      BY <2>1
         DEF BatchInv, BatchTypes, NothingDropped, RestIsTaken, InputIsFed, SaidAtTheEnd, Whole,
             Held, DeliverStderr, batchVars
    <2>2. CASE PumpProcess
      BY <2>2, LoopEndsKeeps, DeadlinePassesKeeps, GracePassesKeeps, TimeLeftKeeps,
         PollPipesKeeps, PollPipesFailsKeeps, WriteInputKeeps, DrainOutputsKeeps, PumpEndsKeeps,
         RunTimedOutKeeps, RunExitedKeeps, RunWaitsKeeps
         DEF PumpProcess
    <2>3. CASE CommandActs
      BY <2>3, ThinksKeeps, ReadsKeeps, ClosesKeeps, ExitsKeeps, HangsKeeps, HelperExitsKeeps,
         PrintsKeeps, HelperPrintsKeeps DEF CommandActs
    <2> QED
      BY <2>1, <2>2, <2>3, PushAudioKeeps, FinishKeeps, FinishCannotStartKeeps, CancelBatchKeeps
         DEF BatchNext
  <1> QED
    BY <1>1, <1>2, TruthfulFromBatchInv, PTL DEF BatchSpec

-----------------------------------------------------------------------------
Event == [kind : {"out", "err", "Cancelled", "Exited"}, n : Nat]

PumpLabels == {"top", "feed", "eof", "poll", "write", "service", "read", "count", "cancel",
               "publish_cancel", "drain", "publish_exit", "finish", "exited"}

ChildType == [leader : {"alive", "zombie", "reaped"}, helper : BOOLEAN, stuck : BOOLEAN,
              kill : BOOLEAN, printed : Nat, received : Seq(Nat)]

FlagsType == [stdin_closed : BOOLEAN, finished : BOOLEAN, cancel : BOOLEAN]

PumpType == [at : PumpLabels, pending : Seq(Nat), in_open : BOOLEAN, open : SUBSET Channels,
             ready : SUBSET (Channels \cup {"stdin", "cancel"}), budget : Int,
             cancel_seen : BOOLEAN, deadline : {"none", "terminate", "force"},
             reaped : BOOLEAN, looping : BOOLEAN, broke : BOOLEAN]

OwnerType == [at : {"idle", "push", "release", "check", "ended", "join", "reap", "gone"},
              hand : Seq(Nat)]

HistoryType == [accepted : Seq(Nat), sunk : Seq(Event), delivered : Seq(Event),
                eof : {"none", "clean", "broken"}]

SessionTypes ==
    /\ child \in ChildType /\ pipe \in [Channels -> Seq(Nat)] /\ flags \in FlagsType
    /\ stdin_queue \in Seq(Seq(Nat)) /\ event_queue \in Seq(Event)
    /\ pump \in PumpType /\ owner \in OwnerType /\ history \in HistoryType

(* Where the pump is tells whether its loop runs, a loop that ended after  *)
(* a cancel has killed the group, and a reaped leader stays reaped.        *)
PumpKnows ==
    /\ pump.at \in {"top", "feed", "eof", "poll", "write", "cancel", "publish_cancel"}
         => pump.looping
    /\ pump.at \in {"drain", "publish_exit", "finish", "exited"} => ~pump.looping
    /\ pump.at \in {"read", "count"} => Current \in Channels
    /\ pump.at = "publish_cancel" => pump.cancel_seen
    /\ pump.cancel_seen => ~pump.in_open
    /\ flags.finished => pump.at = "exited"

GroupIsKilled ==
    /\ pump.cancel_seen /\ ~pump.looping /\ ~pump.broke => child.kill
    /\ pump.deadline = "force" => child.kill
    /\ pump.reaped => child.leader = "reaped"
    /\ owner.at = "gone" /\ ~child.stuck => child.leader = "reaped"

Run(block, first) == \A i \in DOMAIN block : block[i] = first + i

(* The blocks that wait follow the bytes the child has got, one after the  *)
(* other, up to the last byte accepted.                                    *)
QueueFollows(from) ==
    /\ \A k \in DOMAIN stdin_queue :
         /\ stdin_queue[k] # <<>>
         /\ Run(stdin_queue[k], stdin_queue[k][1] - 1)
         /\ stdin_queue[k][1] + Len(stdin_queue[k]) <= Len(history.accepted) + 1
         /\ k + 1 \in DOMAIN stdin_queue
              => stdin_queue[k + 1][1] = stdin_queue[k][1] + Len(stdin_queue[k])
         /\ k = Len(stdin_queue)
              => stdin_queue[k][1] + Len(stdin_queue[k]) = Len(history.accepted) + 1
    /\ IF stdin_queue = <<>> THEN from = Len(history.accepted) ELSE stdin_queue[1][1] = from + 1

InputInOrder ==
    /\ Run(history.accepted, 0) /\ Run(child.received, 0)
    /\ Len(child.received) <= Len(history.accepted)
    /\ owner.at = "push" => owner.hand # <<>> /\ Run(owner.hand, Len(history.accepted))
    /\ ~pump.in_open => pump.pending = <<>>
    /\ Run(pump.pending, Len(child.received))
    /\ Len(child.received) + Len(pump.pending) <= Len(history.accepted)
    /\ pump.in_open => QueueFollows(Len(child.received) + Len(pump.pending))

(* The chunks of a channel that were told come before those in its pipe. *)
PipesInOrder ==
    \A c \in Channels : \A i \in DOMAIN pipe[c] :
      /\ 1 <= pipe[c][i] /\ pipe[c][i] <= child.printed
      /\ \A j \in DOMAIN pipe[c] : i < j => pipe[c][i] < pipe[c][j]
      /\ \A k \in DOMAIN Published : Published[k].kind = c => Published[k].n < pipe[c][i]
      /\ \A k \in DOMAIN history.sunk : history.sunk[k].kind = c => history.sunk[k].n < pipe[c][i]

ToldInOrder ==
    /\ InOrder(Published) /\ InOrder(history.sunk)
    /\ \A i \in DOMAIN Published : /\ Published[i].kind \notin Sinks
                                   /\ Published[i].n <= child.printed
    /\ \A i \in DOMAIN history.sunk : /\ history.sunk[i].kind \in Sinks
                                      /\ history.sunk[i].n <= child.printed

(* Cancelled and Exited are published at their labels only. *)
EndsInOrder ==
    /\ \A i \in DOMAIN Published :
         /\ IsCancelled(Published[i]) => pump.cancel_seen /\ pump.at # "publish_cancel"
         /\ Published[i].kind = "Exited" => i = Len(Published) /\ pump.at \in {"finish", "exited"}
         /\ \A j \in DOMAIN Published :
              IsCancelled(Published[i]) /\ IsCancelled(Published[j]) => i = j
    /\ pump.at \in {"finish", "exited"}
         => Published # <<>> /\ Published[Len(Published)].kind = "Exited"

SessionInv == /\ SessionTypes /\ PumpKnows /\ GroupIsKilled /\ InputInOrder
              /\ PipesInOrder /\ ToldInOrder /\ EndsInOrder /\ NothingReadIsLost

-----------------------------------------------------------------------------
(* A session starts in SessionInv, which gives the order of the streams.   *)
LEMMA SessionInvInit == SessionInit => SessionInv
<1> SUFFICES ASSUME SessionInit
             PROVE  SessionInv
  OBVIOUS
<1>1. <<>> \in Seq(Nat) /\ <<>> \in Seq(Event) /\ <<>> \in Seq(Seq(Nat)) /\ Len(<<>>) = 0
  OBVIOUS
<1>2. PICK e : e = <<>>
  OBVIOUS
<1>3. /\ e \in Seq(Nat) /\ e \in Seq(Event) /\ e \in Seq(Seq(Nat)) /\ Len(e) = 0
      /\ DOMAIN e = {}
  BY <1>1, <1>2
<1>c. /\ child.received = e /\ child.printed = 0 /\ ~child.kill /\ child \in ChildType
  <2>1. child \in [leader : {"alive"}, helper : BOOLEAN, stuck : BOOLEAN, kill : {FALSE},
                   printed : {0}, received : {e}]
    BY <1>2, ZenonT(30) DEF SessionInit
  <2>2. e \in Seq(Nat)
    BY <1>3
  <2>3. child \in ChildType
    <3>1. PICK h \in BOOLEAN, t \in BOOLEAN :
            child = [leader |-> "alive", helper |-> h, stuck |-> t, kill |-> FALSE,
                     printed |-> 0, received |-> e]
      BY <2>1, ZenonT(30)
    <3>2. QED
      BY <2>2, <3>1 DEF ChildType
  <2>4. child.received = e /\ child.printed = 0 /\ ~child.kill
    BY <2>1, ZenonT(30)
  <2>5. QED
    BY <2>3, <2>4
<1>4. /\ pipe = [c \in Channels |-> e] /\ stdin_queue = e /\ event_queue = e
      /\ flags = [stdin_closed |-> FALSE, finished |-> FALSE, cancel |-> FALSE]
      /\ pump = [at |-> "top", pending |-> e, in_open |-> TRUE, open |-> Channels, ready |-> {},
                 budget |-> 0, cancel_seen |-> FALSE, deadline |-> "none", reaped |-> FALSE,
                 looping |-> TRUE, broke |-> FALSE]
      /\ owner = [at |-> "idle", hand |-> e]
      /\ history = [accepted |-> e, sunk |-> e, delivered |-> e, eof |-> "none"]
  BY <1>2 DEF SessionInit
<1>5. Published = e
  BY <1>2, <1>4 DEF Published
<1>6. SessionTypes
  <2>1. pump \in PumpType
    BY <1>3, <1>4 DEF PumpType, PumpLabels
  <2>2. history \in HistoryType /\ owner \in OwnerType /\ flags \in FlagsType
    BY <1>3, <1>4 DEF HistoryType, OwnerType, FlagsType
  <2>3. QED
    BY <1>c, <1>3, <1>4, <2>1, <2>2 DEF SessionTypes
<1>7. PumpKnows /\ GroupIsKilled
  BY <1>c, <1>4 DEF PumpKnows, GroupIsKilled
<1>8. InputInOrder
  BY <1>c, <1>2, <1>3, <1>4 DEF InputInOrder, QueueFollows, Run
<1>9. PipesInOrder /\ ToldInOrder /\ EndsInOrder
  BY <1>c, <1>3, <1>4, <1>5, ZenonT(30) DEF PipesInOrder, ToldInOrder, EndsInOrder, InOrder
<1>10. NothingReadIsLost
  BY <1>c, <1>4 DEF NothingReadIsLost
<1>11. QED
  BY <1>6, <1>7, <1>8, <1>9, <1>10 DEF SessionInv

LEMMA JoinedAt ==
    ASSUME NEW a \in Seq(Event), NEW b \in Seq(Event), NEW k \in DOMAIN (a \o b)
    PROVE  \/ k \in DOMAIN a /\ (a \o b)[k] = a[k] /\ k <= Len(a)
           \/ k - Len(a) \in DOMAIN b /\ (a \o b)[k] = b[k - Len(a)] /\ k > Len(a)
OBVIOUS

LEMMA StreamsFromInv ==
    ASSUME SessionInv
    PROVE  StreamsInOrder
<1>1. StdinInOrder
  <2>1. /\ history.accepted \in Seq(Nat) /\ child.received \in Seq(Nat)
        /\ Len(child.received) <= Len(history.accepted)
        /\ Run(history.accepted, 0) /\ Run(child.received, 0)
    BY DEF SessionInv, SessionTypes, ChildType, HistoryType, InputInOrder
  <2>2. \A i \in DOMAIN child.received : i \in DOMAIN history.accepted
    BY <2>1
  <2>3. QED
    BY <2>1, <2>2 DEF StdinInOrder, Run
<1>2. InOrder(Published \o history.sunk)
  <2> DEFINE p == Published
             s == history.sunk
  <2>1. p \in Seq(Event) /\ s \in Seq(Event) /\ Len(p) \in Nat
    BY DEF SessionInv, SessionTypes, HistoryType, Published
  <2>2. /\ \A i, j \in DOMAIN p : i < j /\ IsOutput(p[i]) /\ p[i].kind = p[j].kind
                                    => p[i].n < p[j].n
        /\ \A i, j \in DOMAIN s : i < j /\ IsOutput(s[i]) /\ s[i].kind = s[j].kind
                                    => s[i].n < s[j].n
        /\ \A i \in DOMAIN p : p[i].kind \notin Sinks
        /\ \A i \in DOMAIN s : s[i].kind \in Sinks
    BY DEF SessionInv, ToldInOrder, InOrder
  <2> HIDE DEF p, s
  <2>3. ASSUME NEW i \in DOMAIN (p \o s), NEW j \in DOMAIN (p \o s), i < j,
               IsOutput((p \o s)[i]), (p \o s)[i].kind = (p \o s)[j].kind
        PROVE  (p \o s)[i].n < (p \o s)[j].n
    <3>1. i \in Int /\ j \in Int
      BY <2>1
    <3>2. CASE i \in DOMAIN p /\ (p \o s)[i] = p[i]
      <4>1. j \in DOMAIN p /\ (p \o s)[j] = p[j]
        BY <2>1, <2>2, <2>3, <3>2, JoinedAt
      <4>2. QED
        BY <2>2, <2>3, <3>2, <4>1
    <3>3. CASE i - Len(p) \in DOMAIN s /\ (p \o s)[i] = s[i - Len(p)]
      <4>1. j - Len(p) \in DOMAIN s /\ (p \o s)[j] = s[j - Len(p)]
        BY <2>1, <2>2, <2>3, <3>3, JoinedAt
      <4>2. i - Len(p) < j - Len(p)
        BY <2>1, <2>3, <3>1
      <4>3. QED
        BY <2>2, <2>3, <3>3, <4>1, <4>2
    <3>4. QED
      BY <2>1, <3>2, <3>3, JoinedAt
  <2>4. QED
    BY <2>3 DEF InOrder, p, s
<1>3. EventsInOrder
  BY <1>2 DEF EventsInOrder, SessionInv, EndsInOrder, PumpKnows
<1>4. QED
  BY <1>1, <1>3 DEF StreamsInOrder, SessionInv

LEMMA NothingSurvives ==
    ASSUME SessionInv
    PROVE  /\ flags.finished /\ pump.cancel_seen /\ ~pump.broke => child.kill
           /\ owner.at = "gone" /\ ~child.stuck => child.leader = "reaped"
BY DEF SessionInv, GroupIsKilled, PumpKnows

-----------------------------------------------------------------------------
(* What the owner gets does not change when an event is popped, and grows  *)
(* by one when an event is queued.                                         *)
LEMMA PoppingKeepsOrder ==
    ASSUME NEW d \in Seq(Event), NEW q \in Seq(Event), q # <<>>
    PROVE  Append(d, Head(q)) \o Tail(q) = d \o q
OBVIOUS

LEMMA QueueingAppends ==
    ASSUME NEW d \in Seq(Event), NEW q \in Seq(Event), NEW e \in Event
    PROVE  d \o Append(q, e) = Append(d \o q, e)
OBVIOUS

(* A step that leaves a stream alone keeps what is known of it. *)
SameInput ==
    /\ child'.received = child.received /\ history'.accepted = history.accepted
    /\ stdin_queue' = stdin_queue
    /\ pump'.in_open = pump.in_open /\ pump'.pending = pump.pending
    /\ owner'.at = "push" => owner' = owner

SameOutput ==
    /\ child'.printed = child.printed /\ pipe' = pipe /\ Published' = Published
    /\ history'.sunk = history.sunk

SameEnds ==
    /\ Published' = Published
    /\ pump.cancel_seen => pump'.cancel_seen
    /\ pump'.at = "publish_cancel" => pump.at = "publish_cancel"
    /\ pump'.at \in {"finish", "exited"} <=> pump.at \in {"finish", "exited"}

LEMMA InputFrame ==
    ASSUME InputInOrder, SameInput
    PROVE  InputInOrder'
BY ZenonT(30) DEF InputInOrder, SameInput, QueueFollows, Run

LEMMA OutputFrame ==
    ASSUME PipesInOrder, ToldInOrder, NothingReadIsLost, SameOutput
    PROVE  PipesInOrder' /\ ToldInOrder' /\ NothingReadIsLost'
BY DEF PipesInOrder, ToldInOrder, NothingReadIsLost, SameOutput, InOrder

LEMMA EndsFrame ==
    ASSUME EndsInOrder, SameEnds
    PROVE  EndsInOrder'
BY DEF EndsInOrder, SameEnds

(* A step that closes the input leaves nothing of it to be written. *)
InputCloses ==
    /\ child'.received = child.received /\ history'.accepted = history.accepted
    /\ ~pump'.in_open /\ pump'.pending = <<>>
    /\ owner'.at = "push" => owner' = owner

LEMMA ClosingKeepsInput ==
    ASSUME SessionTypes, InputInOrder, InputCloses
    PROVE  InputInOrder'
BY DEF SessionTypes, ChildType, HistoryType, InputInOrder, InputCloses, Run

LEMMA ClosedTyped ==
    ASSUME pump \in PumpType
    PROVE  /\ StdinClosed \in PumpType
           /\ ~StdinClosed.in_open /\ StdinClosed.pending = <<>>
           /\ StdinClosed.ready = pump.ready /\ StdinClosed.at = pump.at
           /\ StdinClosed.open = pump.open /\ StdinClosed.cancel_seen = pump.cancel_seen
           /\ StdinClosed.deadline = pump.deadline /\ StdinClosed.reaped = pump.reaped
           /\ StdinClosed.looping = pump.looping /\ StdinClosed.broke = pump.broke
<1>1. PICK p : p = <<>>
  OBVIOUS
<1>2. p \in Seq(Nat)
  BY <1>1
<1>3. QED
  BY <1>1, <1>2, ZenonT(30) DEF StdinClosed, PumpType

LEMMA ReadyTyped ==
    ASSUME SessionTypes, NEW writable
    PROVE  Ready(writable) \in SUBSET (Channels \cup {"stdin", "cancel"})
BY DEF SessionTypes, PumpType, Ready

LEMMA ReadFacts ==
    ASSUME SessionTypes, PumpKnows, ServiceRead
    PROVE  /\ Current \in Channels /\ pipe[Current] \in Seq(Nat) /\ pipe[Current] # <<>>
           /\ pipe' = [pipe EXCEPT ![Current] = Tail(pipe[Current])]
           /\ Head(pipe[Current]) = pipe[Current][1] /\ pipe[Current][1] \in Nat
           /\ Chunk(Current, Head(pipe[Current])) \in Event
<1>1. Current \in Channels /\ pipe[Current] # <<>>
  BY DEF PumpKnows, ServiceRead, InPump
<1>2. pipe[Current] \in Seq(Nat)
  BY <1>1 DEF SessionTypes
<1>3. pipe' = [pipe EXCEPT ![Current] = Tail(pipe[Current])]
  BY DEF ServiceRead
<1>4. Head(pipe[Current]) = pipe[Current][1] /\ pipe[Current][1] \in Nat
  BY <1>1, <1>2
<1>5. Chunk(Current, Head(pipe[Current])) \in Event
  BY <1>1, <1>4, ChannelsAreOutputs DEF Chunk, Event
<1>6. QED
  BY <1>1, <1>2, <1>3, <1>4, <1>5

LEMMA ReadOutcome ==
    ASSUME SessionTypes, PumpKnows, ServiceRead
    PROVE  \/ /\ Current \notin Sinks
              /\ Published' = Append(Published, Chunk(Current, Head(pipe[Current])))
              /\ history' = history
           \/ /\ Current \in Sinks
              /\ Published' = Published
              /\ history'.sunk = Append(history.sunk, Chunk(Current, Head(pipe[Current])))
<1>1. CASE Current \notin Sinks
  <2>1. event_queue' = Append(event_queue, Chunk(Current, Head(pipe[Current])))
    BY <1>1 DEF ServiceRead
  <2>2. history' = history
    BY <1>1 DEF ServiceRead
  <2>3. QED
    BY <1>1, <2>1, <2>2, ReadFacts, QueueingAppends
       DEF Published, SessionTypes, HistoryType
<1>2. CASE Current \in Sinks
  <2>1. event_queue' = event_queue
    BY <1>2 DEF ServiceRead
  <2>2. history' = [history EXCEPT !.sunk = Append(@, Chunk(Current, Head(pipe[Current])))]
    BY <1>2 DEF ServiceRead
  <2>3. QED
    BY <1>2, <2>1, <2>2 DEF Published, SessionTypes, HistoryType
<1>3. QED
  BY <1>1, <1>2

LEMMA TailShifts ==
    ASSUME NEW s \in Seq(Nat), s # <<>>
    PROVE  \A i \in DOMAIN Tail(s) : i \in Nat \ {0} /\ i + 1 \in DOMAIN s /\ Tail(s)[i] = s[i + 1]
OBVIOUS

LEMMA AppendedAt ==
    ASSUME NEW s \in Seq(Event), NEW e \in Event
    PROVE  /\ Append(s, e) \in Seq(Event) /\ Len(Append(s, e)) = Len(s) + 1
           /\ Append(s, e)[Len(s) + 1] = e /\ Len(s) + 1 \in DOMAIN Append(s, e)
           /\ \A k \in DOMAIN s : k \in DOMAIN Append(s, e) /\ Append(s, e)[k] = s[k]
           /\ \A k \in DOMAIN Append(s, e) :
                \/ k \in DOMAIN s /\ k < Len(s) + 1 /\ Append(s, e)[k] = s[k]
                \/ k = Len(s) + 1 /\ Append(s, e)[k] = e
OBVIOUS

LEMMA AppendInOrder ==
    ASSUME NEW s \in Seq(Event), NEW e \in Event, InOrder(s),
           \A i \in DOMAIN s : IsOutput(e) /\ s[i].kind = e.kind => s[i].n < e.n
    PROVE  InOrder(Append(s, e))
<1> SUFFICES ASSUME NEW i \in DOMAIN Append(s, e), NEW j \in DOMAIN Append(s, e), i < j,
                    IsOutput(Append(s, e)[i]), Append(s, e)[i].kind = Append(s, e)[j].kind
             PROVE  Append(s, e)[i].n < Append(s, e)[j].n
  BY DEF InOrder
<1>1. i \in DOMAIN s /\ Append(s, e)[i] = s[i]
  BY AppendedAt
<1>2. CASE j \in DOMAIN s /\ Append(s, e)[j] = s[j]
  BY <1>1, <1>2 DEF InOrder
<1>3. CASE Append(s, e)[j] = e
  BY <1>1, <1>3 DEF IsOutput
<1>4. QED
  BY <1>2, <1>3, AppendedAt

LEMMA ReadKeepsOutput ==
    ASSUME SessionInv, ServiceRead
    PROVE  PipesInOrder' /\ ToldInOrder' /\ NothingReadIsLost'
<1> DEFINE c == Current
           h == Head(pipe[c])
           e == Chunk(c, h)
<1>1. /\ c \in Channels /\ pipe[c] \in Seq(Nat) /\ pipe[c] # <<>>
      /\ pipe' = [pipe EXCEPT ![c] = Tail(pipe[c])]
      /\ h = pipe[c][1] /\ h \in Nat /\ e \in Event /\ e.kind = c /\ e.n = h
  BY ReadFacts DEF SessionInv, Chunk
<1>2. \/ c \notin Sinks /\ Published' = Append(Published, e) /\ history' = history
      \/ c \in Sinks /\ Published' = Published /\ history'.sunk = Append(history.sunk, e)
  BY ReadOutcome DEF SessionInv
<1>3. Published \in Seq(Event) /\ history.sunk \in Seq(Event)
  BY DEF SessionInv, SessionTypes, HistoryType, Published
<1>4. child' = child /\ child.printed \in Nat /\ pipe \in [Channels -> Seq(Nat)]
  BY DEF ServiceRead, SessionInv, SessionTypes, ChildType
<1>5. PipesInOrder /\ ToldInOrder /\ NothingReadIsLost
  BY DEF SessionInv
<1>6. 1 \in DOMAIN pipe[c]
  BY <1>1
<1>7. /\ \A i \in DOMAIN Published : Published[i].kind = c => Published[i].n < h
      /\ \A i \in DOMAIN history.sunk : history.sunk[i].kind = c => history.sunk[i].n < h
      /\ h <= child.printed
  BY <1>1, <1>5, <1>6 DEF PipesInOrder
<1> HIDE DEF c, h, e
<1>a. /\ \A k \in DOMAIN Published' : \/ k \in DOMAIN Published /\ Published'[k] = Published[k]
                                      \/ c \notin Sinks /\ Published'[k] = e
      /\ \A k \in DOMAIN Published : k \in DOMAIN Published' /\ Published'[k] = Published[k]
  <2>1. CASE c \notin Sinks /\ Published' = Append(Published, e)
    BY <1>1, <1>3, <2>1, AppendedAt
  <2>2. CASE Published' = Published
    BY <2>2
  <2>3. QED
    BY <1>2, <2>1, <2>2
<1>b. /\ \A k \in DOMAIN history'.sunk :
           \/ k \in DOMAIN history.sunk /\ history'.sunk[k] = history.sunk[k]
           \/ c \in Sinks /\ history'.sunk[k] = e
      /\ \A k \in DOMAIN history.sunk :
           k \in DOMAIN history'.sunk /\ history'.sunk[k] = history.sunk[k]
  <2>1. CASE c \in Sinks /\ history'.sunk = Append(history.sunk, e)
    BY <1>1, <1>3, <2>1, AppendedAt
  <2>2. CASE history' = history
    BY <2>2
  <2>3. QED
    BY <1>2, <2>1, <2>2
<1>8. ASSUME NEW d \in Channels, NEW i \in DOMAIN pipe'[d]
      PROVE  \/ d # c /\ i \in DOMAIN pipe[d] /\ pipe'[d] = pipe[d]
             \/ /\ d = c /\ i \in Nat \ {0} /\ i + 1 \in DOMAIN pipe[d]
                /\ pipe'[d][i] = pipe[d][i + 1]
  BY <1>1, <1>4, <1>8, TailShifts
<1>9. ASSUME NEW d \in Channels, NEW i \in DOMAIN pipe'[d], d = c
      PROVE  h < pipe'[d][i]
  <2>1. i \in Nat \ {0} /\ i + 1 \in DOMAIN pipe[c] /\ pipe'[d][i] = pipe[c][i + 1]
    BY <1>8, <1>9
  <2>2. pipe[c][1] < pipe[c][i + 1]
    BY <1>1, <1>5, <1>6, <2>1 DEF PipesInOrder
  <2>3. QED
    BY <1>1, <2>1, <2>2
<1>10. PipesInOrder'
  <2> SUFFICES ASSUME NEW d \in Channels, NEW i \in DOMAIN pipe'[d]
               PROVE  /\ 1 <= pipe'[d][i] /\ pipe'[d][i] <= child'.printed
                      /\ \A j \in DOMAIN pipe'[d] : i < j => pipe'[d][i] < pipe'[d][j]
                      /\ \A k \in DOMAIN Published' :
                           Published'[k].kind = d => Published'[k].n < pipe'[d][i]
                      /\ \A k \in DOMAIN history'.sunk :
                           history'.sunk[k].kind = d => history'.sunk[k].n < pipe'[d][i]
    BY DEF PipesInOrder
  <2>1. 1 <= pipe'[d][i] /\ pipe'[d][i] <= child'.printed
    BY <1>4, <1>5, <1>8 DEF PipesInOrder
  <2>2. ASSUME NEW j \in DOMAIN pipe'[d], i < j
        PROVE  pipe'[d][i] < pipe'[d][j]
    <3>1. CASE d # c
      BY <1>8, <1>5, <2>2, <3>1 DEF PipesInOrder
    <3>2. CASE d = c
      <4>1. /\ i \in Nat \ {0} /\ i + 1 \in DOMAIN pipe[d] /\ pipe'[d][i] = pipe[d][i + 1]
            /\ j \in Nat \ {0} /\ j + 1 \in DOMAIN pipe[d] /\ pipe'[d][j] = pipe[d][j + 1]
        BY <1>8, <3>2
      <4>2. i + 1 < j + 1
        BY <2>2, <4>1
      <4>3. QED
        BY <1>5, <4>1, <4>2 DEF PipesInOrder
    <3>3. QED
      BY <3>1, <3>2
  <2>3. ASSUME NEW k \in DOMAIN Published', Published'[k].kind = d
        PROVE  Published'[k].n < pipe'[d][i]
    <3>1. CASE k \in DOMAIN Published /\ Published'[k] = Published[k]
      <4>1. CASE d # c
        BY <1>8, <1>5, <2>3, <3>1, <4>1 DEF PipesInOrder
      <4>2. CASE d = c
        <5>1. i + 1 \in DOMAIN pipe[d] /\ pipe'[d][i] = pipe[d][i + 1]
          BY <1>8, <4>2
        <5>2. QED
          BY <1>5, <2>3, <3>1, <5>1 DEF PipesInOrder
      <4>3. QED
        BY <4>1, <4>2
    <3>2. CASE Published'[k] = e
      BY <1>1, <1>9, <2>3, <3>2
    <3>3. QED
      BY <1>a, <3>1, <3>2
  <2>4. ASSUME NEW k \in DOMAIN history'.sunk, history'.sunk[k].kind = d
        PROVE  history'.sunk[k].n < pipe'[d][i]
    <3>1. CASE k \in DOMAIN history.sunk /\ history'.sunk[k] = history.sunk[k]
      <4>1. CASE d # c
        BY <1>8, <1>5, <2>4, <3>1, <4>1 DEF PipesInOrder
      <4>2. CASE d = c
        <5>1. i + 1 \in DOMAIN pipe[d] /\ pipe'[d][i] = pipe[d][i + 1]
          BY <1>8, <4>2
        <5>2. QED
          BY <1>5, <2>4, <3>1, <5>1 DEF PipesInOrder
      <4>3. QED
        BY <4>1, <4>2
    <3>2. CASE history'.sunk[k] = e
      BY <1>1, <1>9, <2>4, <3>2
    <3>3. QED
      BY <1>b, <3>1, <3>2
  <2>5. QED
    BY <2>1, <2>2, <2>3, <2>4
<1>11. InOrder(Published)' /\ InOrder(history.sunk)'
  <2>1. InOrder(Published) /\ InOrder(history.sunk)
    BY <1>5 DEF ToldInOrder
  <2>2. InOrder(Append(Published, e)) /\ InOrder(Append(history.sunk, e))
    BY <1>1, <1>3, <1>7, <2>1, AppendInOrder, ZenonT(30)
  <2>3. InOrder(Published') /\ InOrder(history'.sunk)
    BY <1>2, <2>1, <2>2, ZenonT(30)
  <2>4. QED
    BY <2>3 DEF InOrder
<1>12. ToldInOrder'
  <2>1. ASSUME NEW i \in DOMAIN Published'
        PROVE  Published'[i].kind \notin Sinks /\ Published'[i].n <= child'.printed
    BY <1>1, <1>4, <1>5, <1>7, <1>a DEF ToldInOrder
  <2>2. ASSUME NEW i \in DOMAIN history'.sunk
        PROVE  history'.sunk[i].kind \in Sinks /\ history'.sunk[i].n <= child'.printed
    BY <1>1, <1>4, <1>5, <1>7, <1>b DEF ToldInOrder
  <2>3. QED
    BY <1>11, <2>1, <2>2 DEF ToldInOrder
<1>13. NothingReadIsLost'
  <2> SUFFICES ASSUME NEW k \in 1..child.printed
               PROVE  \E d \in Channels :
                        \/ \E i \in DOMAIN pipe'[d] : pipe'[d][i] = k
                        \/ \E i \in DOMAIN Published' : Published'[i] = Chunk(d, k)
                        \/ \E i \in DOMAIN history'.sunk : history'.sunk[i] = Chunk(d, k)
    BY <1>4, ZenonT(30) DEF NothingReadIsLost
  <2>1. PICK d \in Channels : \/ \E i \in DOMAIN pipe[d] : pipe[d][i] = k
                              \/ \E i \in DOMAIN Published : Published[i] = Chunk(d, k)
                              \/ \E i \in DOMAIN history.sunk : history.sunk[i] = Chunk(d, k)
    BY <1>5 DEF NothingReadIsLost
  <2>2. CASE \E i \in DOMAIN pipe[d] : pipe[d][i] = k
    <3>1. PICK i \in DOMAIN pipe[d] : pipe[d][i] = k
      BY <2>2
    <3>2. CASE d # c
      BY <1>1, <1>4, <3>1, <3>2
    <3>3. CASE d = c /\ i = 1
      <4>1. e = Chunk(d, k)
        BY <1>1, <3>1, <3>3 DEF e
      <4>2. QED
        BY <1>1, <1>2, <1>3, <4>1, AppendedAt
    <3>4. CASE d = c /\ i # 1
      <4>1. i - 1 \in DOMAIN Tail(pipe[c]) /\ Tail(pipe[c])[i - 1] = pipe[c][i]
        BY <1>1, <3>1, <3>4
      <4>2. pipe'[d] = Tail(pipe[c])
        BY <1>1, <1>4, <3>4
      <4>3. QED
        BY <3>1, <3>4, <4>1, <4>2, ZenonT(30)
    <3>5. QED
      BY <3>2, <3>3, <3>4
  <2>3. CASE \E i \in DOMAIN Published : Published[i] = Chunk(d, k)
    BY <1>a, <2>3
  <2>4. CASE \E i \in DOMAIN history.sunk : history.sunk[i] = Chunk(d, k)
    BY <1>b, <2>4
  <2>5. QED
    BY <2>1, <2>2, <2>3, <2>4
<1>14. QED
  BY <1>10, <1>12, <1>13

LEMMA EventAt ==
    ASSUME NEW s \in Seq(Event), NEW k \in DOMAIN s
    PROVE  s[k].n \in Nat
<1>1. s[k] \in Event
  OBVIOUS
<1>2. QED
  BY <1>1 DEF Event

LEMMA PlainKeepsOutput ==
    ASSUME SessionInv, NEW kind \in {"Cancelled", "Exited"},
           event_queue' = Append(event_queue, Plain(kind)),
           child' = child, pipe' = pipe, history' = history
    PROVE  /\ Published' = Append(Published, Plain(kind))
           /\ PipesInOrder' /\ ToldInOrder' /\ NothingReadIsLost'
<1> DEFINE e == Plain(kind)
<1>1. e \in Event /\ e.kind = kind /\ e.n = 0 /\ kind \notin Channels /\ kind \notin Sinks
  BY ChannelsAreOutputs DEF Plain, Event
<1>2. Published \in Seq(Event)
  BY DEF SessionInv, SessionTypes, HistoryType, Published
<1> HIDE DEF e
<1>3. Published' = Append(Published, e)
  BY <1>1, QueueingAppends DEF SessionInv, SessionTypes, HistoryType, Published, e
<1>4. /\ \A k \in DOMAIN Published' : \/ k \in DOMAIN Published /\ Published'[k] = Published[k]
                                      \/ Published'[k] = e
      /\ \A k \in DOMAIN Published : k \in DOMAIN Published' /\ Published'[k] = Published[k]
  BY <1>1, <1>2, <1>3, AppendedAt
<1>5. PipesInOrder /\ ToldInOrder /\ NothingReadIsLost /\ child.printed \in Nat
  BY DEF SessionInv, SessionTypes, ChildType
<1>6. PipesInOrder'
  BY <1>1, <1>4, <1>5 DEF PipesInOrder
<1>7. InOrder(Published)' /\ InOrder(history.sunk)'
  <2>1. InOrder(Append(Published, e))
    BY <1>1, <1>2, <1>5, AppendInOrder DEF ToldInOrder, IsOutput
  <2>2. QED
    BY <1>3, <1>5, <2>1 DEF ToldInOrder, InOrder
<1>8. ToldInOrder'
  BY <1>1, <1>4, <1>5, <1>7 DEF ToldInOrder
<1>9. NothingReadIsLost'
  BY <1>4, <1>5 DEF NothingReadIsLost
<1>10. QED
  BY <1>3, <1>6, <1>8, <1>9 DEF e

LEMMA PrintKeepsOutput ==
    ASSUME NEW c \in Channels, SessionInv, ChildPrints(c)
    PROVE  PipesInOrder' /\ ToldInOrder' /\ NothingReadIsLost'
<1> DEFINE n == child.printed + 1
<1>1. /\ child'.printed = n /\ n \in Nat /\ child.printed \in Nat
      /\ event_queue' = event_queue /\ history' = history
      /\ pipe \in [Channels -> Seq(Nat)] /\ pipe' = [pipe EXCEPT ![c] = Append(pipe[c], n)]
  BY DEF SessionInv, SessionTypes, ChildType, ChildPrints
<1>2. Published' = Published
  BY <1>1 DEF Published
<1>3. PipesInOrder /\ ToldInOrder /\ NothingReadIsLost
  BY DEF SessionInv
<1>4. child.printed < n /\ n = child.printed + 1
  BY <1>1
<1>o. /\ Published \in Seq(Event) /\ history.sunk \in Seq(Event)
  BY DEF SessionInv, SessionTypes, HistoryType, Published
<1> HIDE DEF n
<1>p. ASSUME NEW k \in DOMAIN Published
      PROVE  Published[k].n < n /\ Published[k].n <= n
  <2>1. Published[k].n <= child.printed
    BY <1>3 DEF ToldInOrder
  <2>2. Published[k].n \in Nat
    BY <1>o, EventAt
  <2>3. QED
    BY <1>1, <1>4, <2>1, <2>2
<1>s. ASSUME NEW k \in DOMAIN history.sunk
      PROVE  history.sunk[k].n < n /\ history.sunk[k].n <= n
  <2>1. history.sunk[k].n <= child.printed
    BY <1>3 DEF ToldInOrder
  <2>2. history.sunk[k].n \in Nat
    BY <1>o, EventAt
  <2>3. QED
    BY <1>1, <1>4, <2>1, <2>2
<1>5. ASSUME NEW d \in Channels, NEW i \in DOMAIN pipe'[d]
      PROVE  \/ i \in DOMAIN pipe[d] /\ pipe'[d][i] = pipe[d][i]
             \/ d = c /\ i = Len(pipe[d]) + 1 /\ pipe'[d][i] = n
  BY <1>1
<1>6. ASSUME NEW d \in Channels
      PROVE  /\ \A i \in DOMAIN pipe[d] : i \in DOMAIN pipe'[d] /\ pipe'[d][i] = pipe[d][i]
             /\ pipe'[c][Len(pipe[c]) + 1] = n /\ Len(pipe[c]) + 1 \in DOMAIN pipe'[c]
  BY <1>1
<1>7. PipesInOrder'
  <2> SUFFICES ASSUME NEW d \in Channels, NEW i \in DOMAIN pipe'[d]
               PROVE  /\ 1 <= pipe'[d][i] /\ pipe'[d][i] <= child'.printed
                      /\ \A j \in DOMAIN pipe'[d] : i < j => pipe'[d][i] < pipe'[d][j]
                      /\ \A k \in DOMAIN Published :
                           Published[k].kind = d => Published[k].n < pipe'[d][i]
                      /\ \A k \in DOMAIN history.sunk :
                           history.sunk[k].kind = d => history.sunk[k].n < pipe'[d][i]
    BY <1>1, <1>2 DEF PipesInOrder
  <2>1. CASE i \in DOMAIN pipe[d] /\ pipe'[d][i] = pipe[d][i]
    <3>1. /\ 1 <= pipe[d][i] /\ pipe[d][i] <= child.printed /\ pipe[d][i] \in Nat
          /\ \A j \in DOMAIN pipe[d] : i < j => pipe[d][i] < pipe[d][j]
          /\ \A k \in DOMAIN Published : Published[k].kind = d => Published[k].n < pipe[d][i]
          /\ \A k \in DOMAIN history.sunk :
               history.sunk[k].kind = d => history.sunk[k].n < pipe[d][i]
      BY <1>1, <1>3, <2>1 DEF PipesInOrder
    <3>2. pipe[d][i] < n /\ pipe[d][i] <= n
      BY <1>1, <1>4, <3>1
    <3>3. QED
      BY <1>1, <1>5, <2>1, <3>1, <3>2
  <2>2. CASE d = c /\ i = Len(pipe[d]) + 1 /\ pipe'[d][i] = n
    <3>1. 1 <= n /\ n <= child'.printed
      BY <1>1, <1>4
    <3>2. ASSUME NEW j \in DOMAIN pipe'[d], i < j
          PROVE  FALSE
      BY <1>1, <2>2, <3>2
    <3>3. QED
      BY <1>p, <1>s, <2>2, <3>1, <3>2
  <2>3. QED
    BY <1>5, <2>1, <2>2
<1>8. ToldInOrder'
  BY <1>1, <1>2, <1>3, <1>p, <1>s DEF ToldInOrder, InOrder
<1>9. NothingReadIsLost'
  <2> SUFFICES ASSUME NEW k \in 1..n
               PROVE  \E d \in Channels :
                        \/ \E i \in DOMAIN pipe'[d] : pipe'[d][i] = k
                        \/ \E i \in DOMAIN Published : Published[i] = Chunk(d, k)
                        \/ \E i \in DOMAIN history.sunk : history.sunk[i] = Chunk(d, k)
    BY <1>1, <1>2, ZenonT(30) DEF NothingReadIsLost
  <2>1. CASE k = n
    BY <1>6, <2>1
  <2>2. CASE k # n
    <3>1. k \in 1..child.printed
      BY <1>1, <1>4, <2>2
    <3>2. QED
      BY <1>3, <1>6, <3>1 DEF NothingReadIsLost
  <2>3. QED
    BY <2>1, <2>2
<1>10. QED
  BY <1>7, <1>8, <1>9

LEMMA LenOfBoth ==
    ASSUME NEW a \in Seq(Nat), NEW b \in Seq(Nat)
    PROVE  Len(a \o b) = Len(a) + Len(b)
OBVIOUS

LEMMA WrittenPart ==
    ASSUME NEW p \in Seq(Nat), NEW r \in Seq(Nat), NEW k \in 1..Len(p)
    PROVE  /\ r \o SubSeq(p, 1, k) \in Seq(Nat) /\ Len(r \o SubSeq(p, 1, k)) = Len(r) + k
           /\ \A i \in 1..(Len(r) + k) :
                \/ i \in DOMAIN r /\ (r \o SubSeq(p, 1, k))[i] = r[i]
                \/ i - Len(r) \in DOMAIN p /\ (r \o SubSeq(p, 1, k))[i] = p[i - Len(r)]
<1> DEFINE s == SubSeq(p, 1, k)
<1>1. s \in Seq(Nat) /\ Len(s) = k /\ \A i \in 1..k : i \in DOMAIN p /\ s[i] = p[i]
  OBVIOUS
<1>2. s \in Seq(Nat) /\ Len(s) = k /\ Len(r) \in Nat /\ k \in Nat
  OBVIOUS
<1> HIDE DEF s
<1>c. r \o s \in Seq(Nat) /\ Len(r \o s) = Len(r) + k
  <2>1. r \o s \in Seq(Nat)
    BY <1>2
  <2>3. Len(r \o s) = Len(r) + Len(s)
    BY <1>2, LenOfBoth, ZenonT(30)
  <2>2. QED
    BY <1>2, <2>1, <2>3
<1>3. ASSUME NEW i \in 1..(Len(r) + k)
      PROVE  \/ i \in DOMAIN r /\ (r \o s)[i] = r[i]
             \/ i - Len(r) \in DOMAIN p /\ (r \o s)[i] = p[i - Len(r)]
  <2>1. CASE i \in 1..Len(r)
    BY <1>2, <2>1
  <2>2. CASE i \notin 1..Len(r)
    <3>1. i - Len(r) \in 1..k
      BY <1>2, <2>2
    <3>2. (r \o s)[i] = s[i - Len(r)]
      BY <1>2, <2>2
    <3>3. QED
      BY <1>1, <3>1, <3>2
  <2>3. QED
    BY <2>1, <2>2, ZenonT(30)
<1>4. QED
  BY <1>c, <1>3 DEF s

LEMMA PartLeft ==
    ASSUME NEW p \in Seq(Nat), NEW k \in 1..Len(p)
    PROVE  /\ SubSeq(p, k + 1, Len(p)) \in Seq(Nat)
           /\ Len(SubSeq(p, k + 1, Len(p))) = Len(p) - k
           /\ \A i \in 1..(Len(p) - k) :
                k + i \in DOMAIN p /\ SubSeq(p, k + 1, Len(p))[i] = p[k + i]
<1> DEFINE m == k + 1
           n == Len(p)
<1>1. m \in 1..(n + 1) /\ n \in Nat /\ k \in Nat /\ (n - m) + 1 = n - k
  OBVIOUS
<1>2. m = k + 1 /\ DOMAIN p = 1..n
  OBVIOUS
<1>3. m \in Int /\ n \in Int /\ \A i \in m..n : p[i] \in Nat
  OBVIOUS
<1> HIDE DEF m
<1>4. SubSeq(p, m, n) \in Seq(Nat)
  BY <1>1, <1>3
<1>5. Len(SubSeq(p, m, n)) = n - k
  BY <1>1, <1>3
<1>6. ASSUME NEW i \in 1..(n - k)
      PROVE  k + i \in DOMAIN p /\ SubSeq(p, m, n)[i] = p[k + i]
  <2>1. i \in 1..((n - m) + 1) /\ (m + i) - 1 = k + i /\ k + i \in 1..n
    BY <1>1, <1>2
  <2>2. SubSeq(p, m, n)[i] = p[(m + i) - 1]
    BY <1>1, <1>3, <2>1
  <2>3. QED
    BY <1>2, <2>1, <2>2
<1>7. QED
  BY <1>4, <1>5, <1>6 DEF m

LEMMA WriteKeepsInput ==
    ASSUME SessionTypes, InputInOrder, NEW k \in 1..Len(pump.pending), WriteStdin(k)
    PROVE  InputInOrder'
<1> DEFINE p == pump.pending
           r == child.received
           w == r \o SubSeq(p, 1, k)
           l == SubSeq(p, k + 1, Len(p))
           n == Len(history.accepted)
<1>1. p \in Seq(Nat) /\ r \in Seq(Nat) /\ n \in Nat /\ k \in 1..Len(p)
  BY DEF SessionTypes, PumpType, ChildType, HistoryType
<1>2. child'.received = w /\ pump'.pending = l /\ pump'.in_open = pump.in_open
  BY ZenonT(30) DEF SessionTypes, PumpType, ChildType, WriteStdin
<1>3. history' = history /\ owner' = owner /\ stdin_queue' = stdin_queue
  BY DEF WriteStdin
<1>4. Run(r, 0) /\ Run(p, Len(r)) /\ Len(r) + Len(p) <= n
  BY ZenonT(30) DEF InputInOrder
<1>5. /\ w \in Seq(Nat) /\ Len(w) = Len(r) + k
      /\ \A i \in 1..(Len(r) + k) : \/ i \in DOMAIN r /\ w[i] = r[i]
                                    \/ i - Len(r) \in DOMAIN p /\ w[i] = p[i - Len(r)]
  BY <1>1, WrittenPart, ZenonT(30)
<1>6. /\ l \in Seq(Nat) /\ Len(l) = Len(p) - k
      /\ \A i \in 1..(Len(p) - k) : k + i \in DOMAIN p /\ l[i] = p[k + i]
  BY <1>1, PartLeft
<1> HIDE DEF p, r, n, w, l
<1>7. Len(p) \in Nat /\ Len(r) \in Nat
  BY <1>1
<1>8. Run(w, 0)
  <2> SUFFICES ASSUME NEW i \in DOMAIN w
               PROVE  w[i] = i
    BY <1>5 DEF Run
  <2>1. i \in 1..(Len(r) + k)
    BY <1>5
  <2>2. CASE i \in DOMAIN r /\ w[i] = r[i]
    BY <1>4, <2>1, <2>2 DEF Run
  <2>3. CASE i - Len(r) \in DOMAIN p /\ w[i] = p[i - Len(r)]
    <3>1. p[i - Len(r)] = Len(r) + (i - Len(r))
      BY <1>4, <2>3 DEF Run
    <3>2. QED
      BY <1>7, <2>1, <2>3, <3>1
  <2>4. QED
    BY <1>5, <2>1, <2>2, <2>3
<1>9. Run(l, Len(w))
  <2> SUFFICES ASSUME NEW i \in DOMAIN l
               PROVE  l[i] = Len(w) + i
    BY DEF Run
  <2>1. i \in 1..(Len(p) - k)
    BY <1>6
  <2>2. k + i \in DOMAIN p /\ l[i] = p[k + i]
    BY <1>6, <2>1, ZenonT(30)
  <2>3. p[k + i] = Len(r) + (k + i)
    BY <1>4, <2>2 DEF Run
  <2>4. QED
    BY <1>1, <1>5, <1>7, <2>1, <2>2, <2>3
<1>10. Len(w) + Len(l) = Len(r) + Len(p) /\ Len(w) <= n /\ Len(w) + Len(l) <= n
  <2>1. Len(w) = Len(r) + k /\ Len(l) = Len(p) - k
    BY <1>5, <1>6
  <2>2. QED
    BY <1>1, <1>4, <1>7, <2>1
<1>11. pump.in_open
  <2>1. p # <<>>
    BY <1>1
  <2>2. QED
    BY <2>1 DEF InputInOrder, p
<1>12. QueueFollows(Len(r) + Len(p))
  BY <1>11, ZenonT(30) DEF InputInOrder, r, p
<1>13. QueueFollows(Len(child.received) + Len(pump.pending))'
  BY <1>2, <1>3, <1>10, <1>12 DEF QueueFollows, Run
<1>14. QED
  BY <1>2, <1>3, <1>8, <1>9, <1>10, <1>11, <1>13 DEF InputInOrder, Run, n

LEMMA TailOfBlocks ==
    ASSUME NEW q \in Seq(Seq(Nat)), q # <<>>
    PROVE  /\ Head(q) = q[1] /\ 1 \in DOMAIN q /\ q[1] \in Seq(Nat) /\ Len(q[1]) \in Nat
           /\ Tail(q) \in Seq(Seq(Nat)) /\ Len(Tail(q)) = Len(q) - 1 /\ Len(q) \in Nat
           /\ \A k \in DOMAIN Tail(q) : k \in Nat /\ k + 1 \in DOMAIN q /\ Tail(q)[k] = q[k + 1]
           /\ IF Tail(q) = <<>> THEN Len(q) = 1 ELSE 2 \in DOMAIN q /\ Tail(q)[1] = q[2]
<1>1. Len(q) \in Nat /\ Len(q) >= 1 /\ DOMAIN q = 1..Len(q)
  OBVIOUS
<1>2. Head(q) = q[1] /\ 1 \in DOMAIN q /\ q[1] \in Seq(Nat) /\ Len(q[1]) \in Nat
  OBVIOUS
<1> DEFINE t == Tail(q)
<1>3. /\ t \in Seq(Seq(Nat)) /\ Len(t) = Len(q) - 1 /\ DOMAIN t = 1..(Len(q) - 1)
      /\ \A k \in 1..(Len(q) - 1) : t[k] = q[k + 1]
  OBVIOUS
<1> HIDE DEF t
<1>4. \A k \in DOMAIN t : k \in Nat /\ k + 1 \in DOMAIN q /\ t[k] = q[k + 1]
  BY <1>1, <1>3
<1>5. CASE Len(q) = 1
  <2>1. t = <<>>
    BY <1>3, <1>5
  <2>2. QED
    BY <1>1, <1>2, <1>3, <1>4, <1>5, <2>1 DEF t
<1>6. CASE Len(q) # 1
  <2>1. t # <<>> /\ 1 \in DOMAIN t /\ 2 \in DOMAIN q
    BY <1>1, <1>3, <1>6
  <2>2. t[1] = q[2]
    BY <1>3, <2>1
  <2>3. QED
    BY <1>1, <1>2, <1>3, <1>4, <2>1, <2>2 DEF t
<1>7. QED
  BY <1>5, <1>6

LEMMA FeedKeepsInput ==
    ASSUME SessionTypes, InputInOrder, pump.in_open, pump.pending = <<>>, stdin_queue # <<>>,
           pump'.pending = Head(stdin_queue), pump'.in_open = pump.in_open,
           stdin_queue' = Tail(stdin_queue), UNCHANGED <<child, owner, history>>
    PROVE  InputInOrder'
<1> DEFINE q == stdin_queue
           t == Tail(q)
           r == Len(child.received)
           n == Len(history.accepted)
<1>1. q \in Seq(Seq(Nat)) /\ q # <<>> /\ r \in Nat /\ n \in Nat /\ r + Len(pump.pending) = r
  BY DEF SessionTypes, ChildType, HistoryType
<1>2. QueueFollows(r)
  BY <1>1 DEF InputInOrder
<1>3. /\ Head(q) = q[1] /\ 1 \in DOMAIN q /\ q[1] \in Seq(Nat) /\ Len(q[1]) \in Nat
      /\ t \in Seq(Seq(Nat)) /\ Len(t) = Len(q) - 1 /\ Len(q) \in Nat
      /\ \A k \in DOMAIN t : k \in Nat /\ k + 1 \in DOMAIN q /\ t[k] = q[k + 1]
      /\ IF t = <<>> THEN Len(q) = 1 ELSE 2 \in DOMAIN q /\ t[1] = q[2]
  BY <1>1, TailOfBlocks, ZenonT(30)
<1>4. ASSUME NEW k \in DOMAIN q
      PROVE  /\ q[k] # <<>> /\ Run(q[k], q[k][1] - 1) /\ q[k][1] + Len(q[k]) <= n + 1
             /\ k + 1 \in DOMAIN q => q[k + 1][1] = q[k][1] + Len(q[k])
             /\ k = Len(q) => q[k][1] + Len(q[k]) = n + 1
  BY <1>2 DEF QueueFollows
<1>5. q[1][1] = r + 1
  BY <1>1, <1>2 DEF QueueFollows
<1> HIDE DEF q, r, n, t
<1>6. /\ Run(q[1], q[1][1] - 1) /\ q[1][1] + Len(q[1]) <= n + 1
      /\ 1 + 1 \in DOMAIN q => q[1 + 1][1] = q[1][1] + Len(q[1])
      /\ 1 = Len(q) => q[1][1] + Len(q[1]) = n + 1
  BY <1>3, <1>4
<1>7. q[1][1] - 1 = r /\ r + Len(q[1]) <= n
  BY <1>1, <1>3, <1>5, <1>6
<1>8. Run(q[1], r)
  BY <1>6, <1>7
<1>9. ASSUME NEW k \in DOMAIN t
      PROVE  /\ t[k] # <<>> /\ Run(t[k], t[k][1] - 1) /\ t[k][1] + Len(t[k]) <= n + 1
             /\ k + 1 \in DOMAIN t => t[k + 1][1] = t[k][1] + Len(t[k])
             /\ k = Len(t) => t[k][1] + Len(t[k]) = n + 1
  <2>1. k \in Nat /\ k + 1 \in DOMAIN q /\ t[k] = q[k + 1]
    BY <1>3
  <2>2. k = Len(t) => k + 1 = Len(q)
    BY <1>3, <2>1
  <2>3. k + 1 \in DOMAIN t => (k + 1) + 1 \in DOMAIN q /\ t[k + 1] = q[(k + 1) + 1]
    BY <1>3
  <2>4. QED
    BY <1>4, <2>1, <2>2, <2>3
<1>10. IF t = <<>> THEN r + Len(q[1]) = n ELSE t[1][1] = (r + Len(q[1])) + 1
  <2>1. CASE t = <<>>
    <3>1. q[1][1] + Len(q[1]) = n + 1 /\ Len(q[1]) \in Nat
      BY <1>3, <1>6, <2>1
    <3>2. r + Len(q[1]) = n
      <4>1. ASSUME NEW a \in Nat, NEW x, x = r + 1, x + a = n + 1
            PROVE  r + a = n
        BY <1>1, <4>1
      <4>2. QED
        BY <1>5, <3>1, <4>1
    <3>3. QED
      BY <2>1, <3>2
  <2>2. CASE t # <<>>
    <3>1. t[1] = q[2] /\ q[2][1] = q[1][1] + Len(q[1])
      BY <1>3, <1>6, <2>2
    <3>2. QED
      BY <1>1, <1>3, <1>5, <2>2, <3>1
  <2>3. QED
    BY <2>1, <2>2
<1>11. /\ pump'.pending = q[1] /\ stdin_queue' = t /\ child' = child /\ history' = history
       /\ owner' = owner
  BY <1>3 DEF q, t
<1>12. QueueFollows(Len(child.received) + Len(pump.pending))'
  <2>1. Len(history'.accepted) = n /\ Len(child'.received) + Len(pump'.pending) = r + Len(q[1])
    BY <1>11, ZenonT(30) DEF n, r
  <2> DEFINE from == r + Len(q[1])
  <2>2. /\ \A k \in DOMAIN stdin_queue' :
             /\ stdin_queue'[k] # <<>>
             /\ Run(stdin_queue'[k], stdin_queue'[k][1] - 1)
             /\ stdin_queue'[k][1] + Len(stdin_queue'[k]) <= Len(history'.accepted) + 1
             /\ k + 1 \in DOMAIN stdin_queue'
                  => stdin_queue'[k + 1][1] = stdin_queue'[k][1] + Len(stdin_queue'[k])
             /\ k = Len(stdin_queue')
                  => stdin_queue'[k][1] + Len(stdin_queue'[k]) = Len(history'.accepted) + 1
        /\ IF stdin_queue' = <<>> THEN from = Len(history'.accepted)
           ELSE stdin_queue'[1][1] = from + 1
    BY <1>9, <1>10, <1>11, <2>1, ZenonT(30)
  <2>3. from = Len(child'.received) + Len(pump'.pending)
    BY <2>1
  <2> HIDE DEF from
  <2>4. QED
    BY <2>2, <2>3 DEF QueueFollows, Run
<1>13. QED
  BY <1>7, <1>8, <1>11, <1>12, ZenonT(30) DEF InputInOrder, Run, r, n

LEMMA AppendedBlock ==
    ASSUME NEW q \in Seq(Seq(Nat)), NEW b \in Seq(Nat)
    PROVE  /\ Append(q, b) \in Seq(Seq(Nat)) /\ Len(Append(q, b)) = Len(q) + 1
           /\ Append(q, b) # <<>> /\ Append(q, b) # q /\ Len(q) \in Nat
           /\ Append(q, b)[Len(q) + 1] = b
           /\ \A k \in DOMAIN Append(q, b) :
                /\ k \in Nat
                /\ \/ k \in DOMAIN q /\ k # Len(q) + 1 /\ Append(q, b)[k] = q[k]
                   \/ k = Len(q) + 1 /\ Append(q, b)[k] = b
           /\ \A k \in DOMAIN q : k \in DOMAIN Append(q, b) /\ Append(q, b)[k] = q[k]
<1>1. /\ Append(q, b) \in Seq(Seq(Nat)) /\ Len(Append(q, b)) = Len(q) + 1 /\ Len(q) \in Nat
      /\ Append(q, b)[Len(q) + 1] = b
  OBVIOUS
<1>2. Append(q, b) # <<>> /\ Append(q, b) # q
  <2>1. Len(q) + 1 # Len(q) /\ Len(q) + 1 # 0 /\ Len(<<>>) = 0
    BY <1>1
  <2>2. QED
    BY <1>1, <2>1, Zenon
<1>3. /\ \A k \in DOMAIN Append(q, b) :
           /\ k \in Nat
           /\ \/ k \in DOMAIN q /\ k # Len(q) + 1 /\ Append(q, b)[k] = q[k]
              \/ k = Len(q) + 1 /\ Append(q, b)[k] = b
      /\ \A k \in DOMAIN q : k \in DOMAIN Append(q, b) /\ Append(q, b)[k] = q[k]
  OBVIOUS
<1>4. QED
  BY <1>1, <1>2, <1>3

LEMMA JoinedRun ==
    ASSUME NEW a \in Seq(Nat), NEW b \in Seq(Nat), Run(a, 0), Run(b, Len(a))
    PROVE  Run(a \o b, 0) /\ Len(a \o b) = Len(a) + Len(b)
<1>1. Len(a) \in Nat /\ Len(b) \in Nat /\ Len(a \o b) = Len(a) + Len(b)
  BY LenOfBoth
<1>2. ASSUME NEW i \in 1..(Len(a) + Len(b))
      PROVE  (a \o b)[i] = i
  <2>1. CASE i \in 1..Len(a)
    <3>1. (a \o b)[i] = a[i] /\ i \in DOMAIN a
      BY <2>1
    <3>2. QED
      BY <2>1, <3>1 DEF Run
  <2>2. CASE i \notin 1..Len(a)
    <3>1. i - Len(a) \in 1..Len(b)
      BY <1>1, <2>2
    <3>2. (a \o b)[i] = b[i - Len(a)]
      BY <1>1, <2>2
    <3>3. b[i - Len(a)] = Len(a) + (i - Len(a))
      BY <3>1 DEF Run
    <3>4. QED
      BY <1>1, <3>2, <3>3
  <2>3. QED
    BY <2>1, <2>2
<1>3. DOMAIN (a \o b) = 1..(Len(a) + Len(b))
  OBVIOUS
<1>4. Run(a \o b, 0)
  BY <1>2, <1>3 DEF Run
<1>5. QED
  BY <1>1, <1>4

LEMMA PushKeepsInput ==
    ASSUME SessionTypes, InputInOrder, owner.at = "push", owner'.at = "idle",
           stdin_queue' = Append(stdin_queue, owner.hand),
           history'.accepted = history.accepted \o owner.hand, UNCHANGED <<child, pump>>
    PROVE  InputInOrder'
<1> DEFINE q == stdin_queue
           b == owner.hand
           a == history.accepted
           s == Append(q, b)
           n == Len(a)
           m == Len(b)
           from == Len(child.received) + Len(pump.pending)
<1>1. q \in Seq(Seq(Nat)) /\ b \in Seq(Nat) /\ a \in Seq(Nat) /\ n \in Nat /\ m \in Nat
  BY DEF SessionTypes, OwnerType, HistoryType
<1>2. b # <<>> /\ Run(b, n) /\ Run(a, 0) /\ from \in Nat /\ from <= n
      /\ Len(child.received) <= n /\ Len(child.received) \in Nat
  BY DEF InputInOrder, SessionTypes, ChildType, PumpType
<1>3. Run(a \o b, 0) /\ Len(a \o b) = n + m
  BY <1>1, <1>2, JoinedRun
<1>4. m > 0 /\ b[1] = n + 1
  <2>1. m > 0 /\ 1 \in DOMAIN b
    BY <1>1, <1>2
  <2>2. QED
    BY <1>2, <2>1 DEF Run
<1>5. /\ s \in Seq(Seq(Nat)) /\ Len(s) = Len(q) + 1 /\ s # <<>> /\ Len(q) \in Nat
      /\ s[Len(q) + 1] = b
      /\ \A k \in DOMAIN s : /\ k \in Nat
                             /\ \/ k \in DOMAIN q /\ k # Len(q) + 1 /\ s[k] = q[k]
                                \/ k = Len(q) + 1 /\ s[k] = b
      /\ \A k \in DOMAIN q : k \in DOMAIN s /\ s[k] = q[k]
  BY <1>1, AppendedBlock
<1>6. /\ history'.accepted = a \o b /\ stdin_queue' = s /\ child' = child /\ pump' = pump
      /\ owner'.at # "push"
  OBVIOUS
<1>7. ASSUME pump.in_open
      PROVE  QueueFollows(from)
  BY <1>7, ZenonT(30) DEF InputInOrder
<1>8. ASSUME QueueFollows(from)
      PROVE  /\ \A k \in DOMAIN q :
                  /\ q[k] # <<>> /\ Run(q[k], q[k][1] - 1) /\ q[k][1] + Len(q[k]) <= n + 1
                  /\ k + 1 \in DOMAIN q => q[k + 1][1] = q[k][1] + Len(q[k])
                  /\ k = Len(q) => q[k][1] + Len(q[k]) = n + 1
             /\ IF q = <<>> THEN from = n ELSE q[1][1] = from + 1
  BY <1>8, ZenonT(30) DEF QueueFollows
<1> HIDE DEF q, b, a, s, n, m, from
<1>9. ASSUME QueueFollows(from), NEW k \in DOMAIN s
      PROVE  /\ s[k] # <<>> /\ Run(s[k], s[k][1] - 1)
             /\ s[k][1] + Len(s[k]) <= (n + m) + 1
             /\ k + 1 \in DOMAIN s => s[k + 1][1] = s[k][1] + Len(s[k])
             /\ k = Len(s) => s[k][1] + Len(s[k]) = (n + m) + 1
  <2>1. CASE k = Len(q) + 1 /\ s[k] = b
    <3>1. s[k] # <<>> /\ Run(s[k], s[k][1] - 1)
      <4>1. b[1] - 1 = n
        BY <1>1, <1>4
      <4>2. QED
        BY <1>2, <2>1, <4>1
    <3>2. s[k][1] + Len(s[k]) = (n + m) + 1
      <4>1. b[1] = n + 1 /\ Len(b) = m
        BY <1>4 DEF m
      <4>2. b[1] + Len(b) = (n + m) + 1
        BY <1>1, <4>1
      <4>3. QED
        BY <2>1, <4>2
    <3>3. k + 1 \notin DOMAIN s
      BY <1>5, <2>1
    <3>4. (n + m) + 1 <= (n + m) + 1
      BY <1>1
    <3>5. QED
      BY <3>1, <3>2, <3>3, <3>4
  <2>2. CASE k \in DOMAIN q /\ k # Len(q) + 1 /\ s[k] = q[k]
    <3>1. /\ q[k] # <<>> /\ Run(q[k], q[k][1] - 1) /\ q[k][1] + Len(q[k]) <= n + 1
          /\ k + 1 \in DOMAIN q => q[k + 1][1] = q[k][1] + Len(q[k])
          /\ k = Len(q) => q[k][1] + Len(q[k]) = n + 1
      BY <1>8, <1>9, <2>2
    <3>2. k # Len(s)
      BY <1>5, <2>2
    <3>3. q[k] \in Seq(Nat) /\ q[k][1] \in Nat /\ Len(q[k]) \in Nat
      <4>1. q[k] \in Seq(Nat)
        BY <1>1, <2>2
      <4>2. q[k] # <<>>
        BY <3>1
      <4>3. QED
        BY <4>1, <4>2
    <3>4. q[k][1] + Len(q[k]) <= (n + m) + 1
      <4>1. q[k][1] + Len(q[k]) <= n + 1
        BY <3>1
      <4>2. QED
        BY <1>1, <3>3, <4>1
    <3>5. ASSUME k + 1 \in DOMAIN s
          PROVE  s[k + 1][1] = q[k][1] + Len(q[k])
      <4>1. CASE k + 1 \in DOMAIN q /\ s[k + 1] = q[k + 1]
        BY <3>1, <4>1
      <4>2. CASE k + 1 = Len(q) + 1 /\ s[k + 1] = b
        <5>1. k = Len(q)
          BY <1>5, <2>2, <4>2
        <5>2. QED
          BY <1>4, <3>1, <4>2, <5>1
      <4>3. QED
        BY <1>5, <3>5, <4>1, <4>2
    <3>6. QED
      BY <2>2, <3>1, <3>2, <3>4, <3>5
  <2>3. QED
    BY <1>5, <2>1, <2>2
<1>10. ASSUME QueueFollows(from)
       PROVE  s[1][1] = from + 1
  <2>1. CASE q = <<>>
    <3>1. Len(q) = 0 /\ from = n
      BY <1>8, <1>10, <2>1
    <3>2. s[1] = b
      BY <1>5, <3>1
    <3>3. QED
      BY <1>4, <3>1, <3>2
  <2>2. CASE q # <<>>
    <3>1. 1 \in DOMAIN q
      BY <1>1, <2>2
    <3>2. QED
      BY <1>5, <1>8, <1>10, <2>2, <3>1
  <2>3. QED
    BY <2>1, <2>2
<1>11. ASSUME pump.in_open
       PROVE  QueueFollows(Len(child.received) + Len(pump.pending))'
  <2>1. QueueFollows(from)
    BY <1>7, <1>11
  <2>2. Len(history'.accepted) = n + m
    BY <1>3, <1>6
  <2>3. /\ \A k \in DOMAIN stdin_queue' :
             /\ stdin_queue'[k] # <<>>
             /\ Run(stdin_queue'[k], stdin_queue'[k][1] - 1)
             /\ stdin_queue'[k][1] + Len(stdin_queue'[k]) <= Len(history'.accepted) + 1
             /\ k + 1 \in DOMAIN stdin_queue'
                  => stdin_queue'[k + 1][1] = stdin_queue'[k][1] + Len(stdin_queue'[k])
             /\ k = Len(stdin_queue')
                  => stdin_queue'[k][1] + Len(stdin_queue'[k]) = Len(history'.accepted) + 1
        /\ stdin_queue' # <<>> /\ stdin_queue'[1][1] = from + 1
    BY <1>5, <1>6, <1>9, <1>10, <2>1, <2>2, ZenonT(30)
  <2>4. from = Len(child'.received) + Len(pump'.pending)
    BY <1>6 DEF from
  <2>5. QED
    BY <2>3, <2>4, ZenonT(30) DEF QueueFollows, Run
<1>12. /\ Len(child'.received) <= Len(history'.accepted)
       /\ Len(child'.received) + Len(pump'.pending) <= Len(history'.accepted)
  <2>1. Len(child'.received) <= n + m /\ from <= n + m
    BY <1>1, <1>2, <1>6
  <2>2. QED
    BY <1>3, <1>6, <2>1, ZenonT(30) DEF from
<1>13. QED
  BY <1>3, <1>6, <1>11, <1>12, ZenonT(30) DEF InputInOrder, Run

LEMMA ReadKeepsEnds ==
    ASSUME SessionInv, NEW e \in Event, Published' = Append(Published, e), e.kind \in Channels,
           pump.at = "read", pump'.at \in {"read", "count"},
           pump'.cancel_seen = pump.cancel_seen
    PROVE  EndsInOrder'
<1>1. e.kind # "Exited" /\ ~IsCancelled(e)
  BY ChannelsAreOutputs DEF IsCancelled
<1>2. Published \in Seq(Event)
  BY DEF SessionInv, SessionTypes, HistoryType, Published
<1>3. \A k \in DOMAIN Published' : \/ k \in DOMAIN Published /\ Published'[k] = Published[k]
                                   \/ Published'[k] = e
  BY <1>2, AppendedAt
<1>4. QED
  BY <1>1, <1>3 DEF SessionInv, EndsInOrder, IsCancelled

LEMMA CancelKeepsEnds ==
    ASSUME SessionInv, Published' = Append(Published, Plain("Cancelled")),
           pump.at = "publish_cancel", pump'.at = "top", pump'.cancel_seen = pump.cancel_seen
    PROVE  EndsInOrder'
<1> DEFINE e == Plain("Cancelled")
<1>1. e \in Event /\ e.kind # "Exited" /\ IsCancelled(e)
  BY DEF IsCancelled, Plain, Event
<1> HIDE DEF e
<1>2. Published \in Seq(Event)
  BY DEF SessionInv, SessionTypes, HistoryType, Published
<1>3. \A k \in DOMAIN Published' : \/ k \in DOMAIN Published /\ Published'[k] = Published[k]
                                   \/ k = Len(Published) + 1 /\ Published'[k] = e
  BY <1>1, <1>2, AppendedAt DEF e
<1>4. \A k \in DOMAIN Published : ~IsCancelled(Published[k]) /\ Published[k].kind # "Exited"
  BY DEF SessionInv, EndsInOrder
<1>5. pump'.cancel_seen
  BY DEF SessionInv, PumpKnows
<1>6. QED
  BY <1>1, <1>3, <1>4, <1>5 DEF EndsInOrder, IsCancelled

LEMMA ExitKeepsEnds ==
    ASSUME SessionInv, Published' = Append(Published, Plain("Exited")),
           pump.at = "publish_exit", pump'.at = "finish", pump'.cancel_seen = pump.cancel_seen
    PROVE  EndsInOrder'
<1> DEFINE e == Plain("Exited")
<1>1. e \in Event /\ e.kind = "Exited" /\ ~IsCancelled(e)
  BY DEF IsCancelled, Plain, Event
<1> HIDE DEF e
<1>2. Published \in Seq(Event)
  BY DEF SessionInv, SessionTypes, HistoryType, Published
<1>3. /\ \A k \in DOMAIN Published' : \/ k \in DOMAIN Published /\ Published'[k] = Published[k]
                                      \/ k = Len(Published) + 1 /\ Published'[k] = e
      /\ Len(Published') = Len(Published) + 1 /\ Published' # <<>>
      /\ Published'[Len(Published) + 1] = e
  BY <1>1, <1>2, AppendedAt DEF e
<1>4. \A k \in DOMAIN Published : Published[k].kind # "Exited"
  BY DEF SessionInv, EndsInOrder
<1>5. QED
  BY <1>1, <1>3, <1>4 DEF SessionInv, EndsInOrder, IsCancelled

LEMMA ReapKeeps ==
    ASSUME SessionInv, Reap
    PROVE  SessionInv'
<1>0. SessionTypes /\ PumpKnows /\ GroupIsKilled /\ InputInOrder
  BY DEF SessionInv
<1>1. child' \in ChildType
  BY <1>0, ZenonT(30) DEF SessionTypes, Reap, ChildType, InPump
<1>2. pump' \in PumpType
  BY <1>0, ZenonT(30) DEF SessionTypes, Reap, PumpType, PumpLabels, InPump
<1>3. SessionTypes'
  BY <1>0, <1>1, <1>2 DEF SessionTypes, Reap
<1>4. PumpKnows'
  BY <1>0, ChannelsAreOutputs, <1>3
     DEF PumpKnows, Current, SessionTypes, PumpType, FlagsType, Reap, InPump
<1>5. GroupIsKilled'
  BY <1>0, <1>3
     DEF GroupIsKilled, PumpKnows, SessionTypes, PumpType, ChildType, OwnerType, Reap, InPump
<1>6. SameInput
  BY <1>0
     DEF SameInput, SessionTypes, ChildType, FlagsType, PumpType, OwnerType, HistoryType, Reap,
         InPump
<1>7. InputInOrder'
  BY <1>0, <1>6, InputFrame
<1>8. SameOutput
  BY <1>0 DEF SameOutput, SessionTypes, Published, ChildType, HistoryType, Reap, InPump
<1>9. PipesInOrder' /\ ToldInOrder' /\ NothingReadIsLost'
  BY <1>8, OutputFrame DEF SessionInv
<1>10. SameEnds
  BY <1>0 DEF SameEnds, SessionTypes, Published, PumpType, HistoryType, Reap, InPump
<1>11. EndsInOrder'
  BY <1>10, EndsFrame DEF SessionInv
<1>q. QED
  BY <1>3, <1>4, <1>5, <1>7, <1>9, <1>11 DEF SessionInv

LEMMA KeepRunningKeeps ==
    ASSUME SessionInv, KeepRunning
    PROVE  SessionInv'
<1>0. SessionTypes /\ PumpKnows /\ GroupIsKilled /\ InputInOrder
  BY DEF SessionInv
<1>1. pump' \in PumpType
  BY <1>0, ZenonT(30) DEF SessionTypes, KeepRunning, PumpTo, PumpType, PumpLabels, InPump
<1>2. SessionTypes'
  BY <1>0, <1>1 DEF SessionTypes, KeepRunning
<1>3. PumpKnows'
  BY <1>0, ChannelsAreOutputs, <1>2
     DEF PumpKnows, Current, SessionTypes, PumpType, FlagsType, KeepRunning, PumpTo, InPump
<1>4. GroupIsKilled'
  BY <1>0, <1>2
     DEF GroupIsKilled, PumpKnows, SessionTypes, PumpType, ChildType, OwnerType, KeepRunning,
         PumpTo, InPump
<1>5. SameInput
  BY <1>0
     DEF SameInput, SessionTypes, ChildType, FlagsType, PumpType, OwnerType, HistoryType,
         KeepRunning, PumpTo, InPump
<1>6. InputInOrder'
  BY <1>0, <1>5, InputFrame
<1>7. SameOutput
  BY <1>0
     DEF SameOutput, SessionTypes, Published, ChildType, HistoryType, KeepRunning, PumpTo, InPump
<1>8. PipesInOrder' /\ ToldInOrder' /\ NothingReadIsLost'
  BY <1>7, OutputFrame DEF SessionInv
<1>9. SameEnds
  BY <1>0
     DEF SameEnds, SessionTypes, Published, PumpType, HistoryType, KeepRunning, PumpTo, InPump
<1>10. EndsInOrder'
  BY <1>9, EndsFrame DEF SessionInv
<1>q. QED
  BY <1>2, <1>3, <1>4, <1>6, <1>8, <1>10 DEF SessionInv

LEMMA DeadlinePassedKeeps ==
    ASSUME SessionInv, DeadlinePassed
    PROVE  SessionInv'
<1>0. SessionTypes /\ PumpKnows /\ GroupIsKilled /\ InputInOrder
  BY DEF SessionInv
<1>1. child' \in ChildType
  BY <1>0, ZenonT(30) DEF SessionTypes, DeadlinePassed, ForceWindowOver, ChildType, InPump
<1>2. pump' \in PumpType
  BY <1>0, ZenonT(30)
     DEF SessionTypes, DeadlinePassed, ForceWindowOver, PumpType, PumpLabels, InPump
<1>3. SessionTypes'
  BY <1>0, <1>1, <1>2 DEF SessionTypes, DeadlinePassed
<1>4. PumpKnows'
  <2>1. /\ pump'.cancel_seen = pump.cancel_seen /\ pump'.in_open = pump.in_open
        /\ \/ pump'.at = "feed" /\ pump'.looping = pump.looping
           \/ pump'.at = "drain" /\ ~pump'.looping
    BY <1>0, ZenonT(30) DEF SessionTypes, PumpType, DeadlinePassed
  <2>2. pump.at = "top" /\ flags' = flags
    BY DEF DeadlinePassed, InPump
  <2>3. QED
    BY <1>0, <2>1, <2>2 DEF PumpKnows
<1>5. GroupIsKilled'
  BY <1>0, <1>3, ZenonT(30)
     DEF GroupIsKilled, PumpKnows, SessionTypes, PumpType, ChildType, OwnerType, DeadlinePassed,
         ForceWindowOver, InPump
<1>6. SameInput
  BY <1>0, ZenonT(30)
     DEF SameInput, SessionTypes, ChildType, FlagsType, PumpType, OwnerType, HistoryType,
         DeadlinePassed, ForceWindowOver, InPump
<1>7. InputInOrder'
  BY <1>0, <1>6, InputFrame
<1>8. SameOutput
  BY <1>0
     DEF SameOutput, SessionTypes, Published, ChildType, HistoryType, DeadlinePassed,
         ForceWindowOver, InPump
<1>9. PipesInOrder' /\ ToldInOrder' /\ NothingReadIsLost'
  BY <1>8, OutputFrame DEF SessionInv
<1>10. SameEnds
  BY <1>0, ZenonT(30)
     DEF SameEnds, SessionTypes, Published, PumpType, HistoryType, DeadlinePassed,
         ForceWindowOver, InPump
<1>11. EndsInOrder'
  BY <1>10, EndsFrame DEF SessionInv
<1>q. QED
  BY <1>3, <1>4, <1>5, <1>7, <1>9, <1>11 DEF SessionInv

LEMMA FeedKeeps ==
    ASSUME SessionInv, Feed
    PROVE  SessionInv'
<1>0. SessionTypes /\ PumpKnows /\ GroupIsKilled /\ InputInOrder
  BY DEF SessionInv
<1>a. \/ /\ pump' = [pump EXCEPT !.at = "eof"] \/ pump' = [pump EXCEPT !.at = "poll"]
         /\ stdin_queue' = stdin_queue
      \/ /\ stdin_queue # <<>> /\ stdin_queue' = Tail(stdin_queue)
         /\ pump' = [pump EXCEPT !.at = "poll", !.pending = Head(stdin_queue)]
  BY DEF Feed, PumpTo
<1>b. pump \in PumpType /\ pump.at = "feed" /\ stdin_queue \in Seq(Seq(Nat))
  BY <1>0 DEF SessionTypes, Feed, InPump
<1>c. stdin_queue # <<>>
        => Head(stdin_queue) \in Seq(Nat) /\ Tail(stdin_queue) \in Seq(Seq(Nat))
  BY <1>b, TailOfBlocks
<1>1. pump' \in PumpType
  BY <1>a, <1>b, <1>c, ZenonT(30) DEF PumpType, PumpLabels
<1>2. stdin_queue' \in Seq(Seq(Nat))
  BY <1>a, <1>b, <1>c, ZenonT(30)
<1>3. SessionTypes'
  BY <1>0, <1>1, <1>2 DEF SessionTypes, Feed
<1>4. PumpKnows'
  <2>1. /\ pump'.cancel_seen = pump.cancel_seen /\ pump'.in_open = pump.in_open
        /\ pump'.at \in {"eof", "poll"} /\ pump'.looping = pump.looping
    BY <1>a, <1>b, ZenonT(30) DEF PumpType
  <2>2. flags' = flags
    BY DEF Feed
  <2>3. QED
    BY <1>0, <1>b, <2>1, <2>2 DEF PumpKnows
<1>5. GroupIsKilled'
  BY <1>0, <1>3, ZenonT(30)
     DEF GroupIsKilled, PumpKnows, SessionTypes, PumpType, ChildType, OwnerType, Feed, PumpTo,
         InPump
<1>6. InputInOrder'
  <2>1. CASE pump.in_open /\ pump.pending = <<>> /\ stdin_queue # <<>>
    <3>1. /\ pump' = [pump EXCEPT !.at = "poll", !.pending = Head(stdin_queue)]
          /\ stdin_queue' = Tail(stdin_queue) /\ UNCHANGED <<child, owner, history>>
      BY <2>1 DEF Feed
    <3>2. pump'.pending = Head(stdin_queue) /\ pump'.in_open = pump.in_open
      BY <1>0, <3>1 DEF SessionTypes, PumpType
    <3>3. QED
      BY <1>0, <2>1, <3>1, <3>2, FeedKeepsInput
  <2>2. CASE ~(pump.in_open /\ pump.pending = <<>> /\ stdin_queue # <<>>)
    <3>1. SameInput
      BY <1>0, <2>2 DEF Feed, PumpTo, SameInput, SessionTypes, PumpType
    <3>2. QED
      BY <1>0, <3>1, InputFrame
  <2>3. QED
    BY <2>1, <2>2
<1>7. SameOutput
  BY <1>0 DEF SameOutput, SessionTypes, Published, ChildType, HistoryType, Feed, PumpTo, InPump
<1>8. PipesInOrder' /\ ToldInOrder' /\ NothingReadIsLost'
  BY <1>7, OutputFrame DEF SessionInv
<1>9. SameEnds
  BY <1>0, ZenonT(30)
     DEF SameEnds, SessionTypes, Published, PumpType, HistoryType, Feed, PumpTo, InPump
<1>10. EndsInOrder'
  BY <1>9, EndsFrame DEF SessionInv
<1>q. QED
  BY <1>3, <1>4, <1>5, <1>6, <1>8, <1>10 DEF SessionInv

LEMMA FeedEofKeeps ==
    ASSUME SessionInv, FeedEof
    PROVE  SessionInv'
<1>0. SessionTypes /\ PumpKnows /\ GroupIsKilled /\ InputInOrder
  BY DEF SessionInv
<1>a. pump' = [StdinClosed EXCEPT !.at = "poll"] \/ pump' = [pump EXCEPT !.at = "poll"]
  BY DEF FeedEof, PumpTo
<1>b. pump \in PumpType /\ history \in HistoryType
  BY <1>0 DEF SessionTypes
<1>c. /\ pump'.at = "poll" /\ pump'.looping = pump.looping
      /\ pump'.cancel_seen = pump.cancel_seen
      /\ \/ pump'.in_open = pump.in_open /\ pump'.pending = pump.pending
         \/ ~pump'.in_open /\ pump'.pending = <<>>
  BY <1>a, <1>b, ClosedTyped DEF PumpType
<1>1. pump' \in PumpType
  BY <1>a, <1>b, ClosedTyped, ZenonT(30) DEF PumpType, PumpLabels
<1>2. history' \in HistoryType
  BY <1>0, ZenonT(30) DEF SessionTypes, FeedEof, PumpTo, StdinClosed, HistoryType, Event, InPump
<1>3. SessionTypes'
  BY <1>0, <1>1, <1>2 DEF SessionTypes, FeedEof
<1>4. PumpKnows'
  BY <1>0, <1>c DEF PumpKnows, FeedEof, InPump
<1>5. GroupIsKilled'
  BY <1>0, <1>3, ZenonT(30)
     DEF GroupIsKilled, PumpKnows, SessionTypes, PumpType, ChildType, OwnerType, FeedEof, PumpTo,
         StdinClosed, InPump
<1>6. InputInOrder'
  <2>1. /\ child' = child /\ owner' = owner /\ stdin_queue' = stdin_queue
        /\ history'.accepted = history.accepted
    BY <1>b DEF FeedEof, HistoryType
  <2>2. SameInput \/ InputCloses
    BY <1>c, <2>1 DEF SameInput, InputCloses
  <2>3. QED
    BY <1>0, <2>2, InputFrame, ClosingKeepsInput
<1>7. SameOutput
  BY <1>0, ZenonT(30)
     DEF SameOutput, SessionTypes, Published, ChildType, HistoryType, FeedEof, PumpTo,
         StdinClosed, InPump
<1>8. PipesInOrder' /\ ToldInOrder' /\ NothingReadIsLost'
  BY <1>7, OutputFrame DEF SessionInv
<1>9. SameEnds
  BY <1>0, ZenonT(30)
     DEF SameEnds, SessionTypes, Published, PumpType, HistoryType, FeedEof, PumpTo, StdinClosed,
         InPump
<1>10. EndsInOrder'
  BY <1>9, EndsFrame DEF SessionInv
<1>q. QED
  BY <1>3, <1>4, <1>5, <1>6, <1>8, <1>10 DEF SessionInv

LEMMA PollKeeps ==
    ASSUME SessionInv, Poll
    PROVE  SessionInv'
<1>0. SessionTypes /\ PumpKnows /\ GroupIsKilled /\ InputInOrder
  BY DEF SessionInv
<1>1. pump' \in PumpType
  <2>1. PICK writable \in BOOLEAN :
          pump' = [pump EXCEPT !.at = IF Ready(writable) = {} THEN "top" ELSE "write",
                               !.ready = Ready(writable)]
    BY ZenonT(30) DEF Poll
  <2>2. QED
    BY <1>0, <2>1, ReadyTyped, ZenonT(30) DEF SessionTypes, PumpType, PumpLabels
<1>2. SessionTypes'
  BY <1>0, <1>1 DEF SessionTypes, Poll
<1>3. PumpKnows'
  BY <1>0, ChannelsAreOutputs, <1>2, ZenonT(30)
     DEF PumpKnows, Current, SessionTypes, PumpType, FlagsType, Poll, Readable, Pressure, InPump
<1>4. GroupIsKilled'
  BY <1>0, <1>2, ZenonT(30)
     DEF GroupIsKilled, PumpKnows, SessionTypes, PumpType, ChildType, OwnerType, Poll, Readable,
         Pressure, InPump
<1>5. SameInput
  BY <1>0
     DEF SameInput, SessionTypes, ChildType, FlagsType, PumpType, OwnerType, HistoryType, Poll,
         Readable, Pressure, InPump
<1>6. InputInOrder'
  BY <1>0, <1>5, InputFrame
<1>7. SameOutput
  BY <1>0
     DEF SameOutput, SessionTypes, Published, ChildType, HistoryType, Poll, Readable, Pressure,
         InPump
<1>8. PipesInOrder' /\ ToldInOrder' /\ NothingReadIsLost'
  BY <1>7, OutputFrame DEF SessionInv
<1>9. SameEnds
  BY <1>0
     DEF SameEnds, SessionTypes, Published, PumpType, HistoryType, Poll, Readable, Pressure,
         InPump
<1>10. EndsInOrder'
  BY <1>9, EndsFrame DEF SessionInv
<1>q. QED
  BY <1>2, <1>3, <1>4, <1>6, <1>8, <1>10 DEF SessionInv

LEMMA PollFailsKeeps ==
    ASSUME SessionInv, PollFails
    PROVE  SessionInv'
<1>0. SessionTypes /\ PumpKnows /\ GroupIsKilled /\ InputInOrder
  BY DEF SessionInv
<1>1. pump' \in PumpType
  BY <1>0, ZenonT(30) DEF SessionTypes, PollFails, PumpType, PumpLabels, InPump
<1>2. SessionTypes'
  BY <1>0, <1>1 DEF SessionTypes, PollFails
<1>3. PumpKnows'
  BY <1>0, ChannelsAreOutputs, <1>2
     DEF PumpKnows, Current, SessionTypes, PumpType, FlagsType, PollFails, InPump
<1>4. GroupIsKilled'
  BY <1>0, <1>2
     DEF GroupIsKilled, PumpKnows, SessionTypes, PumpType, ChildType, OwnerType, PollFails,
         InPump
<1>5. SameInput
  BY <1>0
     DEF SameInput, SessionTypes, ChildType, FlagsType, PumpType, OwnerType, HistoryType,
         PollFails, InPump
<1>6. InputInOrder'
  BY <1>0, <1>5, InputFrame
<1>7. SameOutput
  BY <1>0 DEF SameOutput, SessionTypes, Published, ChildType, HistoryType, PollFails, InPump
<1>8. PipesInOrder' /\ ToldInOrder' /\ NothingReadIsLost'
  BY <1>7, OutputFrame DEF SessionInv
<1>9. SameEnds
  BY <1>0 DEF SameEnds, SessionTypes, Published, PumpType, HistoryType, PollFails, InPump
<1>10. EndsInOrder'
  BY <1>9, EndsFrame DEF SessionInv
<1>q. QED
  BY <1>2, <1>3, <1>4, <1>6, <1>8, <1>10 DEF SessionInv

LEMMA WriteStdinKeeps ==
    ASSUME NEW k \in 1..Len(pump.pending), SessionInv, WriteStdin(k)
    PROVE  SessionInv'
<1>0. SessionTypes /\ PumpKnows /\ GroupIsKilled /\ InputInOrder
  BY DEF SessionInv
<1>a. /\ child.received \o SubSeq(pump.pending, 1, k) \in Seq(Nat)
      /\ SubSeq(pump.pending, k + 1, Len(pump.pending)) \in Seq(Nat)
  BY <1>0, WrittenPart, PartLeft DEF SessionTypes, ChildType, PumpType
<1>1. child' \in ChildType
  BY <1>0, <1>a, ZenonT(30) DEF SessionTypes, WriteStdin, ChildType
<1>2. pump' \in PumpType
  BY <1>0, <1>a, ZenonT(30) DEF SessionTypes, WriteStdin, PumpType, PumpLabels
<1>3. SessionTypes'
  BY <1>0, <1>1, <1>2 DEF SessionTypes, WriteStdin
<1>4. PumpKnows'
  BY <1>0, ChannelsAreOutputs, <1>3
     DEF PumpKnows, Current, SessionTypes, PumpType, FlagsType, WriteStdin, InPump
<1>5. GroupIsKilled'
  BY <1>0, <1>3
     DEF GroupIsKilled, PumpKnows, SessionTypes, PumpType, ChildType, OwnerType, WriteStdin,
         InPump
<1>6. InputInOrder'
  BY <1>0, WriteKeepsInput
<1>7. SameOutput
  BY <1>0 DEF SameOutput, SessionTypes, Published, ChildType, HistoryType, WriteStdin, InPump
<1>8. PipesInOrder' /\ ToldInOrder' /\ NothingReadIsLost'
  BY <1>7, OutputFrame DEF SessionInv
<1>9. SameEnds
  BY <1>0 DEF SameEnds, SessionTypes, Published, PumpType, HistoryType, WriteStdin, InPump
<1>10. EndsInOrder'
  BY <1>9, EndsFrame DEF SessionInv
<1>q. QED
  BY <1>3, <1>4, <1>5, <1>6, <1>8, <1>10 DEF SessionInv

LEMMA StdinBreaksKeeps ==
    ASSUME SessionInv, StdinBreaks
    PROVE  SessionInv'
<1>0. SessionTypes /\ PumpKnows /\ GroupIsKilled /\ InputInOrder
  BY DEF SessionInv
<1>a. pump' = [StdinClosed EXCEPT !.at = "service"]
  BY DEF StdinBreaks
<1>b. pump \in PumpType /\ history \in HistoryType
  BY <1>0 DEF SessionTypes
<1>c. /\ pump'.at = "service" /\ pump'.looping = pump.looping
      /\ pump'.cancel_seen = pump.cancel_seen /\ pump'.ready = pump.ready
      /\ pump'.deadline = pump.deadline /\ pump'.reaped = pump.reaped
      /\ pump'.broke = pump.broke /\ ~pump'.in_open /\ pump'.pending = <<>>
  BY <1>a, <1>b, ClosedTyped DEF PumpType
<1>1. pump' \in PumpType
  BY <1>a, <1>b, ClosedTyped, ZenonT(30) DEF PumpType, PumpLabels
<1>2. history' \in HistoryType
  BY <1>0, ZenonT(30) DEF SessionTypes, StdinBreaks, StdinClosed, HistoryType, Event, InPump
<1>3. SessionTypes'
  BY <1>0, <1>1, <1>2 DEF SessionTypes, StdinBreaks
<1>4. PumpKnows'
  BY <1>0, <1>c DEF PumpKnows, StdinBreaks, InPump
<1>5. GroupIsKilled'
  BY <1>0, <1>c DEF GroupIsKilled, StdinBreaks
<1>6. InputInOrder'
  <2>1. InputCloses
    BY <1>b, <1>c DEF InputCloses, StdinBreaks, HistoryType
  <2>2. QED
    BY <1>0, <2>1, ClosingKeepsInput
<1>7. SameOutput
  BY <1>0
     DEF SameOutput, SessionTypes, Published, ChildType, HistoryType, StdinBreaks, StdinClosed,
         InPump
<1>8. PipesInOrder' /\ ToldInOrder' /\ NothingReadIsLost'
  BY <1>7, OutputFrame DEF SessionInv
<1>9. SameEnds
  BY <1>0
     DEF SameEnds, SessionTypes, Published, PumpType, HistoryType, StdinBreaks, StdinClosed,
         InPump
<1>10. EndsInOrder'
  BY <1>9, EndsFrame DEF SessionInv
<1>q. QED
  BY <1>3, <1>4, <1>5, <1>6, <1>8, <1>10 DEF SessionInv

LEMMA StdinWaitsKeeps ==
    ASSUME SessionInv, StdinWaits
    PROVE  SessionInv'
<1>0. SessionTypes /\ PumpKnows /\ GroupIsKilled /\ InputInOrder
  BY DEF SessionInv
<1>1. pump' \in PumpType
  BY <1>0, ZenonT(30) DEF SessionTypes, StdinWaits, PumpTo, PumpType, PumpLabels, InPump
<1>2. SessionTypes'
  BY <1>0, <1>1 DEF SessionTypes, StdinWaits
<1>3. PumpKnows'
  BY <1>0, ChannelsAreOutputs, <1>2
     DEF PumpKnows, Current, SessionTypes, PumpType, FlagsType, StdinWaits, PumpTo, InPump
<1>4. GroupIsKilled'
  BY <1>0, <1>2
     DEF GroupIsKilled, PumpKnows, SessionTypes, PumpType, ChildType, OwnerType, StdinWaits,
         PumpTo, InPump
<1>5. SameInput
  BY <1>0
     DEF SameInput, SessionTypes, ChildType, FlagsType, PumpType, OwnerType, HistoryType,
         StdinWaits, PumpTo, InPump
<1>6. InputInOrder'
  BY <1>0, <1>5, InputFrame
<1>7. SameOutput
  BY <1>0
     DEF SameOutput, SessionTypes, Published, ChildType, HistoryType, StdinWaits, PumpTo, InPump
<1>8. PipesInOrder' /\ ToldInOrder' /\ NothingReadIsLost'
  BY <1>7, OutputFrame DEF SessionInv
<1>9. SameEnds
  BY <1>0 DEF SameEnds, SessionTypes, Published, PumpType, HistoryType, StdinWaits, PumpTo, InPump
<1>10. EndsInOrder'
  BY <1>9, EndsFrame DEF SessionInv
<1>q. QED
  BY <1>2, <1>3, <1>4, <1>6, <1>8, <1>10 DEF SessionInv

LEMMA ServiceBeginKeeps ==
    ASSUME SessionInv, ServiceBegin
    PROVE  SessionInv'
<1>0. SessionTypes /\ PumpKnows /\ GroupIsKilled /\ InputInOrder
  BY DEF SessionInv
<1>a. \/ /\ pump.ready \cap Channels = {}
         /\ pump' = [pump EXCEPT !.at = IF pump.looping THEN "cancel" ELSE "drain"]
      \/ pump' = [pump EXCEPT !.ready = @ \ {Current}]
      \/ /\ pump.ready \cap Channels # {}
         /\ pump' = [pump EXCEPT !.at = "read", !.budget = ReadBudget]
  BY DEF ServiceBegin
<1>b. pump.at = "service" /\ pump \in PumpType /\ ReadBudget \in Int
  BY <1>0, SizesAreNatural DEF ServiceBegin, InPump, SessionTypes
<1>c. pump.ready \cap Channels # {} => Current \in Channels
  BY <1>b, ChannelsAreOutputs, ZenonT(30) DEF Current, PumpType
<1>1. pump' \in PumpType
  <2>1. CASE pump' = [pump EXCEPT !.at = IF pump.looping THEN "cancel" ELSE "drain"]
    BY <1>b, <2>1 DEF PumpType, PumpLabels
  <2>2. CASE pump' = [pump EXCEPT !.ready = @ \ {Current}]
    BY <1>b, <2>2 DEF PumpType
  <2>3. CASE pump' = [pump EXCEPT !.at = "read", !.budget = ReadBudget]
    BY <1>b, <2>3, ZenonT(30) DEF PumpType, PumpLabels
  <2>4. QED
    BY <1>a, <2>1, <2>2, <2>3
<1>2. SessionTypes'
  BY <1>0, <1>1 DEF SessionTypes, ServiceBegin
<1>3. PumpKnows'
  <2>1. /\ pump'.looping = pump.looping /\ pump'.cancel_seen = pump.cancel_seen
        /\ pump'.in_open = pump.in_open
        /\ \/ pump'.at = IF pump.looping THEN "cancel" ELSE "drain"
           \/ pump'.at = "service"
           \/ pump'.at = "read" /\ pump'.ready = pump.ready /\ Current \in Channels
    BY <1>a, <1>b, <1>c, ZenonT(30) DEF PumpType
  <2>2. flags' = flags
    BY DEF ServiceBegin
  <2>3. QED
    BY <1>0, <1>b, <2>1, <2>2 DEF PumpKnows, Current, PumpType
<1>4. GroupIsKilled'
  BY <1>0, <1>2
     DEF GroupIsKilled, PumpKnows, SessionTypes, PumpType, ChildType, OwnerType, ServiceBegin,
         InPump
<1>5. SameInput
  BY <1>0
     DEF SameInput, SessionTypes, ChildType, FlagsType, PumpType, OwnerType, HistoryType,
         ServiceBegin, InPump
<1>6. InputInOrder'
  BY <1>0, <1>5, InputFrame
<1>7. SameOutput
  BY <1>0 DEF SameOutput, SessionTypes, Published, ChildType, HistoryType, ServiceBegin, InPump
<1>8. PipesInOrder' /\ ToldInOrder' /\ NothingReadIsLost'
  BY <1>7, OutputFrame DEF SessionInv
<1>9. SameEnds
  BY <1>0 DEF SameEnds, SessionTypes, Published, PumpType, HistoryType, ServiceBegin, InPump
<1>10. EndsInOrder'
  BY <1>9, EndsFrame DEF SessionInv
<1>q. QED
  BY <1>2, <1>3, <1>4, <1>6, <1>8, <1>10 DEF SessionInv

LEMMA ServiceReadKeeps ==
    ASSUME SessionInv, ServiceRead
    PROVE  SessionInv'
<1>0. SessionTypes /\ PumpKnows /\ GroupIsKilled /\ InputInOrder
  BY DEF SessionInv
<1>a. pump' = [pump EXCEPT !.budget = @ - 1] \/ pump' = [pump EXCEPT !.at = "count"]
  BY DEF ServiceRead
<1>b. pump \in PumpType /\ history \in HistoryType /\ pump.at = "read"
  BY <1>0 DEF SessionTypes, ServiceRead, InPump
<1>c. Chunk(Current, Head(pipe[Current])) \in Event /\ Current \in Channels
  BY <1>0, ReadFacts
<1>d. /\ pump'.at \in {"read", "count"} /\ pump'.looping = pump.looping
      /\ pump'.cancel_seen = pump.cancel_seen /\ pump'.ready = pump.ready
      /\ pump'.in_open = pump.in_open
  BY <1>a, <1>b DEF PumpType
<1>1. pipe' \in [Channels -> Seq(Nat)]
  BY <1>0, ChannelsAreOutputs, SizesAreNatural
     DEF SessionTypes, ServiceRead, Chunk, InPump, PumpKnows
<1>2. event_queue' \in Seq(Event)
  <2>1. event_queue' = event_queue
        \/ event_queue' = Append(event_queue, Chunk(Current, Head(pipe[Current])))
    BY DEF ServiceRead
  <2>2. event_queue \in Seq(Event)
    BY <1>0 DEF SessionTypes
  <2>3. QED
    BY <1>c, <2>1, <2>2, AppendedAt
<1>3. pump' \in PumpType
  <2>1. pump.budget - 1 \in Int
    BY <1>b DEF PumpType
  <2>2. QED
    BY <1>a, <1>b, <2>1 DEF PumpType, PumpLabels
<1>4. history' \in HistoryType
  <2>1. \/ history' = history
        \/ history' = [history EXCEPT
                        !.sunk = Append(@, Chunk(Current, Head(pipe[Current])))]
    BY DEF ServiceRead
  <2>2. Append(history.sunk, Chunk(Current, Head(pipe[Current]))) \in Seq(Event)
    BY <1>b, <1>c DEF HistoryType
  <2>3. QED
    BY <1>b, <2>1, <2>2, ZenonT(30) DEF HistoryType
<1>5. SessionTypes'
  BY <1>0, <1>1, <1>2, <1>3, <1>4 DEF SessionTypes, ServiceRead
<1>6. PumpKnows'
  <2>1. flags' = flags
    BY DEF ServiceRead
  <2>2. QED
    BY <1>0, <1>b, <1>c, <1>d, <2>1 DEF PumpKnows, Current
<1>7. GroupIsKilled'
  BY <1>0, <1>5
     DEF GroupIsKilled, PumpKnows, SessionTypes, PumpType, ChildType, OwnerType, ServiceRead,
         Chunk, InPump
<1>8. SameInput
  BY <1>0
     DEF SameInput, SessionTypes, ChildType, FlagsType, PumpType, OwnerType, HistoryType,
         ServiceRead, Chunk, InPump
<1>9. InputInOrder'
  BY <1>0, <1>8, InputFrame
<1>10. PipesInOrder' /\ ToldInOrder' /\ NothingReadIsLost'
  BY ReadKeepsOutput
<1>11. EndsInOrder'
  <2>1. CASE Published' = Append(Published, Chunk(Current, Head(pipe[Current])))
    BY <1>b, <1>c, <1>d, <2>1, ReadKeepsEnds DEF Chunk
  <2>2. CASE Published' = Published
    <3>1. SameEnds
      BY <1>b, <1>d, <2>2 DEF SameEnds
    <3>2. QED
      BY <3>1, EndsFrame DEF SessionInv
  <2>3. QED
    BY <1>0, <2>1, <2>2, ReadOutcome
<1>q. QED
  BY <1>5, <1>6, <1>7, <1>9, <1>10, <1>11 DEF SessionInv

LEMMA CountQueuedKeeps ==
    ASSUME SessionInv, CountQueued
    PROVE  SessionInv'
<1>0. SessionTypes /\ PumpKnows /\ GroupIsKilled /\ InputInOrder
  BY DEF SessionInv
<1>1. pump' \in PumpType
  <2>1. pump.budget - 1 \in Int
    BY <1>0 DEF SessionTypes, PumpType
  <2>2. QED
    BY <1>0, <2>1, ZenonT(30) DEF SessionTypes, CountQueued, PumpType, PumpLabels
<1>2. SessionTypes'
  BY <1>0, <1>1 DEF SessionTypes, CountQueued
<1>3. PumpKnows'
  BY <1>0, ChannelsAreOutputs, <1>2
     DEF PumpKnows, Current, SessionTypes, PumpType, FlagsType, CountQueued, InPump
<1>4. GroupIsKilled'
  BY <1>0, <1>2
     DEF GroupIsKilled, PumpKnows, SessionTypes, PumpType, ChildType, OwnerType, CountQueued,
         InPump
<1>5. SameInput
  BY <1>0
     DEF SameInput, SessionTypes, ChildType, FlagsType, PumpType, OwnerType, HistoryType,
         CountQueued, InPump
<1>6. InputInOrder'
  BY <1>0, <1>5, InputFrame
<1>7. SameOutput
  BY <1>0 DEF SameOutput, SessionTypes, Published, ChildType, HistoryType, CountQueued, InPump
<1>8. PipesInOrder' /\ ToldInOrder' /\ NothingReadIsLost'
  BY <1>7, OutputFrame DEF SessionInv
<1>9. SameEnds
  BY <1>0 DEF SameEnds, SessionTypes, Published, PumpType, HistoryType, CountQueued, InPump
<1>10. EndsInOrder'
  BY <1>9, EndsFrame DEF SessionInv
<1>q. QED
  BY <1>2, <1>3, <1>4, <1>6, <1>8, <1>10 DEF SessionInv

LEMMA ServiceEndKeeps ==
    ASSUME SessionInv, ServiceEnd
    PROVE  SessionInv'
<1>0. SessionTypes /\ PumpKnows /\ GroupIsKilled /\ InputInOrder
  BY DEF SessionInv
<1>1. pump' \in PumpType
  BY <1>0, ZenonT(30) DEF SessionTypes, ServiceEnd, PumpType, PumpLabels, InPump
<1>2. SessionTypes'
  BY <1>0, <1>1 DEF SessionTypes, ServiceEnd
<1>3. PumpKnows'
  BY <1>0, ChannelsAreOutputs, <1>2
     DEF PumpKnows, Current, SessionTypes, PumpType, FlagsType, ServiceEnd, InPump
<1>4. GroupIsKilled'
  BY <1>0, <1>2
     DEF GroupIsKilled, PumpKnows, SessionTypes, PumpType, ChildType, OwnerType, ServiceEnd,
         InPump
<1>5. SameInput
  BY <1>0
     DEF SameInput, SessionTypes, ChildType, FlagsType, PumpType, OwnerType, HistoryType,
         ServiceEnd, InPump
<1>6. InputInOrder'
  BY <1>0, <1>5, InputFrame
<1>7. SameOutput
  BY <1>0 DEF SameOutput, SessionTypes, Published, ChildType, HistoryType, ServiceEnd, InPump
<1>8. PipesInOrder' /\ ToldInOrder' /\ NothingReadIsLost'
  BY <1>7, OutputFrame DEF SessionInv
<1>9. SameEnds
  BY <1>0 DEF SameEnds, SessionTypes, Published, PumpType, HistoryType, ServiceEnd, InPump
<1>10. EndsInOrder'
  BY <1>9, EndsFrame DEF SessionInv
<1>q. QED
  BY <1>2, <1>3, <1>4, <1>6, <1>8, <1>10 DEF SessionInv

LEMMA SeeCancelKeeps ==
    ASSUME SessionInv, SeeCancel
    PROVE  SessionInv'
<1>0. SessionTypes /\ PumpKnows /\ GroupIsKilled /\ InputInOrder
  BY DEF SessionInv
<1>a. \/ pump' = [pump EXCEPT !.at = "top"]
      \/ /\ ~pump.cancel_seen
         /\ pump' = [StdinClosed EXCEPT !.at = "publish_cancel", !.cancel_seen = TRUE]
  BY DEF SeeCancel, PumpTo
<1>b. pump \in PumpType /\ pump.at = "cancel"
  BY <1>0 DEF SessionTypes, SeeCancel, InPump
<1>c. /\ pump'.looping = pump.looping /\ pump'.ready = pump.ready
      /\ pump'.deadline = pump.deadline /\ pump'.reaped = pump.reaped
      /\ pump'.broke = pump.broke
      /\ \/ /\ pump'.at = "top" /\ pump'.cancel_seen = pump.cancel_seen
            /\ pump'.in_open = pump.in_open /\ pump'.pending = pump.pending
         \/ /\ ~pump.cancel_seen /\ pump'.at = "publish_cancel" /\ pump'.cancel_seen
            /\ ~pump'.in_open /\ pump'.pending = <<>>
  <2>1. CASE pump' = [pump EXCEPT !.at = "top"]
    BY <1>b, <2>1 DEF PumpType
  <2>2. CASE /\ ~pump.cancel_seen
             /\ pump' = [StdinClosed EXCEPT !.at = "publish_cancel", !.cancel_seen = TRUE]
    BY <1>b, <2>2, ClosedTyped DEF PumpType
  <2>3. QED
    BY <1>a, <2>1, <2>2
<1>1. pump' \in PumpType
  <2>1. CASE pump' = [pump EXCEPT !.at = "top"]
    BY <1>b, <2>1 DEF PumpType, PumpLabels
  <2>2. CASE pump' = [StdinClosed EXCEPT !.at = "publish_cancel", !.cancel_seen = TRUE]
    BY <1>b, <2>2, ClosedTyped, ZenonT(30) DEF PumpType, PumpLabels
  <2>3. QED
    BY <1>a, <2>1, <2>2
<1>2. flags' \in FlagsType
  BY <1>0, ZenonT(30) DEF SessionTypes, SeeCancel, PumpTo, StdinClosed, FlagsType, InPump
<1>3. SessionTypes'
  BY <1>0, <1>1, <1>2 DEF SessionTypes, SeeCancel
<1>4. PumpKnows'
  <2>1. flags'.finished = flags.finished
    BY <1>0, ZenonT(30) DEF SeeCancel, SessionTypes, FlagsType
  <2>2. QED
    BY <1>0, <1>b, <1>c, <2>1 DEF PumpKnows
<1>5. GroupIsKilled'
  <2>1. child' = child /\ owner' = owner /\ pump.looping
    BY <1>0, <1>b DEF SeeCancel, PumpKnows
  <2>2. QED
    BY <1>0, <1>c, <2>1 DEF GroupIsKilled
<1>6. InputInOrder'
  <2>1. child' = child /\ owner' = owner /\ stdin_queue' = stdin_queue /\ history' = history
    BY DEF SeeCancel
  <2>2. SameInput \/ InputCloses
    BY <1>c, <2>1 DEF SameInput, InputCloses
  <2>3. QED
    BY <1>0, <2>2, InputFrame, ClosingKeepsInput
<1>7. SameOutput
  BY <1>0
     DEF SameOutput, SessionTypes, Published, ChildType, HistoryType, SeeCancel, PumpTo,
         StdinClosed, InPump
<1>8. PipesInOrder' /\ ToldInOrder' /\ NothingReadIsLost'
  BY <1>7, OutputFrame DEF SessionInv
<1>9. EndsInOrder'
  <2>1. Published' = Published
    BY DEF SeeCancel, Published
  <2>2. QED
    BY <1>b, <1>c, <2>1 DEF SessionInv, EndsInOrder
<1>q. QED
  BY <1>3, <1>4, <1>5, <1>6, <1>8, <1>9 DEF SessionInv

LEMMA PublishCancelKeeps ==
    ASSUME SessionInv, PublishCancel
    PROVE  SessionInv'
<1>0. SessionTypes /\ PumpKnows /\ GroupIsKilled /\ InputInOrder
  BY DEF SessionInv
<1>1. event_queue' \in Seq(Event)
  BY <1>0 DEF SessionTypes, PublishCancel, Plain, Event, InPump
<1>2. pump' \in PumpType
  BY <1>0, ZenonT(30) DEF SessionTypes, PublishCancel, Plain, PumpType, PumpLabels, InPump
<1>3. SessionTypes'
  BY <1>0, <1>1, <1>2 DEF SessionTypes, PublishCancel
<1>4. PumpKnows'
  BY <1>0, ChannelsAreOutputs, <1>3
     DEF PumpKnows, Current, SessionTypes, PumpType, FlagsType, PublishCancel, Plain, InPump
<1>5. GroupIsKilled'
  BY <1>0, <1>3
     DEF GroupIsKilled, PumpKnows, SessionTypes, PumpType, ChildType, OwnerType, PublishCancel,
         Plain, InPump
<1>6. SameInput
  BY <1>0
     DEF SameInput, SessionTypes, ChildType, FlagsType, PumpType, OwnerType, HistoryType,
         PublishCancel, Plain, InPump
<1>7. InputInOrder'
  BY <1>0, <1>6, InputFrame
<1>8. PipesInOrder' /\ ToldInOrder' /\ NothingReadIsLost'
  BY PlainKeepsOutput DEF PublishCancel
<1>9. EndsInOrder'
  <2>1. Published' = Append(Published, Plain("Cancelled"))
    BY PlainKeepsOutput DEF PublishCancel
  <2>2. /\ pump.at = "publish_cancel" /\ pump'.at = "top"
        /\ pump'.cancel_seen = pump.cancel_seen
    BY <1>0 DEF PublishCancel, InPump, SessionTypes, PumpType
  <2>3. QED
    BY <2>1, <2>2, CancelKeepsEnds
<1>q. QED
  BY <1>3, <1>4, <1>5, <1>7, <1>8, <1>9 DEF SessionInv

LEMMA DrainMoreKeeps ==
    ASSUME SessionInv, DrainMore
    PROVE  SessionInv'
<1>0. SessionTypes /\ PumpKnows /\ GroupIsKilled /\ InputInOrder
  BY DEF SessionInv
<1>1. pump' \in PumpType
  BY <1>0, ChannelsAreOutputs, SizesAreNatural, ZenonT(30)
     DEF SessionTypes, DrainMore, PumpType, PumpLabels, InPump
<1>2. SessionTypes'
  BY <1>0, <1>1 DEF SessionTypes, DrainMore
<1>3. PumpKnows'
  BY <1>0, ChannelsAreOutputs, <1>2
     DEF PumpKnows, Current, SessionTypes, PumpType, FlagsType, DrainMore, InPump
<1>4. GroupIsKilled'
  BY <1>0, <1>2
     DEF GroupIsKilled, PumpKnows, SessionTypes, PumpType, ChildType, OwnerType, DrainMore,
         InPump
<1>5. SameInput
  BY <1>0
     DEF SameInput, SessionTypes, ChildType, FlagsType, PumpType, OwnerType, HistoryType,
         DrainMore, InPump
<1>6. InputInOrder'
  BY <1>0, <1>5, InputFrame
<1>7. SameOutput
  BY <1>0 DEF SameOutput, SessionTypes, Published, ChildType, HistoryType, DrainMore, InPump
<1>8. PipesInOrder' /\ ToldInOrder' /\ NothingReadIsLost'
  BY <1>7, OutputFrame DEF SessionInv
<1>9. SameEnds
  BY <1>0 DEF SameEnds, SessionTypes, Published, PumpType, HistoryType, DrainMore, InPump
<1>10. EndsInOrder'
  BY <1>9, EndsFrame DEF SessionInv
<1>q. QED
  BY <1>2, <1>3, <1>4, <1>6, <1>8, <1>10 DEF SessionInv

LEMMA DrainEndsKeeps ==
    ASSUME SessionInv, DrainEnds
    PROVE  SessionInv'
<1>0. SessionTypes /\ PumpKnows /\ GroupIsKilled /\ InputInOrder
  BY DEF SessionInv
<1>a. PICK p : p = StdinClosed
  OBVIOUS
<1>b. /\ p \in PumpType /\ ~p.in_open /\ p.pending = <<>>
      /\ pump' = [p EXCEPT !.at = "publish_exit", !.open = {},
                           !.reaped = @ \/ child.leader = "zombie"]
  BY <1>0, <1>a, ClosedTyped DEF SessionTypes, DrainEnds
<1>c. ~pump'.in_open /\ pump'.pending = <<>>
  BY <1>b DEF PumpType
<1>1. pump' \in PumpType
  BY <1>b, ZenonT(30) DEF PumpType, PumpLabels
<1>2. child' \in ChildType
  BY <1>0, ZenonT(30) DEF SessionTypes, DrainEnds, StdinClosed, ChildType, InPump
<1>3. SessionTypes'
  BY <1>0, <1>1, <1>2 DEF SessionTypes, DrainEnds
<1>4. PumpKnows'
  BY <1>0, ChannelsAreOutputs, <1>3
     DEF PumpKnows, Current, SessionTypes, PumpType, FlagsType, DrainEnds, StdinClosed, InPump
<1>5. GroupIsKilled'
  BY <1>0, <1>3
     DEF GroupIsKilled, PumpKnows, SessionTypes, PumpType, ChildType, OwnerType, DrainEnds,
         StdinClosed, InPump
<1>6. InputInOrder'
  <2>1. InputCloses
    BY <1>0, <1>c DEF InputCloses, DrainEnds, SessionTypes, ChildType
  <2>2. QED
    BY <1>0, <2>1, ClosingKeepsInput
<1>7. SameOutput
  BY <1>0
     DEF SameOutput, SessionTypes, Published, ChildType, HistoryType, DrainEnds, StdinClosed,
         InPump
<1>8. PipesInOrder' /\ ToldInOrder' /\ NothingReadIsLost'
  BY <1>7, OutputFrame DEF SessionInv
<1>9. SameEnds
  BY <1>0
     DEF SameEnds, SessionTypes, Published, PumpType, HistoryType, DrainEnds, StdinClosed, InPump
<1>10. EndsInOrder'
  BY <1>9, EndsFrame DEF SessionInv
<1>q. QED
  BY <1>3, <1>4, <1>5, <1>6, <1>8, <1>10 DEF SessionInv

LEMMA QueueExitedKeeps ==
    ASSUME SessionInv, QueueExited
    PROVE  SessionInv'
<1>0. SessionTypes /\ PumpKnows /\ GroupIsKilled /\ InputInOrder
  BY DEF SessionInv
<1>1. event_queue' \in Seq(Event)
  BY <1>0 DEF SessionTypes, QueueExited, PublishExit, Plain, PumpTo, Event, InPump
<1>2. pump' \in PumpType
  BY <1>0, ZenonT(30)
     DEF SessionTypes, QueueExited, PublishExit, Plain, PumpTo, PumpType, PumpLabels, InPump
<1>3. SessionTypes'
  BY <1>0, <1>1, <1>2 DEF SessionTypes, QueueExited
<1>4. PumpKnows'
  BY <1>0, ChannelsAreOutputs, <1>3
     DEF PumpKnows, Current, SessionTypes, PumpType, FlagsType, QueueExited, PublishExit, Plain,
         PumpTo, InPump
<1>5. GroupIsKilled'
  BY <1>0, <1>3
     DEF GroupIsKilled, PumpKnows, SessionTypes, PumpType, ChildType, OwnerType, QueueExited,
         PublishExit, Plain, PumpTo, InPump
<1>6. SameInput
  BY <1>0
     DEF SameInput, SessionTypes, ChildType, FlagsType, PumpType, OwnerType, HistoryType,
         QueueExited, PublishExit, Plain, PumpTo, InPump
<1>7. InputInOrder'
  BY <1>0, <1>6, InputFrame
<1>8. PipesInOrder' /\ ToldInOrder' /\ NothingReadIsLost'
  BY PlainKeepsOutput DEF QueueExited, PublishExit
<1>9. EndsInOrder'
  <2>1. Published' = Append(Published, Plain("Exited"))
    BY PlainKeepsOutput DEF QueueExited, PublishExit
  <2>2. /\ pump.at = "publish_exit" /\ pump'.at = "finish"
        /\ pump'.cancel_seen = pump.cancel_seen
    BY <1>0 DEF QueueExited, InPump, PumpTo, SessionTypes, PumpType
  <2>3. QED
    BY <2>1, <2>2, ExitKeepsEnds
<1>q. QED
  BY <1>3, <1>4, <1>5, <1>7, <1>8, <1>9 DEF SessionInv

LEMMA FinishedKeeps ==
    ASSUME SessionInv, Finished
    PROVE  SessionInv'
<1>0. SessionTypes /\ PumpKnows /\ GroupIsKilled /\ InputInOrder
  BY DEF SessionInv
<1>1. flags' \in FlagsType
  BY <1>0, ZenonT(30) DEF SessionTypes, Finished, PumpTo, FlagsType, InPump
<1>2. pump' \in PumpType
  BY <1>0, ZenonT(30) DEF SessionTypes, Finished, PumpTo, PumpType, PumpLabels, InPump
<1>3. SessionTypes'
  BY <1>0, <1>1, <1>2 DEF SessionTypes, Finished
<1>4. PumpKnows'
  BY <1>0, ChannelsAreOutputs, <1>3
     DEF PumpKnows, Current, SessionTypes, PumpType, FlagsType, Finished, PumpTo, InPump
<1>5. GroupIsKilled'
  BY <1>0, <1>3
     DEF GroupIsKilled, PumpKnows, SessionTypes, PumpType, ChildType, OwnerType, Finished, PumpTo,
         InPump
<1>6. SameInput
  BY <1>0
     DEF SameInput, SessionTypes, ChildType, FlagsType, PumpType, OwnerType, HistoryType,
         Finished, PumpTo, InPump
<1>7. InputInOrder'
  BY <1>0, <1>6, InputFrame
<1>8. SameOutput
  BY <1>0
     DEF SameOutput, SessionTypes, Published, ChildType, HistoryType, Finished, PumpTo, InPump
<1>9. PipesInOrder' /\ ToldInOrder' /\ NothingReadIsLost'
  BY <1>8, OutputFrame DEF SessionInv
<1>10. SameEnds
  BY <1>0 DEF SameEnds, SessionTypes, Published, PumpType, HistoryType, Finished, PumpTo, InPump
<1>11. EndsInOrder'
  BY <1>10, EndsFrame DEF SessionInv
<1>q. QED
  BY <1>3, <1>4, <1>5, <1>7, <1>9, <1>11 DEF SessionInv

LEMMA PushStdinCheckKeeps ==
    ASSUME NEW size \in BlockSizes, SessionInv, PushStdinCheck(size)
    PROVE  SessionInv'
<1>0. SessionTypes /\ PumpKnows /\ GroupIsKilled /\ InputInOrder
  BY DEF SessionInv
<1>1. owner' \in OwnerType
  BY <1>0, ChannelsAreOutputs, SizesAreNatural
     DEF SessionTypes, PushStdinCheck, NextBlock, OwnerType
<1>2. SessionTypes'
  BY <1>0, <1>1 DEF SessionTypes, PushStdinCheck
<1>3. PumpKnows'
  BY <1>0, ChannelsAreOutputs, <1>2
     DEF PumpKnows, Current, SessionTypes, PumpType, FlagsType, PushStdinCheck, NextBlock
<1>4. GroupIsKilled'
  BY <1>0, <1>2
     DEF GroupIsKilled, PumpKnows, SessionTypes, PumpType, ChildType, OwnerType, PushStdinCheck,
         NextBlock
<1>5. InputInOrder'
  <2>1. /\ size \in Nat \ {0} /\ owner'.at = "push"
        /\ owner'.hand = [i \in 1..size |-> Len(history.accepted) + i]
        /\ UNCHANGED <<child, pump, stdin_queue, history>>
    BY SizesAreNatural DEF PushStdinCheck, NextBlock
  <2>2. Run(owner'.hand, Len(history.accepted))
    BY <2>1 DEF Run
  <2>3. owner'.hand # <<>>
    <3>1. 1 \in 1..size /\ DOMAIN owner'.hand = 1..size
      BY <2>1
    <3>2. DOMAIN <<>> = {}
      OBVIOUS
    <3>3. QED
      BY <3>1, <3>2, Zenon
  <2>4. QED
    BY <1>0, <2>1, <2>2, <2>3, ZenonT(30) DEF InputInOrder, QueueFollows, Run
<1>6. SameOutput
  BY <1>0
     DEF SameOutput, SessionTypes, Published, ChildType, HistoryType, PushStdinCheck, NextBlock
<1>7. PipesInOrder' /\ ToldInOrder' /\ NothingReadIsLost'
  BY <1>6, OutputFrame DEF SessionInv
<1>8. SameEnds
  BY <1>0 DEF SameEnds, SessionTypes, Published, PumpType, HistoryType, PushStdinCheck, NextBlock
<1>9. EndsInOrder'
  BY <1>8, EndsFrame DEF SessionInv
<1>q. QED
  BY <1>2, <1>3, <1>4, <1>5, <1>7, <1>9 DEF SessionInv

LEMMA PushStdinKeeps ==
    ASSUME SessionInv, PushStdin
    PROVE  SessionInv'
<1>0. SessionTypes /\ PumpKnows /\ GroupIsKilled /\ InputInOrder
  BY DEF SessionInv
<1>a. stdin_queue' \in {stdin_queue, Append(stdin_queue, owner.hand)}
  BY DEF PushStdin, Enqueue
<1>b. /\ owner.hand \in Seq(Nat) /\ stdin_queue \in Seq(Seq(Nat))
      /\ history \in HistoryType /\ history.accepted \in Seq(Nat)
  BY <1>0 DEF SessionTypes, OwnerType, HistoryType
<1>c. Append(stdin_queue, owner.hand) \in Seq(Seq(Nat))
      /\ Append(stdin_queue, owner.hand) # stdin_queue
  BY <1>b, AppendedBlock
<1>d. \/ stdin_queue' = stdin_queue /\ history' = history
      \/ /\ stdin_queue' = Append(stdin_queue, owner.hand)
         /\ history' = [history EXCEPT !.accepted = @ \o owner.hand]
  BY <1>a, <1>c, ZenonT(30) DEF PushStdin
<1>1. stdin_queue' \in Seq(Seq(Nat))
  BY <1>a, <1>b, <1>c
<1>2. history' \in HistoryType
  <2>1. history.accepted \o owner.hand \in Seq(Nat)
    BY <1>b
  <2>2. QED
    BY <1>b, <1>d, <2>1, ZenonT(30) DEF HistoryType
<1>3. owner' \in OwnerType
  BY <1>0 DEF SessionTypes, PushStdin, Enqueue, OwnerType
<1>4. SessionTypes'
  BY <1>0, <1>1, <1>2, <1>3 DEF SessionTypes, PushStdin
<1>5. PumpKnows'
  BY <1>0, ChannelsAreOutputs, <1>4
     DEF PumpKnows, Current, SessionTypes, PumpType, FlagsType, PushStdin, Enqueue
<1>6. GroupIsKilled'
  BY <1>0, <1>4
     DEF GroupIsKilled, PumpKnows, SessionTypes, PumpType, ChildType, OwnerType, PushStdin,
         Enqueue
<1>7. InputInOrder'
  <2>1. owner.at = "push" /\ owner'.at = "idle" /\ UNCHANGED <<child, pump>>
    BY DEF PushStdin
  <2>2. CASE stdin_queue' = stdin_queue /\ history' = history
    <3>1. SameInput
      BY <2>1, <2>2 DEF SameInput
    <3>2. QED
      BY <1>0, <3>1, InputFrame
  <2>3. CASE /\ stdin_queue' = Append(stdin_queue, owner.hand)
             /\ history' = [history EXCEPT !.accepted = @ \o owner.hand]
    <3>1. history'.accepted = history.accepted \o owner.hand
      BY <1>b, <2>3 DEF HistoryType
    <3>2. QED
      BY <1>0, <2>1, <2>3, <3>1, PushKeepsInput, ZenonT(30)
  <2>4. QED
    BY <1>d, <2>2, <2>3, ZenonT(30)
<1>8. SameOutput
  BY <1>b, <1>d DEF SameOutput, Published, PushStdin, HistoryType
<1>9. PipesInOrder' /\ ToldInOrder' /\ NothingReadIsLost'
  BY <1>8, OutputFrame DEF SessionInv
<1>10. SameEnds
  BY <1>b, <1>d DEF SameEnds, Published, PushStdin, HistoryType
<1>11. EndsInOrder'
  BY <1>10, EndsFrame DEF SessionInv
<1>q. QED
  BY <1>4, <1>5, <1>6, <1>7, <1>9, <1>11 DEF SessionInv

LEMMA CloseStdinKeeps ==
    ASSUME SessionInv, CloseStdin
    PROVE  SessionInv'
<1>0. SessionTypes /\ PumpKnows /\ GroupIsKilled /\ InputInOrder
  BY DEF SessionInv
<1>1. flags' \in FlagsType
  BY <1>0, ZenonT(30) DEF SessionTypes, CloseStdin, FlagsType
<1>2. SessionTypes'
  BY <1>0, <1>1 DEF SessionTypes, CloseStdin
<1>3. PumpKnows'
  BY <1>0, ChannelsAreOutputs, <1>2
     DEF PumpKnows, Current, SessionTypes, PumpType, FlagsType, CloseStdin
<1>4. GroupIsKilled'
  BY <1>0, <1>2
     DEF GroupIsKilled, PumpKnows, SessionTypes, PumpType, ChildType, OwnerType, CloseStdin
<1>5. SameInput
  BY <1>0
     DEF SameInput, SessionTypes, ChildType, FlagsType, PumpType, OwnerType, HistoryType,
         CloseStdin
<1>6. InputInOrder'
  BY <1>0, <1>5, InputFrame
<1>7. SameOutput
  BY <1>0 DEF SameOutput, SessionTypes, Published, ChildType, HistoryType, CloseStdin
<1>8. PipesInOrder' /\ ToldInOrder' /\ NothingReadIsLost'
  BY <1>7, OutputFrame DEF SessionInv
<1>9. SameEnds
  BY <1>0 DEF SameEnds, SessionTypes, Published, PumpType, HistoryType, CloseStdin
<1>10. EndsInOrder'
  BY <1>9, EndsFrame DEF SessionInv
<1>q. QED
  BY <1>2, <1>3, <1>4, <1>6, <1>8, <1>10 DEF SessionInv

LEMMA CancelSessionKeeps ==
    ASSUME SessionInv, CancelSession
    PROVE  SessionInv'
<1>0. SessionTypes /\ PumpKnows /\ GroupIsKilled /\ InputInOrder
  BY DEF SessionInv
<1>1. flags' \in FlagsType
  BY <1>0, ZenonT(30) DEF SessionTypes, CancelSession, FlagsType
<1>2. SessionTypes'
  BY <1>0, <1>1 DEF SessionTypes, CancelSession
<1>3. PumpKnows'
  BY <1>0, ChannelsAreOutputs, <1>2
     DEF PumpKnows, Current, SessionTypes, PumpType, FlagsType, CancelSession
<1>4. GroupIsKilled'
  BY <1>0, <1>2
     DEF GroupIsKilled, PumpKnows, SessionTypes, PumpType, ChildType, OwnerType, CancelSession
<1>5. SameInput
  BY <1>0
     DEF SameInput, SessionTypes, ChildType, FlagsType, PumpType, OwnerType, HistoryType,
         CancelSession
<1>6. InputInOrder'
  BY <1>0, <1>5, InputFrame
<1>7. SameOutput
  BY <1>0 DEF SameOutput, SessionTypes, Published, ChildType, HistoryType, CancelSession
<1>8. PipesInOrder' /\ ToldInOrder' /\ NothingReadIsLost'
  BY <1>7, OutputFrame DEF SessionInv
<1>9. SameEnds
  BY <1>0 DEF SameEnds, SessionTypes, Published, PumpType, HistoryType, CancelSession
<1>10. EndsInOrder'
  BY <1>9, EndsFrame DEF SessionInv
<1>q. QED
  BY <1>2, <1>3, <1>4, <1>6, <1>8, <1>10 DEF SessionInv

LEMMA PopEventKeeps ==
    ASSUME SessionInv, PopEvent
    PROVE  SessionInv'
<1>0. SessionTypes /\ PumpKnows /\ GroupIsKilled /\ InputInOrder
  BY DEF SessionInv
<1>a. /\ event_queue \in Seq(Event) /\ history \in HistoryType
      /\ history.delivered \in Seq(Event)
  BY <1>0 DEF SessionTypes, HistoryType
<1>b. \/ event_queue' = event_queue /\ history' = history
      \/ /\ event_queue # <<>> /\ event_queue' = Tail(event_queue)
         /\ history' = [history EXCEPT !.delivered = Append(@, Head(event_queue))]
  BY DEF PopEvent
<1>c. event_queue # <<>> => /\ Tail(event_queue) \in Seq(Event)
                            /\ Append(history.delivered, Head(event_queue)) \in Seq(Event)
  BY <1>a
<1>d. Published' = Published /\ history'.sunk = history.sunk
  <2>1. CASE event_queue' = event_queue /\ history' = history
    BY <2>1 DEF Published
  <2>2. CASE /\ event_queue # <<>> /\ event_queue' = Tail(event_queue)
             /\ history' = [history EXCEPT !.delivered = Append(@, Head(event_queue))]
    <3>1. /\ history'.delivered = Append(history.delivered, Head(event_queue))
          /\ history'.sunk = history.sunk
      BY <1>a, <2>2 DEF HistoryType
    <3>2. QED
      BY <1>a, <2>2, <3>1, PoppingKeepsOrder DEF Published
  <2>3. QED
    BY <1>b, <2>1, <2>2
<1>1. event_queue' \in Seq(Event)
  BY <1>a, <1>b, <1>c, ZenonT(30)
<1>2. history' \in HistoryType
  BY <1>a, <1>b, <1>c, ZenonT(30) DEF HistoryType
<1>3. owner' \in OwnerType
  BY <1>0, ZenonT(30) DEF SessionTypes, PopEvent, IsOutput, OwnerType
<1>4. SessionTypes'
  BY <1>0, <1>1, <1>2, <1>3 DEF SessionTypes, PopEvent
<1>5. PumpKnows'
  BY <1>0, ChannelsAreOutputs, <1>4
     DEF PumpKnows, Current, SessionTypes, PumpType, FlagsType, PopEvent, IsOutput
<1>6. GroupIsKilled'
  BY <1>0, <1>4
     DEF GroupIsKilled, PumpKnows, SessionTypes, PumpType, ChildType, OwnerType, PopEvent,
         IsOutput
<1>7. SameInput
  BY <1>0
     DEF SameInput, SessionTypes, ChildType, FlagsType, PumpType, OwnerType, HistoryType,
         PopEvent, IsOutput
<1>8. InputInOrder'
  BY <1>0, <1>7, InputFrame
<1>9. SameOutput
  BY <1>d DEF SameOutput, PopEvent
<1>10. PipesInOrder' /\ ToldInOrder' /\ NothingReadIsLost'
  BY <1>9, OutputFrame DEF SessionInv
<1>11. SameEnds
  BY <1>d DEF SameEnds, PopEvent
<1>12. EndsInOrder'
  BY <1>11, EndsFrame DEF SessionInv
<1>q. QED
  BY <1>4, <1>5, <1>6, <1>8, <1>10, <1>12 DEF SessionInv

LEMMA ReleaseBytesKeeps ==
    ASSUME SessionInv, ReleaseBytes
    PROVE  SessionInv'
<1>0. SessionTypes /\ PumpKnows /\ GroupIsKilled /\ InputInOrder
  BY DEF SessionInv
<1>1. owner' \in OwnerType
  BY <1>0, ZenonT(30) DEF SessionTypes, ReleaseBytes, OwnerType
<1>2. SessionTypes'
  BY <1>0, <1>1 DEF SessionTypes, ReleaseBytes
<1>3. PumpKnows'
  BY <1>0, ChannelsAreOutputs, <1>2
     DEF PumpKnows, Current, SessionTypes, PumpType, FlagsType, ReleaseBytes
<1>4. GroupIsKilled'
  BY <1>0, <1>2
     DEF GroupIsKilled, PumpKnows, SessionTypes, PumpType, ChildType, OwnerType, ReleaseBytes
<1>5. SameInput
  BY <1>0
     DEF SameInput, SessionTypes, ChildType, FlagsType, PumpType, OwnerType, HistoryType,
         ReleaseBytes
<1>6. InputInOrder'
  BY <1>0, <1>5, InputFrame
<1>7. SameOutput
  BY <1>0 DEF SameOutput, SessionTypes, Published, ChildType, HistoryType, ReleaseBytes
<1>8. PipesInOrder' /\ ToldInOrder' /\ NothingReadIsLost'
  BY <1>7, OutputFrame DEF SessionInv
<1>9. SameEnds
  BY <1>0 DEF SameEnds, SessionTypes, Published, PumpType, HistoryType, ReleaseBytes
<1>10. EndsInOrder'
  BY <1>9, EndsFrame DEF SessionInv
<1>q. QED
  BY <1>2, <1>3, <1>4, <1>6, <1>8, <1>10 DEF SessionInv

LEMMA NextEventCheckKeeps ==
    ASSUME SessionInv, NextEventCheck
    PROVE  SessionInv'
<1>0. SessionTypes /\ PumpKnows /\ GroupIsKilled /\ InputInOrder
  BY DEF SessionInv
<1>1. owner' \in OwnerType
  BY <1>0, ZenonT(30) DEF SessionTypes, NextEventCheck, OwnerType
<1>2. SessionTypes'
  BY <1>0, <1>1 DEF SessionTypes, NextEventCheck
<1>3. PumpKnows'
  BY <1>0, ChannelsAreOutputs, <1>2
     DEF PumpKnows, Current, SessionTypes, PumpType, FlagsType, NextEventCheck
<1>4. GroupIsKilled'
  BY <1>0, <1>2
     DEF GroupIsKilled, PumpKnows, SessionTypes, PumpType, ChildType, OwnerType, NextEventCheck
<1>5. SameInput
  BY <1>0
     DEF SameInput, SessionTypes, ChildType, FlagsType, PumpType, OwnerType, HistoryType,
         NextEventCheck
<1>6. InputInOrder'
  BY <1>0, <1>5, InputFrame
<1>7. SameOutput
  BY <1>0 DEF SameOutput, SessionTypes, Published, ChildType, HistoryType, NextEventCheck
<1>8. PipesInOrder' /\ ToldInOrder' /\ NothingReadIsLost'
  BY <1>7, OutputFrame DEF SessionInv
<1>9. SameEnds
  BY <1>0 DEF SameEnds, SessionTypes, Published, PumpType, HistoryType, NextEventCheck
<1>10. EndsInOrder'
  BY <1>9, EndsFrame DEF SessionInv
<1>q. QED
  BY <1>2, <1>3, <1>4, <1>6, <1>8, <1>10 DEF SessionInv

LEMMA ShutdownSessionKeeps ==
    ASSUME SessionInv, ShutdownSession
    PROVE  SessionInv'
<1>0. SessionTypes /\ PumpKnows /\ GroupIsKilled /\ InputInOrder
  BY DEF SessionInv
<1>1. flags' \in FlagsType
  BY <1>0, ZenonT(30) DEF SessionTypes, ShutdownSession, FlagsType
<1>2. owner' \in OwnerType
  BY <1>0, ZenonT(30) DEF SessionTypes, ShutdownSession, OwnerType
<1>3. SessionTypes'
  BY <1>0, <1>1, <1>2 DEF SessionTypes, ShutdownSession
<1>4. PumpKnows'
  BY <1>0, ChannelsAreOutputs, <1>3
     DEF PumpKnows, Current, SessionTypes, PumpType, FlagsType, ShutdownSession
<1>5. GroupIsKilled'
  BY <1>0, <1>3
     DEF GroupIsKilled, PumpKnows, SessionTypes, PumpType, ChildType, OwnerType, ShutdownSession
<1>6. SameInput
  BY <1>0
     DEF SameInput, SessionTypes, ChildType, FlagsType, PumpType, OwnerType, HistoryType,
         ShutdownSession
<1>7. InputInOrder'
  BY <1>0, <1>6, InputFrame
<1>8. SameOutput
  BY <1>0 DEF SameOutput, SessionTypes, Published, ChildType, HistoryType, ShutdownSession
<1>9. PipesInOrder' /\ ToldInOrder' /\ NothingReadIsLost'
  BY <1>8, OutputFrame DEF SessionInv
<1>10. SameEnds
  BY <1>0 DEF SameEnds, SessionTypes, Published, PumpType, HistoryType, ShutdownSession
<1>11. EndsInOrder'
  BY <1>10, EndsFrame DEF SessionInv
<1>q. QED
  BY <1>3, <1>4, <1>5, <1>7, <1>9, <1>11 DEF SessionInv

LEMMA ShutdownJoinKeeps ==
    ASSUME SessionInv, ShutdownJoin
    PROVE  SessionInv'
<1>0. SessionTypes /\ PumpKnows /\ GroupIsKilled /\ InputInOrder
  BY DEF SessionInv
<1>1. owner' \in OwnerType
  BY <1>0, ZenonT(30) DEF SessionTypes, ShutdownJoin, Joined, OwnerType, InPump
<1>2. child' \in ChildType
  BY <1>0, ZenonT(30) DEF SessionTypes, ShutdownJoin, Joined, ChildType, InPump
<1>3. SessionTypes'
  BY <1>0, <1>1, <1>2 DEF SessionTypes, ShutdownJoin
<1>4. PumpKnows'
  BY <1>0, ChannelsAreOutputs, <1>3
     DEF PumpKnows, Current, SessionTypes, PumpType, FlagsType, ShutdownJoin, Joined, InPump
<1>5. GroupIsKilled'
  BY <1>0, <1>3
     DEF GroupIsKilled, PumpKnows, SessionTypes, PumpType, ChildType, OwnerType, ShutdownJoin,
         Joined, InPump
<1>6. SameInput
  BY <1>0
     DEF SameInput, SessionTypes, ChildType, FlagsType, PumpType, OwnerType, HistoryType,
         ShutdownJoin, Joined, InPump
<1>7. InputInOrder'
  BY <1>0, <1>6, InputFrame
<1>8. SameOutput
  BY <1>0
     DEF SameOutput, SessionTypes, Published, ChildType, HistoryType, ShutdownJoin, Joined,
         InPump
<1>9. PipesInOrder' /\ ToldInOrder' /\ NothingReadIsLost'
  BY <1>8, OutputFrame DEF SessionInv
<1>10. SameEnds
  BY <1>0
     DEF SameEnds, SessionTypes, Published, PumpType, HistoryType, ShutdownJoin, Joined, InPump
<1>11. EndsInOrder'
  BY <1>10, EndsFrame DEF SessionInv
<1>q. QED
  BY <1>3, <1>4, <1>5, <1>7, <1>9, <1>11 DEF SessionInv

LEMMA ShutdownReapKeeps ==
    ASSUME SessionInv, ShutdownReap
    PROVE  SessionInv'
<1>0. SessionTypes /\ PumpKnows /\ GroupIsKilled /\ InputInOrder
  BY DEF SessionInv
<1>1. child' \in ChildType
  BY <1>0, ZenonT(30) DEF SessionTypes, ShutdownReap, ChildType
<1>2. owner' \in OwnerType
  BY <1>0, ZenonT(30) DEF SessionTypes, ShutdownReap, OwnerType
<1>3. SessionTypes'
  BY <1>0, <1>1, <1>2 DEF SessionTypes, ShutdownReap
<1>4. PumpKnows'
  BY <1>0, ChannelsAreOutputs, <1>3
     DEF PumpKnows, Current, SessionTypes, PumpType, FlagsType, ShutdownReap
<1>5. GroupIsKilled'
  BY <1>0, <1>3
     DEF GroupIsKilled, PumpKnows, SessionTypes, PumpType, ChildType, OwnerType, ShutdownReap
<1>6. SameInput
  BY <1>0
     DEF SameInput, SessionTypes, ChildType, FlagsType, PumpType, OwnerType, HistoryType,
         ShutdownReap
<1>7. InputInOrder'
  BY <1>0, <1>6, InputFrame
<1>8. SameOutput
  BY <1>0 DEF SameOutput, SessionTypes, Published, ChildType, HistoryType, ShutdownReap
<1>9. PipesInOrder' /\ ToldInOrder' /\ NothingReadIsLost'
  BY <1>8, OutputFrame DEF SessionInv
<1>10. SameEnds
  BY <1>0 DEF SameEnds, SessionTypes, Published, PumpType, HistoryType, ShutdownReap
<1>11. EndsInOrder'
  BY <1>10, EndsFrame DEF SessionInv
<1>q. QED
  BY <1>3, <1>4, <1>5, <1>7, <1>9, <1>11 DEF SessionInv

LEMMA ChildPrintsKeeps ==
    ASSUME NEW c \in Channels, SessionInv, ChildPrints(c)
    PROVE  SessionInv'
<1>0. SessionTypes /\ PumpKnows /\ GroupIsKilled /\ InputInOrder
  BY DEF SessionInv
<1>a. child.printed + 1 \in Nat /\ pipe \in [Channels -> Seq(Nat)]
  BY <1>0 DEF SessionTypes, ChildType
<1>b. Append(pipe[c], child.printed + 1) \in Seq(Nat)
  BY <1>a
<1>1. child' \in ChildType
  BY <1>0, <1>a, ZenonT(30) DEF SessionTypes, ChildPrints, ChildType
<1>2. pipe' \in [Channels -> Seq(Nat)]
  BY <1>a, <1>b DEF ChildPrints
<1>3. SessionTypes'
  BY <1>0, <1>1, <1>2 DEF SessionTypes, ChildPrints
<1>4. PumpKnows'
  BY <1>0, ChannelsAreOutputs, <1>3
     DEF PumpKnows, Current, SessionTypes, PumpType, FlagsType, ChildPrints
<1>5. GroupIsKilled'
  BY <1>0, <1>3
     DEF GroupIsKilled, PumpKnows, SessionTypes, PumpType, ChildType, OwnerType, ChildPrints
<1>6. SameInput
  BY <1>0
     DEF SameInput, SessionTypes, ChildType, FlagsType, PumpType, OwnerType, HistoryType,
         ChildPrints
<1>7. InputInOrder'
  BY <1>0, <1>6, InputFrame
<1>8. PipesInOrder' /\ ToldInOrder' /\ NothingReadIsLost'
  BY PrintKeepsOutput
<1>9. SameEnds
  BY <1>0 DEF SameEnds, SessionTypes, Published, PumpType, HistoryType, ChildPrints
<1>10. EndsInOrder'
  BY <1>9, EndsFrame DEF SessionInv
<1>q. QED
  BY <1>3, <1>4, <1>5, <1>7, <1>8, <1>10 DEF SessionInv

LEMMA LeaderEndsKeeps ==
    ASSUME SessionInv, LeaderEnds
    PROVE  SessionInv'
<1>0. SessionTypes /\ PumpKnows /\ GroupIsKilled /\ InputInOrder
  BY DEF SessionInv
<1>1. child' \in ChildType
  BY <1>0, ZenonT(30) DEF SessionTypes, LeaderEnds, ChildType
<1>2. SessionTypes'
  BY <1>0, <1>1 DEF SessionTypes, LeaderEnds
<1>3. PumpKnows'
  BY <1>0, ChannelsAreOutputs, <1>2
     DEF PumpKnows, Current, SessionTypes, PumpType, FlagsType, LeaderEnds
<1>4. GroupIsKilled'
  BY <1>0, <1>2
     DEF GroupIsKilled, PumpKnows, SessionTypes, PumpType, ChildType, OwnerType, LeaderEnds
<1>5. SameInput
  BY <1>0
     DEF SameInput, SessionTypes, ChildType, FlagsType, PumpType, OwnerType, HistoryType,
         LeaderEnds
<1>6. InputInOrder'
  BY <1>0, <1>5, InputFrame
<1>7. SameOutput
  BY <1>0 DEF SameOutput, SessionTypes, Published, ChildType, HistoryType, LeaderEnds
<1>8. PipesInOrder' /\ ToldInOrder' /\ NothingReadIsLost'
  BY <1>7, OutputFrame DEF SessionInv
<1>9. SameEnds
  BY <1>0 DEF SameEnds, SessionTypes, Published, PumpType, HistoryType, LeaderEnds
<1>10. EndsInOrder'
  BY <1>9, EndsFrame DEF SessionInv
<1>q. QED
  BY <1>2, <1>3, <1>4, <1>6, <1>8, <1>10 DEF SessionInv

LEMMA HelperEndsKeeps ==
    ASSUME SessionInv, HelperEnds
    PROVE  SessionInv'
<1>0. SessionTypes /\ PumpKnows /\ GroupIsKilled /\ InputInOrder
  BY DEF SessionInv
<1>1. child' \in ChildType
  BY <1>0, ZenonT(30) DEF SessionTypes, HelperEnds, ChildType
<1>2. SessionTypes'
  BY <1>0, <1>1 DEF SessionTypes, HelperEnds
<1>3. PumpKnows'
  BY <1>0, ChannelsAreOutputs, <1>2
     DEF PumpKnows, Current, SessionTypes, PumpType, FlagsType, HelperEnds
<1>4. GroupIsKilled'
  BY <1>0, <1>2
     DEF GroupIsKilled, PumpKnows, SessionTypes, PumpType, ChildType, OwnerType, HelperEnds
<1>5. SameInput
  BY <1>0
     DEF SameInput, SessionTypes, ChildType, FlagsType, PumpType, OwnerType, HistoryType,
         HelperEnds
<1>6. InputInOrder'
  BY <1>0, <1>5, InputFrame
<1>7. SameOutput
  BY <1>0 DEF SameOutput, SessionTypes, Published, ChildType, HistoryType, HelperEnds
<1>8. PipesInOrder' /\ ToldInOrder' /\ NothingReadIsLost'
  BY <1>7, OutputFrame DEF SessionInv
<1>9. SameEnds
  BY <1>0 DEF SameEnds, SessionTypes, Published, PumpType, HistoryType, HelperEnds
<1>10. EndsInOrder'
  BY <1>9, EndsFrame DEF SessionInv
<1>q. QED
  BY <1>2, <1>3, <1>4, <1>6, <1>8, <1>10 DEF SessionInv

LEMMA SessionInvStep ==
    ASSUME SessionInv, SessionNext \/ UNCHANGED sessionVars
    PROVE  SessionInv'
<1>1. CASE Pump
  BY <1>1, ReapKeeps, KeepRunningKeeps, DeadlinePassedKeeps, FeedKeeps, FeedEofKeeps, PollKeeps,
     PollFailsKeeps, WriteStdinKeeps, StdinBreaksKeeps, StdinWaitsKeeps, ServiceBeginKeeps,
     ServiceReadKeeps, CountQueuedKeeps, ServiceEndKeeps, SeeCancelKeeps, PublishCancelKeeps,
     DrainMoreKeeps, DrainEndsKeeps, QueueExitedKeeps, FinishedKeeps DEF Pump
<1>2. CASE Owner
  BY <1>2, PushStdinCheckKeeps, PushStdinKeeps, CloseStdinKeeps, CancelSessionKeeps,
     PopEventKeeps, ReleaseBytesKeeps, NextEventCheckKeeps, ShutdownSessionKeeps,
     ShutdownJoinKeeps, ShutdownReapKeeps DEF Owner
<1>3. CASE Child
  BY <1>3, ChildPrintsKeeps, LeaderEndsKeeps, HelperEndsKeeps DEF Child
<1>4. CASE UNCHANGED sessionVars
  <2>1. /\ child' = child /\ pipe' = pipe /\ flags' = flags /\ stdin_queue' = stdin_queue
        /\ event_queue' = event_queue /\ pump' = pump /\ owner' = owner /\ history' = history
    BY <1>4 DEF sessionVars
  <2>2. SessionTypes' /\ PumpKnows' /\ GroupIsKilled'
    BY <2>1 DEF SessionInv, SessionTypes, PumpKnows, GroupIsKilled, Current
  <2>3. SameInput /\ SameOutput /\ SameEnds
    BY <2>1 DEF SameInput, SameOutput, SameEnds, Published
  <2>4. QED
    BY <2>2, <2>3, InputFrame, OutputFrame, EndsFrame DEF SessionInv
<1>5. QED
  BY <1>1, <1>2, <1>3, <1>4 DEF SessionNext

LEMMA SessionInvHolds == SessionSpec => []SessionInv
BY SessionInvInit, SessionInvStep, PTL DEF SessionSpec

LEMMA NothingIsWritten ==
    ASSUME SessionInv, SessionNext, NEW i \in DOMAIN Published, IsCancelled(Published[i])
    PROVE  child'.received = child.received
<1>1. pump.pending = <<>>
  BY DEF SessionInv, EndsInOrder, PumpKnows, InputInOrder
<1>2. \A k \in 1..Len(pump.pending) : FALSE
  BY <1>1
<1>3. child \in ChildType
  BY DEF SessionInv, SessionTypes
<1>4. CASE Pump
  <2>1. child' = child \/ Reap \/ DeadlinePassed \/ DrainEnds
    BY <1>2, <1>4, ZenonT(30)
       DEF Pump, KeepRunning, Feed, FeedEof, Poll, PollFails, StdinBreaks, StdinWaits,
           ServiceBegin, ServiceRead, CountQueued, ServiceEnd, SeeCancel, PublishCancel,
           DrainMore, QueueExited, Finished
  <2>2. QED
    BY <1>3, <2>1, ZenonT(30) DEF ChildType, Reap, DeadlinePassed, DrainEnds
<1>5. CASE Owner
  BY <1>3, <1>5, ZenonT(30)
     DEF ChildType, Owner, PushStdinCheck, PushStdin, CloseStdin, CancelSession, PopEvent,
         ReleaseBytes, NextEventCheck, ShutdownSession, ShutdownJoin, ShutdownReap
<1>6. CASE Child
  BY <1>3, <1>6 DEF ChildType, Child, ChildPrints, LeaderEnds, HelperEnds
<1>7. QED
  BY <1>4, <1>5, <1>6 DEF SessionNext

(* The child reads what the owner pushed, in order and without a gap,      *)
(* however partial writes split it; the owner is told what was read from   *)
(* the child in the order it was printed, Cancelled once and Exited last;  *)
(* and no chunk that was read is dropped.  For any channels, any size of   *)
(* pipe, queue and budget and any number of blocks and chunks.             *)
THEOREM SessionStreams == SessionSpec => []StreamsInOrder
BY SessionInvHolds, StreamsFromInv, PTL

(* A cancelled session that finishes has sent SIGKILL to the whole group   *)
(* unless a poll() failed, a session that is gone has reaped a child that  *)
(* can be killed, and once Cancelled was published nothing more is written *)
(* to the child; however owner, pump and child interleave.                 *)
THEOREM CancelledSessions == SessionSpec => CancelledIsGone
<1>1. SessionSpec
        => [](/\ flags.finished /\ pump.cancel_seen /\ ~pump.broke => child.kill
              /\ owner.at = "gone" /\ ~child.stuck => child.leader = "reaped")
  BY SessionInvHolds, NothingSurvives, PTL
<1>2. SessionSpec
        => [][(\E i \in DOMAIN Published : IsCancelled(Published[i]))
                => child'.received = child.received]_sessionVars
  <2>1. SessionInv /\ [SessionNext]_sessionVars
          => [(\E i \in DOMAIN Published : IsCancelled(Published[i]))
                => child'.received = child.received]_sessionVars
    BY NothingIsWritten
  <2>2. QED
    BY <2>1, SessionInvHolds, PTL DEF SessionSpec
<1>3. QED
  BY <1>1, <1>2 DEF CancelledIsGone
=============================================================================
