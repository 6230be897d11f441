------------------------- MODULE NotificationBridge -------------------------
(***************************************************************************)
(* The daemon's consumer of helper stderr (common/notify/                  *)
(* notification_bridge.cpp): bytes of several helpers arrive in chunks of  *)
(* any size, complete lines become notifications, and a notification       *)
(* repeated inside a sliding window is suppressed.  A helper ends with a   *)
(* flush of its unterminated tail and the retirement of its buffer, and    *)
(* may be started again under the same source id (AdapterManager,          *)
(* ClientManager and CommandStreamingBackend call it so).  A command that  *)
(* runs once hands in whole lines instead, which no buffer cuts.           *)
(*                                                                         *)
(* A byte is a number: NL and CR end lines, Space is white space, the      *)
(* others are letters.                                                     *)
(***************************************************************************)
EXTENDS Naturals, Sequences, FiniteSets, SequencesExt

CONSTANTS
    Sources,      \* source ids
    Output,       \* Output[s] = the bytes each run of helper s writes, run by run
    WholeLines,   \* lines the commands that run once hand in, in order
    Json,         \* lines that parse as JSON notifications, with what they say
    BufferSize,   \* kMaxSourceBufferSize
    CacheSize,    \* kMaxDedupCacheSize
    Window,       \* dedup_window_, in ticks
    MaxChunk,     \* bytes in one read
    MaxTime

NL == 0
CR == 90
Space == 91

VARIABLES
    helper,    \* helper[s] = [run, pos, up]: run number, bytes written, alive
    buffers,   \* buffers_, one per source
    cache,     \* dedup_cache_: the time each key was last seen
    now,
    handled,   \* ghost: notifications made, in order: [src, run, key, time, sent]
    capped     \* ghost: sources whose buffer reached the cap

vars == <<helper, buffers, cache, now, handled, capped>>

NoEntry == [k \in {} |-> 0]

Init ==
    /\ helper = [s \in Sources |-> [run |-> 1, pos |-> 0, up |-> TRUE]]
    /\ buffers = [s \in Sources |-> <<>>]
    /\ cache = NoEntry
    /\ now = Window
    /\ handled = <<>>
    /\ capped = {}

-----------------------------------------------------------------------------
(* DrainLinesFromBuffer: the lines up to the last newline, without their   *)
(* line ends, and the tail left in the buffer.                             *)
NewlinesIn(bytes) == {i \in DOMAIN bytes : bytes[i] = NL}
LastOf(set) == IF set = {} THEN 0 ELSE CHOOSE m \in set : \A i \in set : i <= m
WithoutCr(line) == IF line # <<>> /\ Last(line) = CR THEN Front(line) ELSE line
Lines(bytes) ==
    LET ends  == SelectSeq([i \in DOMAIN bytes |-> i], LAMBDA i : bytes[i] = NL)
        begin(k) == IF k = 1 THEN 1 ELSE ends[k - 1] + 1
    IN  [k \in DOMAIN ends |-> WithoutCr(SubSeq(bytes, begin(k), ends[k] - 1))]
Tail1(bytes) == SubSeq(bytes, LastOf(NewlinesIn(bytes)) + 1, Len(bytes))

(* The notification a line becomes: a JSON object with title and body says *)
(* its own, any other line is the body as it is.                           *)
IsBlank(line) == ToSet(line) \subseteq {NL, CR, Space}
Notification(line) == IF line \in DOMAIN Json THEN Json[line] ELSE [title |-> "Voice Input", body |-> line]

(* EvictStaleDedupEntriesLocked: expired entries first, then the oldest    *)
(* until the cache fits (any of those seen at the same tick).              *)
Keep(c, keys) == [k \in keys |-> c[k]]
EvictStale(c) ==
    LET fresh == {k \in DOMAIN c : now - c[k] < Window}
    IN  Keep(c, CHOOSE keep \in SUBSET fresh :
                    /\ Cardinality(keep) = IF Cardinality(fresh) > CacheSize THEN CacheSize ELSE Cardinality(fresh)
                    /\ \A k \in keep, j \in fresh \ keep : c[k] >= c[j])

(* One line through ProcessLineLocked; m carries the cache and what has    *)
(* been handled.                                                           *)
Touch(c, key) == [k \in DOMAIN c \cup {key} |-> IF k = key THEN now ELSE c[k]]

(* Mutant of Suppressed: one tick too short.                               *)
SuppressedShort(c, key) == key \in DOMAIN c /\ now - c[key] + 1 < Window

Suppressed(c, key) == key \in DOMAIN c /\ now - c[key] < Window

ProcessLine(m, s, run, line) ==
    LET key     == Notification(line)
        touched == Touch(m.cache, key)
        over    == key \notin DOMAIN m.cache /\ Cardinality(DOMAIN touched) > CacheSize
        cleaned == IF over THEN EvictStale(touched) ELSE touched
    IN  IF IsBlank(line) THEN m
        ELSE [cache   |-> cleaned,
              handled |-> Append(m.handled, [src |-> s, run |-> run, key |-> key, time |-> now,
                                             sent |-> ~Suppressed(m.cache, key)])]

ProcessAll(s, lines, m) ==
    LET through[k \in 0 .. Len(lines)] ==
            IF k = 0 THEN m ELSE ProcessLine(through[k - 1], s, helper[s].run, lines[k])
    IN  through[Len(lines)]

Here == [cache |-> cache, handled |-> handled]
Becomes(m) == cache' = m.cache /\ handled' = m.handled

-----------------------------------------------------------------------------
(* FeedStderr: byte by byte into the source's buffer, which is taken as    *)
(* one line whenever it reaches the cap; then the complete lines.          *)
Written(s) == Output[s][helper[s].run]

FeedStderr(s, n) ==
    /\ helper[s].up
    /\ helper[s].pos + n <= Len(Written(s))
    /\ LET bytes == buffers[s] \o SubSeq(Written(s), helper[s].pos + 1, helper[s].pos + n)
           over  == Len(bytes) >= BufferSize
           whole == IF over THEN <<SubSeq(bytes, 1, BufferSize)>> ELSE <<>>
           rest  == IF over THEN SubSeq(bytes, BufferSize + 1, Len(bytes)) ELSE bytes
       IN  /\ Becomes(ProcessAll(s, whole \o Lines(rest), Here))
           /\ buffers' = [buffers EXCEPT ![s] = Tail1(rest)]
           /\ capped' = IF over THEN capped \cup {s} ELSE capped
    /\ helper' = [helper EXCEPT ![s].pos = @ + n]
    /\ UNCHANGED now

(* DeliverLine, from the stderr of a batch recogniser or of a rewriting    *)
(* command.                                                                *)
FromCommand == "command"
DeliverLine ==
    /\ LET k == Cardinality({i \in DOMAIN handled : handled[i].src = FromCommand})
       IN  k < Len(WholeLines) /\ Becomes(ProcessLine(Here, FromCommand, 1, WholeLines[k + 1]))
    /\ UNCHANGED <<helper, buffers, now, capped>>

(* Mutant of HelperEnds: retires without flushing.                         *)
HelperEndsUnflushed(s) ==
    /\ helper[s].up
    /\ helper[s].pos = Len(Written(s))
    /\ buffers' = [buffers EXCEPT ![s] = <<>>]
    /\ helper' = [helper EXCEPT ![s].up = FALSE]
    /\ UNCHANGED <<cache, now, handled, capped>>

(* The helper has ended and its stderr is at its end: Flush, then          *)
(* RetireSource.                                                           *)
HelperEnds(s) ==
    /\ helper[s].up
    /\ helper[s].pos = Len(Written(s))
    /\ Becomes(ProcessAll(s, IF buffers[s] = <<>> THEN <<>> ELSE <<WithoutCr(buffers[s])>>, Here))
    /\ buffers' = [buffers EXCEPT ![s] = <<>>]
    /\ helper' = [helper EXCEPT ![s].up = FALSE]
    /\ UNCHANGED <<now, capped>>

HelperStarts(s) ==
    /\ ~helper[s].up
    /\ helper[s].run < Len(Output[s])
    /\ helper' = [helper EXCEPT ![s] = [run |-> @.run + 1, pos |-> 0, up |-> TRUE]]
    /\ UNCHANGED <<buffers, cache, now, handled, capped>>

Tick ==
    /\ now < MaxTime
    /\ now' = now + 1
    /\ UNCHANGED <<helper, buffers, cache, handled, capped>>

Next ==
    \/ \E s \in Sources, n \in 1 .. MaxChunk : FeedStderr(s, n)
    \/ \E s \in Sources : HelperEnds(s) \/ HelperStarts(s)
    \/ DeliverLine
    \/ Tick

Spec == Init /\ [][Next]_vars

-----------------------------------------------------------------------------
NonBlankLines(bytes) == SelectSeq(Lines(bytes) \o <<WithoutCr(Tail1(bytes))>>, LAMBDA l : ~IsBlank(l))
Of(s, r) == SelectSeq(handled, LAMBDA h : h.src = s /\ h.run = r)

(* Whatever the reads cut out of a helper's stderr, its lines come through *)
(* whole, in order and once each, the last one when the helper has ended;  *)
(* nothing of one run shows up in the next.  Only a buffer that reached    *)
(* the cap may be cut elsewhere.                                           *)
LinesArriveWhole ==
    \A s \in Sources \ capped : \A r \in 1 .. helper[s].run :
        LET lines == NonBlankLines(Output[s][r])
            got   == Of(s, r)
        IN  /\ Len(got) <= Len(lines)
            /\ \A i \in DOMAIN got : got[i].key = Notification(lines[i])
            /\ (r < helper[s].run \/ ~helper[s].up) => Len(got) = Len(lines)

(* The window slides: a notification goes out exactly when the same one    *)
(* was not handled, from any helper or command, less than the window ago.  *)
(* Only an entry pushed out of a full cache may come through early.        *)
RepeatsAreQuiet ==
    \A j \in DOMAIN handled :
        LET recent == \E i \in 1 .. j - 1 : handled[i].key = handled[j].key /\ handled[j].time - handled[i].time < Window
        IN  /\ ~recent => handled[j].sent
            /\ handled[j].sent /\ recent => Cardinality({h.key : h \in ToSet(handled)}) > CacheSize
=============================================================================
