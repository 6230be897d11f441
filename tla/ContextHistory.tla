-------------------------- MODULE ContextHistory ---------------------------
(***************************************************************************)
(* The input history the addon keeps for the language model: committed     *)
(* text is joined in a buffer until a sentence ends, the input context     *)
(* changes or five seconds pass (addon/core/vinput.cpp), recognised and    *)
(* rewritten text is recorded at once, and a background thread appends the *)
(* entries to a file that it cuts back now and then                        *)
(* (addon/core/context_writer.cpp).                                        *)
(*                                                                         *)
(* A text is the number of the commit or result it came from; the buffer   *)
(* and an entry's text are sequences of them, joined.  Entries are [source,*)
(* text, max]: what is written and the task's max_lines.                   *)
(***************************************************************************)
EXTENDS Integers, Sequences, FiniteSets

CONSTANTS
    Contexts,          \* input contexts
    NoContext,
    LineCounts,        \* values max_context_lines_ takes when the scenes are reloaded
    MaxPendingEntries, \* kMaxPendingEntries
    MaxPendingBytes,   \* kMaxPendingBytes, a text counting as one
    TruncateInterval,  \* kTruncateInterval
    MaxTexts,          \* bound: texts committed or recognised
    MaxDowns           \* bound: times the process dies with the addon loaded

ASSUME CountsAreNatural == LineCounts \subseteq Nat /\ MaxPendingEntries \in Nat \ {0}

VARIABLES
    addon,       \* running, stopping (in the destructor), down
    maxLines,    \* max_context_lines_
    buffer,      \* context_buffer_text_
    bufferIc,    \* context_buffer_ic_
    timer,       \* context_flush_timer_ is enabled
    suppressed,  \* pending_suppressed_commit_text_
    menu,        \* a recognition result waits in its menu
    pending,     \* pending_ of the writer
    writer,      \* none, waiting, writing, rotating
    task,        \* the entry being persisted
    writeCount,  \* write_count_
    lines,       \* the cache file
    texts,       \* ghost: texts so far
    unsaved,     \* ghost: texts not to be recorded or lost to a known cause
    downs

historyVars == <<addon, maxLines, buffer, bufferIc, timer, suppressed, menu, pending, writer, task,
                 writeCount, lines, texts, unsaved, downs>>

EntrySources == {"user", "asr", "llm"}
Entry(source, text, max) == [source |-> source, text |-> text, max |-> max]
In(text) == {text[i] : i \in DOMAIN text}
TextsOf(entries) == UNION {In(entries[i].text) : i \in DOMAIN entries}

Nothing == Entry("user", <<>>, 0)

Fresh ==
    /\ buffer' = <<>> /\ bufferIc' = NoContext /\ timer' = FALSE /\ suppressed' = 0 /\ menu' = FALSE
    /\ pending' = <<>> /\ writer' = "none" /\ task' = Nothing /\ writeCount' = 0

HistoryInit ==
    /\ addon = "running" /\ maxLines \in LineCounts
    /\ buffer = <<>> /\ bufferIc = NoContext /\ timer = FALSE /\ suppressed = 0 /\ menu = FALSE
    /\ pending = <<>> /\ writer = "none" /\ task = Nothing /\ writeCount = 0
    /\ lines = <<>> /\ texts = 0 /\ unsaved = {} /\ downs = 0

-----------------------------------------------------------------------------
(* The addon's side, as one record h = [buffer, ic, timer, pending, lost]  *)
(* threaded through the calls a handler makes.                             *)
Here == [buffer |-> buffer, ic |-> bufferIc, timer |-> timer, pending |-> pending, lost |-> {}]

(* The size of some entries.                                               *)
Bytes(entries) == Cardinality(UNION {{i} \X DOMAIN entries[i].text : i \in DOMAIN entries})

After(entries, n) == SubSeq(entries, n + 1, Len(entries))

Fits(entries, entry) ==
    Len(entries) < MaxPendingEntries /\ Bytes(entries) + Bytes(<<entry>>) <= MaxPendingBytes

(* The loop goes on while there is an entry to drop and the rest leaves no *)
(* room.  A shorter rest leaves more, so it drops one for every such rest. *)
Dropped(entries, entry) ==
    Cardinality({n \in 0 .. Len(entries) - 1 : ~Fits(After(entries, n), entry)})

(* Enqueue: an entry that no queue could hold is refused, a full queue     *)
(* makes room by dropping its oldest entries.                              *)
Enqueue(h, entry) ==
    LET n == Dropped(h.pending, entry)
    IN  IF Bytes(<<entry>>) > MaxPendingBytes THEN [h EXCEPT !.lost = @ \cup In(entry.text)]
        ELSE [h EXCEPT !.pending = Append(After(h.pending, n), entry),
                       !.lost = @ \cup TextsOf(SubSeq(h.pending, 1, n))]

(* flushContextBuffer: appendContextEntry for the user's text.             *)
flushContextBuffer(h) ==
    IF h.buffer = <<>> THEN [h EXCEPT !.ic = NoContext]
    ELSE [IF maxLines = 0 THEN h ELSE Enqueue(h, Entry("user", h.buffer, maxLines))
            EXCEPT !.buffer = <<>>, !.ic = NoContext, !.timer = FALSE]

(* Mutant of appendContextEntry: leaves the user's text in the buffer.     *)
appendContextEntryUnflushed(h, n, source) ==
    IF maxLines = 0 THEN h ELSE Enqueue(h, Entry(source, <<n>>, maxLines))

(* appendContextEntry for recognised or rewritten text: the buffered text  *)
(* of the user goes first.                                                 *)
appendContextEntry(h, n, source) ==
    IF maxLines = 0 THEN h
    ELSE Enqueue(IF h.buffer # <<>> THEN flushContextBuffer(h) ELSE h, Entry(source, <<n>>, maxLines))

(* accumulateContextBuffer: ends says whether the joined text ends a       *)
(* sentence.                                                               *)
accumulateContextBuffer(h, n, ic, ends) ==
    LET mine   == IF ic # h.ic /\ h.buffer # <<>> THEN flushContextBuffer(h) ELSE h
        joined == [mine EXCEPT !.buffer = Append(@, n), !.ic = ic]
    IN  IF ends THEN flushContextBuffer(joined) ELSE [joined EXCEPT !.timer = TRUE]

(* onCommitString: text put in by the addon itself is not the user's.      *)
onCommitString(h, n, ic, ends, mark) ==
    IF maxLines = 0 \/ mark = n THEN h ELSE accumulateContextBuffer(h, n, ic, ends)

Becomes(h) ==
    /\ buffer' = h.buffer /\ bufferIc' = h.ic /\ timer' = h.timer /\ pending' = h.pending
    /\ writer' = IF writer = "none" /\ h.pending # <<>> THEN "waiting" ELSE writer
    /\ unsaved' = unsaved \cup h.lost
    /\ UNCHANGED <<task, writeCount, lines>>

(* The user commits a text in some input context.                          *)
UserCommits(ic, ends) ==
    /\ addon = "running"
    /\ texts < MaxTexts
    /\ texts' = texts + 1
    /\ LET h == onCommitString(Here, texts', ic, ends, suppressed)
       IN  Becomes([h EXCEPT !.lost = @ \cup IF maxLines = 0 THEN {texts'} ELSE {}])
    /\ suppressed' = 0
    /\ UNCHANGED <<addon, maxLines, menu, downs>>

(* handleRecognitionResult: the spoken text, if the result has it, is      *)
(* recorded at once.                                                       *)
Heard(h, n, spoken) ==
    LET asr == IF spoken THEN appendContextEntry(h, n, "asr") ELSE h
    IN  [asr EXCEPT !.lost = @ \cup IF maxLines = 0 \/ ~spoken THEN {n} ELSE {}]

(* A text of the result is committed, recorded before when it is a         *)
(* rewritten one.  The mark keeps the commit out of the user's text unless *)
(* an addon of the input method changed it on its way (changed).           *)
Committed(h, n, ic, rewritten, changed, ends) ==
    LET llm  == IF rewritten THEN appendContextEntry(h, n, "llm") ELSE h
        done == onCommitString(llm, IF changed THEN n + 1 ELSE n, ic, ends, n)
    IN  [done EXCEPT !.lost = @ \cup (IF maxLines = 0 \/ ~rewritten THEN {n} ELSE {})
                                \cup (IF maxLines = 0 \/ ~changed THEN {n + 1} ELSE {})]

(* A result with one choice is committed in the same handler.              *)
ResultCommitted(ic, spoken, rewritten, changed, ends) ==
    /\ addon = "running"
    /\ texts + 3 <= MaxTexts
    /\ texts' = texts + 3
    /\ Becomes(Committed(Heard(Here, texts + 1, spoken), texts + 2, ic, rewritten, changed, ends))
    /\ suppressed' = 0
    /\ menu' = FALSE
    /\ UNCHANGED <<addon, maxLines, downs>>

(* One with several waits in its menu, where it is chosen from             *)
(* (selectResultCandidate) or dismissed, by a key, another recording or    *)
(* the end of its input context.                                           *)
ResultShown(spoken) ==
    /\ addon = "running"
    /\ texts < MaxTexts
    /\ texts' = texts + 1
    /\ Becomes(Heard(Here, texts + 1, spoken))
    /\ menu' = TRUE
    /\ UNCHANGED <<addon, maxLines, suppressed, downs>>

selectResultCandidate(ic, rewritten, changed, ends) ==
    /\ addon = "running"
    /\ menu
    /\ menu' = FALSE
    /\ texts + 2 <= MaxTexts
    /\ texts' = texts + 2
    /\ Becomes(Committed(Here, texts + 1, ic, rewritten, changed, ends))
    /\ suppressed' = 0
    /\ UNCHANGED <<addon, maxLines, downs>>

hideResultMenu ==
    /\ menu
    /\ menu' = FALSE
    /\ UNCHANGED <<addon, maxLines, buffer, bufferIc, timer, suppressed, pending, writer, task,
                   writeCount, lines, texts, unsaved, downs>>

(* The five-second timer, and the end of an input context.                 *)
FlushTimer ==
    /\ addon = "running"
    /\ timer
    /\ Becomes([flushContextBuffer(Here) EXCEPT !.timer = FALSE])
    /\ UNCHANGED <<addon, maxLines, suppressed, menu, texts, downs>>

ContextDestroyed(ic) ==
    /\ addon = "running"
    /\ bufferIc = ic
    /\ Becomes(flushContextBuffer(Here))
    /\ UNCHANGED <<addon, maxLines, suppressed, menu, texts, downs>>

(* reloadSceneConfig: no scene wants context any more, and what was        *)
(* buffered goes.                                                          *)
reloadSceneConfig(n) ==
    /\ addon = "running"
    /\ n # maxLines
    /\ maxLines' = n
    /\ IF n = 0
       THEN Becomes([Here EXCEPT !.buffer = <<>>, !.ic = NoContext, !.timer = FALSE, !.lost = In(buffer)])
       ELSE Becomes(Here)
    /\ UNCHANGED <<addon, suppressed, menu, texts, downs>>

(* ~VinputEngine: flush, then ~AsyncContextWriter sets stopping_ and joins.*)
Destroy ==
    /\ addon = "running"
    /\ addon' = "stopping"
    /\ Becomes(flushContextBuffer(Here))
    /\ UNCHANGED <<maxLines, suppressed, menu, texts, downs>>

Joined ==
    /\ addon = "stopping"
    /\ writer = "none"
    /\ addon' = "down"
    /\ UNCHANGED <<maxLines, buffer, bufferIc, timer, suppressed, menu, pending, writer, task, writeCount,
                   lines, texts, unsaved, downs>>

(* The input method is killed: everything not in the file is gone.         *)
InputMethodDies ==
    /\ addon # "down"
    /\ downs < MaxDowns
    /\ downs' = downs + 1
    /\ addon' = "running"
    /\ Fresh
    /\ unsaved' = unsaved \cup In(buffer) \cup TextsOf(pending) \cup
                    (IF writer = "writing" THEN In(task.text) ELSE {})
    /\ UNCHANGED <<maxLines, lines, texts>>

-----------------------------------------------------------------------------
(* Mutant of RunTakes: leaves as soon as it sees stopping_.                *)
RunTakesHurried ==
    /\ writer = "waiting"
    /\ IF addon = "stopping"
       THEN /\ writer' = "none"
            /\ UNCHANGED <<task, pending>>
       ELSE /\ pending # <<>>
            /\ task' = Head(pending)
            /\ pending' = Tail(pending)
            /\ writer' = "writing"
    /\ UNCHANGED <<addon, maxLines, buffer, bufferIc, timer, suppressed, menu, writeCount, lines, texts,
                   unsaved, downs>>

(* The writer thread.  Run waits for an entry or for stopping_, and ends   *)
(* when it finds the queue empty.                                          *)
RunTakes ==
    /\ writer = "waiting"
    /\ IF pending = <<>>
       THEN /\ addon = "stopping"
            /\ writer' = "none"
            /\ UNCHANGED <<task, pending>>
       ELSE /\ task' = Head(pending)
            /\ pending' = Tail(pending)
            /\ writer' = "writing"
    /\ UNCHANGED <<addon, maxLines, buffer, bufferIc, timer, suppressed, menu, writeCount, lines, texts,
                   unsaved, downs>>

(* Persist: the append, which fails when the file cannot be opened.        *)
PersistFails ==
    /\ writer = "writing"
    /\ unsaved' = unsaved \cup In(task.text)
    /\ writer' = "waiting"
    /\ UNCHANGED <<addon, maxLines, buffer, bufferIc, timer, suppressed, menu, pending, task, writeCount,
                   lines, texts, downs>>

PersistAppends ==
    /\ writer = "writing"
    /\ lines' = Append(lines, task)
    /\ IF writeCount + 1 < TruncateInterval
       THEN writeCount' = writeCount + 1 /\ writer' = "waiting"
       ELSE writeCount' = 0 /\ writer' = "rotating"
    /\ UNCHANGED <<addon, maxLines, buffer, bufferIc, timer, suppressed, menu, pending, task, texts,
                   unsaved, downs>>

(* Every hundredth write keeps the last max_lines lines, in a temporary    *)
(* file renamed over the cache; any failure leaves the file as it is.      *)
PersistRotates ==
    /\ writer = "rotating"
    /\ \E done \in BOOLEAN :
          lines' = IF done /\ Len(lines) > task.max
                   THEN SubSeq(lines, Len(lines) - task.max + 1, Len(lines)) ELSE lines
    /\ writer' = "waiting"
    /\ UNCHANGED <<addon, maxLines, buffer, bufferIc, timer, suppressed, menu, pending, task, writeCount,
                   texts, unsaved, downs>>

Writer == RunTakes \/ PersistFails \/ PersistAppends \/ PersistRotates

HistoryNext ==
    \/ \E ic \in Contexts, ends \in BOOLEAN : UserCommits(ic, ends)
    \/ \E ic \in Contexts, rewritten, changed, ends \in BOOLEAN :
          /\ ends => changed
          /\ \/ \E spoken \in BOOLEAN : ResultCommitted(ic, spoken, rewritten, changed, ends)
             \/ selectResultCandidate(ic, rewritten, changed, ends)
    \/ \E spoken \in BOOLEAN : ResultShown(spoken)
    \/ hideResultMenu
    \/ FlushTimer
    \/ \E ic \in Contexts : ContextDestroyed(ic)
    \/ \E n \in LineCounts : reloadSceneConfig(n)
    \/ Destroy \/ Joined \/ InputMethodDies
    \/ Writer

HistorySpec == HistoryInit /\ [][HistoryNext]_historyVars

-----------------------------------------------------------------------------
InHand == IF writer = "writing" THEN <<task>> ELSE <<>>

(* The texts of every entry, and of an entry and a later one, increase.    *)
Sorted(text) == \A p, q \in DOMAIN text : p < q => text[p] < text[q]
Increasing(entries) ==
    \A i, j \in DOMAIN entries :
        /\ Sorted(entries[i].text)
        /\ i < j => \A m \in In(entries[i].text), n \in In(entries[j].text) : m < n

(* The history tells what was put in, in the order it was put in, each     *)
(* text once: file, entry being written, queue and buffer read in that     *)
(* order are increasing, whatever mix of typing, results, input contexts,  *)
(* timers, restarts and slow writes produced them.                         *)
HistoryInOrder == Increasing(lines \o InHand \o pending \o <<Entry("user", buffer, maxLines)>>)

(* No text falls silently between the buffer, the queue and the file: one  *)
(* that is in none of them was not to be recorded, was refused for its     *)
(* size, was dropped by a full queue, by a failed write or by a kill, or   *)
(* is older than the lines the file keeps.  Once the addon is down,        *)
(* everything is in the file.                                              *)
HistoryComplete ==
    LET kept   == TextsOf(lines)
        queued == TextsOf(InHand) \cup TextsOf(pending) \cup In(buffer)
    IN  /\ \A n \in 1 .. texts \ (unsaved \cup kept \cup queued) : \A k \in kept : n < k
        /\ kept = {} => 1 .. texts \subseteq unsaved \cup queued
        /\ addon = "down" => queued = {}

(* The history holds what was committed, in that order, and all of it.     *)
HistoryIsFaithful == HistoryInOrder /\ HistoryComplete
=============================================================================
