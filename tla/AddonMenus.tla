----------------------------- MODULE AddonMenus -----------------------------
(***************************************************************************)
(* The addon's two menus (addon/menu/vinput_menu.cpp): the command palette,*)
(* opened by its hotkey and filtered by a typed query, and the menu of     *)
(* recognition results.  Both put a candidate list in the input panel of   *)
(* an input context; a candidate carries an index into palette_items_ or   *)
(* result_candidates_, and the keys go to whichever menu is marked visible *)
(* (addon/input/vinput_keyevent.cpp).                                      *)
(*                                                                         *)
(* A query is a sequence of characters.  A palette item is [id, category,  *)
(* entry]; an entry stands for the command of its category.  A candidate   *)
(* word is [menu, index, shows]: shows is what the user reads on it.  The  *)
(* cursor of a list is the place of a word, 0 for none.                    *)
(***************************************************************************)
EXTENDS Integers, Sequences, FiniteSets, SequencesExt

CONSTANTS
    Contexts,   \* input contexts
    None,
    Commands,   \* the registered commands in order, each with a one-character alias
    Worlds,     \* the item lists the configuration may yield, in the commands' order
    Matches,    \* character |-> ids whose search text has it
    Results,    \* candidate lists of recognition results
    Chars,      \* characters the user types into the query
    PageSize,
    MaxQuery    \* bound: length of the query

VARIABLES
    world,    \* what the commands' getItems would return now
    items,    \* palette_items_
    palette,  \* [visible, ic, query]
    result,   \* [visible, ic, candidates]
    panel,    \* input context |-> candidate list in its input panel
    session,  \* a recording session exists
    held,     \* the palette key is down and no other key came between
    last,     \* ghost: the selection this step made, [shown, done, stale]
    stale,    \* ghost: items were reloaded under an open palette
    raced     \* ghost: the palette came up over a result menu

vars == <<world, items, palette, result, panel, session, held, last, stale, raced>>

List(menu, words, cursor) == [menu |-> menu, words |-> words, cursor |-> cursor, page |-> 0]
NoList == List("none", <<>>, 0)
ClosedPalette == [visible |-> FALSE, ic |-> None, query |-> <<>>]
ClosedResult == [visible |-> FALSE, ic |-> None, candidates |-> <<>>]
Nothing == [shown |-> None, done |-> None, stale |-> FALSE]

Entry(c) == [id |-> c, category |-> c, entry |-> TRUE]

(* reloadPaletteItems: the commands' entries, then every command's items.  *)
reloadPaletteItems == [i \in DOMAIN Commands |-> Entry(Commands[i])] \o world

Init ==
    /\ world \in Worlds
    /\ items = reloadPaletteItems
    /\ palette = ClosedPalette /\ result = ClosedResult
    /\ panel = [ic \in Contexts |-> NoList]
    /\ session = FALSE /\ held = FALSE
    /\ last = Nothing /\ stale = FALSE /\ raced = FALSE

TypeOK ==
    /\ world \in Worlds
    /\ palette.visible \in BOOLEAN /\ palette.ic \in Contexts \cup {None} /\ palette.query \in Seq(Chars \cup ToSet(Commands) \cup {" ", "/"})
    /\ result.visible \in BOOLEAN /\ result.ic \in Contexts \cup {None}
    /\ \A ic \in Contexts : panel[ic].menu \in {"none", "palette", "result"}
    /\ {session, held, stale, raced} \subseteq BOOLEAN

-----------------------------------------------------------------------------
(* ParsePaletteQuery: a leading slash asks for a command; its token ends   *)
(* at a blank or a slash, and what follows is searched for.                *)
Blank == " "
Slash == "/"
From(q, n) == SubSeq(q, n, Len(q))
FirstOutside(q, skip) == SelectInSeq(q, LAMBDA c : c \notin skip)
FirstInside(q, stops) == SelectInSeq(q, LAMBDA c : c \in stops)
DropWhile(q, skip) == IF FirstOutside(q, skip) = 0 THEN <<>> ELSE From(q, FirstOutside(q, skip))

ParsePaletteQuery(raw) ==
    LET q     == DropWhile(raw, {Blank})
        isCmd == q # <<>> /\ Head(q) = Slash
        body  == IF isCmd THEN Tail(q) ELSE q
        stop  == FirstInside(body, {Blank, Slash})
        token == IF ~isCmd THEN <<>> ELSE IF stop = 0 THEN body ELSE SubSeq(body, 1, stop - 1)
        named == {c \in ToSet(Commands) : token = <<c>>}
    IN  [commandMode |-> isCmd,
         command     |-> IF named = {} THEN None ELSE CHOOSE c \in named : TRUE,
         terms       |-> ToSet(DropWhile(From(body, Len(token) + 1), {Blank, Slash})) \ {Blank}]

MatchesAllTerms(item, terms) == \A c \in terms : item.id \in Matches[c]

(* rebuildPaletteMenu: the items the query lets through, by their index in *)
(* palette_items_, the first one under the cursor.                         *)
Shown(item, query) ==
    \E parsed \in {ParsePaletteQuery(query)} :
       IF item.entry
       THEN \/ query = <<>>
            \/ parsed.commandMode /\ parsed.command = None /\ MatchesAllTerms(item, parsed.terms)
       ELSE /\ query # <<>>
            /\ IF parsed.command # None THEN item.category = parsed.command ELSE ~parsed.commandMode
            /\ MatchesAllTerms(item, parsed.terms)

(* Mutant of PaletteWords: numbers the words by their place in the list.   *)
PaletteWordsRenumbered(list, query) ==
    LET kept == SelectSeq(list, LAMBDA it : Shown(it, query))
    IN  [i \in DOMAIN kept |-> [menu |-> "palette", index |-> i, shows |-> kept[i]]]

PaletteWords(list, query) ==
    LET all == [i \in DOMAIN list |-> [menu |-> "palette", index |-> i, shows |-> list[i]]]
    IN  SelectSeq(all, LAMBDA w : Shown(w.shows, query))

(* The menus' state is threaded through a handler as one record m =        *)
(* [palette, result, panel, last, stale, session, eaten].                  *)
Here == [palette |-> palette, result |-> result, panel |-> panel, last |-> Nothing, stale |-> stale,
         session |-> session, eaten |-> TRUE]

rebuildPaletteMenu(m, query) ==
    [m EXCEPT !.palette.query = query, !.stale = FALSE,
              !.panel[m.palette.ic] = List("palette", PaletteWords(items, query), 1)]

(* hidePaletteMenu and hideResultMenu clear the panel of their context.    *)
hidePaletteMenu(m) ==
    IF m.palette.visible
    THEN [m EXCEPT !.palette = ClosedPalette, !.panel[m.palette.ic] = NoList, !.stale = FALSE]
    ELSE m

hideResultMenu(m) ==
    IF m.result.visible
    THEN [m EXCEPT !.result = ClosedResult, !.panel[m.result.ic] = NoList]
    ELSE m

dismissMenusForVoiceActivity(m) == hideResultMenu(hidePaletteMenu(m))

(* selectPaletteItem: an entry turns into a query, an item runs its        *)
(* command's onSelect with the menu gone.                                  *)
selectPaletteItem(m, index, shows) ==
    IF index > Len(items) THEN hidePaletteMenu(m)
    ELSE LET picked == [m EXCEPT !.last = [shown |-> shows, done |-> items[index], stale |-> m.stale]]
         IN  IF items[index].entry
             THEN IF m.palette.visible
                  THEN rebuildPaletteMenu(picked, <<Slash, items[index].category, Blank>>)
                  ELSE picked
             ELSE hidePaletteMenu(picked)

(* selectResultCandidate: the candidate is committed with the menu gone.   *)
selectResultCandidate(m, index, shows) ==
    IF index > Len(m.result.candidates) THEN hideResultMenu(m)
    ELSE hideResultMenu([m EXCEPT !.last = [shown |-> shows, done |-> m.result.candidates[index], stale |-> FALSE]])

Select(m, w) ==
    IF w.menu = "palette" THEN selectPaletteItem(m, w.index, w.shows)
    ELSE selectResultCandidate(m, w.index, w.shows)

(* The panel's list: digits choose within the page, the cursor goes round  *)
(* and takes the page along, and paging takes a cursor to the first word.  *)
OnPage(l) == {d \in 1 .. PageSize : l.page * PageSize + d <= Len(l.words)}
At(l, cursor) == [l EXCEPT !.cursor = cursor, !.page = (cursor - 1) \div PageSize]
Next1(l) == At(l, IF l.cursor = Len(l.words) THEN 1 ELSE l.cursor + 1)
Prev1(l) == At(l, IF l.cursor <= 1 THEN Len(l.words) ELSE l.cursor - 1)
Paged(l, forward) ==
    LET page == IF forward THEN l.page + 1 ELSE l.page - 1
    IN  IF page * PageSize \notin 0 .. Len(l.words) - 1 THEN l
        ELSE [l EXCEPT !.page = page, !.cursor = IF @ = 0 THEN 0 ELSE page * PageSize + 1]

(* What both menus do with the keys that move in, or choose from, a list;  *)
(* hidden is m with the menu gone.  Enter without a cursor takes the first *)
(* word of the page.                                                       *)
Navigate(m, ic, k, hidden) ==
    LET l == m.panel[ic]
    IN  CASE k.kind = "pageUp" -> [m EXCEPT !.panel[ic] = Paged(l, FALSE)]
          [] k.kind = "pageDown" -> [m EXCEPT !.panel[ic] = Paged(l, TRUE)]
          [] k.kind = "up" -> IF l.words = <<>> THEN m ELSE [m EXCEPT !.panel[ic] = Prev1(l)]
          [] k.kind = "down" -> IF l.words = <<>> THEN m ELSE [m EXCEPT !.panel[ic] = Next1(l)]
          [] k.kind = "enter" ->
               IF l.words = <<>> THEN hidden
               ELSE Select(m, l.words[IF l.cursor = 0 THEN l.page * PageSize + 1 ELSE l.cursor])
          [] k.kind = "digit" /\ k.digit \in OnPage(l) -> Select(m, l.words[l.page * PageSize + k.digit])
          [] OTHER -> [hidden EXCEPT !.eaten = FALSE]

Key(kind, char, digit) == [kind |-> kind, char |-> char, digit |-> digit]
Keys ==
    {Key("char", c, 0) : c \in Chars} \cup {Key("digit", None, d) : d \in 1 .. PageSize} \cup
    {Key(kind, None, 0) : kind \in {"pageUp", "pageDown", "up", "down", "enter", "escape", "backspace", "other"}}

(* A key press while the result menu is up.                                *)
handleResultMenuKeyEvent(m, k) ==
    CASE k.kind = "escape" -> hideResultMenu(m)
      [] m.panel[m.result.ic].words = <<>> -> [hideResultMenu(m) EXCEPT !.eaten = FALSE]
      [] OTHER -> Navigate(m, m.result.ic, k, hideResultMenu(m))

(* A key press while the palette is up: text extends the query, backspace  *)
(* and escape shorten it and then close the menu.                          *)
handlePaletteMenuKeyEvent(m, k) ==
    LET q == m.palette.query
    IN  CASE k.kind = "other" -> [hidePaletteMenu(m) EXCEPT !.eaten = FALSE]
          [] k.kind = "escape" -> IF q # <<>> THEN rebuildPaletteMenu(m, <<>>) ELSE hidePaletteMenu(m)
          [] k.kind = "backspace" -> IF q # <<>> THEN rebuildPaletteMenu(m, Front(q)) ELSE hidePaletteMenu(m)
          [] k.kind = "char" -> rebuildPaletteMenu(m, Append(q, k.char))
          [] OTHER -> Navigate(m, m.palette.ic, k, hidePaletteMenu(m))

-----------------------------------------------------------------------------
Becomes(after) ==
    \E m \in {after} :
       /\ palette' = m.palette /\ result' = m.result /\ panel' = m.panel
       /\ last' = m.last /\ stale' = m.stale /\ session' = m.session
       /\ raced' = (raced /\ (m.palette.visible \/ m.result.visible))

(* handleKeyEvent, a press that is no hotkey: the result menu first, then  *)
(* the palette.  A key neither takes breaks a held hotkey into a chord.    *)
KeyPress(k) ==
    /\ result.visible \/ palette.visible \/ held
    /\ k.kind = "char" => Len(palette.query) < MaxQuery
    /\ \E first \in {IF result.visible THEN handleResultMenuKeyEvent(Here, k)
                     ELSE [Here EXCEPT !.eaten = FALSE]} :
       \E m \in {IF ~first.eaten /\ first.palette.visible
                 THEN handlePaletteMenuKeyEvent([first EXCEPT !.eaten = TRUE], k) ELSE first} :
          /\ Becomes(m)
          /\ held' = (held /\ m.eaten)
    /\ UNCHANGED <<world, items>>

(* The palette key: its press closes a result menu (it is none of that     *)
(* menu's keys) and is passed on by the palette; its release toggles the   *)
(* palette.  A release never reaches the result menu's choices.            *)
MenuKeyPress ==
    /\ ~held
    /\ held' = TRUE
    /\ Becomes(hideResultMenu(Here))
    /\ UNCHANGED <<world, items>>

(* toggleCommandPalette and showPaletteMenu.                               *)
MenuKeyRelease(ic) ==
    /\ held
    /\ held' = FALSE
    /\ IF session THEN Becomes(Here) /\ UNCHANGED items
       ELSE IF palette.visible THEN Becomes(hidePaletteMenu(Here)) /\ UNCHANGED items
       ELSE /\ items' = reloadPaletteItems
            /\ palette' = [visible |-> TRUE, ic |-> ic, query |-> <<>>]
            /\ panel' = [panel EXCEPT ![ic] = List("palette", PaletteWords(items', <<>>), 1)]
            /\ raced' = result.visible
            /\ last' = Nothing
            /\ UNCHANGED <<result, stale, session>>
    /\ UNCHANGED world

(* A candidate is clicked in the panel.                                    *)
Click(ic) ==
    /\ panel[ic].words # <<>>
    /\ \E i \in DOMAIN panel[ic].words : Becomes(Select(Here, panel[ic].words[i]))
    /\ UNCHANGED <<world, items, held>>

ResultWords(candidates) ==
    [i \in DOMAIN candidates |-> [menu |-> "result", index |-> i, shows |-> candidates[i]]]

(* Mutant of showResultMenu: leaves open menus as they are.                *)
showResultMenuOver(ic, candidates) ==
    /\ LET m == Here
       IN  Becomes([m EXCEPT !.session = FALSE,
                             !.result = [visible |-> TRUE, ic |-> ic, candidates |-> candidates],
                             !.panel[ic] = List("result", ResultWords(candidates), 0)])
    /\ UNCHANGED <<world, items, held>>

(* A recording ends with several candidates (handleRecognitionResult):     *)
(* finishFrontendSession clears the presentation, open menus included, and *)
(* showResultMenu puts up the new one, with no word under the cursor.      *)
showResultMenu(ic, candidates) ==
    /\ LET m == dismissMenusForVoiceActivity(Here)
       IN  Becomes([m EXCEPT !.session = FALSE,
                             !.result = [visible |-> TRUE, ic |-> ic, candidates |-> candidates],
                             !.panel[ic] = List("result", ResultWords(candidates), 0)])
    /\ UNCHANGED <<world, items, held>>

(* A recording starts, by this frontend or another: menus give way.        *)
VoiceActivity ==
    /\ ~session
    /\ Becomes([dismissMenusForVoiceActivity(Here) EXCEPT !.session = TRUE])
    /\ UNCHANGED <<world, items, held>>

(* A recording ends in any other way, which clears the presentation too.   *)
finishFrontendSession ==
    /\ session
    /\ Becomes([dismissMenusForVoiceActivity(Here) EXCEPT !.session = FALSE])
    /\ UNCHANGED <<world, items, held>>

(* The focus leaves an input context: a held key no longer counts, and a   *)
(* recording held by a key is abandoned.  Open menus stay, and go on       *)
(* taking the keys of whichever context has the focus.                     *)
FocusOut ==
    /\ held
    /\ held' = FALSE
    /\ \/ Becomes(Here)
       \/ session /\ Becomes([dismissMenusForVoiceActivity(Here) EXCEPT !.session = FALSE])
    /\ UNCHANGED <<world, items>>

(* An input context goes away: resetPaletteMenuState, resetResultMenuState.*)
ContextDestroyed(ic) ==
    /\ ic \in {palette.ic, result.ic}
    /\ Becomes([Here EXCEPT !.palette = IF palette.ic = ic THEN ClosedPalette ELSE @,
                            !.stale = IF palette.ic = ic THEN FALSE ELSE @,
                            !.result = IF result.ic = ic THEN ClosedResult ELSE @,
                            !.panel[ic] = NoList])
    /\ UNCHANGED <<world, items, held>>

(* The configuration changes under the addon, and applySettings reloads    *)
(* the items, under an open palette too.                                   *)
ConfigChanges(w) ==
    /\ world' = w
    /\ world' # world
    /\ last' = Nothing
    /\ UNCHANGED <<items, palette, result, panel, session, held, stale, raced>>

applySettings ==
    /\ items # reloadPaletteItems
    /\ items' = reloadPaletteItems
    /\ stale' = palette.visible
    /\ last' = Nothing
    /\ UNCHANGED <<world, palette, result, panel, session, held, raced>>

Next ==
    \/ \E k \in Keys : KeyPress(k)
    \/ MenuKeyPress
    \/ \E ic \in Contexts :
          \/ MenuKeyRelease(ic) \/ Click(ic) \/ ContextDestroyed(ic)
          \/ \E c \in Results : showResultMenu(ic, c)
    \/ VoiceActivity \/ finishFrontendSession \/ FocusOut
    \/ \E w \in Worlds : ConfigChanges(w)
    \/ applySettings

Spec == Init /\ [][Next]_vars

-----------------------------------------------------------------------------
(* What happens is what the user read: a word chosen by a digit, by Enter, *)
(* by paging or by a click acts on the very item or candidate it shows,    *)
(* under any query, page and reload of the items, unless the items were    *)
(* reloaded under the open palette and the list was not built again since  *)
(* (its words then index another list).                                    *)
ActsOnWhatIsShown == last.stale \/ last.shown = last.done

(* The keys steer the menu the user sees: a menu marked visible has its    *)
(* words in its context's panel, and the two menus are never up together,  *)
(* through recordings, results, changes of focus and lost contexts, unless *)
(* a result came up while the palette key was held down.                   *)
MenuIsInPanel ==
    raced \/ /\ palette.visible => panel[palette.ic].menu = "palette"
             /\ result.visible => panel[result.ic].menu = "result"
             /\ ~(palette.visible /\ result.visible)
=============================================================================
