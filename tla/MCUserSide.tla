----------------------------- MODULE MCUserSide -----------------------------
(***************************************************************************)
(* What the user reads and what is kept for them, for one run of TLC: the  *)
(* configuration (its handlers, its store shared by several processes, its *)
(* migration), the history of texts, the menus, the notifications and the  *)
(* rewriting of what was said.  They share no state here, so a behaviour   *)
(* picks one part and runs it; store, migration and history, which are     *)
(* extended, rest in an initial state otherwise, and the variables of the  *)
(* instantiated ones are 0.  What is shown of one is what its own module   *)
(* says.                                                                   *)
(***************************************************************************)
EXTENDS ConfigStore, ConfigMigration, ContextHistory, TLC

CONSTANTS
    Files, Bundled, SceneForms, ProviderIds, AdapterIds, AsrIds, Models, MaxEdits,
    Commands, Worlds, Matches, Results, Chars, PageSize, MaxQuery,
    Sources, Output, WholeLines, Json, BufferSize, CacheSize, Window, MaxChunk, MaxTime,
    Requests, Answers, kMaxLlmMaxCandidates

VARIABLES
    part,   \* the one that runs
    settings, loaded, scripts, running, broken, last, edits,
    world, items, palette, result, panel, session, held, act, stale, raced,
    helper, buffers, dedup, now, handled, capped,
    request, step, answer, cancelled, payload, error, inTime

Core == INSTANCE CoreConfig
Edits == INSTANCE ConfigEdits WITH file <- settings
Menus == INSTANCE AddonMenus WITH last <- act
Bridge == INSTANCE NotificationBridge WITH cache <- dedup
Post == INSTANCE PostProcessor WITH stage <- step

editVars == <<settings, loaded, scripts, running, broken, last, edits>>
menuVars == <<world, items, palette, result, panel, session, held, act, stale, raced>>
bridgeVars == <<helper, buffers, dedup, now, handled, capped>>
postVars == <<request, step, answer, cancelled, payload, error, inTime>>
userSideVars == <<part, editVars, vars, migrationVars, historyVars, menuVars, bridgeVars, postVars>>

-----------------------------------------------------------------------------
(***************************************************************************)
(* Configurations.  The shipped one, one in use, and what a user may type  *)
(* into a scene; beside them a file with mistakes of every kind that the   *)
(* normal form mends.                                                      *)
(***************************************************************************)
SceneOf(id, provider, model, count, timeout) ==
    [Core!NewScene(id) EXCEPT !.provider = provider, !.model = model, !.count = count,
                              !.timeout = timeout]
LocalAsr(id, model) ==
    [id |-> id, type |-> "local", model |-> model, hotwords |-> "", command |-> "", managed |-> FALSE,
     env |-> {}]
CommandAsr(id, command, managed) ==
    [LocalAsr(id, "") EXCEPT !.type = "command", !.command = command, !.managed = managed]

Raw == [Core!NewScene(Core!kRawSceneId) EXCEPT !.label = "key", !.count = 0]
Command == [Core!NewScene(Core!kCommandSceneId) EXCEPT !.label = "key", !.prompt = "default"]

Shipped ==
    [Core!EmptyConfig EXCEPT
        !.registry = <<"url">>, !.global.device = "default",
        !.asr = [active |-> "local", gain |-> 2, providers |-> <<LocalAsr("local", "")>>],
        !.scenes = [active |-> Core!kRawSceneId, definitions |-> <<Raw, Command>>]]

InUse ==
    [Shipped EXCEPT
        !.asr.providers = Append(@, CommandAsr("cloud", "registry", TRUE)),
        !.asr.active = "cloud",
        !.llm = [providers |-> <<[id |-> "p", url |-> "u"]>>,
                 adapters |-> <<[id |-> "a", command |-> "registry", managed |-> TRUE, auto |-> TRUE,
                                 env |-> {"VAR"}]>>],
        !.scenes.definitions = Append(@, SceneOf("s", "p", "m", 1, 1)),
        !.scenes.active = "s",
        !.triggers = <<[id |-> "t", env |-> {}]>>]

SomeForms == {SceneOf("s", "", "", 1, 1), SceneOf("t", "p", "m", 2, 1), SceneOf("t", "p", "", 5, 1),
              SceneOf("", "", "", 1, 0)}
SomeFiles == {Core!Absent, Core!Readable(InUse, {}), Core!Readable(InUse, {"scenes"})}

(* Lists of scenes and providers with repeated, empty and built-in names,  *)
(* half-filled and out-of-range entries, unknown types and dangling names. *)
OddScenes == {Command, [Command EXCEPT !.prompt = "old", !.label = "own"], SceneOf("s", "p", "", 1, 1),
              SceneOf("s", "p", "m", 5, 0), [SceneOf("t", "", "", -1, 1) EXCEPT !.label = "key"],
              SceneOf("", "", "", 1, 1)}
OddAsr == {LocalAsr("local", ""), CommandAsr("cloud", "", FALSE), CommandAsr("cloud", "c", FALSE),
           [LocalAsr("local", "m") EXCEPT !.type = "unknown"], CommandAsr("", "c", FALSE)}
OddFiles ==
    {Core!Unreadable} \cup
    {Core!Readable([InUse EXCEPT !.scenes = [active |-> active, definitions |-> <<s, t, u>>],
                                  !.asr.providers = <<p, q>>, !.asr.gain = gain,
                                  !.registry = <<"", "url", "url">>,
                                  !.receivers = <<[id |-> "t", env |-> {"", "X"}], [id |-> "r", env |-> {""}]>>], {}) :
        active \in {"s", "t"}, s \in OddScenes, t \in OddScenes, u \in {Raw, SceneOf("s", "", "", 1, 1)},
        p \in OddAsr, q \in OddAsr, gain \in {0, 4}}
    \cup {Core!Readable(InUse, bad) : bad \in SUBSET Core!Sections}

(* The command line, two threads of the settings window and the daemon.    *)
Owners == [cli |-> "cli", ui |-> "gui", task |-> "gui", daemon |-> "daemon"]

(* Files of every release, with and without each member a rule is about;   *)
(* ConfigMigration numbers 2.3.14, 2.3.15, its target 2.4.0 and 2.5.0 so.  *)
Opt(key, values) == {<<>>} \cup {key :> v : v \in values}
OldConfigs ==
    {a @@ b @@ c @@ d @@ e @@ f :
        a \in Opt("version", {1, 2, 5, 6}),
        b \in Opt("candidate_count", {1}), c \in Opt("count", {2}), d \in Opt("show_raw", {0}),
        e \in Opt("speech_pad_ms", {30, 7}), f \in Opt("vinput_version", {1})}
OldConfs ==
    {a @@ b @@ c :
        a \in Opt("SceneMenuKey", {1}), b \in Opt("MenuKey", {2}), c \in Opt("HoldActivationDelay", {3})}

(* Two commands, whose items a user may add to or take from meanwhile.     *)
Item(id, category) == [id |-> id, category |-> category, entry |-> FALSE]
SomeCommands == <<"m", "s">>
SomeWorlds == {<<Item("x", "m"), Item("y", "s")>>, <<Item("y", "s")>>,
               <<Item("x", "m"), Item("z", "m"), Item("y", "s")>>}
SomeMatches == [c \in {"m", "s", "/", " "} |-> IF c = "m" THEN {"m", "x", "y"} ELSE {"s", "y", "z"}]
SomeResults == {<<Item("r1", "r"), Item("r2", "r"), Item("r3", "r")>>}

(* Two helpers: lines that end and lines that do not, blank ones, one that *)
(* is cut by the end of the run; 7 is JSON with the text of the line 1.    *)
(* The line ends and the blank are NotificationBridge's.                   *)
NL == 0
CR == 90
Blank == 91
SomeOutput ==
    [a |-> <<<<1, NL, NL, 2, CR, NL, 1>>, <<3, NL, 2>>>>,
     b |-> <<<<1, Blank, NL, 1, NL, 7, NL>>>>]
SomeWhole == <<<<1>>>>
SomeJson == <<7>> :> [title |-> "Voice Input", body |-> <<1>>]

(* Utterances: empty, blank, and words with or without blanks around them. *)
Text(core, pad) == [core |-> core, pad |-> pad]
SomeTexts == {Text("", FALSE), Text("", TRUE), Text("a", FALSE), Text("a", TRUE), Text("b", FALSE)}
SomeScenes == [known : {TRUE}, count : {0, 1, 2, 4}, rawCand : BOOLEAN]
              \cup [known : {FALSE}, count : {1}, rawCand : {TRUE}]
Targets == {"unset", "none", "provider", "adapter"}
SomeRequests ==
    [command : {FALSE}, text : SomeTexts, selected : {Text("", FALSE)}, scene : SomeScenes, target : Targets,
     badPrompt : BOOLEAN]
    \cup [command : {TRUE}, text : SomeTexts, selected : SomeTexts, target : Targets, badPrompt : BOOLEAN,
          scene : {s \in SomeScenes : s.known /\ s.rawCand}]
Answered == UNION {[1 .. n -> {Text("", TRUE), Text("a", TRUE), Text("b", FALSE), Text("c", FALSE)}] : n \in 0 .. 3}
SomeAnswers == [json : BOOLEAN, lines : Answered]

-----------------------------------------------------------------------------
EditsRest == /\ settings = 0 /\ loaded = 0 /\ scripts = 0 /\ running = 0 /\ broken = 0 /\ last = 0
             /\ edits = 0
MenusRest == /\ world = 0 /\ items = 0 /\ palette = 0 /\ result = 0 /\ panel = 0 /\ session = 0
             /\ held = 0 /\ act = 0 /\ stale = 0 /\ raced = 0
BridgeRest == /\ helper = 0 /\ buffers = 0 /\ dedup = 0 /\ now = 0 /\ handled = 0 /\ capped = 0
PostRest == /\ request = 0 /\ step = 0 /\ answer = 0 /\ cancelled = 0 /\ payload = 0 /\ error = 0
            /\ inTime = 0

(* "odd" only loads and saves the files with mistakes.                     *)
OddInit ==
    /\ settings \in OddFiles /\ loaded = Edits!LoadCoreConfig(settings)
    /\ scripts = {} /\ running = {} /\ broken = {} /\ edits = MaxEdits
    /\ last = [about |-> {}, by |-> "none", refused |-> FALSE]

UserSideInit ==
    /\ part \in {"edits", "odd", "store", "migration", "history", "menus", "bridge", "post"}
    /\ CASE part = "edits" -> Edits!Init [] part = "odd" -> OddInit [] OTHER -> EditsRest
    /\ Init
    /\ part # "migration" => config = NoFile /\ conf = NoFile
    /\ MigrationInit
    /\ part # "history" => maxLines = 0
    /\ HistoryInit
    /\ IF part = "menus" THEN Menus!Init ELSE MenusRest
    /\ IF part = "bridge" THEN Bridge!Init ELSE BridgeRest
    /\ IF part = "post" THEN Post!Init ELSE PostRest

UserSideNext ==
    /\ UNCHANGED part
    /\ \/ /\ part = "edits" /\ Edits!Next
          /\ UNCHANGED <<vars, migrationVars, historyVars, menuVars, bridgeVars, postVars>>
       \/ /\ part = "store" /\ Next
          /\ UNCHANGED <<editVars, migrationVars, historyVars, menuVars, bridgeVars, postVars>>
       \/ /\ part = "migration" /\ MigrationNext
          /\ UNCHANGED <<editVars, vars, historyVars, menuVars, bridgeVars, postVars>>
       \/ /\ part = "history" /\ HistoryNext
          /\ UNCHANGED <<editVars, vars, migrationVars, menuVars, bridgeVars, postVars>>
       \/ /\ part = "menus" /\ Menus!Next
          /\ UNCHANGED <<editVars, vars, migrationVars, historyVars, bridgeVars, postVars>>
       \/ /\ part = "bridge" /\ Bridge!Next
          /\ UNCHANGED <<editVars, vars, migrationVars, historyVars, menuVars, postVars>>
       \/ /\ part = "post" /\ Post!Next
          /\ UNCHANGED <<editVars, vars, migrationVars, historyVars, menuVars, bridgeVars>>

UserSideSpec == UserSideInit /\ [][UserSideNext]_userSideVars

-----------------------------------------------------------------------------
(* Whatever the file holds, what is loaded can be saved and comes back.    *)
SavedComesBack == part \in {"edits", "odd"} => Edits!SavedComesBack

(* A handler changes the settings it was asked to change and no others.    *)
EditsAreLocal == [][part = "edits" => Edits!OnlyWhatWasAsked]_userSideVars

(* A listed script is on disk, and an adapter stopped for a change that    *)
(* did not go through runs again.                                          *)
ScriptsFollowConfig ==
    /\ [](part = "edits" => Edits!ListedHasScript)
    /\ [][part = "edits" => Edits!StoppedForAReason]_userSideVars

(* A key acts on the candidate the user reads, and an open menu is shown.  *)
MenusAreTruthful == part = "menus" => Menus!ActsOnWhatIsShown /\ Menus!MenuIsInPanel

(* A notification is a whole line of one helper, and repeats are quiet.    *)
LinesBecomeNotifications == part = "bridge" => Bridge!LinesArriveWhole /\ Bridge!RepeatsAreQuiet

(* What is offered is what the scene allows: no more rewrites than asked   *)
(* for, none twice, the user's own words first, and what is committed at   *)
(* once is among them.  Something said reaches the user as spoken, and a   *)
(* rewrite only when the model answered before anyone cancelled.           *)
PayloadSound ==
    part = "post" =>
        Post!PayloadSound /\ Post!SpokenTextArrives /\ Post!RewriteOnlyWhenAnswered
=============================================================================
