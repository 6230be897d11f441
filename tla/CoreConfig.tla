----------------------------- MODULE CoreConfig -----------------------------
(***************************************************************************)
(* The configuration every process of the system shares: what its file     *)
(* means (core_config_json.cpp), the normal form that a load and a save    *)
(* bring it to (core_config_normalize.cpp), the conditions a save insists  *)
(* on (core_config_validate.cpp) and the operations on scenes              *)
(* (postprocess_scene.cpp).  Pure operators, no state: ConfigEdits applies *)
(* them in the handlers that change the file.                              *)
(*                                                                         *)
(* A configuration is a record with one field per section of the file.     *)
(* Identifiers are strings, "" the empty one.  The six numeric knobs that  *)
(* are clamped are represented by one of each section, the gain of asr and *)
(* the volume of global, on the scale 0..4 whose admissible range is 1..3; *)
(* a set env holds the names of the environment variables.                 *)
(***************************************************************************)
EXTENDS Integers, Sequences, FiniteSets, SequencesExt

Sections == {"registry", "global", "llm", "scenes", "asr", "triggers", "receivers"}

kRawSceneId == "__raw__"
kCommandSceneId == "__command__"

\* kMinLlmMaxCandidates, kMaxLlmMaxCandidates and the range of the knobs, on
\* a shorter scale.
MinCandidates == 0
MaxCandidates == 3
KnobLo == 1
KnobHi == 3

Clamp(x, lo, hi) == IF x < lo THEN lo ELSE IF x > hi THEN hi ELSE x

\* (The concatenation makes TLC compute the sequence once.)
EachOf(F(_), s) == [i \in DOMAIN s |-> F(s[i])] \o <<>>

Ids(s) == {s[i].id : i \in DOMAIN s}

Unique(s) == "" \notin Ids(s) /\ Cardinality(Ids(s)) = Len(s)

Position(s, id) == CHOOSE i \in DOMAIN s : s[i].id = id /\ \A j \in 1..(i - 1) : s[j].id # id

ById(s, id) == s[Position(s, id)]

Without(s, id) == SelectSeq(s, LAMBDA x : x.id # id)

\* The elements of s that come first with their name, in order: the loops with a
\* seen-set, which also drop the elements whose name is empty.
FirstOf(Name(_), s) ==
    LET First(p) == Name(p[2]) # "" /\ \A j \in 1..(p[1] - 1) : Name(s[j]) # Name(p[2])
        Element(p) == p[2]
    IN  EachOf(Element, SelectSeq([i \in DOMAIN s |-> <<i, s[i]>>], First))

FirstById(s) == FirstOf(LAMBDA x : x.id, s)

EraseEmptyEnvKeys(x) == [x EXCEPT !.env = @ \ {""}]

-----------------------------------------------------------------------------
(***************************************************************************)
(* Scenes.  A prompt is "", "old" (a default of an earlier release),       *)
(* "default" or the user's "own"; a label is "", "key" (one of the two     *)
(* translation keys), "shown" (what a key is displayed as) or "own".       *)
(***************************************************************************)

NewScene(id) ==
    [id |-> id, label |-> "", prompt |-> "", provider |-> "", model |-> "",
     count |-> 1, timeout |-> 1, builtin |-> FALSE]

MakeBuiltinScene(id) ==
    [NewScene(id) EXCEPT !.label = "key", !.builtin = TRUE,
                         !.count = IF id = kRawSceneId THEN 0 ELSE 1,
                         !.prompt = IF id = kCommandSceneId THEN "default" ELSE ""]

IsBuiltinSceneId(id) == id \in {kRawSceneId, kCommandSceneId}

NormalizeDefinition(scene) ==
    [scene EXCEPT !.builtin = @ \/ IsBuiltinSceneId(scene.id),
                  !.count = Clamp(@, MinCandidates, MaxCandidates),
                  !.timeout = IF @ = 0 THEN 1 ELSE @]

ValidateDefinition(scene) ==
    /\ scene.id # ""
    /\ scene.timeout > 0
    /\ (scene.provider = "") = (scene.model = "")

DisplayLabel(scene) ==
    CASE scene.label = "key" -> "shown"
      [] scene.label \notin {"", "key"} -> scene.label
      [] scene.label = "" /\ IsBuiltinSceneId(scene.id) -> "shown"
      [] OTHER -> scene.id

\* The operations on the list of scenes: the set of the scenes it may
\* leave behind, empty when it is refused.
AddScene(sc, def) ==
    LET new == NormalizeDefinition(def)
    IN  IF ~ValidateDefinition(new) \/ new.id \in Ids(sc.definitions) THEN {}
        ELSE {[sc EXCEPT !.definitions = Append(@, new)]}

UpdateScene(sc, id, def) ==
    IF id \notin Ids(sc.definitions) THEN {}
    ELSE LET i == Position(sc.definitions, id)
             new == NormalizeDefinition([def EXCEPT !.id = id, !.builtin = sc.definitions[i].builtin])
         IN  IF ValidateDefinition(new) THEN {[sc EXCEPT !.definitions[i] = new]} ELSE {}

RemoveScene(sc, id, force) ==
    LET left == Without(sc.definitions, id)
    IN  IF \/ id \notin Ids(sc.definitions)
           \/ ById(sc.definitions, id).builtin
           \/ ~force /\ sc.active = id
        THEN {}
        ELSE {[definitions |-> left,
                active |-> IF sc.active # id THEN sc.active
                           ELSE IF left = <<>> THEN "" ELSE left[1].id]}

SetActiveScene(sc, id) ==
    IF id \in Ids(sc.definitions) THEN {[sc EXCEPT !.active = id]} ELSE {}

\* Mutant of ClearProviderReferences: every scene forgets its provider.
ClearAllReferences(sc, id) ==
    LET Clear(s) == [s EXCEPT !.provider = "", !.model = ""]
    IN  [sc EXCEPT !.definitions = EachOf(Clear, @)]

ClearProviderReferences(sc, id) ==
    LET Clear(s) == IF id # "" /\ s.provider = id THEN [s EXCEPT !.provider = "", !.model = ""] ELSE s
    IN  [sc EXCEPT !.definitions = EachOf(Clear, @)]

-----------------------------------------------------------------------------
(***************************************************************************)
(* The normal form.                                                        *)
(***************************************************************************)

\* A default-constructed CoreConfig.
EmptyConfig ==
    [registry |-> <<>>,
     global |-> [device |-> "", volume |-> 2],
     llm |-> [providers |-> <<>>, adapters |-> <<>>],
     scenes |-> [active |-> "", definitions |-> <<>>],
     asr |-> [active |-> "", gain |-> 2, providers |-> <<>>],
     triggers |-> <<>>,
     receivers |-> <<>>]

NormalUrls(urls) == FirstOf(LAMBDA u : u, urls)

\* Mutant of NormalAsrProviders: a provider without a command stays.
NormalAsrProvidersUnjudged(providers) == EachOf(EraseEmptyEnvKeys, FirstById(providers))

\* A provider's identifier counts as seen before its empty command drops it.
NormalAsrProviders(providers) ==
    EachOf(EraseEmptyEnvKeys,
           SelectSeq(FirstById(providers), LAMBDA p : p.type = "local" \/ p.command # ""))

\* A scene is completed and judged before its identifier counts as seen.
NormalScenes(definitions) ==
    LET Complete(s) == LET n == NormalizeDefinition(s)
                       IN  IF s.id = kCommandSceneId /\ s.prompt \in {"", "old"}
                           THEN [n EXCEPT !.prompt = "default"] ELSE n
        kept == FirstById(SelectSeq(EachOf(Complete, definitions), ValidateDefinition))
        Missing(id) == IF id \in Ids(kept) THEN <<>> ELSE <<MakeBuiltinScene(id)>>
    IN  kept \o Missing(kRawSceneId) \o Missing(kCommandSceneId)

\* Triggers and receivers share one seen-set, triggers first.
NormalReceivers(triggers, receivers) ==
    SelectSeq(FirstById(receivers), LAMBDA r : r.id \notin Ids(triggers))

NormalizeCoreConfig(c) ==
    LET scenes == NormalScenes(c.scenes.definitions)
        providers == NormalAsrProviders(c.asr.providers)
        Live(active, list) == IF active \in Ids(list) THEN active ELSE ""
    IN  [registry |-> NormalUrls(c.registry),
         global |-> [c.global EXCEPT !.volume = Clamp(@, KnobLo, KnobHi)],
         llm |-> [providers |-> FirstById(c.llm.providers),
                  adapters |-> EachOf(EraseEmptyEnvKeys, FirstById(c.llm.adapters))],
         scenes |-> [active |-> Live(c.scenes.active, scenes), definitions |-> scenes],
         asr |-> [active |-> Live(c.asr.active, providers), gain |-> Clamp(c.asr.gain, KnobLo, KnobHi),
                  providers |-> providers],
         triggers |-> EachOf(EraseEmptyEnvKeys, FirstById(c.triggers)),
         receivers |-> EachOf(EraseEmptyEnvKeys, NormalReceivers(c.triggers, c.receivers))]

ValidateCoreConfig(c) ==
    /\ Unique(c.llm.providers) /\ Unique(c.llm.adapters)
    /\ Unique(c.asr.providers)
    /\ \A i \in DOMAIN c.asr.providers : c.asr.providers[i].type = "local" \/ c.asr.providers[i].command # ""
    /\ c.asr.active \in Ids(c.asr.providers) \cup {""}
    /\ Unique(c.scenes.definitions)
    /\ \A i \in DOMAIN c.scenes.definitions : ValidateDefinition(c.scenes.definitions[i])
    /\ {kRawSceneId, kCommandSceneId} \subseteq Ids(c.scenes.definitions)
    /\ c.scenes.active \in Ids(c.scenes.definitions) \cup {""}

MaterializeBuiltinSceneLabels(c) ==
    LET Label(s) == IF IsBuiltinSceneId(s.id) /\ s.label \in {"", "key"}
                    THEN [s EXCEPT !.label = DisplayLabel(s)] ELSE s
    IN  [c EXCEPT !.scenes.definitions = EachOf(Label, @)]

-----------------------------------------------------------------------------
(***************************************************************************)
(* The file: absent, unreadable (no text, no JSON, no object), or sections *)
(* of which some are missing or hold a value of the wrong type ("bad").    *)
(***************************************************************************)

Readable(wire, bad) == [kind |-> "ok", wire |-> wire, bad |-> bad]
Absent == [kind |-> "absent", wire |-> EmptyConfig, bad |-> {}]
Unreadable == [Absent EXCEPT !.kind = "unreadable"]

\* What a section of the file becomes: an ASR provider of an unknown type is the
\* default-constructed local provider, empty registry URLs are skipped, a scene
\* has no builtin flag.
FromWire(wire) ==
    LET Provider(p) == IF p.type = "unknown"
                       THEN [p EXCEPT !.id = "", !.type = "local", !.command = "", !.model = "",
                                      !.hotwords = "", !.managed = FALSE, !.env = {}]
                       ELSE p
        Scene(s) == [s EXCEPT !.builtin = FALSE]
    IN  [wire EXCEPT !.registry = SelectSeq(@, LAMBDA u : u # ""),
                     !.asr.providers = EachOf(Provider, @),
                     !.scenes.definitions = EachOf(Scene, @)]

\* Optional members that hold their default are left out of the file and come
\* back as the default; only the label of a built-in scene does not come back.
ToWire(c) ==
    LET Scene(s) == [s EXCEPT !.builtin = FALSE,
                              !.label = IF s.label = "key" \/ IsBuiltinSceneId(s.id) THEN "" ELSE @]
    IN  [c EXCEPT !.scenes.definitions = EachOf(Scene, @)]

CoreConfigFromJson(file) ==
    LET parsed == FromWire(file.wire)
        Read(s) == IF s \in file.bad THEN EmptyConfig[s] ELSE parsed[s]
    IN  [registry |-> Read("registry"), global |-> Read("global"), llm |-> Read("llm"),
         scenes |-> Read("scenes"), asr |-> Read("asr"),
         triggers |-> Read("triggers"), receivers |-> Read("receivers")]

\* What a save writes, and the normalised configuration its process remembers.
CoreConfigToJson(c) == Readable(ToWire(MaterializeBuiltinSceneLabels(NormalizeCoreConfig(c))), {})

\* LoadCoreConfig without its cache; Bundled is the configuration shipped with
\* the program.
LoadCoreConfigFromFile(file, Bundled) ==
    NormalizeCoreConfig(CASE file.kind = "absent" -> CoreConfigFromJson(Readable(Bundled, {}))
                          [] file.kind = "unreadable" -> EmptyConfig
                          [] OTHER -> CoreConfigFromJson(file))

-----------------------------------------------------------------------------
(***************************************************************************)
(* CoreConfigView and core_config_resolve.cpp.                             *)
(***************************************************************************)

LocalProviders(c) == SelectSeq(c.asr.providers, LAMBDA p : p.type = "local")

\* The identifier of the active provider if it is local, else of the first local
\* one; "" when there is none.
PreferredLocalAsrProvider(c) ==
    LET locals == LocalProviders(c)
    IN  IF c.asr.active \in Ids(locals) THEN c.asr.active
        ELSE IF locals = <<>> THEN "" ELSE locals[1].id

PreferredLocalModel(c) ==
    IF PreferredLocalAsrProvider(c) = "" THEN ""
    ELSE ById(c.asr.providers, PreferredLocalAsrProvider(c)).model

SetPreferredLocalModel(c, model) ==
    IF PreferredLocalAsrProvider(c) = "" THEN {}
    ELSE {[c EXCEPT !.asr.providers[Position(c.asr.providers, PreferredLocalAsrProvider(c))].model = model]}

SetActiveCommandModel(c, provider, model) ==
    LET defs == c.scenes.definitions
        Chosen(s) == [s EXCEPT !.provider = provider, !.model = model]
    IN  IF kCommandSceneId \in Ids(defs)
        THEN [c EXCEPT !.scenes.definitions[Position(defs, kCommandSceneId)] = Chosen(@)]
        ELSE [c EXCEPT !.scenes.definitions = Append(@, Chosen([NewScene(kCommandSceneId) EXCEPT
                                                            !.label = "key", !.builtin = TRUE]))]

=============================================================================
