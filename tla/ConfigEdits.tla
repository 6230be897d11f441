----------------------------- MODULE ConfigEdits -----------------------------
(***************************************************************************)
(* The handlers that change the configuration: the commands of the vinput  *)
(* program (cli/config), the pages of the settings window (gui) and the    *)
(* palette of the addon (addon/menu).  Each one loads the configuration,   *)
(* changes it and saves it; those that install or remove a registry script *)
(* also touch the script's file and the running adapters, which the user   *)
(* starts and stops from the same places.  One handler is one step here:   *)
(* what happens when handlers of several processes overlap is              *)
(* ConfigStore's subject.                                                  *)
(*                                                                         *)
(*   file     the configuration file (CoreConfig's files)                  *)
(*   loaded   what LoadCoreConfig makes of it, kept beside it so that it   *)
(*            is computed once                                             *)
(*   scripts  the registry scripts on disk, <<kind, id>>                   *)
(*   running  the adapters the daemon runs                                 *)
(*   broken   the scripts deleted by a removal that then could not save    *)
(*   last     the last handler: the keys it was asked to change, who ran   *)
(*            it, and whether the daemon refused to start an adapter       *)
(*   edits    how many handlers have run, bounded by MaxEdits              *)
(***************************************************************************)
EXTENDS CoreConfig

CONSTANTS Files,      \* the files the system may start from
          Bundled,    \* the configuration shipped with the program, as in its file
          SceneForms, \* scenes a user may enter in a form or on the command line
          ProviderIds, AdapterIds, AsrIds, Models,
          MaxEdits

VARIABLES file, loaded, scripts, running, broken, last, edits

vars == <<file, loaded, scripts, running, broken, last, edits>>

LoadCoreConfig(f) == LoadCoreConfigFromFile(f, Bundled)

Scene(id) == <<"scene", id>>
Provider(id) == <<"provider", id>>
Adapter(id) == <<"adapter", id>>
Asr(id) == <<"asr", id>>
Scalar(name) == <<"scalar", name>>

SceneIds == {s.id : s \in SceneForms} \cup {kRawSceneId, kCommandSceneId}

ScalarNames == {"active scene", "active asr", "device", "volume", "gain", "registry", "triggers", "receivers"}

Keys == {Scene(id) : id \in SceneIds} \cup {Provider(id) : id \in ProviderIds}
        \cup {Adapter(id) : id \in AdapterIds} \cup {Asr(id) : id \in AsrIds}
        \cup {Scalar(name) : name \in ScalarNames}

\* The keys a section of the file holds.
KeysOf(section) ==
    CASE section = "scenes" -> {k \in Keys : k[1] = "scene"} \cup {Scalar("active scene")}
      [] section = "llm" -> {k \in Keys : k[1] \in {"provider", "adapter"}}
      [] section = "asr" -> {k \in Keys : k[1] = "asr"} \cup {Scalar("active asr"), Scalar("gain")}
      [] section = "global" -> {Scalar("device"), Scalar("volume")}
      [] OTHER -> {Scalar(section)}

\* The value of a setting: the entry of that name, as a set of at most one element.
\* The label of a built-in scene, or one that is a translation key, is left out: a
\* save never writes it.
Setting(c, k) ==
    LET Entry(list) == {list[i] : i \in {j \in DOMAIN list : list[j].id = k[2]}}
    IN  CASE k[1] = "scene" -> {IF IsBuiltinSceneId(s.id) \/ s.label = "key" THEN [s EXCEPT !.label = ""] ELSE s :
                                    s \in Entry(c.scenes.definitions)}
          [] k[1] = "provider" -> Entry(c.llm.providers)
          [] k[1] = "adapter" -> Entry(c.llm.adapters)
          [] k[1] = "asr" -> Entry(c.asr.providers)
          [] k = Scalar("active scene") -> {c.scenes.active}
          [] k = Scalar("active asr") -> {c.asr.active}
          [] k = Scalar("gain") -> {c.asr.gain}
          [] k = Scalar("device") -> {c.global.device}
          [] k = Scalar("volume") -> {c.global.volume}
          [] k = Scalar("registry") -> {c.registry}
          [] k = Scalar("triggers") -> {c.triggers}
          [] k = Scalar("receivers") -> {c.receivers}

Init ==
    /\ file \in Files
    /\ loaded = LoadCoreConfig(file)
    /\ scripts = {<<"adapter", a.id>> : a \in {x \in Range(loaded.llm.adapters) : x.managed}}
                 \cup {<<"asr", p.id>> : p \in {x \in Range(loaded.asr.providers) : x.managed}}
    /\ running \in SUBSET Ids(loaded.llm.adapters)
    /\ broken = {}
    /\ last = [about |-> {}, by |-> "none", refused |-> FALSE]
    /\ edits = 0

-----------------------------------------------------------------------------
(***************************************************************************)
(* SaveCoreConfig: normalise, validate, write.  A save fails when the      *)
(* configuration does not validate or the file cannot be written, and has  *)
(* no effect when its process dies before it.                              *)
(***************************************************************************)

Written(c) ==
    /\ ValidateCoreConfig(NormalizeCoreConfig(c))
    /\ \E f \in {CoreConfigToJson(c)} : file' = f /\ loaded' = LoadCoreConfig(f)

NotWritten == UNCHANGED <<file, loaded>>

SaveCoreConfig(c) == Written(c) \/ NotWritten

Handler(by, keys, refused) ==
    /\ edits' = edits + 1
    /\ last' = [about |-> keys, by |-> by, refused |-> refused]

Asked(by, keys) == Handler(by, keys, FALSE)

NoScripts == UNCHANGED <<scripts, running, broken>>

\* A handler that touches nothing but the file.
Edit(by, keys, c) == Asked(by, keys) /\ SaveCoreConfig(c) /\ NoScripts

\* LlmPage's MutateSceneConfig, and the same three steps in scene_actions.cpp.
MutateSceneConfig(by, keys, outcomes) ==
    \E sc \in outcomes : Edit(by, keys, [loaded EXCEPT !.scenes = sc])

-----------------------------------------------------------------------------
(***************************************************************************)
(* Entering a registry entry in the configuration (registry_scripts.cpp),  *)
(* refused for an entry of the user's own, and taking an ASR provider out. *)
(***************************************************************************)

MaterializeAsrProvider(c, id) ==
    IF id \notin Ids(c.asr.providers)
    THEN {[c EXCEPT !.asr.providers = Append(@, [id |-> id, type |-> "command", model |-> "", hotwords |-> "",
                                                 command |-> "registry", managed |-> TRUE, env |-> {"VAR"}])]}
    ELSE LET i == Position(c.asr.providers, id)
         IN  IF c.asr.providers[i].type = "command" /\ c.asr.providers[i].managed
             THEN {[c EXCEPT !.asr.providers[i].command = "registry", !.asr.providers[i].env = @ \cup {"VAR"}]}
             ELSE {}

WithoutAsrProvider(c, id) ==
    [c EXCEPT !.asr.providers = Without(@, id), !.asr.active = IF @ = id THEN "" ELSE @]

MaterializeLlmAdapter(c, id) ==
    IF id \notin Ids(c.llm.adapters)
    THEN {[c EXCEPT !.llm.adapters = Append(@, [id |-> id, command |-> "registry", managed |-> TRUE,
                                                auto |-> FALSE, env |-> {"VAR"}])]}
    ELSE LET i == Position(c.llm.adapters, id)
         IN  IF c.llm.adapters[i].managed
             THEN {[c EXCEPT !.llm.adapters[i].command = "registry", !.llm.adapters[i].env = @ \cup {"VAR"}]}
             ELSE {}

-----------------------------------------------------------------------------
(***************************************************************************)
(* Scenes.                                                                 *)
(***************************************************************************)

RunSceneConfigAdd ==
    \E def \in SceneForms : MutateSceneConfig("cli", {Scene(def.id)}, AddScene(loaded.scenes, def))

RunSceneConfigUse ==
    \E id \in SceneIds : MutateSceneConfig("cli", {Scalar("active scene")}, SetActiveScene(loaded.scenes, id))

RunSceneConfigRemove ==
    \E id \in SceneIds, force \in BOOLEAN :
        MutateSceneConfig("cli", {Scene(id), Scalar("active scene")}, RemoveScene(loaded.scenes, id, force))

\* Options that are not given keep the value the scene has.
RunSceneConfigEdit ==
    \E id \in Ids(loaded.scenes.definitions), def \in SceneForms, given \in {"model", "prompt", "timeout"} :
        LET old == ById(loaded.scenes.definitions, id)
            new == CASE given = "model" -> [old EXCEPT !.provider = def.provider, !.model = def.model]
                     [] given = "prompt" -> [old EXCEPT !.prompt = def.prompt, !.label = def.label]
                     [] given = "timeout" -> [old EXCEPT !.timeout = def.timeout, !.count = def.count]
        IN  MutateSceneConfig("cli", {Scene(id)}, UpdateScene(loaded.scenes, id, new))

onSceneAdd ==
    \E def \in SceneForms : MutateSceneConfig("gui", {Scene(def.id)}, AddScene(loaded.scenes, def))

onSceneEdit ==
    \E id \in Ids(loaded.scenes.definitions), def \in SceneForms :
        MutateSceneConfig("gui", {Scene(id)}, UpdateScene(loaded.scenes, id, def))

onSceneRemove ==
    \E id \in SceneIds :
        MutateSceneConfig("gui", {Scene(id), Scalar("active scene")}, RemoveScene(loaded.scenes, id, TRUE))

onSceneSetActive ==
    \E id \in SceneIds : MutateSceneConfig("gui", {Scalar("active scene")}, SetActiveScene(loaded.scenes, id))

\* The palette stores the chosen scene without looking it up.
PaletteSelectsScene ==
    \E id \in SceneIds :
        Edit("addon", {Scalar("active scene")}, [loaded EXCEPT !.scenes.active = id])

PaletteSelectsModel ==
    \E id \in ProviderIds, model \in Models :
        Edit("addon", {Scene(kCommandSceneId)}, SetActiveCommandModel(loaded, id, model))

-----------------------------------------------------------------------------
(***************************************************************************)
(* LLM providers.                                                          *)
(***************************************************************************)

\* The identifier is looked up as it was typed and stored without the blanks
\* around it, so that a padded one passes the look-up.
RunLlmConfigAdd ==
    \E id \in ProviderIds, padded \in BOOLEAN :
        /\ padded \/ id \notin Ids(loaded.llm.providers)
        /\ Edit("cli", {Provider(id)}, [loaded EXCEPT !.llm.providers = Append(@, [id |-> id, url |-> "new"])])

RunLlmConfigEdit ==
    \E id \in Ids(loaded.llm.providers) :
        Edit("cli", {Provider(id)},
             [loaded EXCEPT !.llm.providers[Position(loaded.llm.providers, id)].url = "edited"])

\* The scenes that name the provider keep naming it.
RunLlmConfigRemove ==
    \E id \in Ids(loaded.llm.providers) :
        Edit("cli", {Provider(id)}, [loaded EXCEPT !.llm.providers = Without(@, id)])

onLlmAdd ==
    \E id \in ProviderIds \ Ids(loaded.llm.providers) :
        Edit("gui", {Provider(id)}, [loaded EXCEPT !.llm.providers = Append(@, [id |-> id, url |-> "new"])])

onLlmEdit ==
    \E id \in Ids(loaded.llm.providers) :
        Edit("gui", {Provider(id)},
             [loaded EXCEPT !.llm.providers[Position(loaded.llm.providers, id)].url = "edited"])

onLlmRemove ==
    \E id \in Ids(loaded.llm.providers) :
        LET users == {s \in Range(loaded.scenes.definitions) : s.provider = id}
        IN  Edit("gui", {Provider(id)} \cup {Scene(s.id) : s \in users},
                 [loaded EXCEPT !.llm.providers = Without(@, id),
                              !.scenes = ClearProviderReferences(@, id)])

-----------------------------------------------------------------------------
(***************************************************************************)
(* Adapters and their scripts.                                             *)
(***************************************************************************)

SetAdapterAutostart ==
    \E id \in Ids(loaded.llm.adapters), enable \in BOOLEAN :
        Edit("cli", {Adapter(id)},
             [loaded EXCEPT !.llm.adapters[Position(loaded.llm.adapters, id)].auto = enable])

onAdapterAutostartToggled ==
    \E id \in Ids(loaded.llm.adapters) :
        Edit("gui", {Adapter(id)},
             [loaded EXCEPT !.llm.adapters[Position(loaded.llm.adapters, id)].auto = ~@])

\* The dialog may turn a registry adapter into one of the user's own.
onAdapterEdit ==
    \E id \in Ids(loaded.llm.adapters), auto \in BOOLEAN, keeps \in BOOLEAN :
        LET i == Position(loaded.llm.adapters, id)
        IN  Edit("gui", {Adapter(id)},
                 [loaded EXCEPT !.llm.adapters[i] = [@ EXCEPT !.auto = auto, !.command = "edited",
                                                            !.managed = @ /\ keeps]])

\* A stop of a running adapter may fail, and so may a start, which does when the
\* file no longer names the adapter.
StopOutcomes(id) == IF id \in running THEN {running \ {id}, running} ELSE {running}

StartOutcomes(id) ==
    IF id \in Ids(loaded.llm.adapters) THEN {running \cup {id}, running} ELSE {running}

\* The user starts and stops an adapter from the command line, from either page
\* that lists them, where the list may be out of date, or from the palette.
Control(outcomes) ==
    /\ Asked("user", {}) /\ NotWritten /\ UNCHANGED <<scripts, broken>>
    /\ running' \in outcomes

RunLlmConfigStartAdapter == \E id \in Ids(loaded.llm.adapters) : Control(StartOutcomes(id))

RunLlmConfigStopAdapter == \E id \in Ids(loaded.llm.adapters) : Control(StopOutcomes(id))

RunLlmConfigRestartAdapter ==
    \E id \in Ids(loaded.llm.adapters) :
        Control(IF id \in running THEN StopOutcomes(id) ELSE StartOutcomes(id))

executeAdapterControl ==
    \E id \in AdapterIds, start \in BOOLEAN :
        Control(IF start THEN StartOutcomes(id) ELSE StopOutcomes(id))

PaletteTogglesAdapter ==
    \E id \in AdapterIds, adapter_running \in BOOLEAN :
        Control(IF adapter_running THEN StopOutcomes(id) ELSE StartOutcomes(id))

RunLlmConfigInstallAdapter ==
    \E id \in AdapterIds :
        /\ loaded.registry # <<>>
        /\ Asked("cli", {Adapter(id)})
        /\ scripts' = scripts \cup {<<"adapter", id>>}
        /\ \/ MaterializeLlmAdapter(loaded, id) = {} /\ NotWritten
           \/ \E c \in MaterializeLlmAdapter(loaded, id) : SaveCoreConfig(c)
        /\ UNCHANGED <<running, broken>>

\* The script is deleted before the save, which may fail.
RunLlmConfigRemoveAdapter ==
    \E id \in Ids(loaded.llm.adapters) :
        /\ Asked("cli", {Adapter(id)})
        /\ running' \in StopOutcomes(id)
        /\ scripts' = scripts \ {<<"adapter", id>>}
        /\ \/ Written([loaded EXCEPT !.llm.adapters = Without(@, id)]) /\ UNCHANGED broken
           \/ NotWritten /\ broken' = broken \cup {<<"adapter", id>>}

onAdapterRemove ==
    \E id \in Ids(loaded.llm.adapters) :
        /\ Asked("gui", {Adapter(id)})
        /\ running' \in StopOutcomes(id)
        /\ scripts' = scripts \ {<<"adapter", id>>}
        /\ \/ Written([loaded EXCEPT !.llm.adapters = Without(@, id)]) /\ UNCHANGED broken
           \/ NotWritten /\ broken' = broken \cup {<<"adapter", id>>}

\* One installed adapter is updated (RunLlmConfigUpdateAdapter with --all repeats
\* this): stopped if it runs, downloaded, entered and started again before the
\* save.  A failed download or entry leaves it stopped.  One that is up to date
\* stays as it is, and the configuration is saved all the same.
RunLlmConfigUpdateAdapter ==
    \E id \in Ids(loaded.llm.adapters) :
        LET stopped == running \ {id}
            UpToDate == <<"adapter", id>> \in scripts /\ SaveCoreConfig(loaded) /\ UNCHANGED <<scripts, running>>
            Fails == running' \in StopOutcomes(id) /\ NotWritten /\ UNCHANGED scripts
            Restarted == running' \in IF id \in running THEN {stopped, running} ELSE {running}
        IN  /\ loaded.registry # <<>>
            /\ Asked("cli", {Adapter(id)})
            /\ \/ UpToDate
               \/ Fails
               \/ /\ scripts' = scripts \cup {<<"adapter", id>>}
                  /\ \/ MaterializeLlmAdapter(loaded, id) = {} /\ running' \in StopOutcomes(id) /\ NotWritten
                     \/ \E c \in MaterializeLlmAdapter(loaded, id) : SaveCoreConfig(c) /\ Restarted
            /\ UNCHANGED broken

\* The task of the resource page: whatever fails once the adapter is stopped, it
\* is started again; only the daemon's refusal leaves it stopped.
ExecuteScriptInstallOrUpdateTask ==
    \E kind \in {"adapter", "asr"}, is_update \in BOOLEAN :
    \E id \in IF kind = "adapter" THEN AdapterIds ELSE AsrIds :
        LET key == IF kind = "adapter" THEN Adapter(id) ELSE Asr(id)
            entered == IF kind = "adapter" THEN MaterializeLlmAdapter(loaded, id) ELSE MaterializeAsrProvider(loaded, id)
            stops == kind = "adapter" /\ is_update /\ id \in running
        IN  /\ UNCHANGED broken
            /\ \E refused \in {FALSE, stops} :
                  /\ Handler("gui", {key}, refused)
                  /\ running' = IF refused THEN running \ {id} ELSE running
            /\ \/ NotWritten /\ UNCHANGED scripts
               \/ /\ scripts' = scripts \cup {<<kind, id>>}
                  /\ (NotWritten \/ \E c \in entered : SaveCoreConfig(c))

\* Mutant of CleanupInstalledScript: the script goes although the save failed.
CleanupInstalledScriptFirst(kind, id, saved) == scripts' = scripts \ {<<kind, id>>}

\* The resource page deletes a script only after a successful save.
CleanupInstalledScript(kind, id, saved) ==
    scripts' = IF saved THEN scripts \ {<<kind, id>>} ELSE scripts

\* The resource page's removal: the adapter is stopped first, a failed save starts
\* it again, and the script is deleted only once the file no longer names it.
removeScriptItem ==
    \E kind \in {"adapter", "asr"} :
    \E id \in IF kind = "adapter" THEN AdapterIds ELSE AsrIds :
        LET listed == IF kind = "adapter" THEN id \in Ids(loaded.llm.adapters)
                      ELSE id \in Ids(loaded.asr.providers) /\ ById(loaded.asr.providers, id).type = "command"
            left == IF kind = "adapter" THEN [loaded EXCEPT !.llm.adapters = Without(@, id)]
                    ELSE WithoutAsrProvider(loaded, id)
            stops == kind = "adapter" /\ id \in running
            keys == IF kind = "adapter" THEN {Adapter(id)} ELSE {Asr(id), Scalar("active asr")}
            stopped == IF stops THEN running \ {id} ELSE running
        IN  /\ UNCHANGED broken
            /\ \/ /\ ~listed
                  /\ running' = stopped /\ NotWritten /\ UNCHANGED scripts
                  /\ Asked("gui", keys)
               \/ /\ listed /\ Written(left)
                  /\ running' = stopped /\ CleanupInstalledScript(kind, id, TRUE)
                  /\ Asked("gui", keys)
               \/ /\ listed /\ NotWritten /\ CleanupInstalledScript(kind, id, FALSE)
                  /\ \E refused \in {FALSE, stops} :
                        /\ running' = IF refused THEN stopped ELSE running
                        /\ Handler("gui", keys, refused)

-----------------------------------------------------------------------------
(***************************************************************************)
(* ASR providers, models and hotwords.                                     *)
(***************************************************************************)

RunAsrConfigUse ==
    \E id \in Ids(loaded.asr.providers) :
        Edit("cli", {Scalar("active asr")}, [loaded EXCEPT !.asr.active = id])

\* Refused for a local provider; the script is deleted before the save.
RunAsrConfigRemove ==
    \E id \in Ids(loaded.asr.providers) \ Ids(LocalProviders(loaded)) :
        /\ Asked("cli", {Asr(id), Scalar("active asr")})
        /\ scripts' = scripts \ {<<"asr", id>>}
        /\ \/ Written(WithoutAsrProvider(loaded, id)) /\ UNCHANGED broken
           \/ NotWritten /\ broken' = broken \cup {<<"asr", id>>}
        /\ UNCHANGED running

RunAsrConfigInstallProvider ==
    \E id \in AsrIds :
        /\ loaded.registry # <<>>
        /\ Asked("cli", {Asr(id)})
        /\ scripts' = scripts \cup {<<"asr", id>>}
        /\ \/ MaterializeAsrProvider(loaded, id) = {} /\ NotWritten
           \/ \E c \in MaterializeAsrProvider(loaded, id) : SaveCoreConfig(c)
        /\ UNCHANGED <<running, broken>>

\* One installed provider is updated; --all repeats this for every command provider.
\* A script that is up to date stays, and the configuration is saved all the same.
RunAsrConfigUpdateProvider ==
    \E id \in Ids(loaded.asr.providers) :
        /\ loaded.registry # <<>>
        /\ Asked("cli", {Asr(id)})
        /\ \/ <<"asr", id>> \in scripts /\ SaveCoreConfig(loaded) /\ UNCHANGED scripts
           \/ /\ scripts' = scripts \cup {<<"asr", id>>}
              /\ \/ MaterializeAsrProvider(loaded, id) = {} /\ NotWritten
                 \/ \E c \in MaterializeAsrProvider(loaded, id) : SaveCoreConfig(c)
        /\ UNCHANGED <<running, broken>>

\* The page offers the dialog for command providers only.  The dialog may switch
\* the type to local, and the local provider it then builds has no identifier.
onAsrEdit ==
    \E id \in Ids(loaded.asr.providers) \ Ids(LocalProviders(loaded)), keeps \in BOOLEAN, local \in BOOLEAN :
        LET old == ById(loaded.asr.providers, id)
            new == IF local
                   THEN [old EXCEPT !.id = "", !.type = "local", !.command = "", !.managed = FALSE, !.env = {}]
                   ELSE [old EXCEPT !.command = "edited", !.managed = @ /\ keeps]
        IN  Edit("gui", {Asr(id)} \cup IF local THEN {Scalar("active asr")} ELSE {},
                 [loaded EXCEPT !.asr.providers = Append(Without(@, id), new)])

onAsrSetActive ==
    \E id \in AsrIds : Edit("gui", {Scalar("active asr")}, [loaded EXCEPT !.asr.active = id])

\* The palette stores the chosen provider and, for a model, makes it the preferred
\* one of the local provider that is preferred then.
PaletteSelectsAsr ==
    \E id \in AsrIds, model \in Models \cup {""} :
        LET chosen == [loaded EXCEPT !.asr.active = id]
        IN  \E c \in IF model = "" THEN {chosen} ELSE SetPreferredLocalModel(chosen, model) :
                Edit("addon", {Scalar("active asr"), Asr(PreferredLocalAsrProvider(chosen))}, c)

RunAsrConfigUseModel ==
    \E model \in Models : \E c \in SetPreferredLocalModel(loaded, model) :
        Edit("cli", {Asr(PreferredLocalAsrProvider(loaded))}, c)

\* Of the removal of a model, what it does to the configuration (its files are
\* ModelInstall's): the preferred model is forgotten when it was the one removed.
RunAsrConfigRemoveModel ==
    \E model \in Models :
        /\ PreferredLocalModel(loaded) = model
        /\ \E c \in SetPreferredLocalModel(loaded, "") :
              Edit("cli", {Asr(PreferredLocalAsrProvider(loaded))}, c)

onUseModelClicked ==
    \E model \in Models : \E c \in SetPreferredLocalModel(loaded, model) :
        Edit("gui", {Asr(PreferredLocalAsrProvider(loaded))}, c)

onRemoveModelClicked ==
    \E model \in Models :
        /\ PreferredLocalModel(loaded) = model
        /\ \E c \in SetPreferredLocalModel(loaded, "") :
              Edit("gui", {Asr(PreferredLocalAsrProvider(loaded))}, c)

WithHotwords(c, path) ==
    [c EXCEPT !.asr.providers[Position(c.asr.providers, PreferredLocalAsrProvider(c))].hotwords = path]

RunAsrConfigSetHotword ==
    /\ PreferredLocalAsrProvider(loaded) # ""
    /\ Edit("cli", {Asr(PreferredLocalAsrProvider(loaded))}, WithHotwords(loaded, "path"))

RunAsrConfigClearHotword ==
    /\ PreferredLocalAsrProvider(loaded) # ""
    /\ Edit("cli", {Asr(PreferredLocalAsrProvider(loaded))}, WithHotwords(loaded, ""))

-----------------------------------------------------------------------------
(***************************************************************************)
(* The rest: the device, the save button of the window, config set, init.  *)
(***************************************************************************)

RunDeviceConfigUse ==
    \E device \in {"default", "mic"} : Edit("cli", {Scalar("device")}, [loaded EXCEPT !.global.device = device])

\* The hotwords file is named in every local provider; if its text cannot be
\* written nothing is saved.
onSaveClicked ==
    \E device \in {"", "mic"}, gain \in {1, 3}, path \in {"", "path"} :
        LET Named(p) == IF p.type = "local" THEN [p EXCEPT !.hotwords = path] ELSE p
        IN  Edit("gui", {Scalar("device"), Scalar("volume"), Scalar("gain")}
                        \cup {Asr(id) : id \in Ids(LocalProviders(loaded))},
                 [loaded EXCEPT !.global = [device |-> device, volume |-> gain], !.asr.gain = gain,
                              !.asr.providers = EachOf(Named, @)])

\* SetConfigValue: the tree of the loaded configuration with one value replaced is
\* parsed again and saved.
SetConfigValue(wire, section, mistyped) ==
    SaveCoreConfig(CoreConfigFromJson(Readable(wire, IF mistyped THEN {section} ELSE {})))

RunConfigDomainSet ==
    \/ \E gain \in 0..4 :
          /\ Asked("cli", {Scalar("gain")})
          /\ SetConfigValue(ToWire([loaded EXCEPT !.asr.gain = gain]), "asr", FALSE)
          /\ NoScripts
    \/ \E id \in AsrIds \cup {"nobody"} :
          /\ Asked("cli", {Scalar("active asr")})
          /\ SetConfigValue(ToWire([loaded EXCEPT !.asr.active = id]), "asr", FALSE)
          /\ NoScripts

\* The value has not the type of the member it replaces: the section that holds it
\* comes back as the default.
RunConfigDomainSetMistyped ==
    \E section \in Sections :
        /\ Asked("cli", KeysOf(section))
        /\ SetConfigValue(ToWire(loaded), section, TRUE)
        /\ NoScripts

RunConfigInit ==
    \E force \in BOOLEAN :
        /\ force \/ file.kind = "absent"
        /\ Asked("cli", Keys)
        /\ SaveCoreConfig(CoreConfigFromJson(Readable(Bundled, {})))
        /\ NoScripts

Next ==
    /\ edits < MaxEdits
    /\ \/ RunSceneConfigAdd \/ RunSceneConfigUse \/ RunSceneConfigRemove \/ RunSceneConfigEdit
       \/ onSceneAdd \/ onSceneEdit \/ onSceneRemove \/ onSceneSetActive
       \/ PaletteSelectsScene \/ PaletteSelectsModel \/ PaletteSelectsAsr
       \/ RunLlmConfigAdd \/ RunLlmConfigEdit \/ RunLlmConfigRemove
       \/ onLlmAdd \/ onLlmEdit \/ onLlmRemove
       \/ SetAdapterAutostart \/ onAdapterAutostartToggled \/ onAdapterEdit
       \/ RunLlmConfigInstallAdapter \/ RunLlmConfigRemoveAdapter \/ onAdapterRemove \/ RunLlmConfigUpdateAdapter
       \/ RunLlmConfigStartAdapter \/ RunLlmConfigStopAdapter \/ RunLlmConfigRestartAdapter
       \/ executeAdapterControl \/ PaletteTogglesAdapter
       \/ ExecuteScriptInstallOrUpdateTask \/ removeScriptItem
       \/ RunAsrConfigUse \/ RunAsrConfigRemove \/ RunAsrConfigInstallProvider \/ RunAsrConfigUpdateProvider
       \/ onAsrEdit \/ onAsrSetActive
       \/ RunAsrConfigUseModel \/ RunAsrConfigRemoveModel \/ onUseModelClicked \/ onRemoveModelClicked
       \/ RunAsrConfigSetHotword \/ RunAsrConfigClearHotword
       \/ RunDeviceConfigUse \/ onSaveClicked
       \/ RunConfigDomainSet \/ RunConfigDomainSetMistyped \/ RunConfigInit

Spec == Init /\ [][Next]_vars

-----------------------------------------------------------------------------
(***************************************************************************)
(* Properties.                                                             *)
(***************************************************************************)

\* Whatever text the file holds, what a load makes of it is accepted by a save, is
\* in normal form, and comes back from the file the save writes: no save is ever
\* refused by its own validation, and loading what was saved changes nothing.
SavedComesBack ==
    /\ ValidateCoreConfig(loaded)
    /\ NormalizeCoreConfig(loaded) = loaded
    /\ \E back \in {LoadCoreConfig(CoreConfigToJson(loaded))} :
          \A k \in Keys : Setting(back, k) = Setting(loaded, k)

\* A handler changes the settings it was asked to change and no others, whatever
\* handlers ran before it, whether its save succeeds or not: normalisation, the
\* clearing of dangling references and the parser's treatment of a bad section
\* never reach the settings of another handler.
OnlyWhatWasAsked == \A k \in Keys \ last'.about : Setting(loaded', k) = Setting(loaded, k)
EditsAreLocal == [][OnlyWhatWasAsked]_vars

\* Every registry entry the file names has its script on disk, except where a
\* removal deleted the script and then failed to save (the command line and the
\* LLM page delete first; the resource page saves first).
ListedHasScript ==
    /\ \A a \in Range(loaded.llm.adapters) : a.managed => <<"adapter", a.id>> \in scripts \cup broken
    /\ \A p \in Range(loaded.asr.providers) : p.managed => <<"asr", p.id>> \in scripts \cup broken

\* An adapter the settings window stopped for an update or a removal runs again
\* when the change did not go through: it stays stopped only if it left the
\* configuration or the daemon refused to start it.  (LlmPage's removal, which
\* stops, deletes and then saves, is the named exception.)
StoppedForAReason ==
    \A id \in running \ running' :
        last'.by = "gui" => \/ last'.refused
                            \/ id \notin Ids(loaded'.llm.adapters)
                            \/ <<"adapter", id>> \in broken'
FailedChangeRestarts == [][StoppedForAReason]_vars

=============================================================================
