# A TLA+ model of fcitx5-vinput

fcitx5-vinput is push-to-talk voice input for Linux desktops. A Fcitx5 addon turns a key into D-Bus calls; the
process `vinput-daemon` captures audio, runs a recognition backend, optionally rewrites the text with a language
model, and sends the result back. Other programs ("clients") can drive the same daemon through the pipes of child
processes it starts. This directory holds TLA+ modules for the daemon, the addon and the configuration, stores and
pages they share with the CLI and the GUI, TLC configurations that check them on small instances, and TLAPS proofs of
the main properties for every instance. `PROJECT.json` maps each definition to the source lines it models and each
property to the hazard it is about.

Paths below are relative to `src/src/` of the repository.

## 1. Inventory

### Parts and state

| Part | State | Operations | Hard behaviour |
|---|---|---|---|
| Phase machine (`daemon/runtime/runtime_state_machine`) | `phase_`, `postprocessing_state_`, `is_command_` | the `On...()` transitions, `TakePostprocessingState`, `Clear` | a verdict given for one utterance must not reach the next |
| Runtime controller (`daemon/runtime/daemon_runtime_controller`) | start flag, `accepting_chunks_`, `pending_capture_stop_`, pending reload, `session_ime_`, `current_order_`, worker, notify fd | Start/Stop/CancelOperation, ReloadAsrBackend, InjectText, FlushDeferredActions, WorkerMain, Shutdown | methods that drop `state_mutex_` half way, called from the main thread and from client pump threads |
| Session lifecycle (`session_lifecycle_manager`) | `active_session_`, `deferred_cancelled_sessions_` | install, detach, retire, reap, finish | a retired session is joined on the main thread |
| Audio capture (`daemon/audio/audio_capture`) | `recording_`, stream, queue, idle deadline | BeginRecording, EndRecording, StopAndGetBuffer, Stop, MaybeDestroyExpiredStream | warm stream reuse, a callback thread |
| Output ducker (`daemon/audio/output_ducker`) | logical and applied state, job queue | Duck, Restore, worker | logical state runs ahead of the applied one |
| Async session (`daemon/asr/runtime/async_recognition_session`) | chunk queue, finish/cancel/failure flags, events | PushAudio, Finish, Cancel, PollEvents, Run | overflow, failure and cancel race |
| Backend manager (`recognition_session_manager`) | target and effective backend, reload worker | SynchronizeBackend, CreateSession, reload worker, Shutdown | a reload overtaken by a newer request |
| Audio buffer (`audio_recording_buffer`) | startup, buffered and streaming samples | append, pop, drain, take | no sample lost or doubled between the modes |
| D-Bus service and poll loop (`dbus_service`, `daemon/main.cpp`) | emit queue, eventfd, bus | Emit..., FlushEmitQueue, ProcessOnce, method handlers | a lost wake-up, a signal that overtakes its reply |
| Post-processor (`daemon/postprocess`, `recognition_pipeline`, `common/asr/recognition_result`) | one request, its answer, its payload | passthrough, Process, ProcessCommand, parse, serialise | a cancel around the model's answer, repeated or empty rewrites |
| Notification bridge (`common/notify`) | a buffer per helper, cache of sent notifications | consume, flush, retire | lines cut anywhere, caps, a sliding window |
| Command backends, process sessions, process utilities | child, pipes, buffers | Push, Finish, Cancel, Pump, terminate, reap | a child that hangs, exits or floods |
| Clients and adapters (`common/client`, `common/llm`) | children, pid files | Start, Stop, AutoStart, Broadcast, Shutdown | start and stop overlapping |
| Fcitx5 addon (`addon/`) | frontend phase, pending replies, timers | key events, D-Bus replies and signals | optimistic state against late answers |
| Context history (`addon/core/context_writer`, `addon/core/vinput`) | joined text, timer, writer queue, file | commit, result, timer, context change, Run, rotation | two ways to the writer, a queue that drops, a writer that ends |
| Menus (`addon/menu`) | palette, query, result candidates, candidate lists per context | hotkey, typed keys, pages, selection, commands | an index that outlives the list it points into |
| Configuration (`common/config`, `common/scene`) | file, a cache per process | load, normalise, validate, save, migrate | a rewrite of the whole file for every change, several processes without a lock, a crash between two writes |
| Registry, downloads, model store | files, manifest | install, update, remove | atomic replacement, several processes without a lock |
| CLI and GUI | what they loaded, workers, posted events | every command and page that changes something; refresh, download | a process that dies, a configuration that is stale when it is saved, a late result of a replaced worker |

### Threads

* `main` runs the poll loop: expired stream, queued D-Bus signals, deferred actions behind the notify fd, one batch of
  D-Bus messages. It also runs the shutdown.
* one pump thread per client calls the same controller methods when the client writes a command;
* `worker` is `WorkerMain`: finish the recognition, post-process, emit, reset;
* the PipeWire thread fills the capture queue and makes the notify fd readable; the worker of an asynchronous session
  only writes to the notify fd.

## 2. Plan

1. *Core (done).* `RuntimeStateMachine`, `DaemonRuntime`: the controller with everything it touches, one action per
   critical section. Type correctness, the wake-up protocol and the ownership of the utterance proved.
2. *Collaborators (done).* Sessions, streaming and batch command backends, ducker, children, stores, D-Bus loop,
   post-processor, notifications.
3. *User side (done).* The addon with its history and menus, the configuration with every handler that changes it, its
   store and its migration, the downloads of the settings window.
4. *Abstraction (done).* `PushToTalk`, which `DaemonRuntime` without clients implements: checked with TLC and proved.
5. *Proofs (done).* The controller (types, wake-ups, ownership, recordings, refinement), the asynchronous session, the
   backend reload, the model store, the scripts, the store of the configuration and its migration, the process manager,
   process sessions and batch commands, the addon's calls to the daemon and its history. Section 5 says what stays with
   TLC and why.

All modules keep to recursive functions and folds instead of `RECURSIVE` operators where theorems are planned, state
their constants' assumptions by name, and split their invariants into named conjuncts.

## 3. Modules

* `RuntimeStateMachine` - the phase machine as pure functions from a machine to the transition it returns.
* `DaemonRuntime` - the controller. `machine`, `startInProgress`, `pendingReload`, `order`, ... are the fields of the
  class (the comment at each variable names the field). `pc` and `frame` are the program counter and the locals of
  every thread inside a method; a label's first letter tells the method: `s_` StartRecordingInternal, `t_` the abort
  tail, `f_` FlushDeferredActions, `h_` HandleIncomingAudio, `x_` FailActiveSession, `z_` ResetToIdle, `m_`
  MaybeApplyPendingAsrBackendReload, `c_` CancelOperation, `p_` StopRecording, `r_` CancelAndRetireSession, `w_`
  WorkerMain, `q_` Shutdown, `e_` MaybeDestroyExpiredStream. One action is one critical section of `state_mutex_`, one
  access to an atomic, or one call into a collaborator. Outcomes that depend on a collaborator (does the stream
  activate, does the session take the chunk, does the recognition fail) are choices.
* `MCDaemonRuntime` - the symmetry set for TLC.
* `DaemonRuntimeProofs` - type correctness. `DaemonRuntimeSafety` - the post-processing verdict, the wake-ups, the owner
  of the utterance. `DaemonPromiseProofs` - where sessions are, what a recording sets up, and the refinement of
  `PushToTalk`.
* `AsyncSession` - one streaming session: the worker of `AsyncRecognitionSession::Run` (`worker`), the main thread of
  the controller (`main`: push, poll, fail, cancel, reap) and the recognition thread (`asr`), which meet on
  `mutex_`. The backend is a choice of events, failures and texts. `AsyncSessionProofs` has its theorems.
* `BackendReload` - `RecognitionSessionManager`: the requested, pending and effective configuration, the reload worker,
  what `GetAsrBackendState` reports and what is notified.
* `OutputDucker` - the task queue, its worker and the volume the user and wpctl change.
* `CommandStreaming` - the streaming session of a command provider: the calls of the worker label by label (`job.at`),
  the child behind its `ProcessSession` (`child`) and the thread that interrupts (`stopper`).
* `CommandBatch` - the batch session of a command provider with `process::Run`: the pump that feeds stdin and reads the
  two outputs round by round (`run`), the child and the helper it may leave (`command`), and the pipes between them.
* `Frontend` - the addon. `e` holds the members of `VinputEngine` that decide something, with the queue of calls to the
  daemon (`e.out`) and of replies and signals from it (`e.in`); a handler is one action, its helpers are functions of
  `e` named after the methods. The daemon is its phase and the queue of signals that it sends later than it replies.
* `ModelInstall` - the directory of one model under processes that install it (`ModelRepository::InstallModelEntry`, a
  step per call that can fail) or remove it. A directory is who unpacked it; `dest` is the one at the model's path,
  `inst[i].backup` the one moved aside, `gone` those a temporary directory took with it.
* `ScriptInstall` - the scripts of providers and adapters: script file, manifest record, cached registry and
  configuration under operators of the CLI's and the GUI's kind, whose orders differ: the CLI removes the script and
  then saves, the GUI saves and then removes, and the CLI saves what it loaded at its start.
* `ProcessManager` - one adapter or client: the process table with start times (`proc`), the pid file, the tracked
  session and the handler of the daemon's main thread (`daemon`), with crashes of the daemon and pids given to others.
* `PushToTalk` - what the daemon promises its user, without threads, locks, devices or sessions: one utterance at a
  time is recorded, handed over, possibly rewritten, answered once and only then forgotten, and a rewriting that was
  called off is answered with what was asked for. `DaemonRefinement` gives the mapping (`Work` from the order slot and
  the worker's label, `Verdict` from `postprocessing_state_`, the answer from `payload`).
* `DbusService` - the emit queue with its eventfd, the threads that emit (push, then bump), and the poll loop of
  `daemon/main.cpp` label by label: poll, flush (read the eventfd, take the queue, send), one batch of method calls
  with their handlers and replies. `PollFails` is the loop's exit on an error of `poll()`.
* `PostProcessor` - one request from the recognised text to what the addon reads: passthrough or scene, the provider or
  the adapter, cancel and shutdown at every point, the parse of the answer, the payload.
* `NotificationBridge` - the bytes of two helpers in chunks of any size, their lines, the cap, the deduplication, and
  the whole lines that a command which runs once hands in.
* `CoreConfig` - the configuration as a value: what the file means, normalisation, validation, the operations on
  scenes; pure operators. `ConfigEdits` applies them in every handler of CLI, GUI and palette that changes the file, the
  registry scripts or the running adapters; one handler is one step. `ConfigStore` is the file under several processes:
  `LoadCoreConfig` and `SaveCoreConfig` label by label with the cache of each process and the lock of the window.
  `ConfigMigration` is `vinput config migrate`: rules over two files, backups, crashes and failing writes.
* `ContextHistory` - the text joined by the addon, its timer, and the writer thread with queue, rotation and failures.
  A result is recorded when it arrives; its text is committed in the same handler, or later from its menu, or never.
* `AddonMenus` - the palette with its query and the result menu, their keys, pages and selections, and the candidate
  list in each input context. A comment of `handleRecognitionResult` (`vinput_dbus.cpp:787`) has the first rewrite
  "focused"; `showResultMenu` sets no cursor, so Enter takes the first word of the page, and that is what is modelled.
* `ResourcePage` - the refreshes of the resource page and its downloads: the GUI thread takes posted events in order, an
  error box runs a loop of its own, a worker posts what a disconnect does not take back.
* `MCServices`, `MCWorkers`, `MCStores`, `MCUserSide` - components that do not interact, checked in one run each: a
  behaviour chooses one of them (`part`) and leaves the others where they are. Such a module extends the components
  that have theorems, so that the run checks the very definition the theorem is about, and has instances of the rest. A
  property it defines itself names the properties of a component it stands for.
* `ProcessSession` - a streaming child: the pump thread label by label (`pump.at`), the owner's calls split where the
  code reads two shared things one after the other, and the process group (a leader, a helper, perhaps stuck in the
  kernel). `MCProcessSession` states that it never waits for good.
* `SharedFilesProofs` has the theorems of `ModelInstall`, `ScriptInstall` and `ProcessManager`; `UserFilesProofs` those
  of `ConfigStore` and `ContextHistory`; `ServiceProofs` those of `ConfigMigration`, `BackendReload` and `Frontend`;
  `ProcessProofs` those of `CommandBatch` and `ProcessSession`.

Definitions introduced by "Faulty variant" or "Mutant of" are wrong versions of a definition that follows them. Nothing
uses them; replacing the definition by its faulty variant makes the property `PROJECT.json` names fail, which shows
that the property depends on that piece of the code. Properties with several conjuncts have several.

### What is abstracted

* Audio is a count saturated at `MinSamples`, the only number the controller compares it with.
* A session is an identity. It can be used again once nothing refers to it.
* Text, scene and notification contents are left out; `payload` tells what kind of text the worker is about to emit.
* `SynchronizeAsrBackend` runs outside the lock and changes nothing the controller reads; only when it is called
  matters here.
* `session_io_mutex_` is not a variable: the calls it protects are single steps.
* In `OutputDucker` a volume is a step of a small scale; a failing wpctl call may have set the volume or not.
* In `CommandStreaming` a line is what it tells the session: a partial or final text, the end, or no JSON.
* In `Frontend` texts, previews and menus are left out, a key is its role, and time is a choice: a press may be
  debounced, a hold may be long or short, a polled Idle may have lasted long enough or not. The daemon is what the
  addon sees of `DaemonRuntime`: its phase, and one step for each call, for the worker and for a recogniser that fails.
* In `ProcessSession` bytes are numbered, an output chunk is the number of a read, and time is a choice: a deadline may
  pass whenever it is set. The two eventfds that only shorten a bounded wait are not state.
* In `ModelInstall` a directory is empty, unpacked, ready, short of a file or torn by a removal; in `ScriptInstall` a
  script is the number of its publication, which stands for its version and its SHA-256; an entry of the registry may
  lack either, an unrecorded script may be unreadable, and the stop and restart of an adapter around its update is
  left out.
* In `ProcessManager` a process ends at any time, so the waits only decide which way a handler goes on; a client's
  `pending` reservation cannot refuse anyone, because every start is a call of the main thread.
* In `CoreConfig` identifiers are strings, the numeric knobs are one per section on a short scale, and a file is its
  sections with a mark on those that cannot be read. In `ConfigStore` a configuration is the set of the changes made to
  it, and every write gives the file a stamp it never had (two writes of the same size within one tick of the clock are
  not told apart by the code either). In `ConfigMigration` a file is a function from keys to values and one scene stands
  for all, because the rules treat every scene alike.
* In `ContextHistory` a text is a number, a joined text a sequence, and its size in bytes its length; in `AddonMenus`
  a query is a sequence of characters and what matches it is a constant; in `PostProcessor` a text is its trimmed part
  and whether it is padded.
* In `DbusService` an item is who emitted it and for which call; the arguments of the methods are left out.

## 4. Runs

| Run | Instance | Shows |
|---|---|---|
| `Ime` | no client, start, stop, cancel and reload, 3 sessions, warm capture, ducking, shutdown, fairness | the safety properties of the daemon the input method drives; that it implements `PushToTalk`; inference and errors end (`BusyEnds`), retired sessions, deferred reloads and idle streams are seen to (`DeferredIsDone`), the shutdown ends |
| `ClientCancels` | main starts and stops, a client cancels; 3 sessions, warm capture, ducking | one owner of the utterance and a closed microphone under true concurrency |
| `ClientInjects` | main starts and stops, a client cancels and injects text; 2 sessions, warm capture | no session is joined while it is in use, also while the worker is busy in the Idle phase |
| `Workers` | `AsyncSession`: 4 chunks of 1 or 2 samples, a queue of 3; `CommandStreaming`: 2 pushes and 2 lines; `OutputDucker`: volumes 0..4 at 50 %, failing wpctl calls; `DbusService`: 2 emitting threads and calls to the three groups of handlers; `ResourcePage`: 2 downloads | no audio is lost silently, an utterance has one outcome, no provider is left behind, result and events agree, sessions end; the volume is never ducked twice and is restored; every emit reaches the bus once, in order, and after the reply of its call; the page ends every refresh and follows the download it shows |
| `Services` | two configurations, failing preparations, shutdown; the addon with 2 contexts, the trigger key, every trigger mode, 2 user events or timeouts, failing recognisers and one crash | the last request wins, a failed reload keeps the working backend, every reload is answered; an abandoned recording is not recorded on, and a session the daemon does not have disappears |
| `Stores` | `ModelInstall`: 2 installers, 1 remover; `ScriptInstall`: the CLI and the GUI, 2 scripts, 2 publications of each with a version, a SHA-256, both or neither, 3 operations; `ProcessManager`: 2 pids, 4 process starts, with and without pidfds; `ProcessSession`: blocks of input and chunks on 2 channels, one of them with a sink, cap and budget 1; `CommandBatch`: 2 units of audio and 2 of output, pipes of 1, one notification line | an installation never costs a working model, "up to date" is the truth, one instance at most of an adapter or client and no stranger is signalled; stdin and events in order, nothing written after a cancel, no zombie and no surviving helper; a batch command and its caller never wait for each other, its whole output is read, and what is said of it is true |
| `ProcessCancel` | 1 byte of input, 2 chunks on 1 channel, cap and budget 1, fairness | a cancel ends the session, backpressure is lifted |
| `UserSide` | `ConfigEdits`: no file, one in use or one with a section of the wrong type, and any 2 handlers; all files with two to three mistakes, loaded and saved; `ConfigStore`: 4 threads of 3 processes, 3 saves; `ConfigMigration`: old and new files, 2 runs, 1 crash, failing writes; `ContextHistory`: 5 texts, 2 contexts, result menus; `AddonMenus`: queries of 3 characters, pages of 2; `NotificationBridge`: 2 helpers, chunks of up to 3 bytes, a whole line; `PostProcessor`: every kind of request and answer | what was saved comes back, a handler changes only what it was asked to, scripts and adapters follow the configuration; a load is no older than the file was when it began; migration never loses an original and reports the truth; the history is in order and complete; a selected candidate does what it shows; lines become notifications once; the spoken text arrives, without duplicates |
| `ReuseFallback` | violation | the recording after a failed stream reuse is not heard |
| `ReloadCrossed` | violation | two crossing configuration changes leave one backend under the other's name |
| `StdinTruncated` | violation | a block pushed just before CloseStdin is lost |
| `HoldRelease` | violation; 3 user events, no crash, no timeout | a released hold key leaves the daemon recording |

The four violations are disagreements between the code and its comments or documents; `findings` in `PROJECT.json`
quotes the lines.

*Bounds.* `MinSamples = 2` distinguishes empty, too short and long enough; `ChunksPerRead = 2` lets a chunk be pushed
while another waits; three sessions allow one installed, one with the worker and one retired at the same time. With a
client each side gets the commands whose interplay the run is about, because every command on both sides is beyond
what finishes in minutes. In `Frontend` two events are a press and what disturbs it; releases, replies, signals, polls
and restarts are not counted. In `Stores` two installers and a remover are all that meet at one path at once; three
script operations are a first install and two that overlap (four also pass, in half a minute on their own); four
process starts are an instance, its successor and two strangers on two pids. In `UserSide` two handlers are a change
and the one that meets its result; the files have the mistakes the loader forgives (a repeated or empty name, a
dangling reference, an unknown type, a number out of range); three saves are two that cross and one that overtakes; a
backup per second and two seconds make two runs meet in one; a queue of 2 entries or 3 bytes and a rotation every 2
entries are reached by 5 texts, and 4 texts in one entry are refused; a scene asks for up to 4 candidates where
`kMaxLlmMaxCandidates` is 2, so that the clamp is met; a cache of 2 notifications evicts the third.

*What `Stores` excepts.* The properties name their exceptions, and each is a weakness of the code that the model has:
a script that a stale registry cache or a slower operator has put in the place of a newer one (`Downgraded`: the record
of the newer one stands if its own cannot be saved, and outlives a removal likewise), an entry that shares neither a
version nor a hash with what is installed (`Comparable`: `CheckResourceVersion` then calls any script on disk up to
date), a child of a daemon
that dies before `WritePidFile` or after `RemovePidFile` (`given_up`), a pid reused between the child's exit and
`WritePidFile` (`misread`), kernels without pidfds, files dropped by the flattening of an archive ("short"), and a
`poll()` that fails under a batch command, whose `wait()` then comes without a reader.

*What `UserSide` and `Workers` except*, in the same way: a cache that a save overtaken between its rename and its stamp
leaves wrong until the next write (`LoadIsFresh`); an entry whose script the CLI or the LLM page deleted before a save
that failed (`ScriptsFollowConfig`); palette items reloaded under an open palette, and a result that arrives while the
palette key is held (`MenusAreTruthful`); lines cut at the cap and notifications evicted from the cache
(`LinesBecomeNotifications`); a selected text with white space around it, which a rewrite may repeat (`PayloadSound`);
an error box of a replaced worker, whose end cancels the download begun meanwhile (`PageFollowsItsWork`).

*Fairness* (`Fairness` in `DaemonRuntime`): a thread inside a method runs on, and the worker is scheduled: weak
fairness. The poll loop returns to the notify fd and to the expired stream after each finite batch of D-Bus messages,
whatever is sent meanwhile: strong fairness of `MainFlush` and `ExpireLook`, since the main thread is busy in between.
In `DbusService` and `ResourcePage` the loop and the workers run (weak fairness); a failing `poll()` may come and is
never obliged to. In the other collaborators a worker thread runs, and the calls it makes into backends, wpctl and the
kernel return, because each has a deadline; the pump of a `ProcessSession` looks at the clock on every round, so a
deadline that stays set passes (strong fairness). The same holds for the deadlines of `CommandStreaming` and for the
delay after which the addon believes a polled Idle. The addon's timers fire, the bus delivers, and the daemon answers
and is started again after a crash; no user is obliged to press or to release a key. Nobody is obliged to call a
method, to speak, or to ask for the shutdown. Liveness is checked without clients: a client that starts and stops
without pause, with audio arriving without end, keeps the drain loop of `FlushDeferredActions` busy for ever.

## 5. Proofs

All are for every value of the constants. What is assumed of the constants is named: in `DaemonRuntime` the assumptions
there (threads are distinct, the commands are among the known ones, `NoSession` is no session, `MinSamples` is positive,
the switches are Boolean), elsewhere a named assumption of the component or a hypothesis of the theorem. Each invariant
below was checked with TLC before it was proved.

### The controller

* `TypeCorrect`: `Spec => []TypeOK`. `TypeOK` is not inductive: an action that pushes a session it holds must know it
  holds one. `TypeInv` adds, per label, what the thread holds there (`Held`). The fields are grouped so that an action
  proves only the groups it changes.
* `PostScoped`: the verdict is pending only while post-processing. `MachineMoves` shows that whatever step is taken, the
  machine moves by one of its transitions; the invariant is inductive over those.
* `WakeProtocol`: no wake-up is lost, for any number of clients. The strengthening `FailReturns` says that a failure
  found while flushing returns into the flush, so that the flush still looks at `pending_capture_stop_`.
* `PhaseOwner`, `UtteranceTaken`, `VerdictDecides`, under `OnlyCancelled` (there are no clients, or the clients do nothing
  but cancel, any number of them): the phase tells who owns the utterance; an utterance leaves the slot only into the
  worker's hands; an accepted cancel decides what is emitted. The inductive invariant `OwnerInv` adds what the main
  thread knows of the phase between its critical sections (`MainKnowsPhase`), where the worker can be
  (`WorkerInPlace`), the three forms of the order slot (`OrderForm`), that the worker holds nothing back outside the
  pipeline (`PayloadEmitted`), and the labels a cancelling client can be at (`ClientsCancel`). With clients that inject,
  `OrderOnlyTaken` does not hold in general: an injected text makes the worker reset an utterance that is not its own.
* `RetiredDead`, for clients that cancel and inject: a retired session is neither installed nor with the worker. The
  invariant says where a session may be: in one caller's hands (but for the copy a flush makes of `active_session_`),
  fresh, installed, in the order or retired, and in one of these places only (`SessionInv`).
* `CancelCleansUp` (under `OnlyCancelled`) and `RecordingIsUndone` (no clients): microphone, accepted audio and ducked
  output are undone on every path. `RecordingInv` is `OwnerInv` with, for each of the four things a recording sets up,
  the labels at which it may be set without a recording being reported (`ArmedInPlace`, `AcceptingInPlace`,
  `RecordingInPlace`, `DuckedInPlace`).
* `KeepsPromise` (no clients): `DaemonRuntime` implements `PushToTalk` under the mapping of `DaemonRefinement`.
  `PromiseInv` is `OwnerInv` with where the verdict and the text of the utterance are; one lemma per group of actions
  shows that a step maps to a step of the promise or to a stutter.

### The collaborators

* `AudioComplete`, `OutcomeIsOne` (`AsyncSession`, under `Bounds`: sizes and the bound on texts are natural
  numbers). `AsyncInv` accounts for every chunk: the backend has the first ones, the worker the next, the queue those
  that follow up to the last one offered, unless the session gave up (`AudioInPlace`); and for the last final text: in
  the worker's hand, among the queued events, in the main thread's hand or applied (`TextInPlace`). `LastFinalConcat`
  says that polling events in two portions or in one gives the same text. `Ownership` and `WorkerInStep` relate the
  labels of the three threads to the flags under `mutex_`, `Reports` says who may still report.
* `LastRequestDecides`, `BackendKept` (`BackendReload`, under `ConstantsApart`: "no provider" and "none" are no
  configurations). `RequestInPlace` says where the last request is: queued, being prepared, in use, or failed. It holds
  until a request crosses a reload; `ReloadCrossed` shows that the code does no better.
* `ModelsSurvive` (`ModelInstall`, under `DirsApart`: the previous model is no installer's). `ModelInv` says that the
  directory an installer unpacked is its own until it is renamed into place (`OwnDirectory`), that a previous
  installation is held by one installer and as complete as it was (`PreviousInstall`), and that once a model was
  installed there is one, at its path or set aside by an installer that has not replaced it (`Held`).

* `LoadsAreFresh` (`ConfigStore`, under `ThreadsPlaced`: every thread belongs to a process). Neither the mutex of a
  process nor the lock of the window is needed: a write gives the file a stamp that no cache has yet (`StampsKnown`),
  so a cache whose stamp matches was filled from this very file (`CacheTells`), a save that nobody overtook finds its
  own file (`OwnWrite`), and a load that has not read yet counts what the file holds now (`ReadSees`).
* `InstanceIsOne` (`ProcessManager`, under `PidsPositive`: pids are positive numbers). `ManagerInv` says for each label
  of the handler which process may be the instance: the tracked one, the one in the handler's hands or the one the pid
  file names (`InstanceInPlace`), that a handler which holds a process is at a label that uses it (`HandlerHolds`), and
  that a record names a process of ours, a dead one or a misread one (`RecordsAreOurs`). Start times are never given
  twice (`StartTimes`), so a record that matches a running process names that process.

* `UpToDateTruthful` (`ScriptInstall`; no assumption). `ScriptInv` relates every copy of a version number to the newest
  one its script has been (`newest`): no record, on disk or in the manifest an operator loaded, is ahead of it
  (`RecordsBehind`), what an operator is about to record was on disk (`RecordWasOnDisk`), and nobody has heard of a
  version the registry has not published (`NothingUnpublished`). So a record that names the published version was made
  of a script that had it, however many operators overwrite each other's manifest. Which entries have a version or a
  hash is any pair of sets.
* `MigrationSafe` (`ConfigMigration`, under `VersionsAreNumbers`: versions are ordered, and the host is no older than its
  newest rule). `MigrationInv` says that each file is the user's or what a whole run makes of it, and that a file is
  written only when its backup holds the user's. That survives deaths and a second run because migrating is idempotent
  (`ConfigSettles`, `ConfSettles`), which rests on the rules that follow one another touching different keys
  (`Touched`).
* `AbandonedNotRecorded` (`Frontend`; no assumption, and no use of fairness). `FrontInv` says that after the user abandoned
  a session every start on its way, and a recording the daemon is at, has a cancel behind it (`Covered`). One lemma per
  method of the engine shows that it makes no call to start or begins a session, and ends a session that listens with a
  cancel (`Handled`).
* `BatchTruthful` (`CommandBatch`, under `BudgetCoversPipe`: a round may read a whole pipe, and `LinesAreCounted`).
  `BatchInv`: what is printed is in hand or in the pipe (`NothingDropped`), a channel that was not ready when the child
  was known to have ended has nothing left (`RestIsTaken`), stdin is open as long as there is something to write
  (`InputIsFed`), and the session speaks when Run is over (`SaidAtTheEnd`). A smaller budget than a pipe would break the
  one round Run grants an ended child.
* `SessionStreams`, `CancelledSessions` (`ProcessSession`, under `ChannelsAreOutputs` and `SizesAreNatural`). `SessionInv`
  numbers the bytes: those the child has got, the block in the pump's hand, the queued blocks and the block the owner is
  pushing follow each other up to the last one accepted (`InputInOrder`); what was told of a channel comes before what
  is in its pipe (`PipesInOrder`, `ToldInOrder`), Cancelled and Exited appear at their labels only (`EndsInOrder`), and a
  loop that ended after a cancel has killed the group (`GroupIsKilled`).
* `HistoryFaithful` (`ContextHistory`, under `CountsAreNatural`). `HistoryInv` says of the addon's record, threaded through
  the calls of a handler, that queue and buffer hold what was put in last, later than file and entry in hand (`Side`);
  each call accounts for every text it had (`Accounted`), and each step of the writer moves texts towards the file or
  the oldest out of it.

### Only model-checked

* The liveness properties (`BusyEnds`, `DeferredIsDone`, `ShutdownEnds`, `SessionEnds`, `NeverStuck` and the liveness
  parts of `RequestsAnswered`, `SessionFollowsDaemon`, `EmitsReachTheBus`, `DuckingIsUndone`, `PageFollowsItsWork`,
  `FinishIsTruthful`): fairness and `ENABLED` are outside the prover's reach.
* What recursive definitions and filters compute, which needs induction over data: `SavedComesBack`, `EditsAreLocal` and
  `ScriptsFollowConfig` (the normalisation of `CoreConfig` and the lists the handlers filter), `MenusAreTruthful` (the
  items a query leaves), `LinesBecomeNotifications` (lines cut from a buffer), `PayloadSound` (the parse of an answer,
  without repeats).
* `PhaseTellsOwner` and `OrderOnlyTaken` with clients that start, stop or inject, where they need not hold; the
  refinement with clients, for the same reason.
* The safety parts of `EmitsReachTheBus`, `DuckingIsUndone`, `PageFollowsItsWork` and `FinishIsTruthful`: each is stated
  together with the liveness that gives it its meaning, and has no theorem of its own.

## 6. Not modelled

The parts listed in `PROJECT.json` with status `not_modelled` carry their reason. In short: inference and signal
processing (the sherpa backends, VAD, the recording buffer's samples) are numeric, and what they return enters the
modules as any text, any failure or nothing; commands that only list and print, widgets, dialogs, titles and prompts
are text; the arguments of D-Bus methods, option parsing and path helpers change no state a property speaks of.

Three hazards have no property. Two concurrent starters (`daemon_runtime_controller.cpp:480`), a worker that resets
after an injected text what may be another recording (`daemon_runtime_controller.cpp:940`) and requests that cross a
preparation (`recognition_session_manager.cpp:572`): the modules have the schedules, but no line of the repository says
what should come of them.
