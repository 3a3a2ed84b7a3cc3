# ZeriReplEngine in TLA+

ZeriReplEngine is a C++ REPL engine with a terminal front end written in Go. The engine keeps
contexts, variables and functions, evaluates mathematics itself, and hands scripts to language
sidecars (Python, Ruby, Lua, a JavaScript runtime) that it starts and drives over pipes. This
directory holds a model of the parts of the engine where the order of steps matters, the TLC
configurations that check them, and proofs of the main invariants with TLAPS.

Contents: the parts of the system; the plan; the modules; the runs; bounds; fairness and timing;
proofs; what is only model-checked; what is left out; where the models and the repository's words
disagree; how to run.

## 1. The system and its parts

    Go TUI  --yuumi frames-->  read thread ----> command queue, input queue ----> main thread (REPL loop)
       ^                           |  cancel                                        |        |
       |                           v                                                |        v
       +---- write thread <---- output sink <-----------------------------------contexts   RuntimeState
                                                                                    |        |
                                                    script (Execute)                |        +--> state.json(.tmp,.bak)
                                                                                    v
     sidecar process <--pipes--> reader thread, watchdog thread (SidecarProcessBridge)

| Part | State it keeps | Operations | Hard behaviour | What makes it correct |
|---|---|---|---|---|
| Sidecar bridge (`ZeriLink/Source/ProcessBridge.cpp`, `engine/src/bridge/ZeriWireSidecarBridge.cpp`) | atomic flags (active, ready, awaiting, stop), the one-shot result callback, two threads, the host | Launch, Execute, Shutdown; ReaderLoop, WatchdogLoop | callers, reader, watchdog and sidecar interleave; frames carry no script id; 5 s / 30 s / 35 s timers; SIGPIPE | one outcome per script, from that script; callback invoked at most once and never after Execute returned; Execute returns; Shutdown leaves nothing |
| Process hosts | pipe ends, child pid or handle | Start, Stop, SendData, ReceiveData | child dies during a write | the child is reaped by Stop |
| Sidecar bootstraps (`runtime/bootstrap_*`) | running script, nested read loop | main loop, `input()`, `zeri.get/set` | a nested read loop drops the frames it does not expect | a script is sent only when the main loop reads |
| Zeri-Wire codec (`ZeriLink/Source/ZeriWireProtocol.cpp`) | the decoder's state, the frame being read, the bytes left over | EncodeFrame, Feed, Reset; the sidecars' write_frame | a pipe cuts the stream anywhere; lengths at the limit | any cutting of the stream yields the same frames, and none is left waiting |
| Session store (`RuntimeState::SaveSession`, `LoadSession`) | state.json, .tmp, .bak | save, load, boot, exit | crash or error at each system call; two engines | no torn or stale file; the saved session stays on disk |
| Runtime state, math context, expression executor | context stack, frames, scopes, functions, compiled expressions | switch, /back, /reset, assignment, /set, /promote, /fn, evaluate, import, export | four places change two parallel stacks; cache keyed by a revision | each context has its own frame; no outdated evaluation |
| REPL loop, BridgeTerminal | command and input queues, read depth, shutdown and cancel flags | ReadLine, SelectMenu, Enqueue…, RequestShutdown, RunMain's loop, cancel handler | nested reads from two threads, one condition variable, cancel on the read thread | depth is exact, no lost wake-up, a cancel is reported once |
| yuumi bridge, output sink (`include/yuumi/*.hpp`, `OutputSink.cpp`) | write queue, connected flag, sockets, buffer of early messages | start, send, stop; ReadLoop, WriteLoop, heartbeat; SetConnected, Flush | three threads and several senders; a send that throws; a peer that goes at any moment | no message is lost, doubled or reordered without being counted; the handshake leads; a lost peer ends the session |
| One-shot process bridge (`Engines/Source/ProcessBridge.cpp`) | running flag, two reader threads, child pid | Run, Terminate, WaitForExit | Terminate from another thread against WaitForExit | the child is reaped once, output is complete |
| Language executors and contexts, script hub, editor, registry | sidecar per context; scripts with versions, metadata, deletion flag, list of names, all as persisted variables; editor buffer | run, relaunch, fall back, /new, /edit, /save, /delete, /rollback, requests of the TUI | relaunch after a timeout; one script under five keys that different commands write; requests beside an open editor | history complete, listing agrees with what can be loaded, snapshots never change |
| Sandbox and module manager (`SandboxContext.cpp`, `ModuleManager.cpp`) | map of modules, scan thread, targets | /list, /build, /run, a typed path; the deferred scan | the scan empties and fills the map beside commands that read it twice | a module that was found stays found; every name is listed unless a directory throws |
| Custom commands (`CustomCommandContext.cpp`, `main.cpp` ExecuteStage) | registry and entries in persisted variables, depth | /define, /delete, migration, invocation, chains | commands that change or delete themselves while they run; three generations of storage | the definition that runs is the most specific one; a failed step stops the chain; every line ends |
| Session document (`RuntimeState.cpp` Export/Import, `BuiltinExecutor.cpp` /set, `main.cpp` settings) | typed values, JSON document | /set, assignment, settings_update, session_save_state, session_load_state | conversions between C++ types and JSON; documents wrong in one part | what is written is read back with its types; a document is taken whole or not at all |
| Dispatcher, MetaParser | dispatch cache | parse, split pipelines | quoting | parse agrees with a reference splitter |
| Go yuumi client, bridge client, TUI model | input mode, in-flight execution, connection | key presses, events, reconnect | events reordered against key presses | the mode agrees with what the engine waits for |
| Plugins, diagnostics, catalogs, TUI persistence, script hub and AI views | lists read at start | load, list | little | – |

How they interact: the TUI's messages reach the engine on the yuumi read thread, which pushes them to
the terminal's queues and runs a cancel itself, on that same thread. The main thread takes a line,
runs it in the context on top of the stack, and sends events back. A script in a sidecar may ask for
input; the sidecar's reader thread then calls the same `ITerminal::ReadLine` as the main thread.
Saving happens on the main thread, at the end of `RunMain`, and once more in `~RuntimeState`.

Every part is listed under "components" in `PROJECT.json`, and every place where the code is hard to
test under "hazards", with the line and the properties that cover it.

## 2. Plan

Ordered by how much of the program's behaviour depends on it.

1. `ScriptChannel`, `SidecarProcessBridge` – done. The bridge implements the channel.
2. `SessionStore` – done. The save protocol under crashes and errors.
3. `ReplSession` – done for the loop, the terminal, cancellation and the TUI's input mode.
4. `RuntimeScopes` – done for the context stack, scopes, function cache and session documents.
5. `OneShotProcess` – done for the POSIX build and its three kinds of client.
6. `ScriptRegistry` – done: the saved scripts of a language, the editor, the TUI's requests, saved sessions.
7. `YuumiBridge` – done: the three threads of the bridge, the sink above it, start and end in `RunMain`.
8. `CustomCommands` – done: definitions, scopes, old storage, chains.
9. `SessionDocument` – done: typed values, their JSON form, every way into them.
10. `Sandbox` – done: the scan of the modules, and how a target becomes a process.
11. `FrameDecoder` – done: the incremental decoder against the stream it is cut from.
12. `LanguageExecutor` – open: relaunch after timeouts, the failed send that leaves the bridge marked
    alive; composes `ScriptChannel` in place of the detailed bridge.
13. The Go client – open: start, disconnect and restart of the engine, in-flight requests, and which answer
    belongs to which script request. Pipelines and the dispatch cache after it.

Theorems: every invariant and every action property of the runs is a theorem (section 7). What is left is
liveness, which TLC checks and the prover cannot state.

## 3. Modules

### ScriptChannel
What an executor may rely on: a channel is opened once, runs one script at a time, gives each exactly
one outcome, and is shut once; after a reported timeout no further script starts on it; a result belongs
to the script it is reported for unless an earlier script was given up after 35 s. It stands for no
code of its own; `SidecarProcessBridge` is checked to implement it (`ImplementsChannel`).

### SidecarProcessBridge
One bridge object with everything that touches it. `caller` is the program counter of Launch, Execute
and Shutdown (one counter because `m_executeMutex` serialises them), `reader` of `ReaderLoop` and
`DispatchFrame`, `watchdog` of `WatchdogLoop`, and `sidecar` is the state of the Python bootstrap at the
other end. `active`, `ready`, `awaiting`, `stopping`, `alive`, `callback` are the members of the same
names. A step is one access to shared state: an atomic flag, a locked section, a write or a read on a
pipe. The reader takes a chunk of any number of frames and dispatches them one by one. A thread that
moves the callback out of the member under the lock and calls it after unlocking is two steps (`held`).
`outcome[n]` records how Execute n ended and `of` for which script that outcome was produced, which is
what tells a result that belongs to another script from the right one. `timed` and `late` are ghosts.

Abstracted: the content of frames; a pipe that is full; partial writes (the host loops over them); the
grace period between SIGTERM and SIGKILL. The Lua, Ruby and JavaScript bootstraps are not distinguished.

### SessionStore (MCSessionStore)
Names and files are separate, as in a POSIX directory: `name` maps the three names to inodes and
`content` maps inodes to what they hold, so that a rename moves the name under a writer that has the
file open. `OpenTemp`, `WriteTemp`, `CheckState`, `DropBackup`, `BackUp`, `Publish` are the calls of
`SaveSession` in order; `FailSave` is its error path, `Boot` is `LoadSession`, `Quit` the two saves of
a regular exit. `Crash` may come between any two of them, `Damage` makes the state file unreadable.
A session is the number of the edit it contains. `MCSessionStore` adds the symmetry of inodes.

Abstracted: the write of the temporary file is one step, during which a crash leaves it `Torn`; the disk
keeps the order of the calls (no reordering at a power loss); a boot reads state.json and
the backup at one moment; the sharing violations of Windows are not modelled.

### ReplSession
The interactive session: `main` is the program counter of the loop in `RunMain`, thread 0; thread g > 0
is the reader thread of the g-th sidecar; `receiver` is the yuumi read thread inside the cancel handler.
`commands`, `inputs`, `depth`, `shutdown` are the members of `BridgeTerminal`. A wait on `m_cv` has
three states: the predicate is to be checked, it was false and the thread is about to sleep (with
`m_mutex` held), asleep. `NotifyOne` picks any sleeper. `tui` holds what `AppModel` shows: an input
prompt, a selection menu, a running execution; it decides what Enter and Ctrl+C send. Kinds of line: a
plain command, one that asks for a line, one that opens a menu, a script, `/exit`, a bridge request
(`request`, `run_script`). A plain command may switch the context, which the TUI is told (`context`) and takes as the
end of every prompt, menu and execution; `$code` and `$customcommand` are handled by the loop itself. A script's prompt
may be blank (`req_blank`), which the TUI shows as none. A blank line never leaves the TUI, so the loop's `continue`
for it has no step. Sidecars are reduced to: a script runs, may ask, ends, or is given up.

Abstracted: one language context that lives as long as the session (the destruction of contexts under a
cancel is listed as a hazard); the text of lines (an answer that is taken as a command may have any
kind); `executeMutex` and `stateMutex` of the wrapper, which the cancel takes together, are one step;
the fetch-add of the read depth and the message that follows it are one step.

### RuntimeScopes
`contexts` and `frames` are the stacks of `ContextManager` and of local scopes, kept in two containers
by the code as well. Each frame remembers, as a ghost, the depth it was pushed for. `session`, `globals`,
`math`, `persisted` are the other scopes in the order `GetVariable` searches them. `cache` is
`g_expressionCache` reduced to what matters: the definition that a compiled "f(1)" calls; raising the
function revision empties it. Values and definitions are numbered in the order of the commands, which is
what "outdated" means. `Import` and `Document` are `ImportSessionState` and `ExportSessionState`, the
latter after a trip through JSON, where a number that is not finite turns into null. `ReachableFrom` is
the catalog's reachability. `RunScript` is the whole `run_script` request: switch, run, switch back.

Abstracted: each command is one step, as all of them run on the main thread; the contexts
`customcommand`, `sandbox` and `ai`, which reach only the root, like math; overwrite policies other than
the default, which no command passes; arithmetic and expression syntax.

Facts of the code the model shows and no document contradicts: a compiled expression may call a function
of a frame that was popped; `run_script` made outside the code family is always refused, as the target is
not reachable; after a successful `run_script` the user is in a *new* context of the old name whose locals
are empty; a math variable that was promoted can be read again from the saved math scope.

### OneShotProcess (MCOneShotProcess)
The process bridge the engine uses for programs that are not sidecars. `pc["main"]` is the main thread in
Run, the sandbox's loop and WaitForExit; `pc["cancel"]` is the yuumi read thread in Terminate, on behalf of
the cancel handler; `reader[s]` is the reader thread of a stream. `running`, `lastExit`, `loops`, `childPid`
are the members of the same names, `open` stands for the three descriptors, `joinable[s]` says whether the
`std::thread` of a stream holds a thread. A step is one access to shared state. The child writes, asks for
input, reads and exits; processes it started (`heirs`) may keep its pipes open. Three clients: the Lua, Ruby
and JavaScript executors (`executor`), which wait; Python's, which does not; the sandbox, which polls,
answers prompts and may be told `/stop`.

Abstracted: the content of chunks, except whether `IsLikelyInputPrompt` takes them for a prompt; a full pipe;
`ExecuteSync`, which waits for a child of its own and touches none of this state; the destructor's Terminate; what a signal to
a wrong process does. In the Windows build the descriptors are handles and the job object ends the heirs too.

### ScriptRegistry (MCScriptRegistry)
The saved scripts of one language. `store` is the map of persisted variables, the only storage the registry
has: under keys put together from a script's name lie its latest text, a snapshot per version, metadata and a
deletion flag, and under one more key the list of names. `SaveScript`, `DeleteScript`, `HardDeleteScript`,
`RollbackScript`, `LoadScript`, `LoadScriptVersion`, `ListScripts` are the functions of `ScriptRegistry.h`, as
operators from a store to a store or a result; the actions are the commands, the editor's lines and the TUI's
requests that call them. The four language contexts have the same command code, and each action is mapped to
one of them. `editor` is the script editor on top of the stack; requests are handled beside it. `checkpoint` is
a saved session. A key is the sequence of the segments that "::" separates: `KeysApart` says that no two keys
coincide, which holds for names without "::" and is an assumption, as the code does not ensure it.

Abstracted: texts are constants (the line end a text may lose in the editor is not shown); the order of the
list; time stamps and sizes; the diff of two versions; the buffer of a bare /run; the other languages, whose
keys have another prefix. A script saved by a version without snapshots is an initial state; the first save over
it starts a history that does not contain its old text.

### YuumiBridge
The engine's end of the connection to the TUI. `main` is the program counter of the part of `RunMain` that
starts and ends it; `at` says where the read, write and heartbeat threads are; `sink` is `OutputSink` with the
buffer of messages sent before `SetConnected`, `queue` the write queue, `connected`, `mutex` the members of the
same names. Two senders, the main thread and a worker of a running command, pass `OutputSink::Send` and
`Bridge::send` step by step, against the `Flush` that empties the buffer; `Bridge::send` may throw. A message is
its sender and a number, which is what order and loss are told by. The peer takes frames, sends commands and may
close at any moment. The writer's wait has the same three states as in `ReplSession`.

Abstracted: framing and JSON (`transport.hpp`, `protocol.hpp`) are whole frames, some of which the reader skips
or gives up on; the terminal's queues are a number. What JSON throws ends the process: in the writer on any message
but those the engine words itself (`IsFixed`), in the reader on a message with a `type` that is no string (`aborted`).

### CustomCommands (MCCustomCommands)
A line at the prompt from `ExecuteStage` to its end, and the commands users define. `store` is what the context
keeps in persisted variables: a registry of ids and an entry per id, in the forms of three generations;
`ReadDefinitions`, `Migrated` and `Written` are the functions that read, convert and write it; the loops in them are
filters of sequences (`Filtered`, `Bound`), so that they can be reasoned about. `frames` is the
chain of custom commands being run, each with the body it was found with and the step it is at. The actions are
the commands of the context, the invocation of a name by the most specific scope, and the end of a chain by
success, failure or depth. A line is a record of what the parser makes of it.
`Catalog` is the help catalog's table of reachable contexts, with the root's entry for a context it does not know, as in
`HelpCatalog::ReachableFrom`; the steps of a chain may push contexts and open a script editor as typed lines do. In the
editor a typed line goes to the editor as it is (`Raw`), a step of a chain through `ExecuteStage` first.
Plugin commands and plugin contexts have no step: both loaders' `LoadAll` is called nowhere, and both are empty.

Abstracted: spelling and quoting of lines (which texts give which record); pipelines as one kind of line that is
refused; what commands other than these do, except whether they fail, and that they switch the context or open and
leave the editor.

### SessionDocument (MCSessionDocument)
The typed values of a session and the JSON document they are saved in. `session` has persisted variables,
globals, math variables and functions. A value and a JSON value are trees, written as functions from the path of each
node (a sequence of members and items, as in a JSON pointer) to its type or kind and its scalar: a conversion is
then a function of one node, and needs no recursion. `AnyValueToJson`, `Export`, `Outcome`, `Imported` follow the code's conversions and checks in their order. The actions
are the writers of these parts: /set with its flags, assignments, /promote from the local frame (`local`) to any scope, /fn,
/reset, `settings_update`, the texts that saved scripts and custom commands keep in persisted variables (`StoreTexts`; which
keys and when is in ScriptRegistry and CustomCommands), the scripts' shared scope, `session_save_state`,
`session_load_state`, a start and an exit, and someone who replaces the file by a document wrong in one of its parts.
The code compiles a function's body in two places with a table of constants each, and so does the model: `Compiles` for
/fn, `CompileMathFunction` for a document. That they accept the same is what `ExportIsAccepted` rests on. RuntimeScopes has the scopes' order and the stack,
SessionStore the way of the file to the disk.

`EditedAssumption` says that an edited document is a tree (`Tree`), of any shape: it has been parsed. `Texts` stands for
the texts there are, which contain the names of the attributes and settings and what the user types as names.

Abstracted: texts of numbers are looked up in a table that holds strtod's results; expressions are known by the
names they use.

### Sandbox (MCSandbox)
The sandbox context and the module manager. `scanner` is the thread that sleeps, empties the map and fills it one
directory at a time, `modules` the map, `engine` the end of the engine with the manager's destructor. /run looks
the map up twice, so its action is in two steps. `RunExternalFilePath` and `RunExternalTarget` are the two copies
of the rules that turn a path into a process, each with its own table of extensions; a file-system test that throws ends
the engine. `root` holds the directories the scan has to read: a manifest may be missing, closed to the reader, no JSON,
of wrong types, or make the scan throw, which ends it with the rest unread. The directories, the
files and the forms a target may take are constants, `MCSandbox` has one of each kind.

Abstracted: the order of directories is any; manifests are what `ParseManifest` makes of them; the processes that
are started are supervised in OneShotProcess.

### FrameDecoder (MCFrameDecoder)
The way of a frame from a sidecar to the engine. `WriteFrame` is what the bootstraps write, `wire` is the pipe, `data` what one call of `Feed` has yet to read; each round
of `Feed`'s loop is an action named after the decoder's state, and `ReceiveData`, `DispatchFrame` are
`ReaderLoop`, which feeds a chunk and then nothing until no frame comes out. Two ghosts tie the decoder to the stream:
`ends[n]` is the number of bytes written when frame n was whole, `taken` the number of bytes the decoder has read.
`Weight[i]` is Base^i, a constant with an assumption so that the proofs need no powers. In the run bytes are ternary
digits and headers two of them, so that a length at the limit, above it and above the header's width are all a few bytes long.
A frame that is too large makes the decoder drop the rest of its chunk and read on in the middle of the payload:
from there on nothing is claimed.

## 4. Runs

| Run | States | What it shows |
|---|---|---|
| `sidecar` | 1,321,064; 3 scripts, both platforms | the callback has one owner; a result is the script's own; scripts are sent only to an idle sidecar; Shutdown leaves no thread, child or callback; the bridge implements ScriptChannel |
| `sidecar_liveness` | 56,411; 2 scripts, Windows | every Execute returns; every Shutdown kills the child |
| `session` | 74,118 | one engine, crashes, errors and damage: no torn or stale file; the saved session stays on disk; a regular exit survives later damage |
| `repl` | 816,104 | one waiter; cancels reported once; TUI and engine agree at rest; the engine comes back to the user |
| `scopes` | 536,197 | each context keeps its own frame and its locals; evaluations are never outdated; the announced context is current |
| `oneshot` | 428,671 | the sandbox captures all output; a run reports its own exit code; no double join, no stale thread, no signal to a reaped child; runs return; prompts are answered |
| `registry` | 303,565 | histories have no gap and end in the text that is loaded; exactly the loadable scripts are listed; no snapshot changes |
| `yuumi` | 305,596 | messages keep their order and are counted when lost; the handshake is first; no frame waits for a heartbeat; a lost peer ends the session |
| `commands` | 113,175 | definitions change only by their own /define and /delete; the most specific one runs; nothing runs after a failed step; every line ends |
| `document` | 150,167 | what is exported is accepted and gives the same session back; a document is taken whole or not at all, and nothing else changes two parts |
| `sandbox` | 199,946 | a module that was shown or found stays; every name of a directory ends up in the list, unless a directory throws |
| `codec` | 66,219 | a frame that has left the pipe whole is dispatched, in order and unchanged, before the reader waits again |

Premises that limit a property, and why:
- `NothingAbandoned` (sidecar): when an Execute gives up after 35 s its callback stays registered, with
  references to locals that are gone. That is what the code does; the properties say that this is the only way.
- `~timedOut` (repl): after the watchdog gives up on a script that waits for input, its reader thread is
  still inside ReadLine, and two threads wait with one condition variable. The properties hold up to then.
- `Calm` (repl): a cancel that meets a script waiting for input blocks the read thread on `m_executeMutex`
  and then on the reader thread, which only the read thread could feed: a deadlock. The shutdown request of
  a lost connection may fall between the predicate and the sleep of the main thread. `EngineComesBack` is claimed for the sessions where
  neither happens, with cancels of running scripts included.
- `cancels = 0`, `~terminated` (oneshot): a cancel runs Terminate beside the main thread's WaitForExit. Both may
  join the same thread, and SIGTERM may go to a child that is reaped; nothing in the bridge prevents it. The
  properties hold up to then. `RunReturns` and `PromptGetsAnswer` hold with a cancel too.
- `client # "python"` (oneshot): Python's fall-back does not wait, so no statement about the end of the run holds for it.
- `aborted` (yuumi): text that is not UTF-8 makes the writer's `Json::dump` throw, and a `type` that is no string the
  reader's handler, which ends the process.
- `NotFinite` (document): a double that is not finite is written as null, which the property says.
- `engine = "up"` (sandbox): once the engine leaves, the map is being taken down. `EveryModuleListed` is claimed unless
  one of the directories throws (`ModuleManager.cpp:83`), and for names: of two directories of one name one is listed.
- `loading` (scopes): `session_load_state` pops the contexts and announces nothing.
- `Sound` (codec): up to the first frame above `kMaxPayload`.

Each property of a passing run has a mutant in `PROJECT.json`: a change of one definition, of the kind
someone could make in the code, under which TLC finds the property violated. The variants stand in the
modules beside the definitions they replace, marked as variants.

## 5. Bounds

- `MaxExec = 3`, `MaxRequests = 1` (sidecar): a fault that reaches over scripts (a late result, a stale
  timer) needs two; the third shows that nothing accumulates. One request is enough for the nested read loop.
- `MaxEdits = 3`, three inodes, one engine (session): the state file, the backup and the temporary file
  hold three different sessions. Two engines need five inodes.
- `MaxMessages = 3`, `MaxLaunch = 2`, `MaxBacklog = 1` (repl): a command, an answer or cancel to it, and a
  following command; a second launch is what replaces a sidecar. `MaxBacklog` bounds only how many events
  may be unseen when a script asks once more.
- `MaxWrites = 3`, `MaxDepth = 5` (scopes): a definition, a redefinition and an assignment; a stack of root,
  hub, language, another language and its editor, or the three levels and the two that run_script pushes.
- `MaxRuns = 2`, `MaxChunks`, `MaxCancels = 1` (oneshot): the second run meets what the first left behind; two
  chunks in the sandbox are a prompt with something before or after it, or a prompt on each stream.
- Two names, one text besides the empty one, `MaxVersion = MaxSnapshots = 3`, `MaxKept = 1` (registry): a save, a
  different save and a rollback; a second script to be disturbed; a saved session older than the history. The
  two names are symmetric.
- `MaxBuffered = 2`, `MaxThrows = 1`, one command, one message of the worker (yuumi): a throw can hit each of the calls of
  Flush and Send, and after it the buffer can overflow.
- `MaxDepth = 3`, `MaxLines = 5` (commands): a command in a command in a command is refused one level deeper; five
  lines define, redefine, run and delete in two contexts. The catalog is cut down to the root, the hub, one language and three
  contexts that reach only the root. Five storages: empty, both old schemas, mixed forms, and one
  with an entry that is nothing the code can read.
- `MaxSteps = 5` (document): put a value, save, put another, load, save; thirteen edited documents; one set of
  texts that a script and a custom command keep.
- `MaxInputs = 2` (sandbox): the first input starts the scan, the second meets it anywhere. Six directories in three
  sets: two of one name, one without a manifest, one each with a manifest that is closed, no JSON, or makes the scan throw.
- `MaxFrames = 3`, `BufferSize = 8` (codec): a frame with a neighbour on each side; a chunk holds several frames or a
  part of one.

Deadlock is checked in the `session`, `scopes` and `registry` runs. It is not in the others, where the system may
stop: a bridge that is closed, an engine killed by SIGPIPE, a session that has ended, a user who types
nothing more.

## 6. Fairness and timing

- Engine threads are weakly fair, one condition per thread, as operating-system threads that are not
  blocked are scheduled. Nothing is assumed of the user, nor in `sidecar_liveness` of the sidecar.
  In `repl` scripts are assumed to end or to be given up.
- In `oneshot` programs and the processes they start come to an end unless they wait for input, SIGTERM ends
  them, and the user answers a prompt (with a line or with /stop).
- In `yuumi` every thread of a running engine is scheduled, and the peer takes what is written while its end is
  open. It need not send, and a read on a socket that its own side closed need not fail, as on POSIX it may not:
  that `stop()` returns is therefore not claimed.
- In `commands` the engine goes on with a line it has begun, in `sandbox` the scan's thread runs.
- Condition variables have no spurious wake-ups, which would hide a lost notification by chance.
- The 5 s handshake and the 30 s watchdog may expire at any moment of their wait. The caller's wait of
  35 s starts after the watchdog's activation was possible, so it expires only while the watchdog is not
  timing; this assumes that threads are scheduled within the 5 s of difference.
- Liveness of the sidecar is checked for the Windows build only, where a broken pipe is a failed write; on POSIX the
  same steps may also end in SIGPIPE, which ends every obligation.

## 7. Proofs

The proofs hold for every value of the constants under the named assumptions of the modules: bounds are
natural numbers, the marker values (`Torn`, `Foreign`, `Inf`, `Null` …) differ from the data, and
`Kinds`, `Platforms`, `Languages` are subsets of the modelled ones.

**SidecarProcessBridgeProofs**
- `TypeCorrect`: `Spec => []TypeOK`. `TypeInv` adds that a dispatching reader has a frame, and that a
  thread about to call holds a callback; without these, `Head(inbox)` has no type.
- `ShutdownIsComplete`: `Spec => []ShutdownLeavesNothing`. `ShutInv` says, for each place of the caller on
  the way to "closed" and "failed", which threads still run and that the child is dead after the host stopped.
- `CallbackIsOneShot`, `NoDanglingCallback`: `OwnerInv` says that the callbacks in the member and in the
  threads' hands are different, none belongs to a script not yet sent, and, while nothing was abandoned,
  each belongs to the script in flight, which has no outcome yet. Execute therefore cannot return under it.
- `EveryResultIsOwn`, `ScriptReachesMainLoop`: `FlowInv` says, while nothing was abandoned, where the one script in
  flight is. `ScriptInv` places it over both pipes and the reader's chunk: it is on its way to the sidecar, runs there,
  or its EXEC_RESULT is on its way back, one of these and once; when the caller is free for another script nothing of an
  earlier one is left anywhere. `OwnInv` is the property. It rests on three facts about the threads: a chunk is only
  there while it is dispatched and a sidecar that has not said READY has said nothing (`ReaderInv`), nothing runs before
  Launch returns (`LaunchInv`), nothing is sent after a timeout (`TimeoutInv`).
- `BridgeImplementsChannel`: `Spec => ImplementsChannel`, with `ChannelPhase` and the outcomes as the refinement
  mapping. Initial states map to initial states; each step that opens, begins, settles or shuts the bridge is shown to be
  that step of ScriptChannel, every other one leaves the mapping unchanged.

**SessionStoreProofs** (of the state file with one engine, `Engines = {e}` as an assumption of the theorems)
- `TypeCorrect`, `StateFileIsSound`, `SessionIsNeverLost`, `CleanExitIsSafe`, from one invariant `DiskInv`:
  for each point of a save, what the three names hold, in terms of the last saved session and the snapshot.
  The plain properties are not inductive: between the renames the session is only in the backup and the
  temporary file.
- `ExportsAreAccepted`, `SessionsSurviveTheRoundTrip`, `DocumentsAreAllOrNothing` are about SessionDocument, for any
  texts, tables, values and edited documents. `DocumentInv` says that the session is well-formed (`SessionOK`: values of
  known types, names that are not empty, functions that compile) and that the file, if it is accepted at all, holds such
  a session. Two chains of lemmas keep it. Writing and reading back: a container gives back the trees it was made of, an
  array of objects gives them back by name, every conversion undoes the other (`ContainerIs`, `ArrayOfIs`, `ValueIs` up to
  `ExportIs`). Reading anything: a branch of a tree is a tree, and what each parser lets through is well-formed (`SubTree`,
  `ByNameIs`, `FunctionRead` up to `ImportIs`). `ExportIsAccepted` alone is not inductive: a session read from a
  document that someone edited has to be writable too. `DocumentsAreTakenWhole` is about the parts of the session: each handler is shown to add
  to one of them or to overwrite a name in it, so that two parts change together, or something goes, only with /reset, an empty
  start, or a whole accepted document.

**RuntimeScopesProofs**
- `TypeCorrect`, `FramesAligned`, `CoveredLocalsSurvive`, `ScriptsComeBack`, from `ScopeInv`: the types, the
  alignment of the two stacks, and that the root is "global" – the fact that makes /back and the editor's
  exit, which test the name of the context on top, never pop the root. Lemmas on `Pop`, `Push`, `ToRoot` and
  `SetLocal` carry both the invariant and the frames of covered contexts; each command then cites one of them.
- `PromptIsRight`, `NoOutdatedEvaluation`: `TopInv` says that math and the editor are only ever on top of the stack, so
  no pop leads back to them. With it `AnnouncedInv` follows the announcements through nested switches and loads, and
  `CacheInv` compares the cache with the global functions and the one math frame: within a revision, what is compiled is
  not older than either.

**ScriptRegistryProofs**
- `TypeCorrect`, `HistoryStaysWhole`, `ListingsAgree`, `SnapshotsStay`, for any names with `KeysApart` and any
  texts. `StoreInv` adds to the properties that a listed script has a text, that a text is listed or flagged as
  deleted, and that a snapshot in the history is a text; it holds of the checkpoint as well, without which
  loading a session would break it. One lemma per function of the registry says what it writes; one lemma,
  `OthersUndisturbed`, says that what it does not write keeps the invariant of the other scripts. A rollback is
  shown to be a save.

**ReplSessionProofs**
- `TypeCorrect`, `OneThreadWaits`, `CancelsReportedOnce`. `TypeOK` bounds the read depth, which is not inductive:
  `TerminalOK` says that the depth is the cardinality of the set of threads inside ReadLine, so the proof counts
  threads with the finite-set theorems. `OwnerInv` says who holds `m_executeMutex`: a script runs only while the main
  thread waits in Execute for the current sidecar, which is why the two never wait for the user together.
- `TuiAgrees`. The property is about the moments when nothing travels; `RestInv` says where the news is otherwise.
  `MenuInv`: while SelectMenu waits, its request is on its way, or shown, or the answer is on its way, or queued, exactly
  one of these and once. `FlightInv`: a TUI that shows an execution while the engine reads a command still has the idle
  event ahead of it, or the engine a line. A change of context, which would take a menu away, is always shown before it
  (`Precede`). `PromptInv`: no nested read, the only source of prompts, before a script is given up.
- `FailuresStopTheLine`, `OnlyCommandsChangeTheTable` and `TheMostSpecificRuns` are about CustomCommands, whose chains
  are the lines of this loop. The first is inductive as it stands. The other two rest on `StoreInv`, that whatever the
  storage holds can be read (the registry is a sequence, and before the last generation every id in it is a legacy one), and on one fact about
  each function that reads or writes it: which body an id has afterwards (`Kept`). Reading and moving old storage keep every
  body, /define and /delete change that of one id, and the filter that looks a name up returns the entry of the context
  before the global one. The filter (`Filtered`) is a recursive function: that its
  equation has a solution (`FilterExists`) and what the solution picks (`PicksStep`, `FilteredIs`) is shown by the
  smallest counterexample in place of induction.

**OneShotProcessProofs**
- `TypeCorrect`, `ExitCodesAreOwn`, `WaitingClientsAreSafe`, `SandboxMissesNothing`. Four parts follow the main thread:
  `InterruptInv` and `ExitInv` say when the child is still to be waited for, `ThreadInv` which threads can be joined,
  and `CaptureInv` that the running flag falls only with the last reader, so that who leaves the sandbox's loop finds
  both streams read to their end.

**YuumiBridgeProofs**
- `TypeCorrect`, `NoLostWakeUp`. `WriterInv` gives the mutex its meaning: the writer holds it from the test of its
  predicate to its sleep, so a send comes before the test or after the sleep.
- `NoOutputIsLost`, `HandshakeIsFirst`: `PhaseInv` says what each step of the boot has done to the sink, and that a sender
  that has seen it connected has nothing in the buffer; `FrameInv` that the writer pops only when its frame is gone.
  `KeptInv` is order and count over peer, frame, queue, buffer and the senders' hands at once, which is what each move
  between two of them keeps. `LeadInv`: only heartbeats before the handshake, then the handshake first, or nothing more.

- `SeenModulesStay`, `ScanEndsBeforeTheMap` are about the sandbox context, which runs its processes
  over this bridge: the module extends Sandbox as well. A module that was seen stays because only the first
  input starts a scan (`OneScan`), and the map is still empty when the scan empties it (`EmptyTillScanned`).

**FrameDecoderProofs**
- `TypeCorrect`, `FramesComeOutWhole`, for any base, header size, limit, frames and chunks. `StreamInv` gives every frame
  its place in the stream of bytes written. `DecodeInv`: the decoder is in step, and then what it has copied of
  header, type and payload is exactly the part of one frame up to its position, with as many frames delivered as are
  before it (`InStep`); or a frame above the limit was sent and everything before it was delivered (`OutOfStep`). Only
  with the partial header and payload of the frame at hand is it inductive.
- `HeaderRoundTrip`: the number a header stands for is the length that was encoded. The sum is a recursive function;
  what it is for the first n digits is an induction, done with the library's theorem that a non-empty set of numbers has
  a least element.

Some theorems are about properties that no run lists, as they say more than a run needs or are the type invariants:
`TypeOK` of each module, `LateWritesOnlyWhenAbandoned`, `RunScriptComesBack`, `ScanEndsFirst`.

Only model-checked: liveness under fairness, which is out of the prover's reach and stays with TLC: `ExecuteReturns`, `ShutdownKillsSidecar`, `EngineComesBack`, `RunReturns`, `PromptGetsAnswer`, `LossEndsSession`,
`LineEnds`, `EveryModuleListed`.

## 8. Where the code and its words disagree

The models contain each behaviour below; where it limits a property, section 4 says so.

- A crash between the two renames of a save (`RuntimeState.cpp:1211`) leaves no state file; the next start does not
  try the backup and is empty, although `session_test.go:105` expects the file after a crash. The session itself is
  not lost (`SavedSessionOnDisk`).
- The watchdog's stop flag (`ZeriLink/Source/ProcessBridge.cpp:100`) and the terminal's shutdown flag
  (`BridgeTerminal.cpp:155`) are stored and notified without the mutex of their waiter: the wake-up can be lost, and
  Shutdown joins, or the main thread waits, for ever.
- The read depth is given back before the command it read is executed (`BridgeTerminal.cpp:76`), so a read made by a
  command takes the next command as its answer, against the comment at line 187.
- `WaitForExit` clears the running flag before the readers have read everything, against `IProcessBridge.h:56`.
- `bridge.hpp:204` says that an intentional stop is told apart by an exchange of the flag; the write loop reports an
  error then all the same. `stop()` notifies without the queue's mutex.

Seen while modelling, sidecars and processes: Python's one-shot fall-back never joins its reader threads, and its second
run assigns to them, which ends the engine; nothing handles SIGPIPE, so a write to a sidecar that has exited ends the
engine on POSIX; the awaiting flag is stored after the frame went out, so the timer of an answered script can report a
later one as timed out; a script whose error text is exactly "Execution timed out" is reported as SIDECAR_TIMEOUT; after
a failed send the bridge stays marked alive.

Seen while modelling, session: engines of one user share one temporary file; a wrong type in a math entry's name is a
plain failure in LoadSession, so that the empty session is saved over the file without the warning, and an exception
that ends the engine in `session_load_state`; FormatDouble strips trailing zeros of an exponent; an assignment whose
value is not finite is saved as null; a variable with the name of a built-in is ignored in expressions; every switch
between hub and language grows the context stack; a script called "a::v::1" is kept under the key of the first
snapshot of "a".

Seen while modelling, custom commands: one entry of an unknown form makes every custom line, /list, /define and
/delete fail, so the hint to delete the entry cannot be followed; /define takes the name of a global command, which can
never be invoked; /exit in a chain does not stop the chain; `settings_update` keeps the fields before the first invalid
one; moving old storage makes a context's command global.

Seen while modelling, sandbox and bridge: during the scan the name of a module falls through to PATH; a Lua module that
was detected without a manifest is executed instead of run by its runtime; a name that is too long throws out of
RunMain; the thread that sleeps before the scan may call a manager that is gone; output that is not UTF-8 ends the writer
in `Json::dump`; a send that throws leaves the sink disconnected, and all later output is buffered; Goodbye may still be
in the queue when the bridge stops.

## 9. Not modelled

The relaunch of sidecars by the executors, pipelines, the dispatch cache and the Go client are planned (section 2).
Not planned: plugins, whose `LoadAll` nothing calls; the class `VariableScope`, which the engine does not use; help,
completion, diagnostics, the bug snapshot, catalogs, paths, and the list views of the TUI, which read and format and
keep no state over which steps could go wrong. Memory below the granularity of the models (the lifetime of
the condition variable that Execute waits on while its callback notifies it, reuse of a descriptor number, a context
pointer the cancel handler holds) is out of reach.

## 10. Running

    tlc -workers 2 -config SidecarProcessBridge.cfg SidecarProcessBridge.tla
    tlc -workers 2 -config SessionStore.cfg MCSessionStore.tla
    tlc -workers 2 -config FrameDecoder.cfg MCFrameDecoder.tla
    tlapm RuntimeScopesProofs.tla

A run whose module has an MC module is started from that one. The runs take from a few seconds to two minutes each;
the proofs from half a minute to a few minutes per module.
