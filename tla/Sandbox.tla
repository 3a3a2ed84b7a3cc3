------------------------------ MODULE Sandbox ------------------------------
(***************************************************************************)
(* The sandbox context and the module manager: /list, /build, /run, /open  *)
(* and a line that is the path of a script, against the scan of the        *)
(* modules directory in its own thread.                                    *)
(*                                                                         *)
(* The first input starts a detached thread that sleeps and then starts    *)
(* the scan.  The scan empties the map of the modules and fills it one     *)
(* directory at a time; every command reads the map as it is then, and     *)
(* /run reads it twice.  The destructor of the runtime state stops the     *)
(* scan and waits for it; nobody waits for the sleeper.                    *)
(*                                                                         *)
(* A path is <<directory, name>>, with Here for a relative one.  How a     *)
(* process is supervised is OneShotProcess: here it is started, and ends   *)
(* (the names differ, so that OneShotProcessProofs can be about both).     *)
(***************************************************************************)
EXTENDS Naturals, Sequences

CONSTANTS
    Dirs,           \* for each directory of modules: [has, fields, files]
    Roots,          \* the sets of directories that modules/ may consist of
    Entry,          \* for each file ParseManifest may take as the entry: its type
    Files,          \* for each absolute path that is there: what it is
    Extension,      \* for each file name its extension, in lower case
    Commands,       \* names of programs found in PATH
    Normalized,     \* for each line a user may type, what NormalizePathInput makes of it
    Installable,    \* runtimes that come and go
    Targets,        \* [args, cwd] given to /run
    Builds,         \* names given to /build
    MaxInputs       \* bound on the inputs

Here == "."
EngineDir == "home"
Workspace == "sandbox"
None == <<>>
NoCwd == "no --cwd"
Wrong == "a wrong type"

ASSUME FilesAssumption == \A p \in DOMAIN Files : Files[p] \in
                             {"file", "unreadable", "directory", "special", "forbidden"}
ASSUME RootsAssumption == Roots \subseteq SUBSET DOMAIN Dirs
\* A file is known by its absolute path.
ASSUME PathAssumption == \A p \in DOMAIN Files : p \in STRING \X STRING /\ p[1] # Here
ASSUME BoundAssumption == MaxInputs \in Nat

VARIABLES
    engine,         \* "up", "leaving", "joining" (in ~ModuleManager) or "down"
    deferred,       \* deferredBackgroundStarted
    scanner,        \* "none", "sleeping", "clearing", "scanning", "done" or "wild"
    root,           \* m_modulesRoot: the directories that are there
    left,           \* directories the scan has not reached
    stop,           \* m_stopRequested
    modules,        \* m_modules
    runtimes,       \* names of the runtimes in PATH
    job,            \* what the main thread is at
    outcome,        \* code of the last command
    artifacts,      \* the manifests of finished runs
    seen,           \* ghost: modules a command has shown or found
    inputs          \* number of inputs

scanVars == <<scanner, left, stop, modules>>
sandboxVars == <<engine, deferred, scanVars, root, runtimes, job, outcome, artifacts, seen, inputs>>

-----------------------------------------------------------------------------
(* Manifests                                                               *)

\* A directory has "no manifest", one that is "closed" (it cannot be opened), one
\* that is "not json", or "json"; one that "throws" may not be searched, or has a
\* manifest that opens and cannot be read.  The fields in the order they are
\* read: the first of a wrong type ends the parse, what has been read stays.
ManifestFields == <<"name", "version", "description", "type", "entry_point">>

Field(j, i) ==
    LET Read(n) == \A k \in 1 .. n : ManifestFields[k] \notin DOMAIN j \/ j[ManifestFields[k]] # Wrong
    IN IF Read(i) /\ ManifestFields[i] \in DOMAIN j THEN j[ManifestFields[i]] ELSE ""

\* The name the directory goes by: its own where the manifest gives none.
NameOf(d) == IF Dirs[d].has # "json" \/ Field(Dirs[d].fields, 1) = "" THEN d
             ELSE Field(Dirs[d].fields, 1)

\* What the directory may be read as, nothing when an exception leaves the
\* parse: without a manifest the first file that can be an entry is taken, in
\* the order the file system gives them.
ParseManifest(d) ==
    LET j == Dirs[d].fields
        Manifest(type, entry) == [name |-> NameOf(d), path |-> d, type |-> type, entry |-> entry]
        entries == Dirs[d].files \cap DOMAIN Entry
    IN CASE Dirs[d].has = "no manifest" /\ entries # {} -> {Manifest(Entry[f], f) : f \in entries}
         [] Dirs[d].has = "no manifest" /\ entries = {} -> {Manifest("unknown", "")}
         [] Dirs[d].has = "closed" -> {Manifest("unknown", "")}
         [] Dirs[d].has = "not json" -> {Manifest("", "")}
         [] Dirs[d].has = "json" -> {Manifest(Field(j, 4), Field(j, 5))}
         [] Dirs[d].has = "throws" -> {}

Insert(m) == [n \in DOMAIN modules \cup {m.name} |-> IF n = m.name THEN m ELSE modules[n]]

-----------------------------------------------------------------------------
(* The scan                                                                *)

\* The sleeper calls StartBackgroundScan.  The destructor holds the lock while
\* it waits; after it, the call works on an object that is gone.
StartBackgroundScan ==
    /\ scanner = "sleeping" /\ engine # "joining"
    /\ IF engine = "down" THEN scanner' = "wild" /\ UNCHANGED stop
       ELSE scanner' = "clearing" /\ stop' = FALSE
    /\ UNCHANGED <<left, modules>>

ScanClears ==
    /\ scanner = "clearing" /\ scanner' = "scanning"
    /\ modules' = None /\ left' = root
    /\ UNCHANGED stop

\* A slip: a manifest that is not JSON ends the scan too.
ScanTaskGivesUp ==
    /\ scanner = "scanning"
    /\ \/ (left = {} \/ stop) /\ scanner' = "done" /\ UNCHANGED <<left, modules>>
       \/ ~stop /\ \E d \in left :
             /\ left' = left \ {d}
             /\ \/ /\ \E m \in ParseManifest(d) : modules' = Insert(m)
                   /\ UNCHANGED scanner
                \/ Dirs[d].has \in {"throws", "not json"} /\ scanner' = "done" /\ UNCHANGED modules
    /\ UNCHANGED stop

\* The loop ends with the directories, at the destructor's wish, or with an
\* exception: then the directories that are left are never listed.
ScanTask ==
    /\ scanner = "scanning"
    /\ \/ (left = {} \/ stop) /\ scanner' = "done" /\ UNCHANGED <<left, modules>>
       \/ ~stop /\ \E d \in left :
             /\ left' = left \ {d}
             /\ \/ /\ \E m \in ParseManifest(d) : modules' = Insert(m)
                   /\ UNCHANGED scanner
                \/ Dirs[d].has = "throws" /\ scanner' = "done" /\ UNCHANGED modules
    /\ UNCHANGED stop

Scan ==
    /\ StartBackgroundScan \/ ScanClears \/ ScanTask
    /\ UNCHANGED <<engine, deferred, root, runtimes, job, outcome, artifacts, seen, inputs>>

-----------------------------------------------------------------------------
(* What is started.  <<"start", process>>, <<"error", code>> or <<"throw">>*)
(* for a file-system test that fails (a name that is too long, a directory *)
(* that may not be searched).                                              *)

Error(code) == <<"error", code>>
Process(program, args, cwd) == <<"start", [program |-> program, args |-> args, cwd |-> cwd]>>
Throw == <<"throw">>

IsRelative(p) == p[1] = Here
Absolute(p) == IF IsRelative(p) THEN <<EngineDir, p[2]>> ELSE p
KindOf(p) == IF Absolute(p) \in DOMAIN Files THEN Files[Absolute(p)] ELSE "missing"
IsRegular(p) == KindOf(p) \in {"file", "unreadable"}
IsPathLike(p) == ~IsRelative(p) \/ Extension[p[2]] # ""

RuntimeKey == [py |-> "python", lua |-> "lua", js |-> "js", ts |-> "js", rb |-> "ruby"]

DetectLanguage(p) == IF Extension[p[2]] \in DOMAIN RuntimeKey THEN RuntimeKey[Extension[p[2]]]
                     ELSE "unknown"

\* CheckEnvironment and GetRuntime: the runtimes are looked for at every run.
RuntimeAvailable(p) == DetectLanguage(p) \in runtimes

\* A line that is a path.
RunExternalFilePath(p) ==
    IF p = None THEN Error("SANDBOX_MISSING_ARGS")
    ELSE IF KindOf(p) = "forbidden" THEN Throw
    ELSE IF KindOf(p) = "missing" THEN Error("SANDBOX_TARGET_NOT_FOUND")
    ELSE IF KindOf(p) \in {"directory", "special"} THEN Error("SANDBOX_INVALID_TARGET")
    ELSE IF KindOf(p) = "unreadable" THEN Error("SANDBOX_FILE_NOT_READABLE")
    ELSE IF DetectLanguage(p) = "unknown" THEN Error("SANDBOX_UNSUPPORTED_EXTENSION")
    ELSE IF ~RuntimeAvailable(p) THEN Error("SANDBOX_RUNTIME_MISSING")
    ELSE Process(<<Here, DetectLanguage(p)>>, <<Absolute(p)>>, Workspace)

\* /run of a target that is there: a relative one may be in the given
\* directory.
TargetPath(p, cwd) == IF KindOf(p) = "missing" /\ cwd # NoCwd /\ IsRelative(p)
                      THEN <<cwd, p[2]>> ELSE p
Or(cwd, default) == IF cwd = NoCwd THEN default ELSE cwd

\* Its own table of extensions.
TargetRuntime == [py |-> "python", lua |-> "lua", js |-> "js", rb |-> "ruby", ts |-> "js"]

\* A script is given to its runtime, another file is executed, and a bare name
\* is left to PATH.
RunExternalTarget(args, cwd) ==
    LET p == TargetPath(args[1], cwd)
        target == Absolute(p)
        extension == Extension[p[2]]
        rest == Tail(args)
    IN  IF cwd = "" THEN Error("SANDBOX_MISSING_ARGS")
        ELSE IF "forbidden" \in {KindOf(args[1]), KindOf(p)} THEN Throw
        ELSE IF KindOf(p) = "directory" THEN Error("SANDBOX_INVALID_TARGET")
        ELSE IF IsRegular(p) /\ extension \notin DOMAIN TargetRuntime
             THEN Process(target, rest, Or(cwd, target[1]))
        ELSE IF IsRegular(p) /\ TargetRuntime[extension] \in runtimes
             THEN Process(<<Here, TargetRuntime[extension]>>, <<target>> \o rest, Or(cwd, Workspace))
        ELSE IF IsRegular(p) THEN Error("SANDBOX_RUNTIME_MISSING")
        ELSE IF IsPathLike(args[1]) THEN Error("SANDBOX_TARGET_NOT_FOUND")
        ELSE Process(args[1], rest, cwd)

-----------------------------------------------------------------------------
(* Commands                                                                *)

Idle == [at |-> "idle"]

\* A slip: every input starts a scan.
ReadLineScans ==
    /\ engine = "up" /\ job = Idle /\ inputs < MaxInputs
    /\ inputs' = inputs + 1 /\ deferred' = TRUE
    /\ scanner' = IF scanner \in {"none", "done"} THEN "sleeping" ELSE scanner
    /\ UNCHANGED <<left, stop, modules, root, runtimes>>

\* The first input starts the sleeper.
ReadLine ==
    /\ engine = "up" /\ job = Idle /\ inputs < MaxInputs
    /\ inputs' = inputs + 1 /\ deferred' = TRUE
    /\ scanner' = IF deferred THEN scanner ELSE "sleeping"
    /\ UNCHANGED <<left, stop, modules, root, runtimes>>

\* The result of a command: a process that is waited for, an error, or an
\* exception, which leaves RunMain and destroys the runtime state.
BeginJob(result, kind) ==
    /\ \/ /\ result[1] = "start"
          /\ job' = [at |-> kind, process |-> result[2]]
          /\ UNCHANGED <<engine, outcome>>
       \/ /\ result[1] = "error"
          /\ outcome' = result[2] /\ job' = Idle
          /\ UNCHANGED engine
       \/ /\ result = Throw
          /\ engine' = "leaving" /\ job' = Idle
          /\ UNCHANGED outcome
    /\ UNCHANGED artifacts

ListModules ==
    /\ ReadLine
    /\ outcome' = "listed" /\ seen' = seen \cup DOMAIN modules
    /\ UNCHANGED <<engine, job, artifacts>>

BuildModule(name) ==
    /\ ReadLine
    /\ BeginJob(IF name \in DOMAIN modules
                THEN Process(<<Here, "cmake">>, <<"--build", ".">>, modules[name].path)
                ELSE Error("BUILD_NOT_FOUND"), "sync")
    /\ seen' = seen \cup ({name} \cap DOMAIN modules)

HandleOpen ==
    /\ ReadLine
    /\ BeginJob(Process(<<Here, "code">>, <<".">>, NoCwd), "sync")
    /\ UNCHANGED seen

RunLine(line) ==
    /\ ReadLine
    /\ BeginJob(RunExternalFilePath(Normalized[line]), "run")
    /\ UNCHANGED seen

\* /run: a single word that is a module's name runs the module.
Run(t) ==
    /\ ReadLine
    /\ LET name == t.args[1][2]
       IN IF Len(t.args) = 1 /\ t.cwd = NoCwd /\ IsRelative(t.args[1]) /\ name \in DOMAIN modules
          THEN /\ job' = [at |-> "found", name |-> name] /\ seen' = seen \cup {name}
               /\ UNCHANGED <<engine, outcome, artifacts>>
          ELSE BeginJob(RunExternalTarget(t.args, t.cwd), "run") /\ UNCHANGED seen

\* RunModule looks the module up again.
RunModule ==
    /\ job.at = "found"
    /\ LET name == job.name
       IN BeginJob(IF name \notin DOMAIN modules THEN Error("RUN_NOT_FOUND")
                   ELSE IF modules[name].entry = "" THEN Error("RUN_NO_ENTRY")
                   ELSE Process(<<modules[name].path, modules[name].entry>>, None,
                                modules[name].path), "run")
    /\ UNCHANGED <<deferred, scanVars, root, runtimes, seen, inputs>>

\* The exit code: the child cannot enter the directory, there is no such
\* program, or it ends by itself.
ExitCodes(process) ==
    CASE process.cwd \notin {NoCwd, EngineDir, Workspace, "other"} \cup DOMAIN Dirs -> {126}
      [] process.program[1] \in DOMAIN Dirs -> {0, 1, 127}
      [] IsRelative(process.program) /\ process.program[2] \notin Commands \cup runtimes -> {127}
      [] OTHER -> {0, 1}

\* ExecuteSync returns.
SyncEnds ==
    /\ job.at = "sync" /\ job' = Idle
    /\ \E code \in ExitCodes(job.process) :
          outcome' = IF code = 0 THEN "done"
                     ELSE IF job.process.cwd = NoCwd THEN "SANDBOX_OPEN_FAIL" ELSE "BUILD_FAIL"
    /\ UNCHANGED <<engine, deferred, scanVars, root, runtimes, artifacts, seen, inputs>>

\* The run is over, or the user has interrupted it: its log is written and the
\* outcome told.
RunEnds ==
    /\ job.at = "run" /\ job' = Idle
    /\ \E code \in ExitCodes(job.process), interrupted \in BOOLEAN :
          /\ artifacts' = Append(artifacts, [process |-> job.process, exitCode |-> code,
                                             interrupted |-> interrupted])
          /\ outcome' = IF interrupted THEN "interrupted"
                        ELSE IF code # 0 THEN "SANDBOX_RUN_FAILED" ELSE "completed"
    /\ UNCHANGED <<engine, deferred, scanVars, root, runtimes, seen, inputs>>

Exit ==
    /\ ReadLine
    /\ engine' = "leaving"
    /\ UNCHANGED <<job, outcome, artifacts, seen>>

\* ~ModuleManager takes the lock and asks the scan to stop.
DestroyStops ==
    /\ engine = "leaving" /\ engine' = "joining"
    /\ stop' = TRUE
    /\ UNCHANGED <<deferred, scanner, left, modules, root, runtimes, job, outcome, artifacts, seen, inputs>>

\* It waits for the scan; the members are destroyed after that.
DestroyJoins ==
    /\ engine = "joining" /\ scanner \notin {"clearing", "scanning"} /\ engine' = "down"
    /\ UNCHANGED <<deferred, scanVars, root, runtimes, job, outcome, artifacts, seen, inputs>>

\* A runtime is installed or removed.
PathChanges ==
    /\ engine = "up"
    /\ \E r \in Installable :
          runtimes' = IF r \in runtimes THEN runtimes \ {r} ELSE runtimes \cup {r}
    /\ UNCHANGED <<engine, deferred, scanVars, root, job, outcome, artifacts, seen, inputs>>

SandboxInit ==
    /\ engine = "up" /\ deferred = FALSE
    /\ scanner = "none" /\ left = {} /\ stop = FALSE /\ modules = None
    /\ root \in Roots /\ runtimes = {} /\ job = Idle /\ outcome = "none"
    /\ artifacts = <<>> /\ seen = {} /\ inputs = 0

SandboxNext ==
    \/ Scan \/ ListModules \/ HandleOpen \/ RunModule \/ SyncEnds \/ RunEnds
    \/ Exit \/ DestroyStops \/ DestroyJoins \/ PathChanges
    \/ \E name \in Builds : BuildModule(name)
    \/ \E line \in DOMAIN Normalized : RunLine(line)
    \/ \E t \in Targets : Run(t)

\* The threads are scheduled.
Fairness == WF_sandboxVars(Scan) /\ WF_sandboxVars(DestroyStops) /\ WF_sandboxVars(DestroyJoins)

SandboxSpec == SandboxInit /\ [][SandboxNext]_sandboxVars /\ Fairness

-----------------------------------------------------------------------------
(* Properties                                                              *)

\* A module that was listed, built or found stays: /list never shows fewer, and
\* RunModule finds what /run has found.
SeenStays == engine = "up" => seen \subseteq DOMAIN modules /\ outcome # "RUN_NOT_FOUND"

\* The scan touches the map only as long as it is there.
ScanEndsFirst == engine = "down" => scanner \notin {"clearing", "scanning"}

\* After the first input every name a directory goes by ends up in the list,
\* whatever is in its manifest and in the others, unless the engine is left or
\* one of the directories throws.
EveryModuleListed ==
    deferred ~> \/ {NameOf(d) : d \in root} \subseteq DOMAIN modules
                \/ engine # "up"
                \/ \E d \in root : Dirs[d].has = "throws"
=============================================================================
