--------------------------- MODULE OneShotProcess ---------------------------
(***************************************************************************)
(* Engines::Defaults::ProcessBridge: a child process with piped standard   *)
(* streams, supervised by Run, SendInput, Terminate and WaitForExit.       *)
(*                                                                         *)
(* Threads.  "main" runs the commands.  "cancel" is the bridge's read      *)
(* thread inside the cancel handler: it calls Terminate of the language    *)
(* executor's bridge while the main thread is in Run or WaitForExit.  Each *)
(* run has one reader thread per stream.                                   *)
(*                                                                         *)
(* Clients.  A language executor that falls back to one process per script *)
(* calls Run and WaitForExit; that of Python calls Run only, and its       *)
(* command ends while the script runs.  The sandbox calls Run, polls       *)
(* IsRunning, turns what looks like a prompt into a question to the user,  *)
(* sends the answer or calls Terminate, and ends with WaitForExit.  A      *)
(* sandbox run cannot be cancelled: SandboxContext does not override       *)
(* RequestCancel.                                                          *)
(*                                                                         *)
(* This is the POSIX build.  m_impl is not synchronised: a field tested    *)
(* and used again may be loaded twice.  What the program does with a join  *)
(* of a thread that is joined already is undefined: it goes on or aborts.  *)
(***************************************************************************)
EXTENDS Integers, Sequences, SequencesExt

CONSTANTS
    Clients,        \* the clients to start from, a subset of AllClients
    MaxRuns,        \* bound on the calls of Run
    MaxChunks,      \* MaxChunks[c]: bound on the chunks a run of client c writes
    MaxCancels      \* bound on the cancellations

AllClients == {"executor", "python", "sandbox"}
Streams == {"out", "err"}
Actors == {"main", "cancel"}

ASSUME ClientsAssumption == Clients \subseteq AllClients
ASSUME BoundsAssumption == {MaxRuns, MaxCancels} \subseteq Nat /\ MaxChunks \in [AllClients -> Nat]

VARIABLES
    client,         \* who uses the bridge
    pc,             \* pc[a]: where actor a is
    reader,         \* reader[s]: where the reader thread of stream s is
    joinable,       \* joinable[s]: its std::thread holds a thread
    running,        \* m_running
    lastExit,       \* m_lastExitCode
    loops,          \* m_activeReadLoops
    childPid,       \* m_impl->childPid, 0 for none
    open,           \* the engine's pipe ends are open
    proc,           \* the child: "none", "running", "asking", "zombie" or "reaped"
    status,         \* what waitpid says of it
    signalled,      \* it has been sent SIGTERM
    heirs,          \* processes it started hold its pipes
    pipe,           \* pipe[s]: chunks written and not read, "text" or "prompt"
    stdin,          \* lines sent and not read
    awaiting,       \* awaitingInput of the sandbox's loop
    interrupted,    \* interruptedByUser
    result,         \* what WaitForExit returned
    runs,           \* ghost: calls of Run
    cancels,        \* ghost: cancellations
    terminated,     \* ghost: a Terminate overlaps this run
    written,        \* ghost: written[s]: chunks written in this run
    delivered,      \* ghost: delivered[s]: chunks passed to the callback
    aborted         \* the engine has died

threadVars == <<reader, joinable, delivered>>
flagVars == <<running, lastExit, loops, childPid, open>>
childVars == <<proc, status, signalled, heirs, pipe, stdin, written>>
clientVars == <<client, awaiting, interrupted, result, runs, cancels, terminated>>
vars == <<pc, threadVars, flagVars, childVars, clientVars, aborted>>

Killed == 143
Spawn == [out |-> "spawn_out", err |-> "spawn_err"]
JoinTest == [out |-> "test_out", err |-> "test_err"]
Join == [out |-> "join_out", err |-> "join_err"]
MainStates == {"idle", "run", "flags", "spawn_out", "spawn_err", "watch", "prompt",
               "send", "wait", "waitpid", "clear", "report"}
CommonStates == {"terminate", "close", "test", "kill", "reap",
                 "test_out", "join_out", "test_err", "join_err"}

Init ==
    /\ client \in Clients
    /\ pc = [a \in Actors |-> IF a = "main" THEN "idle" ELSE "off"]
    /\ reader = [s \in Streams |-> "none"]
    /\ joinable = [s \in Streams |-> FALSE]
    /\ running = FALSE /\ lastExit = -1 /\ loops = 0 /\ childPid = 0 /\ open = FALSE
    /\ proc = "none" /\ status = 0 /\ signalled = FALSE /\ heirs = FALSE
    /\ pipe = [s \in Streams |-> <<>>] /\ stdin = 0
    /\ awaiting = FALSE /\ interrupted = FALSE /\ result = -1
    /\ runs = 0 /\ cancels = 0 /\ terminated = FALSE
    /\ written = [s \in Streams |-> 0] /\ delivered = [s \in Streams |-> 0]
    /\ aborted = FALSE

Goto(a, l) == pc' = [pc EXCEPT ![a] = l]
At(a, l) == ~aborted /\ pc[a] = l

-----------------------------------------------------------------------------
(* Run.                                                                    *)

\* A command reaches the client.
Begin ==
    /\ At("main", "idle") /\ runs < MaxRuns
    /\ Goto("main", "run")
    /\ runs' = runs + 1
    /\ terminated' = (pc["cancel"] # "off")
    /\ UNCHANGED <<threadVars, flagVars, childVars, client, awaiting, interrupted, result,
                   cancels, aborted>>

\* The bridge is busy, or the pipes or the process cannot be made.
RunRefused ==
    /\ At("main", "run")
    /\ Goto("main", "idle")
    /\ UNCHANGED <<threadVars, flagVars, childVars, clientVars, aborted>>

Fork ==
    /\ At("main", "run") /\ ~running
    /\ Goto("main", "flags")
    /\ childPid' = runs /\ open' = TRUE
    /\ proc' = "running" /\ signalled' = FALSE /\ heirs' \in BOOLEAN
    /\ pipe' = [s \in Streams |-> <<>>] /\ stdin' = 0
    /\ written' = [s \in Streams |-> 0] /\ delivered' = [s \in Streams |-> 0]
    /\ UNCHANGED <<reader, joinable, running, lastExit, loops, status, clientVars, aborted>>

RunFlags ==
    /\ At("main", "flags")
    /\ Goto("main", Spawn["out"])
    /\ lastExit' = -1 /\ loops' = 2 /\ running' = TRUE
    /\ UNCHANGED <<threadVars, childPid, open, childVars, clientVars, aborted>>

AfterSpawn(s) ==
    IF s = "out" THEN Spawn["err"]
    ELSE [sandbox |-> "watch", executor |-> "wait", python |-> "idle"][client]

\* Assigning to a std::thread that is joinable ends the program.
SpawnReader(s) ==
    /\ At("main", Spawn[s])
    /\ IF joinable[s]
       THEN aborted' = TRUE /\ UNCHANGED <<pc, reader, joinable>>
       ELSE /\ Goto("main", AfterSpawn(s))
            /\ reader' = [reader EXCEPT ![s] = "check"]
            /\ joinable' = [joinable EXCEPT ![s] = TRUE]
            /\ UNCHANGED aborted
    /\ UNCHANGED <<delivered, flagVars, childVars, clientVars>>

-----------------------------------------------------------------------------
(* ReadOutputLoop and ReadErrorLoop.                                       *)

AtReader(s, l) == ~aborted /\ reader[s] = l

ReaderCheck(s) ==
    /\ AtReader(s, "check")
    /\ reader' = [reader EXCEPT ![s] = IF running /\ open THEN "read" ELSE "end"]
    /\ UNCHANGED <<pc, joinable, delivered, flagVars, childVars, clientVars, aborted>>

\* Mutant: only the output callback looks for prompts.
ReaderGetsOutPrompts(s) ==
    /\ AtReader(s, "read")
    /\ \E n \in 1 .. Len(pipe[s]) :
          /\ pipe' = [pipe EXCEPT ![s] = SubSeq(@, n + 1, Len(@))]
          /\ delivered' = [delivered EXCEPT ![s] = @ + n]
          /\ awaiting' = (awaiting \/ (s = "out" /\ pipe[s][n] = "prompt"))
    /\ reader' = [reader EXCEPT ![s] = "check"]
    /\ UNCHANGED <<pc, joinable, flagVars, proc, status, signalled, heirs, stdin, written,
                   client, interrupted, result, runs, cancels, terminated, aborted>>

\* read() returns what the pipe holds, or a part of it, and the callback runs.
ReaderGets(s) ==
    /\ AtReader(s, "read")
    /\ \E n \in 1 .. Len(pipe[s]) :
          /\ pipe' = [pipe EXCEPT ![s] = SubSeq(@, n + 1, Len(@))]
          /\ delivered' = [delivered EXCEPT ![s] = @ + n]
          /\ awaiting' = (awaiting \/ (client = "sandbox" /\ pipe[s][n] = "prompt"))
    /\ reader' = [reader EXCEPT ![s] = "check"]
    /\ UNCHANGED <<pc, joinable, flagVars, proc, status, signalled, heirs, stdin, written,
                   client, interrupted, result, runs, cancels, terminated, aborted>>

NoWriter == proc \in {"none", "zombie", "reaped"} /\ ~heirs

\* End of file, or the descriptor was closed before read() entered the kernel.
ReaderStops(s) ==
    /\ AtReader(s, "read")
    /\ (pipe[s] = <<>> /\ NoWriter) \/ ~open
    /\ reader' = [reader EXCEPT ![s] = "end"]
    /\ UNCHANGED <<pc, joinable, delivered, flagVars, childVars, clientVars, aborted>>

\* Mutant: the first reader to end clears m_running.
ReaderEndsFirst(s) ==
    /\ AtReader(s, "end")
    /\ reader' = [reader EXCEPT ![s] = "ended"]
    /\ loops' = loops - 1 /\ running' = FALSE
    /\ UNCHANGED <<pc, joinable, delivered, lastExit, childPid, open, childVars, clientVars,
                   aborted>>

\* Mutant: fetch_sub's result is taken for the new value.
ReaderEndsOffByOne(s) ==
    /\ AtReader(s, "end")
    /\ reader' = [reader EXCEPT ![s] = "ended"]
    /\ loops' = loops - 1 /\ running' = (running /\ loops # 0)
    /\ UNCHANGED <<pc, joinable, delivered, lastExit, childPid, open, childVars, clientVars,
                   aborted>>

ReaderEnds(s) ==
    /\ AtReader(s, "end")
    /\ reader' = [reader EXCEPT ![s] = "ended"]
    /\ loops' = loops - 1
    /\ running' = (running /\ loops # 1)
    /\ UNCHANGED <<pc, joinable, delivered, lastExit, childPid, open, childVars, clientVars,
                   aborted>>

-----------------------------------------------------------------------------
(* JoinIoThreads, first the output thread, then the error thread.          *)

AfterJoin(a, s) ==
    IF s = "out" THEN JoinTest["err"]
    ELSE IF a = "cancel" THEN "off" ELSE IF interrupted THEN "wait" ELSE "report"

\* WaitForExit loads its return value after the joins.
Leave(a, l) ==
    /\ Goto(a, l)
    /\ result' = IF l = "report" THEN lastExit ELSE result

\* Mutant: threads are joined only while m_running is set.
JoinableTestRunning(a, s) ==
    /\ At(a, JoinTest[s])
    /\ Leave(a, IF joinable[s] /\ running THEN Join[s] ELSE AfterJoin(a, s))
    /\ UNCHANGED <<threadVars, flagVars, childVars, client, awaiting, interrupted, runs,
                   cancels, terminated, aborted>>

JoinableTest(a, s) ==
    /\ At(a, JoinTest[s])
    /\ Leave(a, IF joinable[s] THEN Join[s] ELSE AfterJoin(a, s))
    /\ UNCHANGED <<threadVars, flagVars, childVars, client, awaiting, interrupted, runs,
                   cancels, terminated, aborted>>

JoinThread(a, s) ==
    /\ At(a, Join[s]) /\ reader[s] \in {"ended", "joined"}
    /\ Leave(a, AfterJoin(a, s))
    /\ reader' = [reader EXCEPT ![s] = "joined"]
    /\ joinable' = [joinable EXCEPT ![s] = FALSE]
    /\ aborted' \in IF joinable[s] THEN {FALSE} ELSE BOOLEAN
    /\ UNCHANGED <<delivered, flagVars, childVars, client, awaiting, interrupted, runs,
                   cancels, terminated>>

-----------------------------------------------------------------------------
(* TerminateImpl.                                                          *)

TerminateFlag(a) ==
    /\ At(a, "terminate")
    /\ Goto(a, "close")
    /\ running' = FALSE
    /\ UNCHANGED <<threadVars, lastExit, loops, childPid, open, childVars, clientVars, aborted>>

TerminateClose(a) ==
    /\ At(a, "close")
    /\ Goto(a, "test")
    /\ open' = FALSE
    /\ UNCHANGED <<threadVars, running, lastExit, loops, childPid, childVars, clientVars,
                   aborted>>

TerminateTest(a) ==
    /\ At(a, "test")
    /\ Goto(a, IF childPid > 0 THEN "kill" ELSE JoinTest["out"])
    /\ UNCHANGED <<threadVars, flagVars, childVars, clientVars, aborted>>

\* What a signal to any other process does is outside the model.
TerminateKill(a) ==
    /\ At(a, "kill")
    /\ Goto(a, "reap")
    /\ signalled' = (signalled \/ proc \in {"running", "asking"})
    /\ UNCHANGED <<threadVars, flagVars, proc, status, heirs, pipe, stdin, written, clientVars,
                   aborted>>

\* waitpid fails when the child is reaped already, or when childPid is -1 by now.
TerminateReap(a) ==
    /\ At(a, "reap")
    /\ childPid > 0 => proc \in {"zombie", "reaped"}
    /\ Goto(a, JoinTest["out"])
    /\ proc' = IF childPid > 0 THEN "reaped" ELSE proc
    /\ lastExit' = 0 /\ childPid' = 0
    /\ UNCHANGED <<threadVars, running, loops, open, status, signalled, heirs, pipe, stdin,
                   written, clientVars, aborted>>

Terminate(a) ==
    \/ TerminateFlag(a) \/ TerminateClose(a) \/ TerminateTest(a)
    \/ TerminateKill(a) \/ TerminateReap(a)

\* The cancel handler found an execution in progress and calls the executor.
Cancel ==
    /\ At("cancel", "off") /\ client # "sandbox"
    /\ pc["main"] # "idle" /\ cancels < MaxCancels
    /\ Goto("cancel", "terminate")
    /\ cancels' = cancels + 1 /\ terminated' = TRUE
    /\ UNCHANGED <<threadVars, flagVars, childVars, client, awaiting, interrupted, result,
                   runs, aborted>>

-----------------------------------------------------------------------------
(* WaitForExit.                                                            *)

\* Mutant: WaitForExit tests m_running for the child.
WaitTestRunning ==
    /\ At("main", "wait")
    /\ Leave("main", IF running THEN "waitpid" ELSE "report")
    /\ UNCHANGED <<threadVars, flagVars, childVars, client, awaiting, interrupted, runs,
                   cancels, terminated, aborted>>

WaitTest ==
    /\ At("main", "wait")
    /\ Leave("main", IF childPid > 0 THEN "waitpid" ELSE "report")
    /\ UNCHANGED <<threadVars, flagVars, childVars, client, awaiting, interrupted, runs,
                   cancels, terminated, aborted>>

WaitPid ==
    /\ At("main", "waitpid")
    /\ childPid > 0 => proc \in {"zombie", "reaped"}
    /\ Goto("main", "clear")
    /\ lastExit' = IF childPid > 0 /\ proc = "zombie" THEN status ELSE -1
    /\ proc' = IF childPid > 0 THEN "reaped" ELSE proc
    /\ UNCHANGED <<threadVars, running, loops, childPid, open, status, signalled, heirs, pipe,
                   stdin, written, clientVars, aborted>>

WaitClear ==
    /\ At("main", "clear")
    /\ Goto("main", JoinTest["out"])
    /\ running' = FALSE /\ childPid' = 0
    /\ UNCHANGED <<threadVars, lastExit, loops, open, childVars, clientVars, aborted>>

\* The caller shows the outcome; its locals and the history of the run are gone.
Report ==
    /\ At("main", "report")
    /\ Goto("main", "idle")
    /\ result' = -1 /\ status' = 0 /\ awaiting' = FALSE /\ interrupted' = FALSE
    /\ written' = [s \in Streams |-> 0] /\ delivered' = [s \in Streams |-> 0]
    /\ UNCHANGED <<reader, joinable, flagVars, proc, signalled, heirs, pipe, stdin, client, runs,
                   cancels, terminated, aborted>>

-----------------------------------------------------------------------------
(* The sandbox's loop.                                                     *)

Watch ==
    /\ At("main", "watch")
    /\ ~running \/ awaiting
    /\ IF running
       THEN Goto("main", "prompt") /\ awaiting' = FALSE
       ELSE Goto("main", "wait") /\ UNCHANGED awaiting
    /\ UNCHANGED <<threadVars, flagVars, childVars, client, interrupted, result, runs, cancels,
                   terminated, aborted>>

\* The user answers, or types /stop or leaves.
Answer ==
    /\ At("main", "prompt")
    /\ \E stop \in BOOLEAN :
          /\ Goto("main", IF stop THEN "terminate" ELSE "send")
          /\ interrupted' = stop /\ terminated' = (terminated \/ stop)
    /\ UNCHANGED <<threadVars, flagVars, childVars, client, awaiting, result, runs, cancels,
                   aborted>>

\* Writing to a pipe nobody can read raises SIGPIPE, which the engine does not handle.
SendInput ==
    /\ At("main", "send")
    /\ Goto("main", "watch")
    /\ stdin' = IF running /\ open THEN stdin + 1 ELSE stdin
    /\ aborted' = (running /\ open /\ NoWriter)
    /\ UNCHANGED <<threadVars, flagVars, proc, status, signalled, heirs, pipe, written,
                   clientVars>>

-----------------------------------------------------------------------------
(* The child and the processes it leaves behind.                           *)

Writes(s, chunk) ==
    /\ written["out"] + written["err"] < MaxChunks[client]
    /\ pipe' = [pipe EXCEPT ![s] = Append(@, chunk)]
    /\ written' = [written EXCEPT ![s] = @ + 1]

\* A prompt is a chunk IsLikelyInputPrompt recognises; it need not ask for anything.
ChildWrites(s) ==
    /\ ~aborted
    /\ \/ /\ proc = "running"
          /\ \E chunk \in IF client = "sandbox" THEN {"text", "prompt"} ELSE {"text"} :
                Writes(s, chunk)
          /\ UNCHANGED proc
       \/ /\ proc = "running"
          /\ Writes(s, "prompt")
          /\ proc' = "asking"
       \/ /\ heirs /\ Writes(s, "text")
          /\ UNCHANGED proc
    /\ UNCHANGED <<pc, threadVars, flagVars, status, signalled, heirs, stdin, clientVars, aborted>>

ChildReads ==
    /\ ~aborted /\ proc = "asking" /\ stdin > 0
    /\ proc' = "running" /\ stdin' = stdin - 1
    /\ UNCHANGED <<pc, threadVars, flagVars, status, signalled, heirs, pipe, written,
                   clientVars, aborted>>

ChildExits ==
    /\ ~aborted
    /\ \/ proc = "running" /\ status' \in {0, 1}
       \/ proc \in {"running", "asking"} /\ signalled /\ status' = Killed
    /\ proc' = "zombie"
    /\ UNCHANGED <<pc, threadVars, flagVars, signalled, heirs, pipe, stdin, written, clientVars,
                   aborted>>

HeirsExit ==
    /\ ~aborted /\ heirs
    /\ heirs' = FALSE
    /\ UNCHANGED <<pc, threadVars, flagVars, proc, status, signalled, pipe, stdin, written,
                   clientVars, aborted>>

-----------------------------------------------------------------------------
Actor(a) == Terminate(a) \/ \E s \in Streams : JoinableTest(a, s) \/ JoinThread(a, s)
RunSteps == Fork \/ RunFlags \/ \E s \in Streams : SpawnReader(s)
WaitForExit == WaitTest \/ WaitPid \/ WaitClear \/ Report
Sandbox == Watch \/ Answer \/ SendInput
Reader(s) == ReaderCheck(s) \/ ReaderGets(s) \/ ReaderStops(s) \/ ReaderEnds(s)
Child == (\E s \in Streams : ChildWrites(s)) \/ ChildReads \/ ChildExits \/ HeirsExit

Next ==
    \/ Begin \/ RunRefused \/ RunSteps \/ WaitForExit \/ Sandbox \/ Cancel
    \/ \E a \in Actors : Actor(a)
    \/ \E s \in Streams : Reader(s)
    \/ Child

Spec == Init /\ [][Next]_vars

(* The threads are scheduled, programs end, and the user answers a prompt. *)
FairSpec ==
    /\ Spec
    /\ WF_vars(RunSteps) /\ WF_vars(WaitForExit) /\ WF_vars(Sandbox)
    /\ \A a \in Actors : WF_vars(Actor(a))
    /\ \A s \in Streams : WF_vars(Reader(s))
    /\ WF_vars(ChildReads) /\ WF_vars(ChildExits) /\ WF_vars(HeirsExit)

-----------------------------------------------------------------------------
(* Properties.                                                             *)

\* Every variable keeps the type its declaration gives it.
TypeOK ==
    /\ client \in Clients
    /\ DOMAIN pc = Actors /\ pc["main"] \in MainStates \cup CommonStates
    /\ pc["cancel"] \in {"off"} \cup CommonStates
    /\ reader \in [Streams -> {"none", "check", "read", "end", "ended", "joined"}]
    /\ joinable \in [Streams -> BOOLEAN]
    /\ running \in BOOLEAN /\ open \in BOOLEAN /\ signalled \in BOOLEAN /\ heirs \in BOOLEAN
    /\ awaiting \in BOOLEAN /\ interrupted \in BOOLEAN
    /\ terminated \in BOOLEAN /\ aborted \in BOOLEAN
    /\ lastExit \in Int /\ result \in Int /\ loops \in Int /\ status \in {0, 1, Killed}
    /\ childPid \in Nat /\ runs \in Nat /\ stdin \in Nat /\ cancels \in Nat
    /\ proc \in {"none", "running", "asking", "zombie", "reaped"}
    /\ pipe \in [Streams -> Seq({"text", "prompt"})]
    /\ written \in [Streams -> Nat] /\ delivered \in [Streams -> Nat]

Reporting == ~aborted /\ pc["main"] = "report"

\* When the sandbox stores the captured output of a run the user did not interrupt,
\* every chunk the program and its heirs wrote has been captured: m_running falls only
\* when both readers saw the end of their stream, and WaitForExit joins them.
SandboxCapturesAll ==
    Reporting /\ client = "sandbox" /\ ~interrupted =>
        \A s \in Streams : delivered[s] = written[s] /\ pipe[s] = <<>>

\* A run no Terminate overlaps reports the exit code of its own process, not that of an
\* earlier run or of a failed waitpid.
ExitCodeIsOwn == Reporting /\ ~terminated => proc = "reaped" /\ result = status

\* A new reader never takes the place of a thread nobody joined.
RunStartsAfresh == \A s \in Streams : pc["main"] = Spawn[s] => ~joinable[s]

\* Two threads never join the same thread, and SIGTERM only goes to a child that has
\* not been reaped.
ThreadSafe ==
    /\ RunStartsAfresh
    /\ \A s \in Streams : ~(pc["main"] = Join[s] /\ pc["cancel"] = Join[s])
    /\ \A a \in Actors : pc[a] = "kill" => childPid > 0 /\ proc # "reaped"

\* As long as the client waits and no run is cancelled from the other thread, the bridge
\* is used safely, over any number of runs, refused runs and interrupted runs.
ThreadSafeUncancelled == cancels = 0 /\ client # "python" => ThreadSafe

\* A run returns to the prompt, unless its program waits for input.
RunReturns == (pc["main"] # "idle") ~> (pc["main"] = "idle" \/ aborted \/ proc = "asking")

\* A program asks with a prompt that nothing written behind it can hide.
Asks == proc = "asking" /\ ~heirs /\ \E s \in Streams : pipe[s] # <<>> /\ Last(pipe[s]) = "prompt"

\* A program that asks in the sandbox gets a line or is ended: the flag a reader sets and
\* the loop takes back loses no prompt.
PromptGetsAnswer == (client = "sandbox" /\ Asks) ~> (proc # "asking" \/ aborted)
=============================================================================
