----------------------------- MODULE ReplSession -----------------------------
(***************************************************************************)
(* The engine's interactive session: the REPL loop of main.cpp, the        *)
(* BridgeTerminal it reads from, the bridge's read thread that feeds the   *)
(* terminal and cancels executions, and the part of the Go TUI that        *)
(* decides what a key press sends.                                         *)
(*                                                                         *)
(* Threads.  Thread 0 is the engine's main thread.  Thread g > 0 is the    *)
(* reader of the g-th sidecar launched by the language executor: it runs   *)
(* HandleInputRequest, which calls ITerminal::ReadLine.  The bridge's read *)
(* thread delivers the TUI's messages and runs the cancel handler itself.  *)
(*                                                                         *)
(* A sidecar is reduced to what the session sees of it: a script runs, may *)
(* ask for input, ends, or is given up by the watchdog (the detail is in   *)
(* SidecarProcessBridge).  The language context outlives the session.      *)
(*                                                                         *)
(* Condition variable.  All waiters share m_cv and every push notifies     *)
(* one.  Finding the predicate false and going to sleep are two steps with *)
(* m_mutex held, so that a notify issued without the mutex can fall in     *)
(* between.  Spurious wake-ups are left out.                               *)
(***************************************************************************)
EXTENDS Naturals, Sequences, FiniteSets

CONSTANTS
    Kinds,          \* the kinds of line the user types, a subset of AllKinds
    Faults,         \* a subset of {"cancel", "timeout", "disconnect"}
    MaxMessages,    \* bound on the messages the TUI sends
    MaxLaunch,      \* bound on the sidecars launched
    MaxBacklog      \* bound on the events not shown yet when a script asks

AllKinds == {"plain", "ask", "menu", "script", "exit", "request", "run_script"}
Main == 0
Readers == 1 .. MaxLaunch
Threads == 0 .. MaxLaunch

ASSUME KindsAssumption == Kinds \subseteq AllKinds
ASSUME BoundsAssumption == MaxMessages \in Nat /\ MaxLaunch \in Nat /\ MaxBacklog \in Nat

VARIABLES
    tui,            \* [prompt, menu, inFlight]: what AppModel shows
    sent,           \* number of messages the TUI has sent
    wire,           \* messages on their way to the read thread
    out,            \* messages on their way to the TUI
    commands,       \* m_commandQueue
    inputs,         \* length of m_inputQueue
    depth,          \* m_readDepth
    shutdown,       \* m_shutdown
    at,             \* at[t]: where thread t is in a wait on m_cv
    on,             \* on[t]: what it waits for: "commands", "inputs" or "menu"
    main,           \* program counter of RunMain's loop
    line,           \* kind of the line being executed
    exiting,        \* RuntimeState::IsExitRequested
    inProgress,     \* executionInProgress
    active,         \* activeExecutionContext: "none", "plain" or "language"
    cancelAck,      \* executionCancelAcknowledged
    receiver,       \* program counter of the bridge's read thread
    victim,         \* the sidecar the read thread is shutting down
    mutex,          \* owner of m_executeMutex
    launching,      \* main is inside Launch and holds m_stateMutex: "no", "new", "failed"
    launched,       \* number of sidecars launched
    bridge,         \* m_bridge: the current sidecar, 0 when there is none
    alive,          \* m_alive
    script,         \* script[g]: state of the script in sidecar g
    gone,           \* the TUI has closed the connection
    timedOut,       \* ghost: some script was given up by the watchdog
    acked,          \* ghost: cancellations acknowledged
    reported        \* ghost: executions reported as cancelled

tuiVars == <<tui, sent, wire, gone>>
terminalVars == <<commands, inputs, depth, shutdown, at, on>>
loopVars == <<main, line, exiting>>
cancelVars == <<inProgress, active, cancelAck, receiver, victim, acked>>
sidecarVars == <<mutex, launching, launched, bridge, alive, script, timedOut>>
vars == <<tuiVars, out, terminalVars, loopVars, cancelVars, sidecarVars, reported>>

MainStates == {"prompt", "reading", "dispatch", "run", "join", "lock", "waiting",
               "asking", "end", "report", "goodbye", "done"}
Events == {"idle", "before_input", "req_input", "req_blank", "sel_request", "context",
           "complete", "cancelled", "shutdown"}
Messages == Kinds \cup {"answer", "cancel"}

(***************************************************************************)
(* The type of every variable.  m_readDepth never underflows and never     *)
(* exceeds the number of threads, by whatever path a read ends.            *)
(***************************************************************************)
TypeOK ==
    /\ tui \in [prompt : BOOLEAN, menu : BOOLEAN, inFlight : BOOLEAN]
    /\ sent \in Nat
    /\ wire \in Seq(Messages)
    /\ out \in Seq(Events)
    /\ commands \in Seq(Kinds)
    /\ inputs \in Nat
    /\ depth \in 0 .. MaxLaunch + 1
    /\ shutdown \in BOOLEAN
    /\ at \in [Threads -> {"out", "check", "parking", "asleep"}]
    /\ on \in [Threads -> {"none", "commands", "inputs", "menu"}]
    /\ main \in MainStates
    /\ line \in Kinds \cup {"none"}
    /\ exiting \in BOOLEAN
    /\ inProgress \in BOOLEAN
    /\ active \in {"none", "plain", "language"}
    /\ cancelAck \in BOOLEAN
    /\ receiver \in {"idle", "cancelling", "locking", "joining", "acking"}
    /\ victim \in Threads
    /\ mutex \in {"free", "main", "receiver"}
    /\ launching \in {"no", "new", "failed"}
    /\ launched \in Threads
    /\ bridge \in Threads
    /\ alive \in BOOLEAN
    /\ script \in [Readers -> {"idle", "running", "done", "lost"}]
    /\ gone \in BOOLEAN
    /\ timedOut \in BOOLEAN
    /\ acked \in Nat
    /\ reported \in Nat

Init ==
    /\ tui = [prompt |-> FALSE, menu |-> FALSE, inFlight |-> FALSE]
    /\ sent = 0 /\ wire = <<>> /\ gone = FALSE
    /\ out = <<>>
    /\ commands = <<>> /\ inputs = 0 /\ depth = 0 /\ shutdown = FALSE
    /\ at = [t \in Threads |-> "out"] /\ on = [t \in Threads |-> "none"]
    /\ main = "prompt" /\ line = "none" /\ exiting = FALSE
    /\ inProgress = FALSE /\ active = "none" /\ cancelAck = FALSE
    /\ receiver = "idle" /\ victim = 0 /\ acked = 0
    /\ mutex = "free" /\ launching = "no" /\ launched = 0 /\ bridge = 0 /\ alive = FALSE
    /\ script = [g \in Readers |-> "idle"] /\ timedOut = FALSE
    /\ reported = 0

-----------------------------------------------------------------------------
(* The TUI: what AppModel sends and how it follows the engine's events.    *)

Send(msg) ==
    /\ ~gone
    /\ sent < MaxMessages
    /\ sent' = sent + 1
    /\ wire' = Append(wire, msg)
    /\ UNCHANGED gone

\* Enter: a pending prompt turns the text into an input_response, otherwise it
\* is a command (or a bridge request, which does not start the spinner).
Submit ==
    /\ ~tui.menu
    /\ IF tui.prompt
       THEN Send("answer") /\ tui' = [tui EXCEPT !.prompt = FALSE]
       ELSE \E k \in Kinds :
               /\ Send(k)
               /\ tui' = IF k \in {"request", "run_script"} THEN tui
                         ELSE [tui EXCEPT !.inFlight = TRUE]

Choose ==
    /\ tui.menu
    /\ Send("answer")
    /\ tui' = [tui EXCEPT !.menu = FALSE]

CtrlC ==
    /\ "cancel" \in Faults
    /\ tui.inFlight /\ ~tui.menu
    /\ Send("cancel")
    /\ UNCHANGED tui

Disconnect ==
    /\ "disconnect" \in Faults
    /\ ~gone
    /\ gone' = TRUE
    /\ UNCHANGED <<tui, sent, wire>>

\* The TUI tells a pending prompt by its text: a request whose prompt is blank
\* leaves none, and the next line is sent as a command.  A changed context takes
\* prompt and menu away.  It ends a batch, and so do the other events: that stops
\* the spinner.
Show ==
    /\ out # <<>>
    /\ out' = Tail(out)
    /\ tui' = CASE Head(out) = "req_input"   -> [tui EXCEPT !.prompt = TRUE, !.menu = FALSE]
                [] Head(out) = "req_blank"   -> [tui EXCEPT !.prompt = FALSE, !.menu = FALSE]
                [] Head(out) = "sel_request" -> [tui EXCEPT !.prompt = FALSE, !.menu = TRUE]
                [] Head(out) = "context"     -> [prompt |-> FALSE, menu |-> FALSE, inFlight |-> FALSE]
                [] OTHER                     -> [tui EXCEPT !.inFlight = FALSE]
    /\ UNCHANGED <<sent, wire, gone>>

engineVars == <<terminalVars, loopVars, cancelVars, sidecarVars, reported>>

UserStep ==
    /\ Submit \/ Choose \/ CtrlC \/ Disconnect
    /\ UNCHANGED <<out, engineVars>>

TuiStep == Show /\ UNCHANGED engineVars

-----------------------------------------------------------------------------
(* BridgeTerminal.                                                         *)

MutexFree == \A t \in Threads : at[t] # "parking"
Queue(t) == IF on[t] = "commands" THEN Len(commands) ELSE inputs
Wakes(t) == Queue(t) > 0 \/ shutdown

\* A prompt of the engine has a text, one of a script may be blank.
Requests(t) == IF t = Main THEN {"req_input"} ELSE {"req_input", "req_blank"}

\* ReadLine up to the wait: the depth decides which queue the caller gets.
EnterReadLine(t) ==
    /\ depth' = depth + 1
    /\ at' = [at EXCEPT ![t] = "check"]
    /\ on' = [on EXCEPT ![t] = IF depth > 0 THEN "inputs" ELSE "commands"]
    /\ IF depth > 0
       THEN \E request \in Requests(t) : out' = out \o <<"before_input", request>>
       ELSE out' = Append(out, "idle")
    /\ UNCHANGED <<commands, inputs, shutdown>>

\* Variant: the menu is not announced.
EnterMenuSilently(t) ==
    /\ at' = [at EXCEPT ![t] = "check"]
    /\ on' = [on EXCEPT ![t] = "menu"]
    /\ UNCHANGED <<out, commands, inputs, depth, shutdown>>

\* SelectMenu up to the wait: it always takes from the input queue.
EnterSelectMenu(t) ==
    /\ at' = [at EXCEPT ![t] = "check"]
    /\ on' = [on EXCEPT ![t] = "menu"]
    /\ out' = out \o <<"before_input", "sel_request">>
    /\ UNCHANGED <<commands, inputs, depth, shutdown>>

\* The wait's predicate is true: the depth drops and the head is popped,
\* unless the terminal is shutting down.
Leave(t) ==
    /\ at[t] = "check" /\ MutexFree /\ Wakes(t)
    /\ at' = [at EXCEPT ![t] = "out"]
    /\ on' = [on EXCEPT ![t] = "none"]
    /\ depth' = IF on[t] = "menu" THEN depth ELSE depth - 1
    /\ commands' = IF on[t] = "commands" /\ ~shutdown THEN Tail(commands) ELSE commands
    /\ inputs' = IF on[t] # "commands" /\ ~shutdown THEN inputs - 1 ELSE inputs
    /\ UNCHANGED shutdown

Park(t) ==
    /\ at[t] = "check" /\ MutexFree /\ ~Wakes(t)
    /\ at' = [at EXCEPT ![t] = "parking"]
    /\ UNCHANGED <<commands, inputs, depth, shutdown, on>>

Sleep(t) ==
    /\ at[t] = "parking"
    /\ at' = [at EXCEPT ![t] = "asleep"]
    /\ UNCHANGED <<commands, inputs, depth, shutdown, on>>

WaitStep(t) ==
    /\ Park(t) \/ Sleep(t)
    /\ UNCHANGED <<tuiVars, out, loopVars, cancelVars, sidecarVars, reported>>

\* m_cv.notify_one
NotifyOne ==
    IF \E t \in Threads : at[t] = "asleep"
    THEN \E t \in Threads : at[t] = "asleep" /\ at' = [at EXCEPT ![t] = "check"]
    ELSE UNCHANGED at

\* EnqueueCommand and EnqueueInputResponse
Enqueue(msg) ==
    /\ MutexFree
    /\ NotifyOne
    /\ IF msg = "answer"
       THEN inputs' = inputs + 1 /\ UNCHANGED commands
       ELSE commands' = Append(commands, msg) /\ UNCHANGED inputs
    /\ UNCHANGED <<depth, shutdown, on>>

\* RequestShutdown takes no lock: it may fall between Park and Sleep.
RequestShutdown ==
    /\ gone /\ ~shutdown
    /\ shutdown' = TRUE
    /\ at' = [t \in Threads |-> IF at[t] = "asleep" THEN "check" ELSE at[t]]
    /\ UNCHANGED <<tuiVars, out, commands, inputs, depth, on, loopVars, cancelVars,
                   sidecarVars, reported>>

-----------------------------------------------------------------------------
(* The bridge's read thread.                                               *)

\* on_message: queue a line or an answer; for a cancel, run the handler here.
Receive ==
    /\ receiver = "idle" /\ wire # <<>>
    /\ wire' = Tail(wire)
    /\ IF Head(wire) = "cancel"
       THEN /\ receiver' = IF inProgress THEN "cancelling" ELSE "idle"
            /\ UNCHANGED terminalVars
       ELSE /\ Enqueue(Head(wire))
            /\ UNCHANGED receiver
    /\ UNCHANGED <<tui, sent, gone, victim, sidecarVars, cancelAck, acked>>

\* Only the language contexts override RequestCancel.
RequestCancel ==
    /\ receiver = "cancelling"
    /\ receiver' = IF active = "language" THEN "locking" ELSE "idle"
    /\ UNCHANGED <<tuiVars, terminalVars, victim, sidecarVars, cancelAck, acked>>

\* ZeriWireSidecarBridge::Shutdown waits for m_executeMutex and m_stateMutex.
TakeSidecar ==
    /\ receiver = "locking" /\ mutex = "free" /\ launching = "no"
    /\ mutex' = "receiver"
    /\ victim' = bridge /\ bridge' = 0 /\ alive' = FALSE
    /\ receiver' = "joining"
    /\ UNCHANGED <<tuiVars, terminalVars, launching, launched, script, timedOut, cancelAck, acked>>

\* A reader ends once it is not inside ReadLine.
Joinable(g) == g = 0 \/ at[g] = "out"

\* Variant: m_executeMutex is not released after the join.
JoinKeepingMutex ==
    /\ receiver = "joining" /\ Joinable(victim)
    /\ victim' = 0
    /\ receiver' = "acking"
    /\ UNCHANGED <<tuiVars, terminalVars, mutex, launching, launched, bridge, alive, script,
                   timedOut, cancelAck, acked>>

JoinVictim ==
    /\ receiver = "joining" /\ Joinable(victim)
    /\ victim' = 0
    /\ mutex' = "free"
    /\ receiver' = "acking"
    /\ UNCHANGED <<tuiVars, terminalVars, launching, launched, bridge, alive, script, timedOut,
                   cancelAck, acked>>

Acknowledge ==
    /\ receiver = "acking"
    /\ cancelAck' = TRUE
    /\ acked' = acked + 1
    /\ receiver' = "idle"
    /\ UNCHANGED <<tuiVars, terminalVars, victim, sidecarVars>>

ReceiverStep ==
    /\ Receive \/ RequestCancel \/ TakeSidecar \/ JoinVictim \/ Acknowledge
    /\ UNCHANGED <<out, loopVars, inProgress, active, reported>>

-----------------------------------------------------------------------------
(* Sidecars.                                                               *)

\* HandleInputRequest, on the sidecar's reader thread.
Ask(g) ==
    /\ script[g] = "running" /\ at[g] = "out"
    /\ Len(out) <= MaxBacklog
    /\ EnterReadLine(g)
    /\ UNCHANGED sidecarVars

Answered(g) ==
    /\ Leave(g)
    /\ UNCHANGED <<out, sidecarVars>>

Finish(g) ==
    /\ script[g] = "running" /\ at[g] = "out"
    /\ script' = [script EXCEPT ![g] = "done"]
    /\ UNCHANGED <<out, terminalVars, mutex, launching, launched, bridge, alive, timedOut>>

\* The watchdog reports SIDECAR_TIMEOUT, whatever the reader is doing.
GiveUp(g) ==
    /\ "timeout" \in Faults
    /\ script[g] = "running"
    /\ script' = [script EXCEPT ![g] = "lost"]
    /\ timedOut' = TRUE
    /\ UNCHANGED <<out, terminalVars, mutex, launching, launched, bridge, alive>>

ScriptStep(g) ==
    /\ Answered(g) \/ Finish(g)
    /\ UNCHANGED <<tuiVars, loopVars, cancelVars, reported>>

\* What a script or the clock may do, and need not.
ScriptChoice(g) ==
    /\ Ask(g) \/ GiveUp(g)
    /\ UNCHANGED <<tuiVars, loopVars, cancelVars, reported>>

-----------------------------------------------------------------------------
(* The main thread.                                                        *)

\* Texts that are not bridge requests, as an input_response may be.
Typed == Kinds \ {"request", "run_script"}

Prompt ==
    /\ main = "prompt"
    /\ IF exiting
       THEN main' = "goodbye" /\ UNCHANGED <<out, terminalVars>>
       ELSE main' = "reading" /\ EnterReadLine(Main)
    /\ UNCHANGED <<line, exiting, cancelVars, sidecarVars, reported>>

\* The outer ReadLine returns: no value ends the loop.
TakeLine ==
    /\ main = "reading"
    /\ Leave(Main)
    /\ IF shutdown
       THEN main' = "goodbye" /\ line' = "none"
       ELSE /\ main' = "dispatch"
            /\ line' \in IF on[Main] = "commands" THEN {Head(commands)} ELSE Typed
    /\ UNCHANGED <<out, exiting, cancelVars, sidecarVars, reported>>

\* HandleBridgeRequest serves a request, or runs the script it names, without
\* telling the cancel handler, and $code and $customcommand are switched to here;
\* everything else is announced first, with whatever context is the current one.
\* That no blank line is ever skipped is the TUI's doing: it sends none.
Dispatch ==
    /\ main = "dispatch"
    /\ \/ /\ line = "request"
          /\ main' = "prompt" /\ out' = Append(out, "complete")
          /\ UNCHANGED <<inProgress, active>>
       \/ /\ line = "run_script"
          /\ main' = "run" /\ UNCHANGED <<out, inProgress, active>>
       \/ /\ line = "plain"
          /\ main' = "prompt"
          /\ out' \in {Append(out, "complete"), out \o <<"context", "complete">>}
          /\ UNCHANGED <<inProgress, active>>
       \/ /\ line \notin {"request", "run_script"}
          /\ main' = "run" /\ inProgress' = TRUE
          /\ active' \in {"plain", "language"}
          /\ UNCHANGED out
    /\ UNCHANGED <<line, exiting, terminalVars, cancelAck, receiver, victim, acked,
                   sidecarVars, reported>>

\* A plain line may switch the context, which the TUI is told at once.
RunPlain ==
    /\ main = "run" /\ line \in {"plain", "exit"}
    /\ main' = "end"
    /\ exiting' = (exiting \/ line = "exit")
    /\ \/ UNCHANGED out
       \/ line = "plain" /\ out' = Append(out, "context")
    /\ UNCHANGED <<line, terminalVars, cancelVars, sidecarVars, reported>>

\* A handler reads a line (SandboxContext) or shows a menu (/bug snapshot).
RunInteractive ==
    /\ main = "run" /\ line \in {"ask", "menu"}
    /\ main' = "asking"
    /\ IF line = "ask" THEN EnterReadLine(Main) ELSE EnterSelectMenu(Main)
    /\ UNCHANGED <<line, exiting, cancelVars, sidecarVars, reported>>

TakeAnswer ==
    /\ main = "asking"
    /\ Leave(Main)
    /\ main' = "end"
    /\ UNCHANGED <<line, exiting, out, cancelVars, sidecarVars, reported>>

\* The executor reuses a live sidecar, or launches one; at the bound the launch
\* fails and the executor falls back to a one-shot process.
RunScript ==
    /\ main = "run" /\ line \in {"script", "run_script"}
    /\ IF alive
       THEN main' = "lock" /\ UNCHANGED <<launching, launched>>
       ELSE /\ main' = "join"
            /\ IF launched < MaxLaunch
               THEN launching' = "new" /\ launched' = launched + 1
               ELSE launching' = "failed" /\ UNCHANGED launched
    /\ UNCHANGED <<line, exiting, out, terminalVars, cancelVars, mutex, bridge, alive, script,
                   timedOut, reported>>

\* Launch replaces m_bridge; destroying the old one joins its reader.
JoinOld ==
    /\ main = "join" /\ Joinable(bridge)
    /\ launching' = "no"
    /\ IF launching = "new"
       THEN bridge' = launched /\ alive' = TRUE /\ main' = "lock"
       ELSE bridge' = 0 /\ alive' = FALSE /\ main' = "end"
    /\ UNCHANGED <<line, exiting, out, terminalVars, cancelVars, mutex, launched, script,
                   timedOut, reported>>

Execute ==
    /\ main = "lock" /\ mutex = "free"
    /\ IF alive
       THEN /\ mutex' = "main" /\ main' = "waiting"
            /\ script' = [script EXCEPT ![bridge] = "running"]
       ELSE main' = "end" /\ UNCHANGED <<mutex, script>>
    /\ UNCHANGED <<line, exiting, out, terminalVars, cancelVars, launching, launched, bridge,
                   alive, timedOut, reported>>

\* Variant: the wait for the result has no predicate.
ReturnUnsignalled ==
    /\ main = "waiting"
    /\ mutex' = "free" /\ main' = "end"
    /\ alive' = (script[bridge] # "lost")
    /\ UNCHANGED <<line, exiting, out, terminalVars, cancelVars, launching, launched, bridge,
                   script, timedOut, reported>>

ExecuteReturns ==
    /\ main = "waiting" /\ script[bridge] \in {"done", "lost"}
    /\ mutex' = "free" /\ main' = "end"
    /\ alive' = (script[bridge] # "lost")
    /\ UNCHANGED <<line, exiting, out, terminalVars, cancelVars, launching, launched, bridge,
                   script, timedOut, reported>>

End ==
    /\ main = "end"
    /\ inProgress' = FALSE /\ active' = "none"
    /\ main' = "report"
    /\ UNCHANGED <<line, exiting, out, terminalVars, cancelAck, receiver, victim, acked,
                   sidecarVars, reported>>

\* Variant: the acknowledgement is read and not reset.
ReportAgain ==
    /\ main = "report"
    /\ main' = "prompt"
    /\ IF cancelAck /\ line # "run_script"
       THEN /\ out' = Append(out, "cancelled")
            /\ reported' = reported + 1
       ELSE /\ out' = Append(out, "complete")
            /\ UNCHANGED reported
    /\ UNCHANGED <<line, exiting, terminalVars, inProgress, active, cancelAck, receiver, victim,
                   acked, sidecarVars>>

\* executionCancelAcknowledged.exchange(false) chooses the closing event.
Report ==
    /\ main = "report"
    /\ main' = "prompt"
    /\ IF cancelAck /\ line # "run_script"
       THEN /\ out' = Append(out, "cancelled")
            /\ cancelAck' = FALSE /\ reported' = reported + 1
       ELSE /\ out' = Append(out, "complete")
            /\ UNCHANGED <<cancelAck, reported>>
    /\ UNCHANGED <<line, exiting, terminalVars, inProgress, active, receiver, victim, acked,
                   sidecarVars>>

Goodbye ==
    /\ main = "goodbye"
    /\ main' = "done"
    /\ out' = Append(out, "shutdown")
    /\ UNCHANGED <<line, exiting, terminalVars, cancelVars, sidecarVars, reported>>

MainStep ==
    /\ \/ Prompt \/ TakeLine \/ Dispatch \/ RunPlain \/ RunInteractive \/ TakeAnswer
       \/ RunScript \/ JoinOld \/ Execute \/ ExecuteReturns \/ End \/ Report \/ Goodbye
    /\ UNCHANGED tuiVars

-----------------------------------------------------------------------------

Next ==
    \/ UserStep
    \/ TuiStep
    \/ \E t \in Threads : WaitStep(t)
    \/ RequestShutdown
    \/ ReceiverStep
    \/ \E g \in Readers : ScriptStep(g) \/ ScriptChoice(g)
    \/ MainStep

\* The engine's threads and the TUI's event loop are scheduled, scripts end,
\* and a broken connection is noticed.  The user owes nothing.
Fairness ==
    /\ WF_vars(TuiStep)
    /\ \A t \in Threads : WF_vars(WaitStep(t))
    /\ WF_vars(RequestShutdown)
    /\ WF_vars(ReceiverStep)
    /\ \A g \in Readers : WF_vars(ScriptStep(g))
    /\ WF_vars(MainStep)

Spec == Init /\ [][Next]_vars /\ Fairness

-----------------------------------------------------------------------------

Waiting(t) == at[t] # "out"

\* Until a script is given up by the watchdog, one thread at most waits on m_cv:
\* notify_one with several queues and several waiters would wake the wrong one.
OneWaiter ==
    ~timedOut => \A t, u \in Threads : Waiting(t) /\ Waiting(u) => t = u

\* An execution is reported as cancelled only for a cancellation that was
\* acknowledged and not reported yet.
CancelReportedOnce == reported + (IF cancelAck THEN 1 ELSE 0) <= acked

\* When nothing is on its way and the engine sleeps in a wait of the main thread,
\* the TUI asks for the same kind of text, and at the prompt shows no execution.
TuiAgreesAtRest ==
    (/\ at[Main] = "asleep" /\ wire = <<>> /\ out = <<>> /\ Queue(Main) = 0
     /\ ~timedOut)
    => /\ main = "reading" => ~tui.inFlight
       /\ tui.prompt = (on[Main] = "inputs")
       /\ tui.menu = (on[Main] = "menu")

\* No cancellation meets a script that waits for input, no script is given up
\* and the TUI stays connected.
Calm ==
    /\ ~timedOut /\ ~gone
    /\ receiver # "idle" => \A g \in Readers : at[g] = "out"

AwaitsUser ==
    /\ wire = <<>> /\ receiver = "idle"
    /\ main = "done" \/ \E t \in Threads : at[t] = "asleep" /\ Queue(t) = 0

\* Whatever is typed, and however executions are cancelled, the engine always
\* comes back to waiting for the user, with every message delivered.
EngineComesBack == []Calm => []<>AwaitsUser

===============================================================================
