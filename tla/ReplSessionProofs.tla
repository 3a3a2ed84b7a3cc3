------------------------- MODULE ReplSessionProofs -------------------------
(***************************************************************************)
(* Type correctness of the interactive session, that one thread at most    *)
(* waits for the user until a script is given up, that no cancellation is  *)
(* reported twice, and that a TUI at rest agrees with the engine.          *)
(*                                                                         *)
(* TypeOK bounds m_readDepth, which is not inductive: TerminalOK says that *)
(* the depth counts the threads inside ReadLine.  OneWaiter follows from   *)
(* the ownership of m_executeMutex (OwnerInv): a script runs only while    *)
(* the main thread holds the mutex in Execute, so that the main thread is  *)
(* not in a wait of its own, and only in the current sidecar.              *)
(*                                                                         *)
(* TuiAgreesAtRest compares the two sides when nothing travels; RestInv    *)
(* says where the news is while it travels: MenuInv places the one menu    *)
(* request or its answer, FlightInv the event that ends an execution, and  *)
(* PromptInv excludes the nested read, the only source of prompts.         *)
(*                                                                         *)
(* The last part is about what a line of the session may set off: the      *)
(* chains of custom commands (CustomCommands) stop at the first failure,   *)
(* run the most specific definition, and leave the table of commands to    *)
(* /define and /delete.  That table is kept in several forms; StoreInv is  *)
(* what makes every one of them readable, and Kept compares a list of      *)
(* definitions with what the user sees in the storage.                     *)
(***************************************************************************)
EXTENDS ReplSession, CustomCommands, FiniteSetTheorems, SequenceTheorems, WellFoundedInduction,
        TLAPS

Reading == {t \in Threads : on[t] \in {"commands", "inputs"}}

TerminalOK ==
    /\ commands \in Seq(Kinds)
    /\ inputs \in Nat
    /\ depth \in 0 .. MaxLaunch + 1
    /\ shutdown \in BOOLEAN
    /\ at \in [Threads -> {"out", "check", "parking", "asleep"}]
    /\ on \in [Threads -> {"none", "commands", "inputs", "menu"}]
    /\ \A t \in Threads : at[t] = "out" <=> on[t] = "none"
    /\ depth = Cardinality(Reading)

OwnerInv ==
    /\ main = "waiting" <=> mutex = "main"
    /\ receiver = "joining" <=> mutex = "receiver"
    /\ at[Main] # "out" => main \in {"reading", "asking"}
    /\ alive => bridge # 0
    /\ main = "waiting" => bridge # 0
    /\ launching = "new" => launched # 0
    /\ ~timedOut => \A g \in Readers :
          /\ script[g] = "running" => main = "waiting" /\ bridge = g
          /\ at[g] # "out" => script[g] = "running"

IInv == TypeOK /\ TerminalOK /\ OwnerInv /\ CancelReportedOnce

\* The threads are finitely many, and so the depth is bounded.
LEMMA ThreadSets ==
    ASSUME NEW S \in SUBSET Threads
    PROVE  IsFiniteSet(S) /\ Cardinality(S) \in 0 .. MaxLaunch + 1
  <1>1. MaxLaunch \in Nat
    BY BoundsAssumption
  <1>2. IsFiniteSet(Threads) /\ Cardinality(Threads) = MaxLaunch + 1
    BY <1>1, FS_Interval DEF Threads
  <1>3. IsFiniteSet(S) /\ Cardinality(S) <= Cardinality(Threads)
    BY <1>2, FS_Subset
  <1> QED BY <1>1, <1>2, <1>3, FS_CardinalityType

\* ReadLine up to the wait counts its thread once.
LEMMA EnterReadLineKeeps ==
    ASSUME TerminalOK, out \in Seq(Events), NEW t \in Threads, at[t] = "out", EnterReadLine(t)
    PROVE  /\ TerminalOK' /\ out' \in Seq(Events)
           /\ at' = [at EXCEPT ![t] = "check"]
  <1>1. /\ at' \in [Threads -> {"out", "check", "parking", "asleep"}]
        /\ on' \in [Threads -> {"none", "commands", "inputs", "menu"}]
        /\ \A u \in Threads : at'[u] = "out" <=> on'[u] = "none"
    BY DEF TerminalOK, EnterReadLine
  <1>2. Reading' = Reading \cup {t} /\ t \notin Reading
    BY DEF TerminalOK, EnterReadLine, Reading
  <1>3. IsFiniteSet(Reading) /\ Cardinality(Reading \cup {t}) \in 0 .. MaxLaunch + 1
    BY ThreadSets DEF Reading
  <1>4. depth' = Cardinality(Reading')
    <2>1. Cardinality(Reading \cup {t}) = Cardinality(Reading) + 1
      BY <1>2, <1>3, FS_AddElement
    <2> QED BY <1>2, <2>1 DEF TerminalOK, EnterReadLine
  <1>5. out' \in Seq(Events)
    <2>1. \A request \in Requests(t) : <<"before_input", request>> \in Seq(Events)
      BY DEF Events, Requests
    <2>2. "idle" \in Events
      BY DEF Events
    <2>3. CASE depth > 0
      <3>1. PICK request \in Requests(t) : out' = out \o <<"before_input", request>>
        BY <2>3 DEF EnterReadLine
      <3> QED BY <2>1, <3>1, ConcatProperties
    <2>4. CASE ~(depth > 0)
      BY <2>2, <2>4, AppendProperties DEF EnterReadLine
    <2> QED BY <2>3, <2>4
  <1> QED BY <1>1, <1>2, <1>3, <1>4, <1>5 DEF TerminalOK, EnterReadLine

\* SelectMenu up to the wait is not counted.
LEMMA EnterSelectMenuKeeps ==
    ASSUME TerminalOK, out \in Seq(Events), NEW t \in Threads, at[t] = "out", EnterSelectMenu(t)
    PROVE  /\ TerminalOK' /\ out' \in Seq(Events)
           /\ at' = [at EXCEPT ![t] = "check"]
  <1>1. /\ at' \in [Threads -> {"out", "check", "parking", "asleep"}]
        /\ on' \in [Threads -> {"none", "commands", "inputs", "menu"}]
        /\ \A u \in Threads : at'[u] = "out" <=> on'[u] = "none"
    BY DEF TerminalOK, EnterSelectMenu
  <1>2. Reading' = Reading
    BY DEF TerminalOK, EnterSelectMenu, Reading
  <1>3. out' \in Seq(Events)
    <2>1. <<"before_input", "sel_request">> \in Seq(Events)
      BY DEF Events
    <2> QED BY <2>1 DEF EnterSelectMenu
  <1> QED BY <1>1, <1>2, <1>3 DEF TerminalOK, EnterSelectMenu

\* However a wait ends, by a message or by the shutdown, the thread gives back
\* its count and takes a message only when there is one.
LEMMA LeaveKeeps ==
    ASSUME TerminalOK, NEW t \in Threads, Leave(t)
    PROVE  TerminalOK' /\ at' = [at EXCEPT ![t] = "out"]
  <1>1. /\ at' \in [Threads -> {"out", "check", "parking", "asleep"}]
        /\ on' \in [Threads -> {"none", "commands", "inputs", "menu"}]
        /\ \A u \in Threads : at'[u] = "out" <=> on'[u] = "none"
    BY DEF TerminalOK, Leave
  <1>2. on[t] \in {"commands", "inputs", "menu"}
    BY DEF TerminalOK, Leave
  <1>3. depth' = Cardinality(Reading')
    <2>1. CASE on[t] = "menu"
      <3>1. Reading' = Reading
        BY <2>1 DEF TerminalOK, Leave, Reading
      <3> QED BY <2>1, <3>1 DEF TerminalOK, Leave
    <2>2. CASE on[t] # "menu"
      <3>1. Reading' = Reading \ {t} /\ t \in Reading
        BY <1>2, <2>2 DEF TerminalOK, Leave, Reading
      <3>2. Cardinality(Reading \ {t}) = Cardinality(Reading) - 1
        BY <3>1, ThreadSets, FS_RemoveElement DEF Reading
      <3> QED BY <2>2, <3>1, <3>2 DEF TerminalOK, Leave
    <2> QED BY <2>1, <2>2
  <1>4. depth' \in 0 .. MaxLaunch + 1
    BY <1>3, ThreadSets DEF Reading
  <1>5. commands' \in Seq(Kinds)
    <2>1. CASE on[t] = "commands" /\ ~shutdown
      BY <2>1 DEF TerminalOK, Leave, Wakes, Queue
    <2>2. CASE ~(on[t] = "commands" /\ ~shutdown)
      BY <2>2 DEF TerminalOK, Leave
    <2> QED BY <2>1, <2>2
  <1>6. inputs' \in Nat
    BY <1>2 DEF TerminalOK, Leave, Wakes, Queue
  <1> QED BY <1>1, <1>3, <1>4, <1>5, <1>6 DEF TerminalOK, Leave

\* A push wakes somebody and changes nobody's wait.
LEMMA EnqueueKeeps ==
    ASSUME TerminalOK, NEW msg \in Kinds \cup {"answer"}, Enqueue(msg)
    PROVE  TerminalOK' /\ \A t \in Threads : at'[t] = "out" <=> at[t] = "out"
  <1>1. /\ at' \in [Threads -> {"out", "check", "parking", "asleep"}]
        /\ \A t \in Threads : at'[t] = "out" <=> at[t] = "out"
    BY DEF TerminalOK, Enqueue, NotifyOne
  <1>2. Reading' = Reading
    BY DEF Enqueue, Reading
  <1>3. commands' \in Seq(Kinds) /\ inputs' \in Nat
    BY DEF TerminalOK, Enqueue
  <1> QED BY <1>1, <1>2, <1>3 DEF TerminalOK, Enqueue

\* No message, no sidecar, nobody waits.
LEMMA InitInv == Init => IInv
  <1> SUFFICES ASSUME Init PROVE IInv
    OBVIOUS
  <1>1. MaxLaunch \in Nat
    BY BoundsAssumption
  <1>2. TerminalOK
    <2>1. Reading = {}
      BY DEF Init, Reading
    <2>2. depth = Cardinality(Reading)
      <3>1. Cardinality({}) = 0
        BY FS_EmptySet, Zenon
      <3>2. depth = 0
        BY DEF Init
      <3> QED BY <2>1, <3>1, <3>2
    <2>3. commands \in Seq(Kinds)
      BY DEF Init
    <2>6. shutdown \in BOOLEAN
      BY Zenon DEF Init
    <2>4. inputs \in Nat /\ depth \in 0 .. MaxLaunch + 1
      BY <1>1 DEF Init
    <2>5. /\ at \in [Threads -> {"out", "check", "parking", "asleep"}]
          /\ on \in [Threads -> {"none", "commands", "inputs", "menu"}]
          /\ \A t \in Threads : at[t] = "out" <=> on[t] = "none"
      BY DEF Init
    <2> QED BY <2>2, <2>3, <2>4, <2>5, <2>6 DEF TerminalOK
  <1>3. TypeOK
    <2>1. wire \in Seq(Messages) /\ out \in Seq(Events)
      BY DEF Init
    <2>2. tui \in [prompt : BOOLEAN, menu : BOOLEAN, inFlight : BOOLEAN]
      BY DEF Init
    <2>3. /\ victim \in Threads /\ launched \in Threads /\ bridge \in Threads
          /\ script \in [Readers -> {"idle", "running", "done", "lost"}]
      BY <1>1 DEF Init, Threads
    <2>4. sent \in Nat /\ acked \in Nat /\ reported \in Nat
      BY DEF Init
    <2>5. main \in MainStates
      BY DEF Init, MainStates
    <2>6. exiting \in BOOLEAN /\ inProgress \in BOOLEAN /\ cancelAck \in BOOLEAN
      BY Zenon DEF Init
    <2>7. alive \in BOOLEAN /\ gone \in BOOLEAN /\ timedOut \in BOOLEAN
      BY Zenon DEF Init
    <2> QED BY <1>2, <2>1, <2>2, <2>3, <2>4, <2>5, <2>6, <2>7 DEF Init, TerminalOK, TypeOK
  <1>4. OwnerInv
    BY <1>1 DEF Init, OwnerInv, Main, Threads, Readers
  <1>5. CancelReportedOnce
    BY DEF Init, CancelReportedOnce
  <1> QED BY <1>2, <1>3, <1>4, <1>5 DEF IInv

\* What the TUI sends and shows touches no part of the engine.
LEMMA TuiKeeps ==
    ASSUME IInv, UserStep \/ TuiStep
    PROVE  IInv'
  <1> DEFINE Views == [prompt : BOOLEAN, menu : BOOLEAN, inFlight : BOOLEAN]
  <1>1. UNCHANGED engineVars
    BY DEF UserStep, TuiStep
  <1>2. TerminalOK' /\ OwnerInv' /\ CancelReportedOnce'
    BY <1>1 DEF IInv, engineVars, terminalVars, loopVars, cancelVars, sidecarVars, TerminalOK, Reading,
                OwnerInv, CancelReportedOnce
  <1>3. \A v \in Views : /\ [v EXCEPT !.prompt = FALSE] \in Views
                         /\ [v EXCEPT !.menu = FALSE] \in Views
                         /\ [v EXCEPT !.inFlight = TRUE] \in Views
                         /\ [v EXCEPT !.inFlight = FALSE] \in Views
                         /\ [v EXCEPT !.prompt = TRUE, !.menu = FALSE] \in Views
                         /\ [v EXCEPT !.prompt = FALSE, !.menu = TRUE] \in Views
                         /\ [v EXCEPT !.prompt = FALSE, !.menu = FALSE] \in Views
                         /\ [prompt |-> FALSE, menu |-> FALSE, inFlight |-> FALSE] \in Views
    OBVIOUS
  <1>4. tui \in Views
    BY DEF IInv, TypeOK
  <1>5. tui' \in Views
    <2> HIDE DEF Views
    <2>1. CASE UserStep
      BY <1>3, <1>4, <2>1 DEF UserStep, Submit, Choose, CtrlC, Disconnect
    <2>2. CASE TuiStep
      BY <1>3, <1>4, <2>2 DEF TuiStep, Show
    <2> QED BY <2>1, <2>2
  <1>6. \A msg \in Messages : Send(msg) => sent' \in Nat /\ wire' \in Seq(Messages) /\ gone' \in BOOLEAN
    BY DEF IInv, TypeOK, Send
  <1>7. sent' \in Nat /\ wire' \in Seq(Messages) /\ gone' \in BOOLEAN
    <2>1. CASE \E msg \in Messages : Send(msg)
      BY <1>6, <2>1
    <2>2. CASE Disconnect
      BY <2>2 DEF IInv, TypeOK, Disconnect
    <2>3. CASE TuiStep
      BY <2>3 DEF IInv, TypeOK, TuiStep, Show
    <2> QED BY <2>1, <2>2, <2>3 DEF UserStep, Submit, Choose, CtrlC, Messages
  <1>8. out' \in Seq(Events)
    <2>1. CASE out # <<>> /\ out' = Tail(out)
      BY <2>1 DEF IInv, TypeOK
    <2>2. CASE UNCHANGED out
      BY <2>2 DEF IInv, TypeOK
    <2> QED BY <2>1, <2>2 DEF UserStep, TuiStep, Show
  <1> QED BY <1>1, <1>2, <1>5, <1>7, <1>8 DEF IInv, TypeOK, engineVars, terminalVars, loopVars,
                                              cancelVars, sidecarVars

\* Going to sleep, and the wake-up of the shutdown.
LEMMA WaitKeeps ==
    ASSUME IInv, (\E t \in Threads : WaitStep(t)) \/ RequestShutdown
    PROVE  IInv'
  <1>1. /\ at' \in [Threads -> {"out", "check", "parking", "asleep"}]
        /\ \A u \in Threads : at'[u] = "out" <=> at[u] = "out"
    BY DEF IInv, TypeOK, WaitStep, Park, Sleep, RequestShutdown
  <1>2. UNCHANGED <<commands, inputs, depth, on>> /\ shutdown' \in BOOLEAN
    BY DEF IInv, TypeOK, WaitStep, Park, Sleep, RequestShutdown
  <1>3. UNCHANGED <<tuiVars, out, loopVars, cancelVars, sidecarVars, reported>>
    BY DEF WaitStep, RequestShutdown
  <1>4. Reading' = Reading
    BY <1>2 DEF Reading
  <1>5. Main \in Threads /\ Readers \subseteq Threads
    BY BoundsAssumption DEF Main, Threads, Readers
  <1>6. OwnerInv'
    BY <1>1, <1>3, <1>5 DEF IInv, OwnerInv, loopVars, cancelVars, sidecarVars
  <1>7. TerminalOK'
    BY <1>1, <1>2, <1>4 DEF IInv, TerminalOK
  <1> QED BY <1>1, <1>2, <1>3, <1>6, <1>7 DEF IInv, TypeOK, CancelReportedOnce, tuiVars, loopVars,
                                              cancelVars, sidecarVars

\* The read thread takes the sidecar only while nobody holds m_executeMutex, and
\* acknowledges a cancellation before the main thread can report it.
LEMMA ReceiverKeeps ==
    ASSUME IInv, ReceiverStep
    PROVE  IInv'
  <1> USE DEF IInv
  <1>1. UNCHANGED <<out, loopVars, inProgress, active, reported>>
    BY DEF ReceiverStep
  <1>2. CASE Receive
    <2>1. Head(wire) \in Messages /\ wire' \in Seq(Messages)
      BY <1>2 DEF TypeOK, Receive
    <2>2. TerminalOK' /\ \A t \in Threads : at'[t] = "out" <=> at[t] = "out"
      <3>1. CASE Head(wire) = "cancel"
        BY <1>2, <3>1 DEF Receive, terminalVars, TerminalOK, Reading
      <3>2. CASE Head(wire) # "cancel"
        BY <1>2, <2>1, <3>2, EnqueueKeeps DEF Receive, Messages
      <3> QED BY <3>1, <3>2
    <2>3. Main \in Threads /\ Readers \subseteq Threads
      BY BoundsAssumption DEF Main, Threads, Readers
    <2>4. receiver' \in {"idle", "cancelling"} /\ receiver = "idle"
      BY <1>2 DEF Receive
    <2>5. UNCHANGED <<tui, sent, gone, victim, sidecarVars, cancelAck, acked>>
      BY <1>2 DEF Receive
    <2>6. OwnerInv'
      BY <1>1, <2>2, <2>3, <2>4, <2>5 DEF OwnerInv, loopVars, sidecarVars
    <2> QED BY <1>1, <2>1, <2>2, <2>4, <2>5, <2>6
            DEF TypeOK, TerminalOK, CancelReportedOnce, loopVars, sidecarVars
  <1>3. CASE RequestCancel
    BY <1>1, <1>3 DEF TypeOK, TerminalOK, Reading, OwnerInv, CancelReportedOnce, RequestCancel, tuiVars,
                      terminalVars, loopVars, sidecarVars
  <1>4. CASE TakeSidecar
    <2>1. main # "waiting" /\ mutex' = "receiver" /\ receiver' = "joining"
      BY <1>4 DEF OwnerInv, TakeSidecar
    <2>2. victim' \in Threads /\ bridge' \in Threads
      BY <1>4, BoundsAssumption DEF TypeOK, TakeSidecar, Threads
    <2>3. OwnerInv'
      BY <1>1, <1>4, <2>1 DEF OwnerInv, TakeSidecar, terminalVars, loopVars
    <2>4. alive' \in BOOLEAN
      BY <1>4, Zenon DEF TakeSidecar
    <2> QED BY <1>1, <1>4, <2>1, <2>2, <2>3, <2>4
            DEF TypeOK, TerminalOK, Reading, CancelReportedOnce, TakeSidecar, tuiVars, terminalVars, loopVars
  <1>5. CASE JoinVictim
    <2>1. main # "waiting" /\ victim' \in Threads
      BY <1>5, BoundsAssumption DEF OwnerInv, JoinVictim, Threads
    <2>2. OwnerInv'
      BY <1>1, <1>5, <2>1 DEF OwnerInv, JoinVictim, terminalVars, loopVars
    <2> QED BY <1>1, <1>5, <2>1, <2>2 DEF TypeOK, TerminalOK, Reading, CancelReportedOnce, JoinVictim,
                                          tuiVars, terminalVars, loopVars
  <1>6. CASE Acknowledge
    <2>1. CancelReportedOnce'
      BY <1>1, <1>6 DEF TypeOK, CancelReportedOnce, Acknowledge
    <2>2. OwnerInv'
      BY <1>1, <1>6 DEF OwnerInv, Acknowledge, terminalVars, sidecarVars, loopVars
    <2> QED BY <1>1, <1>6, <2>1, <2>2 DEF TypeOK, TerminalOK, Reading, Acknowledge, tuiVars,
                                          terminalVars, sidecarVars, loopVars
  <1> QED BY <1>2, <1>3, <1>4, <1>5, <1>6 DEF ReceiverStep

\* A script asks and is answered while it runs, and runs while Execute waits.
LEMMA ScriptKeeps ==
    ASSUME IInv, NEW g \in Readers, ScriptStep(g) \/ ScriptChoice(g)
    PROVE  IInv'
  <1> USE DEF IInv
  <1>1. UNCHANGED <<tuiVars, loopVars, cancelVars, reported>>
    BY DEF ScriptStep, ScriptChoice
  <1>2. g \in Threads /\ g # Main
    BY BoundsAssumption DEF Readers, Threads, Main
  <1>3. CASE Ask(g)
    <2>1. TerminalOK' /\ out' \in Seq(Events) /\ at' = [at EXCEPT ![g] = "check"]
      BY <1>2, <1>3, EnterReadLineKeeps DEF Ask, TypeOK
    <2>2. OwnerInv'
      BY <1>1, <1>2, <1>3, <2>1 DEF OwnerInv, TypeOK, Ask, sidecarVars, loopVars, cancelVars
    <2> QED BY <1>1, <1>3, <2>1, <2>2 DEF TypeOK, TerminalOK, CancelReportedOnce, Ask, tuiVars, loopVars,
                                          cancelVars, sidecarVars
  <1>4. CASE Answered(g)
    <2>1. TerminalOK' /\ at' = [at EXCEPT ![g] = "out"]
      BY <1>2, <1>4, LeaveKeeps DEF Answered
    <2>2. OwnerInv'
      BY <1>1, <1>2, <1>4, <2>1 DEF OwnerInv, TypeOK, Answered, sidecarVars, loopVars, cancelVars
    <2> QED BY <1>1, <1>4, <2>1, <2>2 DEF TypeOK, TerminalOK, CancelReportedOnce, Answered, tuiVars,
                                          loopVars, cancelVars, sidecarVars
  <1>5. CASE Finish(g)
    <2>1. OwnerInv'
      BY <1>1, <1>5 DEF OwnerInv, TypeOK, Finish, terminalVars, loopVars, cancelVars
    <2> QED BY <1>1, <1>5, <2>1 DEF TypeOK, TerminalOK, Reading, CancelReportedOnce, Finish, tuiVars,
                                    terminalVars, loopVars, cancelVars
  <1>6. CASE GiveUp(g)
    <2>1. OwnerInv'
      BY <1>1, <1>6 DEF OwnerInv, TypeOK, GiveUp, terminalVars, loopVars, cancelVars
    <2> QED BY <1>1, <1>6, <2>1 DEF TypeOK, TerminalOK, Reading, CancelReportedOnce, GiveUp, tuiVars,
                                    terminalVars, loopVars, cancelVars
  <1> QED BY <1>3, <1>4, <1>5, <1>6 DEF ScriptStep, ScriptChoice

\* Steps of the main thread that neither wait for the user nor hold the mutex.
LEMMA LoopKeeps ==
    ASSUME IInv, Dispatch \/ RunPlain \/ RunScript \/ End \/ Report \/ Goodbye, UNCHANGED tuiVars
    PROVE  IInv'
  <1> USE DEF IInv, tuiVars, terminalVars
  <1>1. /\ "complete" \in Events /\ "cancelled" \in Events /\ "shutdown" \in Events
        /\ "context" \in Events /\ <<"context", "complete">> \in Seq(Events)
    BY DEF Events
  <1>2. CASE Dispatch
    <2>1. out' \in Seq(Events)
      <3>1. out \in Seq(Events)
        BY DEF TypeOK
      <3>2. out' = Append(out, "complete") \/ out' = out \/ out' = out \o <<"context", "complete">>
        BY <1>2 DEF Dispatch
      <3>3. Append(out, "complete") \in Seq(Events) /\ out \o <<"context", "complete">> \in Seq(Events)
        BY <1>1, <3>1, AppendProperties, ConcatProperties
      <3> QED BY <3>1, <3>2, <3>3
    <2>2. /\ main' \in {"prompt", "run"} /\ main = "dispatch"
          /\ active' \in {"none", "plain", "language"}
      BY <1>2 DEF TypeOK, Dispatch
    <2>3. inProgress' \in BOOLEAN
      BY <1>2 DEF TypeOK, Dispatch
    <2>4. UNCHANGED <<line, exiting, terminalVars, cancelAck, receiver, victim, acked, sidecarVars, reported>>
      BY <1>2 DEF Dispatch
    <2>5. OwnerInv'
      BY <2>2, <2>4 DEF OwnerInv, sidecarVars
    <2> QED BY <2>1, <2>2, <2>3, <2>4, <2>5 DEF TypeOK, TerminalOK, Reading, CancelReportedOnce,
                                                MainStates, sidecarVars
  <1>3. CASE RunPlain
    <2>1. exiting' \in BOOLEAN
      BY <1>3, Zenon DEF RunPlain
    <2>2. OwnerInv'
      BY <1>3 DEF OwnerInv, RunPlain, cancelVars, sidecarVars
    <2>3. out' \in Seq(Events)
      <3>1. out \in Seq(Events)
        BY DEF TypeOK
      <3>2. out' = out \/ out' = Append(out, "context")
        BY <1>3 DEF RunPlain
      <3> QED BY <1>1, <3>1, <3>2, AppendProperties
    <2> QED BY <1>3, <2>1, <2>2, <2>3 DEF TypeOK, TerminalOK, Reading, CancelReportedOnce, RunPlain, MainStates,
                                    cancelVars, sidecarVars
  <1>4. CASE RunScript
    <2>1. /\ launched' \in Threads /\ launching' \in {"no", "new", "failed"}
          /\ launching' = "new" => launched' # 0
      BY <1>4, BoundsAssumption DEF TypeOK, OwnerInv, RunScript, Threads
    <2>2. main' \in {"lock", "join"} /\ main = "run"
      BY <1>4 DEF RunScript
    <2>3. OwnerInv'
      BY <1>4, <2>1, <2>2 DEF OwnerInv, RunScript, cancelVars
    <2> QED BY <1>4, <2>1, <2>2, <2>3 DEF TypeOK, TerminalOK, Reading, CancelReportedOnce, RunScript,
                                          MainStates, cancelVars
  <1>5. CASE End
    <2>1. inProgress' \in BOOLEAN
      BY <1>5, Zenon DEF End
    <2>2. OwnerInv'
      BY <1>5 DEF OwnerInv, End, sidecarVars
    <2> QED BY <1>5, <2>1, <2>2 DEF TypeOK, TerminalOK, Reading, CancelReportedOnce, End, MainStates,
                                    sidecarVars
  <1>6. CASE Report
    <2>1. out' \in Seq(Events)
      <3>1. out \in Seq(Events)
        BY DEF TypeOK
      <3>2. out' = Append(out, "cancelled") \/ out' = Append(out, "complete")
        BY <1>6 DEF Report
      <3> QED BY <1>1, <3>1, <3>2
    <2>2. CancelReportedOnce' /\ reported' \in Nat
      BY <1>6 DEF TypeOK, CancelReportedOnce, Report
    <2>3. cancelAck' \in BOOLEAN
      BY <1>6 DEF TypeOK, Report
    <2>4. OwnerInv'
      BY <1>6 DEF OwnerInv, Report, sidecarVars
    <2> QED BY <1>6, <2>1, <2>2, <2>3, <2>4 DEF TypeOK, TerminalOK, Reading, Report, MainStates, sidecarVars
  <1>7. CASE Goodbye
    <2>1. out' \in Seq(Events)
      BY <1>1, <1>7 DEF TypeOK, Goodbye
    <2>2. OwnerInv'
      BY <1>7 DEF OwnerInv, Goodbye, cancelVars, sidecarVars
    <2> QED BY <1>7, <2>1, <2>2 DEF TypeOK, TerminalOK, Reading, CancelReportedOnce, Goodbye, MainStates,
                                    cancelVars, sidecarVars
  <1> QED BY <1>2, <1>3, <1>4, <1>5, <1>6, <1>7

\* Reads of the main thread.
LEMMA ReadKeeps ==
    ASSUME IInv, Prompt \/ TakeLine \/ RunInteractive \/ TakeAnswer, UNCHANGED tuiVars
    PROVE  IInv'
  <1> USE DEF IInv, tuiVars
  <1>1. Main \in Threads /\ Main \notin Readers /\ Readers \subseteq Threads
    BY BoundsAssumption DEF Main, Threads, Readers
  <1>2. UNCHANGED <<cancelVars, sidecarVars, reported>>
    BY DEF Prompt, TakeLine, RunInteractive, TakeAnswer
  <1>3. main \in {"prompt", "reading", "run", "asking"}
    BY DEF Prompt, TakeLine, RunInteractive, TakeAnswer
  <1>4. main \in {"prompt", "run"} => at[Main] = "out"
    BY DEF OwnerInv
  <1>5. /\ TerminalOK' /\ out' \in Seq(Events)
        /\ \A t \in Readers : at'[t] = at[t]
        /\ at'[Main] # "out" => main' \in {"reading", "asking"}
        /\ main' \in MainStates \ {"waiting"}
    <2>1. CASE Prompt
      <3>1. CASE exiting
        BY <1>3, <1>4, <2>1, <3>1 DEF Prompt, TypeOK, TerminalOK, Reading, terminalVars, MainStates
      <3>2. CASE ~exiting
        BY <1>1, <1>4, <2>1, <3>2, EnterReadLineKeeps DEF Prompt, TypeOK, MainStates
      <3> QED BY <3>1, <3>2
    <2>2. CASE TakeLine
      BY <1>1, <2>2, LeaveKeeps DEF TakeLine, TypeOK, MainStates
    <2>3. CASE RunInteractive
      <3>1. CASE line = "ask"
        BY <1>1, <1>4, <2>3, <3>1, EnterReadLineKeeps DEF RunInteractive, TypeOK, MainStates
      <3>2. CASE line # "ask"
        BY <1>1, <1>4, <2>3, <3>2, EnterSelectMenuKeeps DEF RunInteractive, TypeOK, MainStates
      <3> QED BY <3>1, <3>2
    <2>4. CASE TakeAnswer
      BY <1>1, <2>4, LeaveKeeps DEF TakeAnswer, TypeOK, MainStates
    <2> QED BY <2>1, <2>2, <2>3, <2>4
  <1>6. line' \in Kinds \cup {"none"} /\ exiting' \in BOOLEAN
    <2>1. CASE TakeLine
      <3>1. on[Main] = "commands" /\ ~shutdown => Head(commands) \in Kinds
        BY <2>1 DEF TakeLine, Leave, Wakes, Queue, TypeOK
      <3> QED BY <2>1, <3>1 DEF TakeLine, Typed, TypeOK
    <2>2. CASE ~TakeLine
      BY <2>2 DEF Prompt, RunInteractive, TakeAnswer, TypeOK
    <2> QED BY <2>1, <2>2
  <1>7. OwnerInv'
    BY <1>1, <1>2, <1>3, <1>5 DEF OwnerInv, cancelVars, sidecarVars
  <1> QED BY <1>2, <1>5, <1>6, <1>7 DEF TypeOK, TerminalOK, CancelReportedOnce, cancelVars, sidecarVars

\* Launch and Execute: the script that is started is the only one that runs.
LEMMA ScriptRunKeeps ==
    ASSUME IInv, JoinOld \/ Execute \/ ExecuteReturns, UNCHANGED tuiVars
    PROVE  IInv'
  <1> USE DEF IInv, tuiVars, terminalVars
  <1>1. CASE JoinOld
    <2>1. bridge' \in Threads /\ (alive' => bridge' # 0)
      BY <1>1, BoundsAssumption DEF TypeOK, OwnerInv, JoinOld, Threads
    <2>2. alive' \in BOOLEAN
      BY <1>1, Zenon DEF JoinOld
    <2>3. main = "join" /\ main' \in {"lock", "end"}
      BY <1>1 DEF JoinOld
    <2>4. OwnerInv'
      BY <1>1, <2>1, <2>3 DEF OwnerInv, JoinOld, cancelVars
    <2> QED BY <1>1, <2>1, <2>2, <2>3, <2>4 DEF TypeOK, TerminalOK, Reading, CancelReportedOnce, JoinOld,
                                                MainStates, cancelVars
  <1>2. CASE Execute
    <2>1. alive => bridge \in Readers
      BY BoundsAssumption DEF TypeOK, OwnerInv, Threads, Readers
    <2>2. script' \in [Readers -> {"idle", "running", "done", "lost"}]
      BY <1>2, <2>1 DEF TypeOK, Execute
    <2>3. OwnerInv'
      BY <1>2, <2>1 DEF TypeOK, OwnerInv, Execute, cancelVars
    <2> QED BY <1>2, <2>2, <2>3 DEF TypeOK, TerminalOK, Reading, CancelReportedOnce, Execute, MainStates,
                                    cancelVars
  <1>3. CASE ExecuteReturns
    <2>1. alive' \in BOOLEAN
      BY <1>3, Zenon DEF ExecuteReturns
    <2>2. OwnerInv'
      BY <1>3 DEF OwnerInv, ExecuteReturns, cancelVars
    <2> QED BY <1>3, <2>1, <2>2 DEF TypeOK, TerminalOK, Reading, CancelReportedOnce, ExecuteReturns,
                                    MainStates, cancelVars
  <1> QED BY <1>1, <1>2, <1>3

\* Every step keeps the invariant.
LEMMA NextKeeps == IInv /\ [Next]_vars => IInv'
  <1> SUFFICES ASSUME IInv, [Next]_vars PROVE IInv'
    OBVIOUS
  <1>1. CASE UserStep \/ TuiStep
    BY <1>1, TuiKeeps
  <1>2. CASE (\E t \in Threads : WaitStep(t)) \/ RequestShutdown
    BY <1>2, WaitKeeps
  <1>3. CASE ReceiverStep
    BY <1>3, ReceiverKeeps
  <1>4. CASE \E g \in Readers : ScriptStep(g) \/ ScriptChoice(g)
    BY <1>4, ScriptKeeps
  <1>5. CASE MainStep
    BY <1>5, LoopKeeps, ReadKeeps, ScriptRunKeeps DEF MainStep
  <1>6. CASE UNCHANGED vars
    BY <1>6 DEF IInv, TypeOK, TerminalOK, Reading, OwnerInv, CancelReportedOnce, vars, tuiVars,
                terminalVars, loopVars, cancelVars, sidecarVars
  <1> QED BY <1>1, <1>2, <1>3, <1>4, <1>5, <1>6 DEF Next

\* The invariant holds, for any number of sidecars and messages.
THEOREM IInvHolds == Spec => []IInv
  BY InitInv, NextKeeps, PTL DEF Spec

\* Every variable of the session keeps its type; m_readDepth never underflows
\* and never exceeds the number of threads that can be inside ReadLine.
THEOREM TypeCorrect == Spec => []TypeOK
  <1>1. IInv => TypeOK
    BY DEF IInv
  <1> QED BY <1>1, IInvHolds, PTL

\* While no script was given up by the watchdog, notify_one cannot wake the
\* wrong thread: the main thread and the readers never wait at the same time.
THEOREM OneThreadWaits == Spec => []OneWaiter
  <1>1. IInv => OneWaiter
    <2> SUFFICES ASSUME IInv, ~timedOut, NEW t \in Threads, NEW u \in Threads, Waiting(t), Waiting(u)
                 PROVE  t = u
      BY DEF OneWaiter
    <2>1. \A v \in Threads : v # Main => v \in Readers
      BY BoundsAssumption DEF Main, Threads, Readers
    <2> QED BY <2>1 DEF IInv, OwnerInv, Waiting
  <1> QED BY <1>1, IInvHolds, PTL

\* The closing event of an execution says "cancelled" at most once for every
\* cancellation that was acknowledged.
THEOREM CancelsReportedOnce == Spec => []CancelReportedOnce
  <1>1. IInv => CancelReportedOnce
    BY DEF IInv
  <1> QED BY <1>1, IInvHolds, PTL

-----------------------------------------------------------------------------
(* The engine and the TUI at rest.                                         *)

\* x is in the sequence q, and it is in it at most once.
Within(x, q) == \E i \in DOMAIN q : q[i] = x
Once(x, q) == \A i, j \in DOMAIN q : q[i] = x /\ q[j] = x => i = j

\* Every y in the sequence q comes before every x.
Precede(y, x, q) == \A i, j \in DOMAIN q : q[i] = x /\ q[j] = y => j < i

\* Nobody reads while another reads: the terminal never asks for an answer by a
\* prompt, until a script is given up.
PromptInv ==
    ~timedOut => /\ \A t \in Threads : on[t] # "inputs"
                 /\ \A g \in Readers : on[g] # "menu"
                 /\ main = "reading" => on[Main] # "menu"
                 /\ ~tui.prompt /\ ~Within("req_input", out) /\ ~Within("req_blank", out)

\* The shutdown has not ended a wait of the main thread.
Settled == ~timedOut /\ (~shutdown \/ at[Main] \in {"parking", "asleep"})

\* While SelectMenu waits its request is on its way, or shown, or the answer is
\* on its way, or queued: one of these, once; otherwise none.  A change of context,
\* which would take the menu away, is shown before the menu.
MenuInv ==
    Settled => /\ Once("sel_request", out) /\ Once("answer", wire) /\ inputs <= 1
               /\ Precede("context", "sel_request", out)
               /\ tui.menu => ~Within("context", out)
               /\ Within("sel_request", out) => ~tui.menu /\ ~Within("answer", wire) /\ inputs = 0
               /\ tui.menu => ~Within("answer", wire) /\ inputs = 0
               /\ Within("answer", wire) => inputs = 0
               /\ on[Main] = "menu" <=> \/ Within("sel_request", out) \/ tui.menu
                                        \/ Within("answer", wire) \/ inputs = 1

\* A TUI that shows an execution while the engine reads a command has the idle
\* event before it, or the engine the next line.
FlightInv ==
    ~timedOut /\ main = "reading" /\ tui.inFlight =>
        Within("idle", out) \/ (\E k \in Kinds : Within(k, wire)) \/ commands # <<>>


RestInv == PromptInv /\ MenuInv /\ FlightInv

\* What is within a sequence when it grows at the end.
LEMMA AppendedWithin ==
    ASSUME NEW S, NEW q \in Seq(S), NEW y \in S, NEW x
    PROVE  /\ Within(x, Append(q, y)) <=> Within(x, q) \/ x = y
           /\ Once(x, q) /\ (x # y \/ ~Within(x, q)) => Once(x, Append(q, y))
  <1> DEFINE a == Append(q, y)
  <1>1. /\ Len(q) \in Nat /\ DOMAIN q = 1 .. Len(q) /\ DOMAIN a = 1 .. Len(q) + 1
        /\ a[Len(q) + 1] = y /\ \A i \in 1 .. Len(q) : a[i] = q[i]
    BY AppendProperties, LenProperties
  <1>2. \A i : i \in 1 .. Len(q) + 1 <=> i \in 1 .. Len(q) \/ i = Len(q) + 1
    BY <1>1
  <1> HIDE DEF a
  <1>3. Within(x, a) <=> Within(x, q) \/ x = y
    <2>1. ASSUME Within(x, a) PROVE Within(x, q) \/ x = y
      BY <1>1, <1>2, <2>1 DEF Within
    <2>2. ASSUME Within(x, q) PROVE Within(x, a)
      BY <1>1, <1>2, <2>2 DEF Within
    <2>3. ASSUME x = y PROVE Within(x, a)
      BY <1>1, <1>2, <2>3 DEF Within
    <2> QED BY <2>1, <2>2, <2>3
  <1>4. ASSUME Once(x, q), x # y \/ ~Within(x, q) PROVE Once(x, a)
    <2> SUFFICES ASSUME NEW i \in DOMAIN a, NEW j \in DOMAIN a, a[i] = x, a[j] = x
                 PROVE  i = j
      BY DEF Once
    <2>1. CASE x # y
      BY <1>1, <1>2, <1>4, <2>1 DEF Once
    <2>2. CASE ~Within(x, q)
      BY <1>1, <1>2, <2>2 DEF Within
    <2> QED BY <1>4, <2>1, <2>2
  <1> QED BY <1>3, <1>4 DEF a

\* What is within a sequence when its head is taken.
LEMMA TakenWithin ==
    ASSUME NEW S, NEW q \in Seq(S), q # <<>>, NEW x
    PROVE  /\ Within(x, q) <=> x = Head(q) \/ Within(x, Tail(q))
           /\ Once(x, q) => Once(x, Tail(q)) /\ (x = Head(q) => ~Within(x, Tail(q)))
  <1> DEFINE t == Tail(q)
  <1>1. /\ Len(q) \in Nat \ {0} /\ DOMAIN q = 1 .. Len(q) /\ DOMAIN t = 1 .. Len(q) - 1
        /\ q[1] = Head(q) /\ \A i \in 1 .. Len(q) - 1 : t[i] = q[i + 1]
    BY HeadTailProperties, LenProperties, EmptySeq
  <1>2. \A i \in 1 .. Len(q) : i = 1 \/ \E j \in 1 .. Len(q) - 1 : i = j + 1
    <2> TAKE i \in 1 .. Len(q)
    <2>1. i = 1 \/ (i - 1 \in 1 .. Len(q) - 1 /\ i = (i - 1) + 1)
      BY <1>1
    <2> QED BY <2>1
  <1>3. 1 \in DOMAIN q /\ \A j \in 1 .. Len(q) - 1 : j + 1 \in DOMAIN q /\ j + 1 # 1
    BY <1>1
  <1> HIDE DEF t
  <1>4. ASSUME Within(x, q) PROVE x = Head(q) \/ Within(x, t)
    <2>1. PICK i \in 1 .. Len(q) : q[i] = x
      BY <1>1, <1>4 DEF Within
    <2>2. CASE i = 1
      BY <1>1, <2>1, <2>2
    <2>3. CASE \E j \in 1 .. Len(q) - 1 : i = j + 1
      <3>1. PICK j \in 1 .. Len(q) - 1 : i = j + 1
        BY <2>3
      <3>2. j \in DOMAIN t /\ t[j] = x
        BY <1>1, <2>1, <3>1
      <3> QED BY <3>2 DEF Within
    <2> QED BY <1>2, <2>2, <2>3
  <1>5. ASSUME x = Head(q) \/ Within(x, t) PROVE Within(x, q)
    BY <1>1, <1>3, <1>5 DEF Within
  <1>6. ASSUME Once(x, q) PROVE Once(x, t)
    <2> SUFFICES ASSUME NEW i \in 1 .. Len(q) - 1, NEW j \in 1 .. Len(q) - 1, t[i] = x, t[j] = x
                 PROVE  i = j
      BY <1>1 DEF Once
    <2>1. i + 1 = j + 1
      BY <1>1, <1>3, <1>6 DEF Once
    <2> QED BY <2>1
  <1>7. ASSUME Once(x, q), x = Head(q) PROVE ~Within(x, t)
    <2> SUFFICES ASSUME NEW i \in 1 .. Len(q) - 1, t[i] = x PROVE FALSE
      BY <1>1 DEF Within
    <2> QED BY <1>1, <1>3, <1>7 DEF Once
  <1> QED BY <1>4, <1>5, <1>6, <1>7 DEF t

\* What precedes what, when the sequence grows and when its head is taken.
LEMMA AppendedPrecede ==
    ASSUME NEW S, NEW q \in Seq(S), NEW e \in S, NEW x, NEW y, x # y, Precede(y, x, q),
           e # y \/ ~Within(x, q)
    PROVE  Precede(y, x, Append(q, e))
  <1> DEFINE a == Append(q, e)
  <1>1. /\ Len(q) \in Nat /\ DOMAIN q = 1 .. Len(q) /\ DOMAIN a = 1 .. Len(q) + 1
        /\ a[Len(q) + 1] = e /\ \A i \in 1 .. Len(q) : a[i] = q[i]
    BY AppendProperties, LenProperties
  <1> HIDE DEF a
  <1>2. SUFFICES ASSUME NEW i \in DOMAIN a, NEW j \in DOMAIN a, a[i] = x, a[j] = y PROVE j < i
    BY DEF Precede, a
  <1>3. CASE i \in 1 .. Len(q) /\ j \in 1 .. Len(q)
    BY <1>1, <1>2, <1>3 DEF Precede
  <1>4. CASE i = Len(q) + 1
    BY <1>1, <1>2, <1>4
  <1>5. CASE i \in 1 .. Len(q) /\ j = Len(q) + 1
    BY <1>1, <1>2, <1>5 DEF Within
  <1> QED BY <1>1, <1>3, <1>4, <1>5

LEMMA TakenPrecede ==
    ASSUME NEW S, NEW q \in Seq(S), q # <<>>, NEW x, NEW y, Precede(y, x, q)
    PROVE  Precede(y, x, Tail(q)) /\ (x = Head(q) => ~Within(y, Tail(q)))
  <1> DEFINE t == Tail(q)
  <1>1. /\ Len(q) \in Nat \ {0} /\ DOMAIN q = 1 .. Len(q) /\ DOMAIN t = 1 .. Len(q) - 1
        /\ q[1] = Head(q) /\ \A i \in 1 .. Len(q) - 1 : t[i] = q[i + 1]
    BY HeadTailProperties, LenProperties, EmptySeq
  <1> HIDE DEF t
  <1>2. \A i \in 1 .. Len(q) - 1 : i + 1 \in DOMAIN q
    BY <1>1
  <1>3. Precede(y, x, t)
    BY <1>1, <1>2 DEF Precede
  <1>4. x = Head(q) => ~Within(y, t)
    BY <1>1, <1>2 DEF Precede, Within
  <1> QED BY <1>3, <1>4 DEF t

\* The same for two events at once.
LEMMA TwoAppended ==
    ASSUME NEW q \in Seq(Events), NEW y \in Events, NEW z \in Events
    PROVE  q \o <<y, z>> = Append(Append(q, y), z)
  OBVIOUS

\* The kinds of line are neither answers nor cancellations.
LEMMA KindsApart ==
    /\ "answer" \notin Kinds /\ "cancel" \notin Kinds
    /\ Main \in Threads /\ Readers \subseteq Threads /\ Main \notin Readers
    /\ \A t \in Threads : t = Main \/ t \in Readers
  BY KindsAssumption, BoundsAssumption DEF AllKinds, Main, Threads, Readers

\* Nothing that RestInv speaks of changes, but the waits and RunMain's place.
LEMMA RestSame ==
    ASSUME RestInv, UNCHANGED <<tui, wire, out, commands, inputs, on>>, ~timedOut' => ~timedOut,
           Settled' => Settled, main' = "reading" => main = "reading"
    PROVE  RestInv'
  <1>1. PromptInv'
    BY DEF RestInv, PromptInv
  <1>2. MenuInv'
    BY DEF RestInv, MenuInv
  <1>3. FlightInv'
    BY DEF RestInv, FlightInv
  <1> QED BY <1>1, <1>2, <1>3 DEF RestInv

\* An event that asks for nothing, and changes the context only without a menu.
LEMMA EventAppended ==
    ASSUME NEW q \in Seq(Events), NEW e \in Events \ {"req_input", "req_blank", "sel_request"}
    PROVE  /\ Append(q, e) \in Seq(Events)
           /\ \A x \in {"req_input", "req_blank", "sel_request"} :
                 /\ Within(x, Append(q, e)) <=> Within(x, q)
                 /\ Once(x, q) => Once(x, Append(q, e))
           /\ Within("context", Append(q, e)) => e = "context" \/ Within("context", q)
           /\ Precede("context", "sel_request", q) /\ (e # "context" \/ ~Within("sel_request", q))
                 => Precede("context", "sel_request", Append(q, e))
  <1>1. Append(q, e) \in Seq(Events)
    BY AppendProperties
  <1>2. \A x : /\ Within(x, Append(q, e)) <=> Within(x, q) \/ x = e
               /\ Once(x, q) /\ (x # e \/ ~Within(x, q)) => Once(x, Append(q, e))
    BY AppendedWithin
  <1>3. Precede("context", "sel_request", q) /\ (e # "context" \/ ~Within("sel_request", q))
           => Precede("context", "sel_request", Append(q, e))
    BY AppendedPrecede
  <1> QED BY <1>1, <1>2, <1>3

\* The engine says how an execution, or the session, has ended, or that the
\* context is another, and shows no menu then.
LEMMA RestEvent ==
    ASSUME IInv, RestInv,
           \/ \E e \in {"complete", "cancelled", "shutdown", "context"} : out' = Append(out, e)
           \/ out' = Append(Append(out, "context"), "complete"),
           on[Main] = "none",
           UNCHANGED <<tui, wire, commands, inputs, at, on, shutdown, timedOut>>,
           main' # "reading"
    PROVE  RestInv'
  <1>1. out \in Seq(Events)
    BY DEF IInv, TypeOK
  <1>2. \A e \in {"complete", "cancelled", "shutdown", "context"} :
            e \in Events \ {"req_input", "req_blank", "sel_request"}
    BY DEF Events
  <1>3. \A x \in {"req_input", "req_blank", "sel_request"} :
            (Within(x, out') <=> Within(x, out)) /\ (Once(x, out) => Once(x, out'))
    <2>1. CASE \E e \in {"complete", "cancelled", "shutdown", "context"} : out' = Append(out, e)
      BY <1>1, <1>2, <2>1, EventAppended
    <2>2. CASE out' = Append(Append(out, "context"), "complete")
      <3> DEFINE half == Append(out, "context")
      <3>1. half \in Seq(Events) /\ \A x \in {"req_input", "req_blank", "sel_request"} :
                (Within(x, half) <=> Within(x, out)) /\ (Once(x, out) => Once(x, half))
        BY <1>1, <1>2, EventAppended
      <3> HIDE DEF half
      <3>2. \A x \in {"req_input", "req_blank", "sel_request"} :
                (Within(x, Append(half, "complete")) <=> Within(x, half))
                /\ (Once(x, half) => Once(x, Append(half, "complete")))
        BY <1>2, <3>1, EventAppended
      <3>3. out' = Append(half, "complete")
        BY <2>2 DEF half
      <3> QED BY <3>1, <3>2, <3>3
    <2> QED BY <2>1, <2>2
  <1>4. Precede("context", "sel_request", out) /\ ~Within("sel_request", out)
           => Precede("context", "sel_request", out')
    <2> SUFFICES ASSUME Precede("context", "sel_request", out), ~Within("sel_request", out)
                 PROVE  Precede("context", "sel_request", out')
      OBVIOUS
    <2>1. ~Within("sel_request", out')
      BY <1>3
    <2> QED BY <2>1 DEF Precede, Within
  <1>5. PromptInv'
    BY <1>3 DEF RestInv, PromptInv
  <1>6. MenuInv'
    BY <1>3, <1>4 DEF RestInv, MenuInv, Settled
  <1> QED BY <1>5, <1>6 DEF RestInv, FlightInv

\* ReadLine while nobody else reads asks for a command.
LEMMA RestRead ==
    ASSUME IInv, RestInv, NEW t \in Threads, EnterReadLine(t), \A u \in Threads : at[u] = "out",
           UNCHANGED <<tui, wire, timedOut>>, t # Main => main' # "reading"
    PROVE  RestInv'
  <1>1. depth = 0
    <2>1. Reading = {}
      BY DEF Reading, IInv, TerminalOK
    <2>2. Cardinality({}) = 0
      BY FS_EmptySet, Zenon
    <2> QED BY <2>1, <2>2 DEF IInv, TerminalOK
  <1>2. on' = [on EXCEPT ![t] = "commands"] /\ out' = Append(out, "idle")
    BY <1>1 DEF EnterReadLine
  <1>3. out' = Append(out, "idle") /\ out \in Seq(Events)
        /\ "idle" \in Events \ {"req_input", "req_blank", "sel_request"}
    BY <1>2 DEF IInv, TypeOK, Events
  <1>4. /\ \A x \in {"req_input", "req_blank", "sel_request"} :
              (Within(x, out') <=> Within(x, out)) /\ (Once(x, out) => Once(x, out'))
        /\ Within("idle", out')
        /\ Within("context", out') => Within("context", out)
        /\ Precede("context", "sel_request", out) => Precede("context", "sel_request", out')
    BY <1>3, AppendedWithin, EventAppended
  <1>5. /\ UNCHANGED <<commands, inputs, shutdown>> /\ on'[t] = "commands"
        /\ \A u \in Threads \ {t} : on'[u] = on[u]
        /\ on[Main] = "none" /\ on[t] = "none"
    BY <1>2, KindsApart DEF EnterReadLine, IInv, TerminalOK, TypeOK
  <1>6. PromptInv'
    BY <1>4, <1>5, KindsApart DEF RestInv, PromptInv
  <1>7. MenuInv'
    <2>1. on'[Main] # "menu" /\ on[Main] # "menu"
      BY <1>5, KindsApart
    <2>2. Settled' => Settled
      BY <1>5, KindsApart DEF Settled, EnterReadLine, IInv, TypeOK
    <2> QED BY <1>4, <1>5, <2>1, <2>2 DEF RestInv, MenuInv
  <1>8. FlightInv'
    BY <1>4 DEF FlightInv
  <1> QED BY <1>6, <1>7, <1>8 DEF RestInv

\* SelectMenu: its request is on the way, and nothing else was.
LEMMA RestMenu ==
    ASSUME IInv, RestInv, EnterSelectMenu(Main), at[Main] = "out", UNCHANGED <<tui, wire, timedOut>>,
           main' # "reading"
    PROVE  RestInv'
  <1>1. /\ UNCHANGED <<commands, inputs, shutdown>> /\ on' = [on EXCEPT ![Main] = "menu"]
        /\ on[Main] = "none" /\ out \in Seq(Events)
        /\ "before_input" \in Events /\ "sel_request" \in Events /\ Main \in Threads
    BY KindsApart DEF EnterSelectMenu, IInv, TerminalOK, TypeOK, Events
  <1>2. out' = Append(Append(out, "before_input"), "sel_request")
    BY <1>1, TwoAppended DEF EnterSelectMenu
  <1> DEFINE half == Append(out, "before_input")
  <1>3. half \in Seq(Events) /\ out' = Append(half, "sel_request")
    BY <1>1, <1>2, AppendProperties
  <1>4. \A x \in {"req_input", "req_blank", "sel_request"} :
            (Within(x, half) <=> Within(x, out)) /\ (Once(x, out) => Once(x, half))
    BY <1>1, AppendedWithin
  <1> HIDE DEF half
  <1>5. /\ Within("req_input", out') <=> Within("req_input", out)
        /\ Within("req_blank", out') <=> Within("req_blank", out)
        /\ Within("sel_request", out')
        /\ Once("sel_request", out) /\ ~Within("sel_request", out) => Once("sel_request", out')
    BY <1>1, <1>3, <1>4, AppendedWithin
  <1>9. Precede("context", "sel_request", out) => Precede("context", "sel_request", out')
    BY <1>1, <1>3, EventAppended, AppendedPrecede DEF half
  <1>6. on'[Main] = "menu" /\ \A g \in Readers : on'[g] = on[g]
    BY <1>1, KindsApart DEF IInv, TypeOK
  <1>7. PromptInv'
    BY <1>5, <1>6, KindsApart DEF RestInv, PromptInv
  <1>8. MenuInv'
    <2>1. Settled' => Settled
      BY <1>1 DEF Settled, EnterSelectMenu, IInv, TypeOK
    <2> QED BY <1>1, <1>5, <1>6, <1>9, <2>1 DEF RestInv, MenuInv, IInv, TypeOK
  <1> QED BY <1>7, <1>8 DEF RestInv, FlightInv

\* The end of a wait: for a line, or with the answer to the menu.
LEMMA RestLeave ==
    ASSUME IInv, RestInv, NEW t \in Threads, Leave(t), UNCHANGED <<tui, wire, out, timedOut>>,
           main' # "reading"
    PROVE  RestInv'
  <1>1. /\ on' = [on EXCEPT ![t] = "none"] /\ at' = [at EXCEPT ![t] = "out"] /\ shutdown' = shutdown
        /\ on[t] # "none" /\ at[t] = "check"
    BY DEF Leave, IInv, TerminalOK
  <1>2. on'[t] = "none" /\ \A u \in Threads \ {t} : on'[u] = on[u]
    BY <1>1 DEF IInv, TypeOK
  <1>3. PromptInv'
    BY <1>2, KindsApart DEF RestInv, PromptInv
  <1>4. MenuInv'
    <2> SUFFICES ASSUME Settled' PROVE MenuInv'
      BY DEF MenuInv
    <2>1. Settled
      BY <1>1, KindsApart DEF Settled, IInv, TypeOK
    <2>2. on[t] # "inputs"
      BY <2>1 DEF RestInv, PromptInv, Settled
    <2>3. CASE t = Main /\ on[Main] = "menu"
      <3>1. ~shutdown
        BY <1>1, <2>3, KindsApart DEF Settled, IInv, TypeOK
      <3>2. inputs > 0 /\ inputs' = inputs - 1 /\ inputs \in Nat
        BY <2>3, <3>1 DEF Leave, Wakes, Queue, IInv, TypeOK
      <3>3. inputs = 1
        BY <2>1, <3>2 DEF RestInv, MenuInv
      <3> QED BY <1>2, <2>1, <2>3, <3>2, <3>3 DEF RestInv, MenuInv
    <2>4. CASE ~(t = Main /\ on[Main] = "menu")
      <3>1. on[t] = "commands"
        BY <1>1, <2>1, <2>2, <2>4, KindsApart DEF RestInv, PromptInv, Settled, IInv, TerminalOK
      <3>2. inputs' = inputs
        BY <3>1 DEF Leave
      <3>3. on'[Main] = "menu" <=> on[Main] = "menu"
        BY <1>2, <3>1, KindsApart
      <3> QED BY <2>1, <3>2, <3>3 DEF RestInv, MenuInv
    <2> QED BY <2>3, <2>4
  <1> QED BY <1>3, <1>4 DEF RestInv, FlightInv


\* The TUI: a line that starts an execution is on its way, an answer belongs to
\* the menu that was shown, and what is shown is no longer on its way.
LEMMA RestTui ==
    ASSUME IInv, RestInv, UserStep \/ TuiStep
    PROVE  RestInv'
  <1> USE DEF IInv, RestInv
  <1>1. UNCHANGED engineVars
    BY DEF UserStep, TuiStep
  <1>2. /\ UNCHANGED <<commands, inputs, at, on, shutdown, timedOut, main>>
        /\ Settled' = Settled
    BY <1>1 DEF engineVars, terminalVars, loopVars, sidecarVars, Settled
  <1>3. /\ tui \in [prompt : BOOLEAN, menu : BOOLEAN, inFlight : BOOLEAN]
        /\ wire \in Seq(Messages) /\ out \in Seq(Events) /\ inputs \in Nat
    BY DEF TypeOK
  <1>4. CASE UserStep
    <2>1. out' = out
      BY <1>4 DEF UserStep
    <2>2. CASE Disconnect
      BY <1>2, <2>1, <2>2, RestSame DEF Disconnect
    <2>3. CASE CtrlC
      <3>1. wire' = Append(wire, "cancel") /\ tui' = tui /\ "cancel" \in Messages
        BY <2>3 DEF CtrlC, Send, Messages
      <3>2. \A x \in Messages : x # "cancel" =>
               (Within(x, wire') <=> Within(x, wire)) /\ (Once(x, wire) => Once(x, wire'))
        BY <1>3, <3>1, AppendedWithin
      <3>3. "answer" \in Messages /\ \A k \in Kinds : k \in Messages /\ k # "cancel"
        BY KindsApart DEF Messages
      <3>4. PromptInv'
        BY <1>2, <2>1, <3>1 DEF PromptInv
      <3>5. MenuInv'
        BY <1>2, <2>1, <3>1, <3>2, <3>3 DEF MenuInv
      <3>6. FlightInv'
        BY <1>2, <2>1, <3>1, <3>2, <3>3 DEF FlightInv
      <3> QED BY <3>4, <3>5, <3>6
    <2>4. CASE Choose
      <3>1. wire' = Append(wire, "answer") /\ tui' = [tui EXCEPT !.menu = FALSE] /\ tui.menu
            /\ "answer" \in Messages
        BY <2>4 DEF Choose, Send, Messages
      <3>2. ~tui'.menu /\ tui'.prompt = tui.prompt /\ tui'.inFlight = tui.inFlight
        BY <1>3, <3>1
      <3>3. /\ Within("answer", wire')
            /\ Once("answer", wire) /\ ~Within("answer", wire) => Once("answer", wire')
            /\ \A k \in Kinds : Within(k, wire) => Within(k, wire')
        BY <1>3, <3>1, AppendedWithin
      <3>4. PromptInv'
        BY <1>2, <2>1, <3>2 DEF PromptInv
      <3>5. MenuInv'
        BY <1>2, <1>3, <2>1, <3>1, <3>2, <3>3 DEF MenuInv
      <3>6. FlightInv'
        BY <1>2, <2>1, <3>2, <3>3 DEF FlightInv
      <3> QED BY <3>4, <3>5, <3>6
    <2>5. CASE Submit
      <3> SUFFICES ASSUME ~timedOut PROVE RestInv'
        BY <1>2 DEF PromptInv, MenuInv, FlightInv, Settled
      <3>1. ~tui.prompt
        BY DEF PromptInv
      <3>2. PICK k \in Kinds : /\ Send(k)
                               /\ tui' = IF k \in {"request", "run_script"} THEN tui
                                         ELSE [tui EXCEPT !.inFlight = TRUE]
        BY <2>5, <3>1 DEF Submit
      <3>3. wire' = Append(wire, k) /\ k \in Messages /\ k # "answer" /\ "answer" \in Messages
        BY <3>2, KindsApart DEF Send, Messages
      <3>4. /\ Within("answer", wire') <=> Within("answer", wire)
            /\ Once("answer", wire) => Once("answer", wire')
            /\ Within(k, wire')
        BY <1>3, <3>3, AppendedWithin
      <3>5. tui'.prompt = tui.prompt /\ tui'.menu = tui.menu
        BY <1>3, <3>2
      <3>6. PromptInv'
        BY <1>2, <2>1, <3>5 DEF PromptInv
      <3>7. MenuInv'
        BY <1>2, <2>1, <3>4, <3>5 DEF MenuInv
      <3>8. FlightInv'
        BY <3>4 DEF FlightInv
      <3> QED BY <3>6, <3>7, <3>8
    <2> QED BY <1>4, <2>2, <2>3, <2>4, <2>5 DEF UserStep
  <1>5. CASE TuiStep
    <2>1. out # <<>> /\ out' = Tail(out) /\ wire' = wire
      BY <1>5 DEF TuiStep, Show
    <2>2. \A x : /\ Within(x, out) <=> x = Head(out) \/ Within(x, out')
                 /\ Once(x, out) => Once(x, out') /\ (x = Head(out) => ~Within(x, out'))
      BY <1>3, <2>1, TakenWithin
    <2>6. Precede("context", "sel_request", out) =>
             /\ Precede("context", "sel_request", out')
             /\ Head(out) = "sel_request" => ~Within("context", out')
      BY <1>3, <2>1, TakenPrecede
    <2> SUFFICES ASSUME ~timedOut PROVE RestInv'
      BY <1>2 DEF PromptInv, MenuInv, FlightInv, Settled
    <2>3. Head(out) \notin {"req_input", "req_blank"}
      BY <2>2 DEF PromptInv
    <2>4. CASE Head(out) = "sel_request"
      <3>1. tui' = [tui EXCEPT !.prompt = FALSE, !.menu = TRUE]
        BY <1>5, <2>4 DEF TuiStep, Show
      <3>2. ~tui'.prompt /\ tui'.menu /\ tui'.inFlight = tui.inFlight
        BY <1>3, <3>1
      <3>3. PromptInv'
        BY <1>2, <2>2, <3>2 DEF PromptInv
      <3>4. MenuInv'
        BY <1>2, <2>1, <2>2, <2>4, <2>6, <3>2 DEF MenuInv
      <3>5. FlightInv'
        BY <1>2, <2>1, <2>2, <2>4, <3>2 DEF FlightInv
      <3> QED BY <3>3, <3>4, <3>5
    <2>7. CASE Head(out) = "context"
      <3>1. tui' = [prompt |-> FALSE, menu |-> FALSE, inFlight |-> FALSE]
        BY <1>5, <2>7 DEF TuiStep, Show
      <3>2. ~tui'.prompt /\ ~tui'.menu /\ ~tui'.inFlight
        BY <1>3, <3>1
      <3>3. PromptInv'
        BY <1>2, <2>2, <3>2 DEF PromptInv
      <3>4. MenuInv'
        BY <1>2, <2>1, <2>2, <2>6, <2>7, <3>2 DEF MenuInv
      <3>5. FlightInv'
        BY <3>2 DEF FlightInv
      <3> QED BY <3>3, <3>4, <3>5
    <2>5. CASE Head(out) \notin {"sel_request", "context"}
      <3>1. tui' = [tui EXCEPT !.inFlight = FALSE]
        BY <1>5, <2>3, <2>5 DEF TuiStep, Show
      <3>2. tui'.prompt = tui.prompt /\ tui'.menu = tui.menu /\ ~tui'.inFlight
        BY <1>3, <3>1
      <3>3. PromptInv'
        BY <1>2, <2>2, <3>2 DEF PromptInv
      <3>4. MenuInv'
        BY <1>2, <2>1, <2>2, <2>5, <2>6, <3>2 DEF MenuInv
      <3>5. FlightInv'
        BY <3>2 DEF FlightInv
      <3> QED BY <3>3, <3>4, <3>5
    <2> QED BY <2>4, <2>5, <2>7
  <1> QED BY <1>4, <1>5

\* The read thread hands a line or an answer over; a cancellation is neither.
LEMMA RestReceive ==
    ASSUME IInv, RestInv, Receive, UNCHANGED <<out, loopVars>>
    PROVE  RestInv'
  <1> USE DEF IInv, RestInv
  <1>1. /\ wire \in Seq(Messages) /\ wire # <<>> /\ wire' = Tail(wire) /\ inputs \in Nat
        /\ commands \in Seq(Kinds)
        /\ UNCHANGED <<tui, out, main, timedOut>>
    BY DEF TypeOK, Receive, sidecarVars, loopVars
  <1>2. \A x : /\ Within(x, wire) <=> x = Head(wire) \/ Within(x, wire')
               /\ Once(x, wire) => Once(x, wire') /\ (x = Head(wire) => ~Within(x, wire'))
    BY <1>1, TakenWithin
  <1>3. UNCHANGED <<on, shutdown>> /\ (at'[Main] \in {"parking", "asleep"} => at[Main] \in {"parking", "asleep"})
    <2>1. CASE Head(wire) = "cancel"
      BY <2>1 DEF Receive, terminalVars
    <2>2. CASE Head(wire) # "cancel"
      BY <2>2, KindsApart DEF Receive, Enqueue, NotifyOne, TypeOK
    <2> QED BY <2>1, <2>2
  <1>4. Settled' => Settled
    BY <1>1, <1>3 DEF Settled
  <1>5. PromptInv'
    BY <1>1, <1>3 DEF PromptInv
  <1>6. CASE Head(wire) = "cancel"
    <2>1. UNCHANGED <<commands, inputs>> /\ "cancel" # "answer" /\ \A k \in Kinds : k # "cancel"
      BY <1>6, KindsApart DEF Receive, terminalVars
    <2>2. MenuInv'
      BY <1>1, <1>2, <1>3, <1>4, <1>6, <2>1 DEF MenuInv
    <2>3. FlightInv'
      BY <1>1, <1>2, <1>6, <2>1 DEF FlightInv
    <2> QED BY <1>5, <2>2, <2>3
  <1>7. CASE Head(wire) = "answer"
    <2>1. inputs' = inputs + 1 /\ commands' = commands /\ \A k \in Kinds : k # "answer"
      BY <1>7, KindsApart DEF Receive, Enqueue
    <2>2. MenuInv'
      BY <1>1, <1>2, <1>3, <1>4, <1>7, <2>1 DEF MenuInv
    <2>3. FlightInv'
      BY <1>1, <1>2, <1>7, <2>1 DEF FlightInv
    <2> QED BY <1>5, <2>2, <2>3
  <1>8. CASE Head(wire) \notin {"answer", "cancel"}
    <2>1. /\ inputs' = inputs /\ commands' = Append(commands, Head(wire)) /\ Head(wire) \in Kinds
      BY <1>1, <1>8 DEF Receive, Enqueue, Messages
    <2>2. MenuInv'
      BY <1>1, <1>2, <1>3, <1>4, <1>8, <2>1 DEF MenuInv
    <2>3. commands' # <<>>
      BY <1>1, <2>1, AppendProperties
    <2>4. FlightInv'
      BY <2>3 DEF FlightInv
    <2> QED BY <1>5, <2>2, <2>4
  <1> QED BY <1>6, <1>7, <1>8

\* Every step keeps RestInv.
LEMMA RestKeeps ==
    ASSUME IInv, RestInv, [Next]_vars
    PROVE  RestInv'
  <1> USE DEF IInv
  <1>1. CASE UserStep \/ TuiStep
    BY <1>1, RestTui
  <1>2. CASE (\E t \in Threads : WaitStep(t)) \/ RequestShutdown
    <2>1. UNCHANGED <<tui, wire, out, commands, inputs, on, timedOut, main>>
      BY <1>2 DEF WaitStep, Park, Sleep, RequestShutdown, tuiVars, loopVars, sidecarVars
    <2>2. Settled' => Settled
      <3>1. CASE RequestShutdown
        BY <3>1, KindsApart DEF RequestShutdown, Settled, TypeOK, sidecarVars
      <3>2. CASE \E t \in Threads : WaitStep(t)
        BY <3>2, KindsApart DEF WaitStep, Park, Sleep, Wakes, Settled, TypeOK, sidecarVars
      <3> QED BY <1>2, <3>1, <3>2
    <2> QED BY <2>1, <2>2, RestSame
  <1>3. CASE ReceiverStep
    <2>1. CASE Receive
      BY <1>3, <2>1, RestReceive DEF ReceiverStep
    <2>2. CASE ~Receive
      <3>1. UNCHANGED <<tui, wire, out, commands, inputs, on, at, shutdown, timedOut, main>>
        BY <1>3, <2>2 DEF ReceiverStep, RequestCancel, TakeSidecar, JoinVictim, Acknowledge, tuiVars,
                          terminalVars, sidecarVars, loopVars
      <3> QED BY <3>1, RestSame DEF Settled
    <2> QED BY <2>1, <2>2
  <1>4. CASE \E g \in Readers : ScriptStep(g) \/ ScriptChoice(g)
    <2>1. PICK g \in Readers : ScriptStep(g) \/ ScriptChoice(g)
      BY <1>4
    <2>2. UNCHANGED <<tui, wire, main>>
      BY <2>1 DEF ScriptStep, ScriptChoice, tuiVars, loopVars
    <2>3. CASE Finish(g)
      <3>1. UNCHANGED <<out, commands, inputs, on, at, shutdown, timedOut>>
        BY <2>3 DEF Finish, terminalVars
      <3> QED BY <2>2, <3>1, RestSame DEF Settled
    <2>4. CASE GiveUp(g)
      BY <2>4 DEF GiveUp, RestInv, PromptInv, MenuInv, FlightInv, Settled
    <2>5. CASE timedOut /\ (Ask(g) \/ Answered(g))
      <3>1. timedOut'
        BY <2>5 DEF Ask, Answered, sidecarVars
      <3> QED BY <3>1 DEF RestInv, PromptInv, MenuInv, FlightInv, Settled
    <2>6. CASE ~timedOut /\ (Ask(g) \/ Answered(g))
      <3>1. timedOut' = timedOut
        BY <2>6 DEF Ask, Answered, sidecarVars
      <3>2. script[g] = "running" /\ main = "waiting"
        BY <2>6 DEF Ask, Answered, Leave, OwnerInv
      <3>3. CASE Ask(g)
        <4>1. \A u \in Threads : at[u] = "out"
          BY <2>6, <3>2, <3>3, KindsApart DEF Ask, OwnerInv
        <4> QED BY <2>2, <3>1, <3>2, <3>3, <4>1, RestRead, KindsApart DEF Ask
      <3>4. CASE Answered(g)
        BY <2>2, <3>1, <3>2, <3>4, RestLeave, KindsApart DEF Answered
      <3> QED BY <2>6, <3>3, <3>4
    <2> QED BY <2>1, <2>3, <2>4, <2>5, <2>6 DEF ScriptStep, ScriptChoice
  <1>5. CASE MainStep
    <2>1. UNCHANGED <<tui, wire, timedOut>>
      BY <1>5 DEF MainStep, tuiVars, Prompt, TakeLine, Dispatch, RunPlain, RunInteractive, TakeAnswer, RunScript,
                  JoinOld, Execute, ExecuteReturns, End, Report, Goodbye, sidecarVars
    <2>2. CASE timedOut
      BY <2>1, <2>2 DEF RestInv, PromptInv, MenuInv, FlightInv, Settled
    <2>3. CASE ~timedOut /\ (Prompt \/ RunInteractive)
      <3>1. \A u \in Threads : at[u] = "out"
        BY <2>3, KindsApart DEF Prompt, RunInteractive, OwnerInv
      <3>2. CASE Prompt /\ exiting
        <4>1. UNCHANGED <<out, commands, inputs, on, at, shutdown>> /\ main' # "reading"
          BY <3>2 DEF Prompt, terminalVars
        <4> QED BY <2>1, <4>1, RestSame DEF Settled
      <3>3. CASE (Prompt /\ ~exiting) \/ (RunInteractive /\ line = "ask")
        BY <2>1, <3>1, <3>3, RestRead, KindsApart DEF Prompt, RunInteractive
      <3>4. CASE RunInteractive /\ line # "ask"
        BY <2>1, <3>1, <3>4, RestMenu, KindsApart DEF RunInteractive
      <3> QED BY <2>3, <3>2, <3>3, <3>4
    <2>4. CASE TakeLine \/ TakeAnswer
      BY <2>1, <2>4, RestLeave, KindsApart DEF TakeLine, TakeAnswer
    <2>5. CASE ~timedOut /\ (Report \/ Goodbye \/ Dispatch \/ RunPlain)
      <3>1. UNCHANGED <<commands, inputs, on, at, shutdown>> /\ main' # "reading"
        BY <2>5 DEF Report, Goodbye, Dispatch, RunPlain, terminalVars
      <3>2. \/ out' = out
            \/ \E e \in {"complete", "cancelled", "shutdown", "context"} : out' = Append(out, e)
            \/ out' = Append(Append(out, "context"), "complete")
        <4>1. out \o <<"context", "complete">> = Append(Append(out, "context"), "complete")
          BY TwoAppended DEF TypeOK, Events
        <4> QED BY <2>5, <4>1 DEF Report, Goodbye, Dispatch, RunPlain
      <3>3. CASE out' = out
        BY <2>1, <3>1, <3>3, RestSame DEF Settled
      <3>4. on[Main] = "none"
        <4>1. main \in {"report", "goodbye", "dispatch", "run"}
          BY <2>5 DEF Report, Goodbye, Dispatch, RunPlain
        <4> QED BY <4>1, KindsApart DEF OwnerInv, TerminalOK
      <3> QED BY <2>1, <3>1, <3>2, <3>3, <3>4, RestEvent
    <2>6. CASE RunScript \/ JoinOld \/ Execute \/ ExecuteReturns \/ End
      <3>1. UNCHANGED <<out, commands, inputs, on, at, shutdown>> /\ main' # "reading"
        BY <2>6 DEF RunScript, JoinOld, Execute, ExecuteReturns, End, terminalVars
      <3> QED BY <2>1, <3>1, RestSame DEF Settled
    <2> QED BY <1>5, <2>2, <2>3, <2>4, <2>5, <2>6 DEF MainStep
  <1>6. CASE UNCHANGED vars
    <2>1. UNCHANGED <<tui, wire, out, commands, inputs, on, at, shutdown, timedOut, main>>
      BY <1>6 DEF vars, tuiVars, terminalVars, loopVars, sidecarVars
    <2> QED BY <2>1, RestSame DEF Settled
  <1> QED BY <1>1, <1>2, <1>3, <1>4, <1>5, <1>6 DEF Next

\* When the engine rests in a wait of its main thread, whatever was typed,
\* cancelled or disconnected before, the TUI asks for what the engine waits
\* for, and shows no execution at the prompt.
THEOREM TuiAgrees == Spec => []TuiAgreesAtRest
  <1>1. Init => RestInv
    <2> SUFFICES ASSUME Init PROVE RestInv
      OBVIOUS
    <2>1. \A x, y : ~Within(x, <<>>) /\ Once(x, <<>>) /\ Precede(y, x, <<>>)
      <3>1. DOMAIN <<>> = {}
        OBVIOUS
      <3> QED BY <3>1 DEF Within, Once, Precede
    <2>2. out = <<>> /\ wire = <<>> /\ inputs = 0 /\ main = "prompt" /\ ~tui.prompt /\ ~tui.menu
          /\ \A t \in Threads : on[t] = "none"
      BY DEF Init
    <2>3. PromptInv /\ FlightInv
      BY <2>1, <2>2, KindsApart DEF PromptInv, FlightInv
    <2>4. on[Main] = "none"
      BY <2>2, KindsApart
    <2>5. MenuInv
      BY <2>1, <2>2, <2>4 DEF MenuInv
    <2> QED BY <2>3, <2>5 DEF RestInv
  <1>2. IInv /\ RestInv /\ [Next]_vars => IInv' /\ RestInv'
    BY NextKeeps, RestKeeps
  <1>3. ASSUME IInv, RestInv PROVE TuiAgreesAtRest
    <2> SUFFICES ASSUME at[Main] = "asleep", wire = <<>>, out = <<>>, Queue(Main) = 0, ~timedOut
                 PROVE  /\ main = "reading" => ~tui.inFlight
                        /\ tui.prompt = (on[Main] = "inputs")
                        /\ tui.menu = (on[Main] = "menu")
      BY DEF TuiAgreesAtRest
    <2>1. \A x : ~Within(x, out) /\ ~Within(x, wire)
      <3>1. DOMAIN <<>> = {}
        OBVIOUS
      <3> QED BY <3>1 DEF Within
    <2>2. on[Main] \in {"commands", "menu"} /\ ~tui.prompt /\ (main = "reading" => on[Main] = "commands")
      BY <1>3, KindsApart DEF IInv, TerminalOK, RestInv, PromptInv
    <2>3. (on[Main] = "menu" => inputs = 0) /\ (on[Main] = "commands" => commands = <<>>)
      BY <1>3, <2>2 DEF Queue, IInv, TypeOK
    <2>4. main = "reading" => ~tui.inFlight
      BY <1>3, <2>1, <2>2, <2>3 DEF RestInv, FlightInv
    <2>5. tui.menu <=> on[Main] = "menu"
      BY <1>3, <2>1, <2>2, <2>3 DEF RestInv, MenuInv, Settled
    <2>6. tui.prompt \in BOOLEAN /\ tui.menu \in BOOLEAN
      BY <1>3 DEF IInv, TypeOK
    <2>7. tui.prompt = (on[Main] = "inputs")
      <3>1. tui.prompt = FALSE /\ (on[Main] = "inputs") = FALSE
        BY <2>2, <2>6
      <3> QED BY <3>1
    <2>8. tui.menu = (on[Main] = "menu")
      BY <2>5, <2>6
    <2> QED BY <2>4, <2>7, <2>8
  <1> QED BY <1>1, <1>2, <1>3, InitInv, PTL DEF Spec

-----------------------------------------------------------------------------
(* The chains of custom commands the loop's lines may be: CustomCommands,  *)
(* for any names, lines and storages.                                      *)

(* A step that fails sets the flag and the status together, and only a new *)
(* line takes the flag back.                                               *)
LEMMA EndsFast ==
    ASSUME NEW result, Ends(result), status = "executing", FailFast
    PROVE  FailFast'
  BY DEF Ends, FailFast

(* What the prompt and the chain do with the status a line left.           *)
LEMMA BetweenSteps ==
    ASSUME FailFast, Type \/ LineDone \/ NextStep \/ ChainEnds
    PROVE  FailFast'
  BY DEF FailFast, Type, LineDone, NextStep, ChainEnds

(* The engine's own lines, and those the context or the shell decides on.  *)
LEMMA EngineLines ==
    ASSUME FailFast,
           Refused \/ ExecuteSystemOp \/ SwitchContext \/ GlobalCommand
           \/ HandleRawLine \/ HandleCommand
    PROVE  FailFast'
  <1>1. CASE Refused
    BY <1>1, EndsFast DEF Refused, Executing
  <1>2. CASE ExecuteSystemOp
    BY <1>2, EndsFast DEF ExecuteSystemOp, Executing
  <1>3. CASE SwitchContext
    BY <1>3, EndsFast DEF SwitchContext, Executing
  <1>4. CASE GlobalCommand
    <2>1. CASE Exit
      BY <2>1 DEF Exit, Executing, FailFast
    <2>2. CASE Back \/ Reset
      BY <2>2, EndsFast DEF Back, Reset, Executing
    <2>3. ASSUME NEW op, Answers(op) PROVE FailFast'
      BY <2>3, EndsFast DEF Answers, Executing
    <2> QED BY <1>4, <2>1, <2>2, <2>3 DEF GlobalCommand, Help, ListContexts,
               Status, Save, Shared, Bug
  <1>5. ASSUME status = "executing", EditorHandles PROVE FailFast'
    BY <1>5, EndsFast DEF EditorHandles
  <1>6. CASE HandleRawLine
    BY <1>5, <1>6 DEF HandleRawLine
  <1>7. CASE HandleCommand
    BY <1>5, <1>7, EndsFast DEF HandleCommand, Executing
  <1> QED BY <1>1, <1>2, <1>3, <1>4, <1>6, <1>7

(* An invocation begins a chain with a line that has not failed; each      *)
(* command of the context ends its line.                                   *)
LEMMA CustomLines ==
    ASSUME FailFast,
           Invoke \/ InvokeFails \/ Expression \/ CustomCommand
    PROVE  FailFast'
  <1>1. CASE Invoke
    BY <1>1 DEF Invoke, FailFast
  <1>2. CASE InvokeFails
    BY <1>2, EndsFast DEF InvokeFails, Invoking, Executing
  <1>3. CASE Expression
    BY <1>3, EndsFast DEF Expression, Executing
  <1>4. CASE CustomCommand
    <2>1. status = "executing"
      BY <1>4 DEF CustomCommand, Define, List, ShowDefinition, Delete,
           UnknownOperation, InCustom, Executing
    <2>2. ASSUME NEW result, NEW s, Leaves(result, s) PROVE FailFast'
      BY <2>1, <2>2, EndsFast DEF Leaves
    <2>3. CASE Define
      BY <2>2, <2>3 DEF Define, Unread
    <2>4. CASE List
      BY <2>2, <2>4 DEF List
    <2>5. CASE ShowDefinition
      BY <2>2, <2>5 DEF ShowDefinition
    <2>6. CASE Delete
      BY <2>2, <2>6 DEF Delete
    <2>7. CASE UnknownOperation
      BY <2>2, <2>7 DEF UnknownOperation
    <2> QED BY <1>4, <2>3, <2>4, <2>5, <2>6, <2>7 DEF CustomCommand
  <1> QED BY <1>1, <1>2, <1>3, <1>4

(* Once a step of a line has failed, at whatever depth of custom commands, *)
(* nothing more of the line is executed and no command around it counts as *)
(* done (ExecuteCustomCommand returns CUSTOM_CHAIN_FAILED).                *)
THEOREM FailuresStopTheLine == CommandsSpec => []FailFast
  <1>1. CommandsInit => FailFast
    BY DEF CommandsInit, FailFast
  <1>2. FailFast /\ [CommandsNext]_commandVars => FailFast'
    <2>1. CASE UNCHANGED commandVars
      BY <2>1 DEF commandVars, FailFast
    <2> QED BY <2>1, BetweenSteps, EngineLines, CustomLines DEF CommandsNext, Run
  <1> QED BY <1>1, <1>2, PTL DEF CommandsSpec

-----------------------------------------------------------------------------
(* Sequences, and the recursive function Filtered (CustomCommands): the    *)
(* elements of a sequence at given positions.                              *)

Less == {ss \in Nat \X Nat : ss[1] < ss[2]}

\* A set of numbers that is not empty has a least element, and Min is it.
LEMMA MinIs ==
    ASSUME NEW A \in SUBSET Nat, A # {}
    PROVE  Min(A) \in A /\ \A y \in A : Min(A) <= y
  <1>1. IsWellFoundedOn(Less, Nat)
    BY NatLessThanWellFounded DEF OpToRel, Less
  <1>2. PICK x \in A : \A y \in A : <<y, x>> \notin Less
    BY <1>1, WFMin
  <1>3. \A y \in A : x <= y
    <2> SUFFICES ASSUME NEW y \in A PROVE x <= y
      OBVIOUS
    <2>1. x \in Nat /\ y \in Nat
      OBVIOUS
    <2>2. y < x => <<y, x>> \in Less
      BY <2>1 DEF Less
    <2> QED BY <1>2, <2>1, <2>2
  <1>4. \E z \in A : \A y \in A : z <= y
    BY <1>3
  <1> QED BY <1>4 DEF Min

\* Induction up to n, by the smallest number outside of T.
LEMMA UpTo ==
    ASSUME NEW n \in Nat, NEW T, 0 \in T, \A i \in 0 .. n - 1 : i \in T => i + 1 \in T
    PROVE  0 .. n \subseteq T
  <1> DEFINE Rest == {i \in 0 .. n : i \notin T}
  <1>1. SUFFICES ASSUME Rest # {} PROVE FALSE
    OBVIOUS
  <1> DEFINE x == Min(Rest)
  <1>2. Rest \in SUBSET Nat
    OBVIOUS
  <1>3. x \in Rest /\ \A y \in Rest : x <= y
    BY <1>1, <1>2, MinIs
  <1> HIDE DEF x
  <1>4. x \in 1 .. n /\ x - 1 \in 0 .. n - 1 /\ ~(x <= x - 1) /\ (x - 1) + 1 = x
    BY <1>3
  <1>5. x - 1 \notin Rest
    BY <1>3, <1>4
  <1> QED BY <1>3, <1>4, <1>5

\* A set of numbers up to n that is not empty has a greatest element.
LEMMA MaxIs ==
    ASSUME NEW n \in Nat, NEW A \in SUBSET (1 .. n), A # {}
    PROVE  Max(A) \in A
  <1> DEFINE B == {n - y : y \in A}
  <1>1. B \in SUBSET Nat /\ B # {}
    <2>1. \A y \in A : y \in 1 .. n
      OBVIOUS
    <2>2. \A y \in 1 .. n : n - y \in Nat
      OBVIOUS
    <2> QED BY <2>1, <2>2
  <1>2. Min(B) \in B /\ \A b \in B : Min(B) <= b
    BY <1>1, MinIs
  <1>3. PICK x \in A : Min(B) = n - x
    BY <1>2
  <1>4. \A y \in A : n - y \in B
    OBVIOUS
  <1>5. \A y \in A : n - x <= n - y
    BY <1>2, <1>3, <1>4
  <1>6. \A y \in A : x >= y
    BY <1>5
  <1>7. \E z \in A : \A y \in A : z >= y
    BY <1>6
  <1> QED BY <1>7 DEF Max

\* q is a sequence, of whatever.
IsSeq(q) == q \in Seq({q[i] : i \in DOMAIN q})

\* A sequence is a function on 1 .. Len.
LEMMA IsSeqIs ==
    ASSUME NEW q, IsSeq(q)
    PROVE  Len(q) \in Nat /\ DOMAIN q = 1 .. Len(q)
  BY DEF IsSeq

LEMMA FunIsSeq ==
    ASSUME NEW q, NEW n \in Nat, DOMAIN q = 1 .. n, q = [i \in 1 .. n |-> q[i]]
    PROVE  IsSeq(q) /\ Len(q) = n
  BY DEF IsSeq

\* Another element at the end.
LEMMA AppendIs ==
    ASSUME NEW p, IsSeq(p), NEW x
    PROVE  IsSeq(Append(p, x)) /\ Len(Append(p, x)) = Len(p) + 1 /\ Append(p, x)[Len(p) + 1] = x
           /\ \A i \in 1 .. Len(p) : Append(p, x)[i] = p[i]
  <1> DEFINE m == Len(p)
             r == Append(p, x)
             S == {p[a] : a \in DOMAIN p} \cup {x}
  <1>1. p \in Seq(S) /\ x \in S /\ DOMAIN p = 1 .. m /\ m \in Nat
    BY DEF IsSeq
  <1> HIDE DEF S
  <1>2. r \in Seq(S) /\ Len(r) = m + 1 /\ (\A a \in 1 .. m : r[a] = p[a]) /\ r[m + 1] = x
    BY <1>1, AppendProperties
  <1>3. DOMAIN r = 1 .. m + 1 /\ 1 .. m + 1 = 1 .. m \cup {m + 1}
    BY <1>1, <1>2
  <1> HIDE DEF r, m
  <1>4. IsSeq(r)
    BY <1>1, <1>2, <1>3 DEF IsSeq
  <1> QED BY <1>2, <1>4 DEF r, m

\* All but the last element.
LEMMA FrontIs ==
    ASSUME NEW p, IsSeq(p), p # <<>>
    PROVE  IsSeq(Front(p)) /\ Len(Front(p)) = Len(p) - 1
  <1> DEFINE m == Len(p)
             r == [i \in 1 .. m - 1 |-> p[i]]
  <1>1. DOMAIN p = 1 .. m /\ m \in Nat /\ p = [i \in 1 .. m |-> p[i]]
    BY DEF IsSeq
  <1>2. m # 0
    BY <1>1 DEF IsSeq
  <1>3. Front(p) = r
    BY <1>1, <1>2 DEF Front
  <1>4. m - 1 \in Nat /\ DOMAIN r = 1 .. m - 1
    BY <1>1, <1>2
  <1>5. IsSeq(r) /\ Len(r) = m - 1
    BY <1>4, FunIsSeq
  <1> QED BY <1>3, <1>5

\* p is made of the first n elements of q at positions in I.
Picks(p, q, I, n) ==
    /\ IsSeq(p)
    /\ \A a \in DOMAIN p : \E i \in I \cap 1 .. n : p[a] = q[i]
    /\ \A i \in I \cap 1 .. n : \E a \in DOMAIN p : p[a] = q[i]

\* One more element that is picked.
LEMMA PicksStep ==
    ASSUME NEW q, NEW I, NEW n \in Nat, n + 1 \in I, NEW p, Picks(p, q, I, n)
    PROVE  Picks(Append(p, q[n + 1]), q, I, n + 1)
  <1> DEFINE m == Len(p)
             r == Append(p, q[n + 1])
  <1>1. IsSeq(p) /\ DOMAIN p = 1 .. m /\ m \in Nat
    BY IsSeqIs DEF Picks
  <1>2. IsSeq(r) /\ Len(r) = m + 1 /\ (\A a \in 1 .. m : r[a] = p[a]) /\ r[m + 1] = q[n + 1]
    BY <1>1, AppendIs
  <1>3. DOMAIN r = 1 .. m + 1 /\ 1 .. m + 1 = 1 .. m \cup {m + 1} /\ 1 .. n + 1 = 1 .. n \cup {n + 1}
    BY <1>1, <1>2, IsSeqIs
  <1> HIDE DEF r, m
  <1>4. \A a \in DOMAIN r : \E i \in I \cap 1 .. n + 1 : r[a] = q[i]
    <2> SUFFICES ASSUME NEW a \in 1 .. m + 1 PROVE \E i \in I \cap 1 .. n + 1 : r[a] = q[i]
      BY <1>3
    <2>1. CASE a = m + 1
      BY <2>1, <1>2
    <2>2. CASE a \in 1 .. m
      <3>1. PICK i \in I \cap 1 .. n : p[a] = q[i]
        BY <2>2, <1>1 DEF Picks
      <3> QED BY <3>1, <2>2, <1>2
    <2> QED BY <2>1, <2>2, <1>3
  <1>5. \A i \in I \cap 1 .. n + 1 : \E a \in DOMAIN r : r[a] = q[i]
    BY <1>1, <1>2, <1>3 DEF Picks
  <1>6. Picks(r, q, I, n + 1)
    BY <1>2, <1>4, <1>5 DEF Picks
  <1> QED BY <1>6 DEF r

\* f is what Filtered computes of the first n elements.
Filters(f, q, I, n) ==
    /\ DOMAIN f = 0 .. n /\ f[0] = <<>>
    /\ \A i \in 1 .. n : f[i] = IF i \in I THEN Append(f[i - 1], q[i]) ELSE f[i - 1]

\* The recursion has a solution.
LEMMA FilterExists ==
    ASSUME NEW q, IsSeq(q), NEW I
    PROVE  \E f : f = [i \in 0 .. Len(q) |->
                          IF i = 0 THEN <<>>
                          ELSE IF i \in I THEN Append(f[i - 1], q[i]) ELSE f[i - 1]]
  <1> DEFINE T == {n \in 0 .. Len(q) : \E f : Filters(f, q, I, n)}
  <1>1. Len(q) \in Nat
    BY DEF IsSeq
  <1>2. 0 \in T
    <2> DEFINE z == [i \in 0 .. 0 |-> <<>>]
    <2>1. DOMAIN z = 0 .. 0 /\ z[0] = <<>> /\ 1 .. 0 = {}
      OBVIOUS
    <2>2. Filters(z, q, I, 0)
      BY <2>1 DEF Filters
    <2> QED BY <1>1, <2>2
  <1>3. ASSUME NEW n \in 0 .. Len(q) - 1, n \in T PROVE n + 1 \in T
    <2>1. PICK f : Filters(f, q, I, n)
      BY <1>3
    <2> DEFINE x == IF n + 1 \in I THEN Append(f[n], q[n + 1]) ELSE f[n]
               g == [i \in 0 .. n + 1 |-> IF i = n + 1 THEN x ELSE f[i]]
    <2>2. n \in Nat /\ n + 1 \in 0 .. Len(q)
      BY <1>1
    <2>3. g[n + 1] = x /\ g[n] = f[n] /\ DOMAIN g = 0 .. n + 1 /\ \A i \in 0 .. n : g[i] = f[i]
      BY <2>2
    <2>4. ASSUME NEW i \in 1 .. n + 1
          PROVE  g[i] = IF i \in I THEN Append(g[i - 1], q[i]) ELSE g[i - 1]
      <3>1. CASE i = n + 1
        BY <2>2, <2>3, <3>1
      <3>2. CASE i \in 1 .. n
        <4> HIDE DEF g
        <4>1. i \in 0 .. n /\ i - 1 \in 0 .. n
          BY <3>2, <2>2
        <4> QED BY <2>1, <2>3, <3>2, <4>1 DEF Filters
      <3> QED BY <3>1, <3>2, <2>2
    <2> HIDE DEF g
    <2>5. g[0] = <<>>
      BY <2>1, <2>2, <2>3 DEF Filters
    <2>6. Filters(g, q, I, n + 1)
      BY <2>3, <2>4, <2>5 DEF Filters
    <2> QED BY <2>2, <2>6
  <1> HIDE DEF T
  <1>4. 0 .. Len(q) \subseteq T
    BY <1>1, <1>2, <1>3, UpTo
  <1>5. PICK f : Filters(f, q, I, Len(q))
    BY <1>1, <1>4 DEF T
  <1> DEFINE h == [i \in 0 .. Len(q) |-> IF i = 0 THEN <<>>
                          ELSE IF i \in I THEN Append(f[i - 1], q[i]) ELSE f[i - 1]]
             k == [i \in 0 .. Len(q) |-> h[i]]
  <1>6. \A i \in 0 .. Len(q) : h[i] = f[i]
    <2> SUFFICES ASSUME NEW i \in 0 .. Len(q) PROVE h[i] = f[i]
      OBVIOUS
    <2>1. CASE i = 0
      BY <2>1, <1>5 DEF Filters
    <2>2. CASE i \in 1 .. Len(q)
      BY <2>2, <1>5 DEF Filters
    <2> QED BY <2>1, <2>2, <1>1
  <1>7. h = [i \in 0 .. Len(q) |-> IF i = 0 THEN <<>>
                          ELSE IF i \in I THEN Append(h[i - 1], q[i]) ELSE h[i - 1]]
    <2>1. \A i \in 1 .. Len(q) : h[i - 1] = f[i - 1]
      <3> SUFFICES ASSUME NEW i \in 1 .. Len(q) PROVE h[i - 1] = f[i - 1]
        OBVIOUS
      <3>1. i - 1 \in 0 .. Len(q)
        BY <1>1
      <3> QED BY <3>1, <1>6
    <2> DEFINE w == [i \in 0 .. Len(q) |-> IF i = 0 THEN <<>>
                          ELSE IF i \in I THEN Append(h[i - 1], q[i]) ELSE h[i - 1]]
    <2>2. ASSUME NEW i \in 0 .. Len(q) PROVE h[i] = w[i]
      <3>1. CASE i = 0
        BY <3>1
      <3>2. CASE i \in 1 .. Len(q)
        <4>1. h[i - 1] = f[i - 1] /\ i # 0
          BY <2>1, <3>2
        <4>2. h[i] = IF i \in I THEN Append(f[i - 1], q[i]) ELSE f[i - 1]
          BY <4>1
        <4>3. w[i] = IF i \in I THEN Append(h[i - 1], q[i]) ELSE h[i - 1]
          BY <4>1
        <4> QED BY <4>1, <4>2, <4>3
      <3> QED BY <3>1, <3>2, <1>1
    <2>3. DOMAIN h = 0 .. Len(q) /\ DOMAIN w = 0 .. Len(q)
      OBVIOUS
    <2>4. h = w
      <3> HIDE DEF w
      <3>1. h = [i \in 0 .. Len(q) |-> h[i]]
        OBVIOUS
      <3>2. w = [i \in 0 .. Len(q) |-> w[i]]
        BY DEF w
      <3> QED BY <3>1, <3>2, <2>2
    <2> QED BY <2>4
  <1> QED BY <1>7

\* What Filtered returns: the elements of q at the positions in I, all of them.
LEMMA FilteredIs ==
    ASSUME NEW q, IsSeq(q), NEW I
    PROVE  Picks(Filtered(q, I), q, I, Len(q))
  <1> DEFINE F == CHOOSE f : f = [i \in 0 .. Len(q) |->
                          IF i = 0 THEN <<>>
                          ELSE IF i \in I THEN Append(f[i - 1], q[i]) ELSE f[i - 1]]
  <1>1. F = [i \in 0 .. Len(q) |-> IF i = 0 THEN <<>>
                          ELSE IF i \in I THEN Append(F[i - 1], q[i]) ELSE F[i - 1]]
    <2>1. \E f : f = [i \in 0 .. Len(q) |-> IF i = 0 THEN <<>>
                          ELSE IF i \in I THEN Append(f[i - 1], q[i]) ELSE f[i - 1]]
      BY FilterExists
    <2> QED BY <2>1, Zenon
  <1>2. Filtered(q, I) = F[Len(q)]
    BY DEF Filtered
  <1> HIDE DEF F
  <1> DEFINE T == {n \in 0 .. Len(q) : Picks(F[n], q, I, n)}
  <1>3. Len(q) \in Nat
    BY DEF IsSeq
  <1>4. 0 \in T
    <2>1. F[0] = <<>>
      BY <1>1, <1>3
    <2>2. DOMAIN <<>> = {} /\ 1 .. 0 = {} /\ IsSeq(<<>>)
      BY DEF IsSeq
    <2>3. Picks(<<>>, q, I, 0)
      BY <2>2 DEF Picks
    <2> QED BY <1>3, <2>1, <2>3
  <1>5. ASSUME NEW n \in 0 .. Len(q) - 1, n \in T PROVE n + 1 \in T
    <2>1. n \in Nat /\ n + 1 \in 0 .. Len(q) /\ n + 1 # 0 /\ (n + 1) - 1 = n
      BY <1>3
    <2>2. F[n + 1] = IF n + 1 \in I THEN Append(F[n], q[n + 1]) ELSE F[n]
      BY <1>1, <2>1
    <2>3. Picks(F[n], q, I, n)
      BY <1>5
    <2>4. CASE n + 1 \in I
      BY <2>1, <2>2, <2>3, <2>4, PicksStep
    <2>5. CASE n + 1 \notin I
      <3>1. I \cap 1 .. n + 1 = I \cap 1 .. n
        BY <2>1, <2>5
      <3>2. Picks(F[n], q, I, n + 1)
        BY <2>3, <3>1 DEF Picks
      <3> QED BY <2>1, <2>2, <2>5, <3>2
    <2> QED BY <2>4, <2>5
  <1> HIDE DEF T
  <1>6. 0 .. Len(q) \subseteq T
    BY <1>3, <1>4, <1>5, UpTo
  <1>7. Len(q) \in T
    BY <1>3, <1>6
  <1> QED BY <1>2, <1>7 DEF T

-----------------------------------------------------------------------------
(* The table of custom commands: BodyIn says what the user sees in the     *)
(* storage, whatever its form.                                             *)

\* What Filtered returns, by the positions of q.
LEMMA FilteredHas ==
    ASSUME NEW q, IsSeq(q), NEW I
    PROVE  /\ IsSeq(Filtered(q, I))
           /\ \A a \in DOMAIN Filtered(q, I) : \E i \in DOMAIN q : i \in I /\ Filtered(q, I)[a] = q[i]
           /\ \A i \in DOMAIN q : i \in I =>
                 \E a \in DOMAIN Filtered(q, I) : Filtered(q, I)[a] = q[i]
  BY FilteredIs, IsSeqIs DEF Picks

\* Of no elements none is left.
LEMMA FilteredNone ==
    ASSUME NEW I
    PROVE  Filtered(<<>>, I) = <<>>
  <1> DEFINE b == Filtered(<<>>, I)
  <1>1. IsSeq(<<>>) /\ DOMAIN <<>> = {}
    BY DEF IsSeq
  <1>2. IsSeq(b) /\ \A a \in DOMAIN b : \E i \in DOMAIN <<>> : b[a] = <<>>[i]
    BY <1>1, FilteredHas
  <1> HIDE DEF b
  <1>3. DOMAIN b = {}
    BY <1>1, <1>2
  <1>4. b = <<>>
    BY <1>2, <1>3, IsSeqIs DEF IsSeq
  <1> QED BY <1>4 DEF b

\* Definitions as /define lets them in: with a body, and one for an id.
HasBodies(defs) == \A i \in DOMAIN defs : defs[i].body # <<>>
Agree(defs) == \A i, j \in DOMAIN defs : IdOf(defs[i]) = IdOf(defs[j]) => defs[i].body = defs[j].body
Proper(defs) == IsSeq(defs) /\ HasBodies(defs) /\ Agree(defs)

\* The definitions are the commands the user sees in the storage.
Kept(s, defs) ==
    \A id : /\ \A i \in DOMAIN defs : IdOf(defs[i]) = id => BodyIn(s, id) = defs[i].body
            /\ (\A i \in DOMAIN defs : IdOf(defs[i]) # id) => BodyIn(s, id) = <<>>

\* The registry of the first schema has names only.
StoreOK(s) ==
    /\ IsSeq(s.registry)
    /\ s.version < 2 => \A i \in DOMAIN s.registry : s.registry[i] = <<Legacy, s.registry[i][2]>>

\* The user sees one body for an id.
LEMMA KeptAgree ==
    ASSUME NEW s, NEW defs, Kept(s, defs)
    PROVE  Agree(defs)
  BY DEF Kept, Agree

\* Two storages with the same definitions are the same to the user.
LEMMA KeptSame ==
    ASSUME NEW s, NEW w, NEW defs, Kept(s, defs), Kept(w, defs), NEW id
    PROVE  BodyIn(w, id) = BodyIn(s, id)
  <1>1. CASE \A i \in DOMAIN defs : IdOf(defs[i]) # id
    BY <1>1 DEF Kept
  <1>2. CASE \E i \in DOMAIN defs : IdOf(defs[i]) = id
    BY <1>2 DEF Kept
  <1> QED BY <1>1, <1>2

\* What is written is found again.
LEMMA WrittenIs ==
    ASSUME NEW s, NEW defs, Proper(defs)
    PROVE  StoreOK(Written(s, defs)) /\ Kept(Written(s, defs), defs)
  <1> DEFINE w == Written(s, defs)
             ids == [i \in DOMAIN defs |-> IdOf(defs[i])]
             At(id) == {i \in DOMAIN defs : ids[i] = id}
  <1>1. Len(defs) \in Nat /\ DOMAIN defs = 1 .. Len(defs)
    BY IsSeqIs DEF Proper
  <1>2. /\ w.version = 2 /\ w.registry = ids
        /\ DOMAIN w.entries = DOMAIN s.entries \cup {ids[i] : i \in DOMAIN defs}
        /\ \A id \in DOMAIN w.entries : At(id) # {} => w.entries[id] = Map(defs[Max(At(id))].body)
    BY DEF Written
  <1>3. IsSeq(w.registry)
    BY <1>1, <1>2, FunIsSeq
  <1> HIDE DEF w
  <1>4. StoreOK(w)
    BY <1>2, <1>3 DEF StoreOK
  <1>5. ASSUME NEW i \in DOMAIN defs
        PROVE  Entry(w, IdOf(defs[i])) = Map(defs[i].body)
    <2> DEFINE id == IdOf(defs[i])
    <2>1. i \in At(id) /\ At(id) \in SUBSET (1 .. Len(defs)) /\ id \in DOMAIN w.entries
      BY <1>1, <1>2
    <2>2. Max(At(id)) \in At(id)
      BY <1>1, <2>1, MaxIs
    <2>3. defs[Max(At(id))].body = defs[i].body
      BY <2>2 DEF Proper, Agree
    <2> QED BY <1>2, <2>1, <2>3 DEF Entry
  <1>6. ASSUME NEW i \in DOMAIN defs
        PROVE  IdNow(w, w.registry[i]) = IdOf(defs[i]) /\ Entry(w, w.registry[i]).body = defs[i].body
    <2>1. w.registry[i] = IdOf(defs[i])
      BY <1>2
    <2>2. Entry(w, w.registry[i]).form = "map" /\ Entry(w, w.registry[i]).body = defs[i].body
      BY <1>5, <2>1 DEF Map
    <2> QED BY <1>2, <2>1, <2>2 DEF IdNow, Decoded, Definition, IdOf
  <1>7. ASSUME NEW id
        PROVE  Listed(w, id) = {i \in DOMAIN defs : IdOf(defs[i]) = id}
    BY <1>2, <1>6 DEF Listed, Proper, HasBodies
  <1>8. ASSUME NEW i \in DOMAIN defs
        PROVE  BodyIn(w, IdOf(defs[i])) = defs[i].body
    <2> DEFINE L == Listed(w, IdOf(defs[i]))
    <2>1. i \in L /\ L \in SUBSET Nat
      BY <1>1, <1>7
    <2>2. Min(L) \in L
      BY <2>1, MinIs
    <2>3. Min(L) \in DOMAIN defs /\ IdOf(defs[Min(L)]) = IdOf(defs[i])
      BY <1>7, <2>2
    <2>4. Entry(w, w.registry[Min(L)]).body = defs[i].body
      BY <1>6, <2>3 DEF Proper, Agree
    <2> QED BY <2>1, <2>4 DEF BodyIn
  <1>9. ASSUME NEW id, \A i \in DOMAIN defs : IdOf(defs[i]) # id
        PROVE  BodyIn(w, id) = <<>>
    BY <1>7, <1>9 DEF BodyIn
  <1>10. Kept(w, defs)
    BY <1>8, <1>9 DEF Kept
  <1> QED BY <1>4, <1>10 DEF w

\* From the first schema: a name stands for one entry.
LEMMA MigratedIs ==
    ASSUME NEW s, StoreOK(s), s.version < 2
    PROVE  Proper(Migrated(s).defs) /\ Kept(s, Migrated(s).defs)
           /\ Migrated(s).store = Written(s, Migrated(s).defs)
  <1> DEFINE named == {i \in DOMAIN s.registry : /\ Entry(s, s.registry[i]).form = "text"
                                            /\ Entry(s, s.registry[i]).body # <<>>}
             q == [i \in DOMAIN s.registry |->
                      Definition(s.registry[i][2], Everywhere, Entry(s, s.registry[i]).body)]
             defs == Migrated(s).defs
  <1>1. defs = Filtered(q, named) /\ Migrated(s).store = Written(s, defs)
    BY DEF Migrated
  <1>2. Len(s.registry) \in Nat /\ DOMAIN s.registry = 1 .. Len(s.registry)
    BY IsSeqIs DEF StoreOK
  <1>3. IsSeq(q)
    BY <1>2, FunIsSeq
  <1>4. \A i \in DOMAIN s.registry : /\ IdOf(q[i]) = <<Everywhere, s.registry[i][2]>>
                                     /\ IdOf(q[i]) = IdNow(s, s.registry[i])
                                     /\ q[i].body = Entry(s, s.registry[i]).body
    BY DEF Definition, IdOf, IdNow
  <1>5. DOMAIN q = DOMAIN s.registry
    OBVIOUS
  <1> HIDE DEF q, defs
  <1>6. /\ IsSeq(defs)
        /\ \A a \in DOMAIN defs : \E i \in DOMAIN s.registry : i \in named /\ defs[a] = q[i]
        /\ \A i \in DOMAIN s.registry : i \in named => \E a \in DOMAIN defs : defs[a] = q[i]
    <2> HIDE DEF named
    <2>1. /\ IsSeq(defs)
          /\ \A a \in DOMAIN defs : \E i \in DOMAIN q : i \in named /\ defs[a] = q[i]
          /\ \A i \in DOMAIN q : i \in named => \E a \in DOMAIN defs : defs[a] = q[i]
      BY <1>1, <1>3, FilteredHas
    <2> QED BY <2>1, <1>5
  <1>7. HasBodies(defs)
    BY <1>4, <1>6 DEF HasBodies
  <1>8. ASSUME NEW id
        PROVE  Listed(s, id) = {i \in named : IdOf(q[i]) = id}
    BY <1>4 DEF Listed
  <1>9. ASSUME NEW i \in named, NEW j \in named, IdOf(q[i]) = IdOf(q[j])
        PROVE  q[i].body = q[j].body
    <2>1. s.registry[i][2] = s.registry[j][2]
      BY <1>4, <1>9
    <2>2. s.registry[i] = s.registry[j]
      BY <2>1 DEF StoreOK
    <2> QED BY <1>4, <2>2
  <1> HIDE DEF named
  <1>10. named \in SUBSET Nat
    BY <1>2 DEF named
  <1>11. ASSUME NEW a \in DOMAIN defs
         PROVE  BodyIn(s, IdOf(defs[a])) = defs[a].body
    <2>1. PICK i \in named : defs[a] = q[i]
      BY <1>6
    <2> DEFINE L == Listed(s, IdOf(defs[a]))
    <2>2. i \in L /\ L \in SUBSET Nat
      BY <1>8, <1>10, <2>1
    <2>3. Min(L) \in L
      BY <2>2, MinIs
    <2>4. Min(L) \in named /\ IdOf(q[Min(L)]) = IdOf(q[i]) /\ Min(L) \in DOMAIN s.registry
      BY <1>8, <2>1, <2>3 DEF named
    <2>5. Entry(s, s.registry[Min(L)]).body = q[i].body
      BY <1>4, <1>9, <2>4
    <2> QED BY <2>1, <2>2, <2>5 DEF BodyIn
  <1>12. ASSUME NEW id, \A a \in DOMAIN defs : IdOf(defs[a]) # id
         PROVE  BodyIn(s, id) = <<>>
    <2>1. Listed(s, id) = {}
      BY <1>6, <1>8, <1>12 DEF named
    <2> QED BY <2>1 DEF BodyIn
  <1>13. Kept(s, defs)
    BY <1>11, <1>12 DEF Kept
  <1> QED BY <1>1, <1>6, <1>7, <1>13, KeptAgree DEF Proper, defs

\* What the prompt and the commands read: the commands the user sees; and it
\* moves nothing but their form.
LEMMA ReadIs ==
    ASSUME NEW s, StoreOK(s)
    PROVE  /\ StoreOK(ReadDefinitions(s).store)
           /\ \A id : BodyIn(ReadDefinitions(s).store, id) = BodyIn(s, id)
           /\ ReadDefinitions(s).ok =>
                 Proper(ReadDefinitions(s).defs) /\ Kept(s, ReadDefinitions(s).defs)
           /\ ReadDefinitions(s).ok \/ ReadDefinitions(s).defs = <<>>
  <1> DEFINE r == ReadDefinitions(s)
             Id(i) == IdOf(Decoded(s, s.registry[i]))
             listed == {i \in DOMAIN s.registry : Entry(s, s.registry[i]).body # <<>>}
             first == {i \in listed : \A j \in listed : j < i => Id(j) # Id(i)}
             q == [i \in DOMAIN s.registry |-> Decoded(s, s.registry[i])]
             defs == Filtered(q, first)
  <1>0. Len(s.registry) \in Nat /\ DOMAIN s.registry = 1 .. Len(s.registry)
    BY IsSeqIs DEF StoreOK
  <1>1. IsSeq(q)
    BY <1>0, FunIsSeq
  <1>2. DOMAIN q = DOMAIN s.registry /\ \A i \in DOMAIN s.registry : q[i] = Decoded(s, s.registry[i])
    OBVIOUS
  <1>3. \/ s.version < 2 /\ r = Migrated(s)
        \/ ~(s.version < 2) /\ r.ok = FALSE /\ r.store = s /\ r.defs = <<>>
        \/ ~(s.version < 2) /\ r.ok = TRUE /\ r.defs = defs /\ r.store \in {s, Written(s, defs)}
    BY DEF ReadDefinitions
  <1> HIDE DEF q, r, defs
  <1>4. CASE ~(s.version < 2)
    <2>1. /\ IsSeq(defs)
          /\ \A a \in DOMAIN defs : \E i \in DOMAIN s.registry : i \in first /\ defs[a] = q[i]
          /\ \A i \in DOMAIN s.registry : i \in first => \E a \in DOMAIN defs : defs[a] = q[i]
      <3> HIDE DEF first
      <3>1. /\ IsSeq(defs)
            /\ \A a \in DOMAIN defs : \E i \in DOMAIN q : i \in first /\ defs[a] = q[i]
            /\ \A i \in DOMAIN q : i \in first => \E a \in DOMAIN defs : defs[a] = q[i]
        BY <1>1, FilteredHas DEF defs
      <3> QED BY <3>1, <1>2
    <2>2. \A i \in DOMAIN s.registry : /\ IdOf(q[i]) = Id(i) /\ Id(i) = IdNow(s, s.registry[i])
                                       /\ q[i].body = Entry(s, s.registry[i]).body
      <3>1. \A i \in DOMAIN s.registry : q[i].body = Entry(s, s.registry[i]).body
        <4>1. \A id : Decoded(s, id).body = Entry(s, id).body
          BY DEF Decoded, Definition
        <4> QED BY <1>2, <4>1
      <3>2. \A i \in DOMAIN s.registry : Id(i) = IdNow(s, s.registry[i])
        BY <1>4 DEF IdNow
      <3> QED BY <1>2, <3>1, <3>2
    <2>3. ASSUME NEW id
          PROVE  Listed(s, id) = {i \in listed : Id(i) = id}
      BY <1>4, <2>2 DEF Listed
    <2>4. listed \in SUBSET Nat
      BY <1>0
    <2>5. ASSUME NEW i \in listed
          PROVE  Min(Listed(s, Id(i))) \in first /\ Id(Min(Listed(s, Id(i)))) = Id(i)
      <3> DEFINE L == Listed(s, Id(i))
      <3>1. i \in L /\ L \in SUBSET Nat
        BY <2>3, <2>4
      <3>2. Min(L) \in L /\ \A y \in L : Min(L) <= y
        BY <3>1, MinIs
      <3>3. Min(L) \in listed /\ Id(Min(L)) = Id(i)
        BY <2>3, <3>2
      <3>4. ASSUME NEW j \in listed, j < Min(L) PROVE Id(j) # Id(i)
        <4>1. j \in L => Min(L) <= j
          BY <3>2
        <4>2. j \in Nat /\ Min(L) \in Nat
          BY <2>4, <3>3
        <4>3. j \notin L
          BY <3>4, <4>1, <4>2
        <4> QED BY <2>3, <4>3
      <3> QED BY <3>3, <3>4
    <2>6. ASSUME NEW i \in first, NEW j \in first, Id(i) = Id(j) PROVE i = j
      <3>1. ~(i < j) /\ ~(j < i) /\ i \in Nat /\ j \in Nat
        BY <2>4, <2>6
      <3> QED BY <3>1
    <2>7. ASSUME NEW a \in DOMAIN defs
          PROVE  BodyIn(s, IdOf(defs[a])) = defs[a].body
      <3>1. PICK i \in DOMAIN s.registry : i \in first /\ defs[a] = q[i]
        BY <2>1
      <3> DEFINE L == Listed(s, Id(i))
      <3>2. Min(L) \in first /\ Id(Min(L)) = Id(i)
        BY <2>5, <3>1
      <3>3. Min(L) = i
        BY <2>6, <3>1, <3>2
      <3>4. L # {}
        BY <2>3, <3>1
      <3> QED BY <2>2, <3>1, <3>3, <3>4 DEF BodyIn
    <2>8. ASSUME NEW id, \A a \in DOMAIN defs : IdOf(defs[a]) # id
          PROVE  BodyIn(s, id) = <<>>
      <3>1. SUFFICES ASSUME Listed(s, id) # {} PROVE FALSE
        BY DEF BodyIn
      <3>2. PICK i \in listed : Id(i) = id
        BY <2>3, <3>1
      <3> DEFINE k == Min(Listed(s, id))
      <3>3. k \in first /\ Id(k) = id
        BY <2>5, <3>2
      <3>4. k \in DOMAIN s.registry
        BY <3>3
      <3> HIDE DEF k
      <3>5. PICK a \in DOMAIN defs : defs[a] = q[k]
        BY <2>1, <3>3, <3>4
      <3> QED BY <2>2, <2>8, <3>3, <3>4, <3>5
    <2>9. Kept(s, defs)
      BY <2>7, <2>8 DEF Kept
    <2>10. HasBodies(defs)
      BY <2>1, <2>2 DEF HasBodies
    <2>11. Proper(defs)
      BY <2>1, <2>9, <2>10, KeptAgree DEF Proper
    <2>12. StoreOK(Written(s, defs)) /\ \A id : BodyIn(Written(s, defs), id) = BodyIn(s, id)
      BY <2>9, <2>11, WrittenIs, KeptSame
    <2> QED BY <1>3, <1>4, <2>9, <2>11, <2>12 DEF r
  <1>5. CASE s.version < 2
    <2>1. Proper(r.defs) /\ Kept(s, r.defs) /\ r.store = Written(s, r.defs)
      BY <1>3, <1>5, MigratedIs
    <2>2. StoreOK(r.store) /\ \A id : BodyIn(r.store, id) = BodyIn(s, id)
      BY <2>1, WrittenIs, KeptSame
    <2>3. r.ok
      BY <1>3, <1>5 DEF Migrated
    <2> QED BY <2>1, <2>2, <2>3 DEF r
  <1> QED BY <1>4, <1>5

\* What a step may do to the table of commands, and which body an invocation
\* begins with.
TableStep ==
    store' # store =>
        \A id \in Ids(store) \cup Ids(store') :
           BodyIn(store', id) # BodyIn(store, id) =>
              /\ status = "executing" /\ Context = "customcommand"
              /\ current.name = id[2]
              /\ \/ current.op = "define" /\ id[1] = current.scope
                    /\ BodyIn(store', id) = current.body
                 \/ current.op = "delete" /\ BodyIn(store', id) = <<>>
InvokeStep ==
    Len(frames') > Len(frames) =>
        LET f == Last(frames')
            bound == BodyIn(store, <<In(Context), f.name>>)
        IN /\ f.name \notin GlobalNames
           /\ f.body = IF bound # <<>> THEN bound
                       ELSE BodyIn(store, <<Everywhere, f.name>>)

\* The inductive invariant: the storage can be read, and what TLAPS has to know
\* of the frames, that they are a sequence.
StoreInv == StoreOK(store) /\ IsSeq(frames)
StoreStep == StoreInv' /\ TableStep /\ InvokeStep

\* Adding at the end, or replacing, in a sequence of definitions.
LEMMA ReplacedIs ==
    ASSUME NEW defs, Proper(defs), NEW new, new.body # <<>>
    PROVE  /\ Proper(Replaced(defs, new))
           /\ \E i \in DOMAIN Replaced(defs, new) : Replaced(defs, new)[i] = new
           /\ \A i \in DOMAIN Replaced(defs, new) : IdOf(Replaced(defs, new)[i]) = IdOf(new) =>
                 Replaced(defs, new)[i].body = new.body
           /\ \A i \in DOMAIN Replaced(defs, new) : IdOf(Replaced(defs, new)[i]) # IdOf(new) =>
                 \E j \in DOMAIN defs : defs[j] = Replaced(defs, new)[i]
           /\ \A j \in DOMAIN defs : IdOf(defs[j]) # IdOf(new) =>
                 \E i \in DOMAIN Replaced(defs, new) : defs[j] = Replaced(defs, new)[i]
  <1> DEFINE r == Replaced(defs, new)
  <1>1. IsSeq(defs) /\ Len(defs) \in Nat /\ DOMAIN defs = 1 .. Len(defs)
    BY IsSeqIs DEF Proper
  <1>2. CASE \E i \in DOMAIN defs : IdOf(defs[i]) = IdOf(new)
    <2>1. r = [i \in DOMAIN defs |-> IF IdOf(defs[i]) = IdOf(new) THEN new ELSE defs[i]]
      BY <1>2 DEF Replaced
    <2>2. DOMAIN r = DOMAIN defs
          /\ \A i \in DOMAIN defs : /\ IdOf(defs[i]) = IdOf(new) => r[i] = new
                                    /\ IdOf(defs[i]) # IdOf(new) => r[i] = defs[i]
      BY <2>1
    <2>3. IsSeq(r)
      <3>1. DOMAIN r = 1 .. Len(defs) /\ r = [i \in 1 .. Len(defs) |-> r[i]]
        BY <1>1, <2>1
      <3> HIDE DEF r
      <3> QED BY <1>1, <3>1, FunIsSeq
    <2> HIDE DEF r
    <2>4. HasBodies(r) /\ Agree(r)
      BY <2>2 DEF Proper, HasBodies, Agree
    <2> QED BY <1>2, <2>2, <2>3, <2>4 DEF Proper, r
  <1>3. CASE \A i \in DOMAIN defs : IdOf(defs[i]) # IdOf(new)
    <2>1. r = Append(defs, new)
      BY <1>3 DEF Replaced
    <2> DEFINE m == Len(defs)
    <2>2. IsSeq(r) /\ Len(r) = m + 1 /\ r[m + 1] = new /\ \A i \in 1 .. m : r[i] = defs[i]
      BY <1>1, <2>1, AppendIs
    <2> HIDE DEF r, m
    <2>3. DOMAIN r = 1 .. m + 1 /\ 1 .. m + 1 = 1 .. m \cup {m + 1} /\ DOMAIN defs = 1 .. m
      BY <1>1, <2>2, IsSeqIs DEF m
    <2>4. HasBodies(r) /\ Agree(r)
      BY <1>3, <2>2, <2>3 DEF Proper, HasBodies, Agree
    <2> QED BY <1>3, <2>2, <2>3, <2>4 DEF Proper, r
  <1> QED BY <1>2, <1>3

\* Leaving definitions out keeps the others as they are.
LEMMA FilteredProper ==
    ASSUME NEW defs, Proper(defs), NEW I
    PROVE  Proper(Filtered(defs, I))
  BY FilteredHas DEF Proper, HasBodies, Agree

-----------------------------------------------------------------------------

\* The storage may change its form.
LEMMA Moves ==
    ASSUME \A id : BodyIn(store', id) = BodyIn(store, id)
    PROVE  TableStep
  BY DEF TableStep

\* A step that touches neither the storage nor the chains.
LEMMA Quiet ==
    ASSUME StoreInv, store' = store, frames' = frames
    PROVE  StoreStep
  <1>1. Len(frames) \in Nat
    BY IsSeqIs DEF StoreInv
  <1> QED BY <1>1 DEF StoreStep, StoreInv, TableStep, InvokeStep

\* A handler that leaves the definitions as they are.
LEMMA QuietRead ==
    ASSUME StoreInv, StoreOK(store'), \A id : BodyIn(store', id) = BodyIn(store, id),
           frames' = frames
    PROVE  StoreStep
  <1>1. Len(frames) \in Nat
    BY IsSeqIs DEF StoreInv
  <1> QED BY <1>1, Moves DEF StoreStep, StoreInv, InvokeStep

\* A handler that reads the definitions and writes none.
LEMMA ReadStep ==
    ASSUME StoreInv, store' = ReadDefinitions(store).store, frames' = frames
    PROVE  StoreStep
  BY ReadIs, QuietRead DEF StoreInv

\* What an invocation looks at.
LEMMA SoughtIs ==
    ASSUME StoreInv
    PROVE  /\ StoreOK(Sought.store)
           /\ \A id : BodyIn(Sought.store, id) = BodyIn(store, id)
           /\ current.name \in GlobalNames => Sought.defs = <<>>
           /\ current.name \notin GlobalNames /\ Sought.ok =>
                 Proper(Sought.defs) /\ Kept(store, Sought.defs)
  <1>1. CASE current.name \in GlobalNames
    BY <1>1 DEF Sought, StoreInv
  <1>2. CASE current.name \notin GlobalNames
    BY <1>2, ReadIs DEF Sought, StoreInv
  <1> QED BY <1>1, <1>2

\* The definitions bound to a scope are what the user sees for it.
LEMMA BoundIs ==
    ASSUME NEW s, NEW defs, Proper(defs), Kept(s, defs), NEW name, NEW scope
    PROVE  /\ IsSeq(Bound(defs, name, scope))
           /\ \A i \in DOMAIN Bound(defs, name, scope) :
                 /\ Bound(defs, name, scope)[i].body = BodyIn(s, <<scope, name>>)
                 /\ BodyIn(s, <<scope, name>>) # <<>>
           /\ Bound(defs, name, scope) = <<>> => BodyIn(s, <<scope, name>>) = <<>>
  <1> DEFINE id == <<scope, name>>
             I == {i \in DOMAIN defs : IdOf(defs[i]) = id}
             b == Bound(defs, name, scope)
  <1>1. b = Filtered(defs, I) /\ IsSeq(defs)
    BY DEF Bound, Proper
  <1> HIDE DEF b
  <1>2. /\ IsSeq(b)
        /\ \A a \in DOMAIN b : \E i \in DOMAIN defs : i \in I /\ b[a] = defs[i]
        /\ \A i \in DOMAIN defs : i \in I => \E a \in DOMAIN b : b[a] = defs[i]
    <2> HIDE DEF I
    <2> QED BY <1>1, FilteredHas
  <1>3. ASSUME NEW a \in DOMAIN b
        PROVE  b[a].body = BodyIn(s, id) /\ BodyIn(s, id) # <<>>
    BY <1>2 DEF Kept, Proper, HasBodies
  <1>4. ASSUME b = <<>> PROVE BodyIn(s, id) = <<>>
    <2>1. DOMAIN b = {}
      BY <1>4
    <2>2. \A i \in DOMAIN defs : IdOf(defs[i]) # id
      BY <1>2, <2>1
    <2> QED BY <2>2 DEF Kept
  <1> QED BY <1>2, <1>3, <1>4 DEF b

\* The definition taken first is the one of the context, and else the global one.
LEMMA ResolveIs ==
    ASSUME NEW s, NEW defs, Proper(defs), Kept(s, defs), NEW name, NEW context,
           Resolve(defs, name, context) # <<>>
    PROVE  Resolve(defs, name, context)[1].body =
              IF BodyIn(s, <<In(context), name>>) # <<>> THEN BodyIn(s, <<In(context), name>>)
              ELSE BodyIn(s, <<Everywhere, name>>)
  <1> DEFINE b == Bound(defs, name, In(context))
             g == Bound(defs, name, Everywhere)
             x == BodyIn(s, <<In(context), name>>)
             y == BodyIn(s, <<Everywhere, name>>)
             S == {b[i] : i \in DOMAIN b} \cup {g[i] : i \in DOMAIN g}
  <1>1. /\ IsSeq(b) /\ (\A i \in DOMAIN b : b[i].body = x /\ x # <<>>) /\ (b = <<>> => x = <<>>)
        /\ IsSeq(g) /\ (\A i \in DOMAIN g : g[i].body = y /\ y # <<>>) /\ (g = <<>> => y = <<>>)
    BY BoundIs
  <1>2. Resolve(defs, name, context) = b \o g
    BY DEF Resolve
  <1> HIDE DEF b, g, x, y
  <1>3. b \in Seq(S) /\ g \in Seq(S)
    BY <1>1 DEF IsSeq
  <1> HIDE DEF S
  <1>4. b \o g # <<>>
    BY <1>2
  <1>5. CASE b # <<>>
    <2>1. Len(b) \in Nat /\ Len(b) # 0 /\ DOMAIN b = 1 .. Len(b)
      BY <1>3, <1>5
    <2>2. 1 \in DOMAIN b /\ (b \o g)[1] = b[1]
      BY <1>3, <2>1, ConcatProperties
    <2> QED BY <1>1, <1>2, <2>2 DEF x, y
  <1>6. CASE b = <<>>
    <2>1. b \o g = g /\ g # <<>>
      BY <1>3, <1>4, <1>6, ConcatEmptySeq
    <2>2. 1 \in DOMAIN g
      BY <1>3, <2>1
    <2> QED BY <1>1, <1>2, <1>6, <2>1, <2>2 DEF x, y
  <1> QED BY <1>5, <1>6

\* An invocation moves the storage to the current schema, and takes the body
\* of that moment.
LEMMA InvokeIs ==
    ASSUME StoreInv, Invoke
    PROVE  StoreStep
  <1>1. PICK r \in {Sought}, found \in {Resolve(Sought.defs, current.name, Context)} :
          /\ r.ok /\ found # <<>>
          /\ store' = r.store
          /\ frames' = Append(frames, [name |-> current.name, body |-> found[1].body, next |-> 2])
    BY DEF Invoke
  <1>2. r = Sought /\ found = Resolve(Sought.defs, current.name, Context)
    OBVIOUS
  <1> DEFINE f == [name |-> current.name, body |-> found[1].body, next |-> 2]
  <1>3. f.name = current.name /\ f.body = found[1].body
    OBVIOUS
  <1>4. frames' = Append(frames, f)
    BY <1>1
  <1> HIDE DEF f
  <1>5. StoreOK(store') /\ \A id : BodyIn(store', id) = BodyIn(store, id)
    BY <1>1, <1>2, SoughtIs
  <1>6. IsSeq(frames) /\ Len(frames) \in Nat
    BY IsSeqIs DEF StoreInv
  <1>7. IsSeq(frames') /\ Last(frames') = f
    <2>1. IsSeq(frames') /\ Len(frames') = Len(frames) + 1 /\ frames'[Len(frames) + 1] = f
      BY <1>4, <1>6, AppendIs
    <2> QED BY <2>1 DEF Last
  <1>8. current.name \notin GlobalNames
    <2>1. SUFFICES ASSUME current.name \in GlobalNames PROVE FALSE
      OBVIOUS
    <2>2. Sought.defs = <<>>
      BY <2>1, SoughtIs
    <2>3. \A scope : Bound(<<>>, current.name, scope) = <<>>
      BY FilteredNone DEF Bound
    <2>4. found = <<>> \o <<>>
      BY <1>2, <2>2, <2>3 DEF Resolve
    <2>5. <<>> \o <<>> = <<>>
      OBVIOUS
    <2> QED BY <1>1, <2>4, <2>5
  <1>9. Proper(Sought.defs) /\ Kept(store, Sought.defs)
    BY <1>1, <1>2, <1>8, SoughtIs
  <1>10. f.body = IF BodyIn(store, <<In(Context), f.name>>) # <<>>
                  THEN BodyIn(store, <<In(Context), f.name>>)
                  ELSE BodyIn(store, <<Everywhere, f.name>>)
    <2>1. found # <<>>
      BY <1>1
    <2> QED BY <1>2, <1>3, <1>9, <2>1, ResolveIs
  <1>11. InvokeStep
    BY <1>3, <1>7, <1>8, <1>10 DEF InvokeStep
  <1> QED BY <1>5, <1>7, <1>11, Moves DEF StoreStep, StoreInv

\* Two lists of definitions that differ in one id only.
SameBut(defs, after, x) ==
    /\ \A i \in DOMAIN after : IdOf(after[i]) # x => \E j \in DOMAIN defs : defs[j] = after[i]
    /\ \A j \in DOMAIN defs : IdOf(defs[j]) # x => \E i \in DOMAIN after : defs[j] = after[i]

\* The storage is read, and then written with other definitions: those of
\* other ids are as before.
LEMMA WrittenStep ==
    ASSUME StoreInv, NEW s, NEW defs, NEW after, Kept(store, defs), Proper(after),
           store' = Written(s, after), frames' = frames,
           NEW x, SameBut(defs, after, x)
    PROVE  /\ StoreInv' /\ InvokeStep
           /\ Kept(store', after)
           /\ \A id : id # x => BodyIn(store', id) = BodyIn(store, id)
  <1>1. StoreOK(store') /\ Kept(store', after)
    BY WrittenIs
  <1>2. Len(frames) \in Nat
    BY IsSeqIs DEF StoreInv
  <1>3. ASSUME NEW id, id # x PROVE BodyIn(store', id) = BodyIn(store, id)
    <2>1. CASE \E i \in DOMAIN after : IdOf(after[i]) = id
      <3>1. PICK i \in DOMAIN after : IdOf(after[i]) = id
        BY <2>1
      <3>2. PICK j \in DOMAIN defs : defs[j] = after[i]
        BY <1>3, <3>1 DEF SameBut
      <3> QED BY <1>1, <3>1, <3>2 DEF Kept
    <2>2. CASE \A i \in DOMAIN after : IdOf(after[i]) # id
      <3>1. \A j \in DOMAIN defs : IdOf(defs[j]) # id
        BY <1>3, <2>2 DEF SameBut
      <3> QED BY <1>1, <2>2, <3>1 DEF Kept
    <2> QED BY <2>1, <2>2
  <1> QED BY <1>1, <1>2, <1>3 DEF StoreInv, InvokeStep

\* /define: the definition of its id is new, the others stay.
LEMMA DefineIs ==
    ASSUME StoreInv, Define
    PROVE  StoreStep
  <1> DEFINE r == ReadDefinitions(store)
             new == Definition(current.name, current.scope, current.body)
             after == Replaced(r.defs, new)
  <1>1. /\ status = "executing" /\ current.op = "define" /\ Context = "customcommand"
        /\ frames' = frames
        /\ \/ store' = store
           \/ /\ SplitBody(current.body) /\ r.ok
              /\ store' = Written(r.store, after)
    BY DEF Define, InCustom, Executing, Unread, Leaves, Ends
  <1>2. CASE store' = store
    BY <1>1, <1>2, Quiet
  <1>3. CASE SplitBody(current.body) /\ r.ok /\ store' = Written(r.store, after)
    <2>1. new.body # <<>> /\ new.body = current.body /\ IdOf(new) = <<current.scope, current.name>>
      BY <1>3 DEF SplitBody, Definition, IdOf
    <2>2. Proper(r.defs) /\ Kept(store, r.defs)
      BY <1>3, ReadIs DEF StoreInv
    <2> HIDE DEF new, r
    <2>3. /\ Proper(after)
          /\ \E i \in DOMAIN after : after[i] = new
          /\ SameBut(r.defs, after, IdOf(new))
      BY <2>1, <2>2, ReplacedIs DEF SameBut
    <2> HIDE DEF after
    <2>4. /\ StoreInv' /\ InvokeStep /\ Kept(store', after)
          /\ \A id : id # IdOf(new) => BodyIn(store', id) = BodyIn(store, id)
      <3> HIDE DEF after
      <3>1. store' = Written(r.store, after) /\ frames' = frames
        BY <1>1, <1>3
      <3> QED BY <2>2, <2>3, <3>1, WrittenStep
    <2>5. BodyIn(store', IdOf(new)) = current.body
      BY <2>1, <2>3, <2>4 DEF Kept
    <2>6. TableStep
      <3> SUFFICES ASSUME NEW id, BodyIn(store', id) # BodyIn(store, id)
                   PROVE  /\ current.name = id[2] /\ id[1] = current.scope
                          /\ BodyIn(store', id) = current.body
        BY <1>1 DEF TableStep
      <3>1. id = <<current.scope, current.name>>
        BY <2>1, <2>4
      <3> QED BY <2>1, <2>5, <3>1
    <2> QED BY <2>4, <2>6 DEF StoreStep
  <1> QED BY <1>1, <1>2, <1>3

\* /delete: one definition of the name is gone, the others stay.
LEMMA DeleteIs ==
    ASSUME StoreInv, Delete
    PROVE  StoreStep
  <1> DEFINE r == ReadDefinitions(store)
             matches == FindByName(r.defs, current.name)
             Without(d) == Filtered(r.defs, {i \in DOMAIN r.defs : IdOf(r.defs[i]) # IdOf(d)})
  <1>1. /\ status = "executing" /\ current.op = "delete" /\ Context = "customcommand"
        /\ frames' = frames
        /\ \/ store' = r.store
           \/ \E i \in DOMAIN matches : store' = Written(r.store, Without(matches[i]))
    BY DEF Delete, InCustom, Executing, Leaves, Ends
  <1>2. CASE store' = r.store
    BY <1>1, <1>2, ReadStep
  <1>3. ASSUME NEW i \in DOMAIN matches, store' = Written(r.store, Without(matches[i]))
        PROVE  StoreStep
    <2>0. r.ok
      <3>1. SUFFICES ASSUME ~r.ok PROVE FALSE
        OBVIOUS
      <3>2. r.defs = <<>>
        BY <3>1, ReadIs DEF StoreInv
      <3>3. matches = <<>>
        BY <3>2, FilteredNone DEF FindByName
      <3>4. DOMAIN matches = {}
        BY <3>3
      <3> QED BY <3>4
    <2> DEFINE d == matches[i]
               I == {j \in DOMAIN r.defs : r.defs[j].name = current.name}
               K == {j \in DOMAIN r.defs : IdOf(r.defs[j]) # IdOf(d)}
               after == Filtered(r.defs, K)
    <2>1. Proper(r.defs) /\ Kept(store, r.defs)
      BY <2>0, ReadIs DEF StoreInv
    <2>2. PICK k \in DOMAIN r.defs : r.defs[k].name = current.name /\ d = r.defs[k]
      <3>1. matches = Filtered(r.defs, I) /\ IsSeq(r.defs)
        BY <2>1 DEF FindByName, Proper
      <3> HIDE DEF I, r
      <3>2. \E k \in DOMAIN r.defs : k \in I /\ d = r.defs[k]
        BY <3>1, FilteredHas
      <3> USE DEF I
      <3> QED BY <3>2
    <2> HIDE DEF d, matches
    <2>3. store' = Written(r.store, after)
      BY <1>3 DEF d
    <2>4. /\ Proper(after)
          /\ \A a \in DOMAIN after : \E j \in DOMAIN r.defs : j \in K /\ after[a] = r.defs[j]
          /\ \A j \in DOMAIN r.defs : j \in K => \E a \in DOMAIN after : after[a] = r.defs[j]
      <3>1. IsSeq(r.defs)
        BY <2>1 DEF Proper
      <3> HIDE DEF K, r
      <3> QED BY <2>1, <3>1, FilteredHas, FilteredProper
    <2> HIDE DEF after
    <2>5. SameBut(r.defs, after, IdOf(d))
      BY <2>4 DEF SameBut
    <2>6. \A a \in DOMAIN after : IdOf(after[a]) # IdOf(d)
      BY <2>4
    <2> HIDE DEF K, r
    <2>7. /\ StoreInv' /\ InvokeStep /\ Kept(store', after)
          /\ \A id : id # IdOf(d) => BodyIn(store', id) = BodyIn(store, id)
      BY <1>1, <2>1, <2>3, <2>4, <2>5, WrittenStep
    <2>8. BodyIn(store', IdOf(d)) = <<>>
      BY <2>6, <2>7 DEF Kept
    <2>9. TableStep
      <3> SUFFICES ASSUME NEW id, BodyIn(store', id) # BodyIn(store, id)
                   PROVE  current.name = id[2] /\ BodyIn(store', id) = <<>>
        BY <1>1 DEF TableStep
      <3>1. id = IdOf(d)
        BY <2>7
      <3>2. id[2] = d.name
        BY <3>1 DEF IdOf
      <3> QED BY <2>2, <2>8, <3>1, <3>2
    <2> QED BY <2>7, <2>9 DEF StoreStep
  <1> QED BY <1>1, <1>2, <1>3

\* The steps of a chain move one frame on, or off.
LEMMA ChainSteps ==
    ASSUME StoreInv, NextStep \/ ChainEnds
    PROVE  StoreStep
  <1>1. IsSeq(frames) /\ Len(frames) \in Nat
    BY IsSeqIs DEF StoreInv
  <1>2. store' = store /\ frames # <<>>
        /\ (frames' = Front(frames) \/ \E f : frames' = Append(Front(frames), f))
    BY DEF NextStep, ChainEnds
  <1>3. IsSeq(Front(frames)) /\ Len(Front(frames)) = Len(frames) - 1
    BY <1>1, <1>2, FrontIs
  <1>4. IsSeq(frames') /\ Len(frames') <= Len(frames)
    <2>1. CASE frames' = Front(frames)
      BY <1>1, <1>3, <2>1
    <2>2. ASSUME NEW f, frames' = Append(Front(frames), f)
          PROVE  IsSeq(frames') /\ Len(frames') = Len(frames)
      <3> DEFINE p == Front(frames)
      <3>1. IsSeq(p) /\ Len(p) = Len(frames) - 1
        BY <1>3
      <3> HIDE DEF p
      <3>2. IsSeq(Append(p, f)) /\ Len(Append(p, f)) = Len(p) + 1
        BY <3>1, AppendIs
      <3> QED BY <1>1, <2>2, <3>1, <3>2 DEF p
    <2> QED BY <1>1, <1>2, <2>1, <2>2
  <1>5. ~(Len(frames') > Len(frames))
    BY <1>1, <1>4, IsSeqIs
  <1> QED BY <1>2, <1>4, <1>5 DEF StoreStep, StoreInv, TableStep, InvokeStep

\* Lines that have nothing to do with custom commands.
LEMMA OtherLines ==
    ASSUME StoreInv,
           \/ Type \/ LineDone \/ Refused \/ ExecuteSystemOp \/ SwitchContext
           \/ GlobalCommand \/ HandleRawLine \/ HandleCommand
    PROVE  StoreStep
  <1>1. ASSUME EditorHandles PROVE store' = store /\ frames' = frames
    BY <1>1 DEF EditorHandles, Ends
  <1>2. CASE HandleRawLine \/ HandleCommand
    BY <1>1, <1>2, Quiet DEF HandleRawLine, HandleCommand, Ends
  <1>3. CASE GlobalCommand
    <2>1. store' = store /\ frames' = frames
      BY <1>3 DEF GlobalCommand, Ends, Back, Reset, Exit, Help, ListContexts, Status, Save,
                  Shared, Bug, Answers
    <2> QED BY <2>1, Quiet
  <1>4. CASE Type \/ LineDone \/ Refused \/ ExecuteSystemOp \/ SwitchContext
    <2>1. store' = store /\ frames' = frames
      BY <1>4 DEF Type, LineDone, Refused, ExecuteSystemOp, SwitchContext, Ends
    <2> QED BY <2>1, Quiet
  <1> QED BY <1>2, <1>3, <1>4

\* A word is looked up, and there is no such command, or it cannot be run.
LEMMA LookedUp ==
    ASSUME StoreInv, InvokeFails \/ Expression
    PROVE  StoreStep
  <1>1. store' = Sought.store /\ frames' = frames
    BY DEF InvokeFails, Expression, Ends
  <1> QED BY <1>1, SoughtIs, QuietRead

LEMMA CustomSteps ==
    ASSUME StoreInv, CustomCommand
    PROVE  StoreStep
  <1>1. CASE List \/ ShowDefinition
    <2>1. store' = ReadDefinitions(store).store /\ frames' = frames
      BY <1>1 DEF List, ShowDefinition, Leaves, Ends
    <2> QED BY <2>1, ReadStep
  <1>2. CASE UnknownOperation
    BY <1>2, Quiet DEF UnknownOperation, Leaves, Ends
  <1> QED BY <1>1, <1>2, DefineIs, DeleteIs DEF CustomCommand

\* The storage an engine starts with.
LEMMA StoreInit == CommandsInit => StoreInv
  <1> SUFFICES ASSUME CommandsInit PROVE StoreInv
    OBVIOUS
  <1>1. IsSeq(frames)
    BY DEF CommandsInit, IsSeq
  <1>2. /\ store.registry \in Seq(AllIds)
        /\ store.version < 2 => \A i \in DOMAIN store.registry : store.registry[i][1] = Legacy
    BY StoresAssumption DEF CommandsInit
  <1> DEFINE q == store.registry
  <1>3. DOMAIN q = 1 .. Len(q) /\ Len(q) \in Nat /\ q = [i \in 1 .. Len(q) |-> q[i]]
        /\ \A i \in DOMAIN q : q[i] \in AllIds
    BY <1>2
  <1>4. IsSeq(q)
    <2> HIDE DEF q
    <2> QED BY <1>3, FunIsSeq
  <1>5. \A i \in DOMAIN q : q[i] = <<q[i][1], q[i][2]>>
    BY <1>3 DEF AllIds
  <1> QED BY <1>1, <1>2, <1>4, <1>5 DEF StoreInv, StoreOK

\* Every step keeps the storage readable, and is one of those allowed.
LEMMA StoreNext == StoreInv /\ [CommandsNext]_commandVars => StoreStep
  <1>1. CASE UNCHANGED commandVars
    BY <1>1, Quiet DEF commandVars
  <1> QED BY <1>1, OtherLines, ChainSteps, LookedUp, InvokeIs, CustomSteps DEF CommandsNext, Run

\* A custom command comes, changes or goes only by a /define of its name and
\* scope or a /delete of its name (HandleDefine, HandleDelete): not by reading
\* the storage, by moving it to the current schema, or by another command.
THEOREM OnlyCommandsChangeTheTable == CommandsSpec => TableChangesOnlyByCommand
  <1>1. StoreInv /\ [CommandsNext]_commandVars => StoreInv'
    BY StoreNext DEF StoreStep
  <1>2. StoreInv /\ [CommandsNext]_commandVars => [TableStep]_commandVars
    BY StoreNext DEF StoreStep
  <1>3. TableChangesOnlyByCommand <=> [][TableStep]_commandVars
    BY DEF TableChangesOnlyByCommand, TableStep
  <1> QED BY <1>1, <1>2, <1>3, StoreInit, PTL DEF CommandsSpec

\* What an invocation runs is the body the user sees at that moment, the one of
\* the context before the global one, and never in place of a global command of
\* the engine (ResolveForInvocation).
THEOREM TheMostSpecificRuns == CommandsSpec => InvocationIsMostSpecific
  <1>1. StoreInv /\ [CommandsNext]_commandVars => StoreInv'
    BY StoreNext DEF StoreStep
  <1>2. StoreInv /\ [CommandsNext]_commandVars => [InvokeStep]_commandVars
    BY StoreNext DEF StoreStep
  <1>3. InvocationIsMostSpecific <=> [][InvokeStep]_commandVars
    BY DEF InvocationIsMostSpecific, InvokeStep
  <1> QED BY <1>1, <1>2, <1>3, StoreInit, PTL DEF CommandsSpec
=============================================================================
