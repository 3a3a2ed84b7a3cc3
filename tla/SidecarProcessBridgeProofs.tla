---------------------- MODULE SidecarProcessBridgeProofs ----------------------
(***************************************************************************)
(* Proofs about SidecarProcessBridge, for every number of scripts and of   *)
(* requests and for both builds: its type invariant, that a shut bridge    *)
(* leaves nothing behind, that a result callback has one owner, which is   *)
(* what keeps its references to Execute's locals from dangling, that a     *)
(* result is the script's own and a script finds its sidecar idle, and     *)
(* that the bridge implements ScriptChannel.                               *)
(***************************************************************************)
EXTENDS SidecarProcessBridge, FiniteSetTheorems, SequenceTheorems, TLAPS

-----------------------------------------------------------------------------
(* Lemmas on the operators of the model.                                   *)

\* An answer has the frame type that belongs to the request.
LEMMA AnswerTypes ==
    ASSUME NEW kind \in RequestKinds
    PROVE  AnswerType(kind) \in {"RES_INPUT", "SHARED_VALUE"}
BY DEF AnswerType, RequestKinds

\* Cutting a sequence after n elements leaves two sequences of the same kind.
LEMMA CutSequence ==
    ASSUME NEW S, NEW s \in Seq(S), NEW n \in 1 .. Len(s)
    PROVE  /\ Prefix(s, n) \in Seq(S) /\ Len(Prefix(s, n)) = n
           /\ Without(s, n) \in Seq(S)
BY DEF Prefix, Without

\* A finite set whose elements are all equal has at most one.
LEMMA AtMostOne ==
    ASSUME NEW S, \A x, y \in S : x = y
    PROVE  Cardinality(S) <= 1
<1>1. CASE S = {}
  BY <1>1, FS_EmptySet
<1>2. CASE S # {}
  <2>1. PICK x \in S : TRUE
    BY <1>2
  <2>2. S = {x}
    BY <2>1
  <2> QED BY <2>2, FS_Singleton
<1> QED BY <1>1, <1>2

-----------------------------------------------------------------------------
(* Type correctness.  The part that is about frames and callbacks is kept  *)
(* apart from the program counters and flags; it says in addition that a   *)
(* reader in the middle of a frame has that frame in its chunk.            *)

ControlOK ==
    /\ platform \in Platforms /\ engine \in {"up", "killed"}
    /\ caller \in CallerSteps /\ reader \in ReaderSteps
    /\ watchdog \in WatchdogSteps /\ sidecar \in SidecarStates

FlagsOK ==
    /\ active \in BOOLEAN /\ ready \in BOOLEAN /\ awaiting \in BOOLEAN
    /\ stopping \in BOOLEAN /\ alive \in BOOLEAN /\ handlers \in BOOLEAN
    /\ pipe \in BOOLEAN

NumbersOK ==
    /\ exec \in 0 .. MaxExec /\ callback \in 0 .. MaxExec
    /\ running \in 0 .. MaxExec /\ timed \in 0 .. MaxExec
    /\ requests \in 0 .. MaxRequests
    /\ held \in [Workers -> 0 .. MaxExec]
    /\ outcome \in [Execs -> Outcomes]
    /\ late \subseteq Execs
    /\ caller \in {"send", "recall", "arm", "wait"} => exec # None

FramesOK ==
    /\ toSidecar \in Seq(HostFrames)
    /\ fromSidecar \in Seq(SidecarFrames) /\ inbox \in Seq(SidecarFrames)
    /\ reader \in {"dispatch", "readLine", "answer", "take", "call"}
            => inbox # <<>>
    /\ reader \in {"readLine", "answer"} => Head(inbox).type \in RequestKinds
    /\ reader = "call" => held["reader"] # None
    /\ watchdog = "call" => held["watchdog"] # None

TypeInv == ControlOK /\ FlagsOK /\ NumbersOK /\ FramesOK

\* The strengthened types imply the plain ones.
LEMMA TypeInvType == TypeInv => TypeOK
BY DEF TypeInv, ControlOK, FlagsOK, NumbersOK, FramesOK, TypeOK

\* A bridge that was not launched is in its type.
LEMMA TypeInit == Init => TypeInv
<1> SUFFICES ASSUME Init PROVE TypeInv
  OBVIOUS
<1>1. ControlOK
  BY DEF Init, ControlOK, CallerSteps, ReaderSteps, WatchdogSteps, SidecarStates
<1>5. FlagsOK
  BY DEF Init, FlagsOK
<1>2. held \in [Workers -> 0 .. MaxExec] /\ outcome \in [Execs -> Outcomes]
  BY MaxExecAssumption DEF Init, Outcomes, Pending, None
<1>3. NumbersOK
  BY <1>2, MaxExecAssumption, MaxRequestsAssumption DEF Init, NumbersOK, None
<1>4. FramesOK
  BY DEF Init, FramesOK
<1> QED
  BY <1>1, <1>3, <1>4, <1>5 DEF TypeInv

\* Every step leaves the program counters, built of finitely many values, in range.
LEMMA ControlStep == TypeInv /\ [Next]_vars => ControlOK'
<1> USE DEF TypeInv, ControlOK, CallerSteps, ReaderSteps, WatchdogSteps,
    SidecarStates, world, callerVars, readerVars, watchdogVars, flagVars,
    resultVars, pipeVars, sidecarVars, Goto
<1> SUFFICES ASSUME TypeInv, [Next]_vars PROVE ControlOK'
  OBVIOUS
<1>1. CASE Launch
  <2>1. CASE StartFails
    BY <2>1 DEF StartFails
  <2>2. CASE StartHost
    BY <2>2 DEF StartHost
  <2>3. CASE Activate
    BY <2>3 DEF Activate
  <2>4. CASE HandshakeTimeout
    BY <2>4 DEF HandshakeTimeout
  <2> QED
    BY <1>1, <2>1, <2>2, <2>3, <2>4 DEF Launch
<1>2. CASE Begin
  BY <1>2 DEF Begin, StoreCallback
<1>3. CASE Execution
  <2>1. CASE SendExecCode
    BY <2>1 DEF SendExecCode, Delivered, Refused
  <2>2. CASE Recall
    BY <2>2 DEF Recall
  <2>3. CASE ActivateWatchdog
    BY <2>3 DEF ActivateWatchdog, NotifyWatchdog
  <2>4. CASE WaitTimeout
    BY <2>4 DEF WaitTimeout
  <2>5. CASE Return
    BY <2>5 DEF Return, ClearHandlers
  <2> QED
    BY <1>3, <2>1, <2>2, <2>3, <2>4, <2>5 DEF Execution
<1>4. CASE BeginShutdown
  BY <1>4 DEF BeginShutdown
<1>5. CASE Shutdown
  <2>1. CASE SendTerminate
    BY <2>1 DEF SendTerminate, Offer, Delivered, Refused
  <2>2. CASE ClearAwaiting
    BY <2>2 DEF ClearAwaiting
  <2>3. CASE RequestStop
    BY <2>3 DEF RequestStop, NotifyWatchdog
  <2>4. CASE AbortLaunch
    BY <2>4 DEF AbortLaunch, NotifyWatchdog
  <2>5. CASE StopHost
    BY <2>5 DEF StopHost, ClosePipes
  <2>6. CASE Join
    BY <2>6 DEF Join, JoinWatchdog
  <2> QED
    BY <1>5, <2>1, <2>2, <2>3, <2>4, <2>5, <2>6 DEF Shutdown
<1>6. CASE Reader
  <2>1. CASE Receive
    BY <2>1 DEF Receive, ReaderOnly
  <2>2. CASE LeaveReader
    BY <2>2 DEF LeaveReader, ReaderOnly
  <2>3. CASE DispatchReady
    BY <2>3 DEF DispatchReady, FrameDone, ReaderOnly
  <2>4. CASE DispatchRequest
    BY <2>4 DEF DispatchRequest, FrameDone, ReaderOnly
  <2>5. CASE Answer
    BY <2>5 DEF Answer, Offer, Delivered, Refused, FrameDone, ReaderOnly
  <2>6. CASE DispatchResult
    BY <2>6 DEF DispatchResult, NotifyWatchdog, ReaderOnly
  <2>7. CASE ReaderTakes
    BY <2>7 DEF ReaderTakes, FrameDone, ReaderOnly
  <2>8. CASE ReaderCalls
    BY <2>8 DEF ReaderCalls, FrameDone, ReaderOnly
  <2> QED
    BY <1>6, <2>1, <2>2, <2>3, <2>4, <2>5, <2>6, <2>7, <2>8 DEF Reader
<1>7. CASE UserAnswers
  BY <1>7 DEF UserAnswers, ReaderOnly
<1>8. CASE Watchdog
  <2>1. CASE CheckPhase1
    BY <2>1 DEF CheckPhase1, WatchdogOnly
  <2>2. CASE CheckPhase2
    BY <2>2 DEF CheckPhase2, WatchdogOnly
  <2>3. CASE FallAsleep
    BY <2>3 DEF FallAsleep, WatchdogOnly
  <2>4. CASE TimerExpires
    BY <2>4 DEF TimerExpires, WatchdogOnly
  <2>5. CASE ResetAwaiting
    BY <2>5 DEF ResetAwaiting, WatchdogOnly
  <2>6. CASE SendInterrupt
    BY <2>6 DEF SendInterrupt, Offer, Delivered, Refused, WatchdogOnly
  <2>7. CASE WatchdogTakes
    BY <2>7 DEF WatchdogTakes, WatchdogOnly
  <2>8. CASE WatchdogCalls
    BY <2>8 DEF WatchdogCalls, WatchdogOnly
  <2> QED
    BY <1>8, <2>1, <2>2, <2>3, <2>4, <2>5, <2>6, <2>7, <2>8 DEF Watchdog
<1>9. CASE Sidecar
  <2>1. CASE SidecarBoots
    BY <2>1 DEF SidecarBoots, SidecarOnly
  <2>2. CASE SidecarReads
    BY <2>2 DEF SidecarReads, SidecarOnly
  <2>3. CASE ScriptAsks
    BY <2>3 DEF ScriptAsks, AnswerType, RequestKinds, SidecarOnly
  <2>4. CASE ScriptReadsAnswer
    BY <2>4 DEF ScriptReadsAnswer, SidecarOnly
  <2>5. CASE ScriptFinishes
    BY <2>5 DEF ScriptFinishes, SidecarOnly
  <2>6. CASE SidecarDies
    BY <2>6 DEF SidecarDies, SidecarOnly
  <2> QED
    BY <1>9, <2>1, <2>2, <2>3, <2>4, <2>5, <2>6 DEF Sidecar
<1>10. CASE BrokenPipe
  BY <1>10 DEF BrokenPipe
<1>11. CASE UNCHANGED vars
  BY <1>11 DEF vars
<1> QED
  BY <1>1, <1>2, <1>3, <1>4, <1>5, <1>6, <1>7, <1>8, <1>9, <1>10, <1>11 DEF
     Next

\* Every step leaves the flags Boolean.
LEMMA FlagStep == FlagsOK /\ [Next]_vars => FlagsOK'
<1> USE DEF FlagsOK, world, callerVars, readerVars, watchdogVars, flagVars,
    resultVars, pipeVars, sidecarVars, Goto
<1> SUFFICES ASSUME FlagsOK, [Next]_vars PROVE FlagsOK'
  OBVIOUS
<1>1. CASE Launch
  <2>1. CASE StartFails
    BY <2>1, Zenon DEF StartFails
  <2>2. CASE StartHost
    BY <2>2, Zenon DEF StartHost
  <2>3. CASE Activate
    BY <2>3, Zenon DEF Activate
  <2>4. CASE HandshakeTimeout
    BY <2>4, Zenon DEF HandshakeTimeout
  <2> QED
    BY <1>1, <2>1, <2>2, <2>3, <2>4 DEF Launch
<1>2. CASE Begin
  BY <1>2, Zenon DEF Begin, StoreCallback
<1>3. CASE Execution
  <2>1. CASE SendExecCode
    BY <2>1, Zenon DEF SendExecCode, Delivered, Refused
  <2>2. CASE Recall
    BY <2>2, Zenon DEF Recall
  <2>3. CASE ActivateWatchdog
    BY <2>3, Zenon DEF ActivateWatchdog, NotifyWatchdog
  <2>4. CASE WaitTimeout
    BY <2>4, Zenon DEF WaitTimeout
  <2>5. CASE Return
    BY <2>5, Zenon DEF Return, ClearHandlers
  <2> QED
    BY <1>3, <2>1, <2>2, <2>3, <2>4, <2>5 DEF Execution
<1>4. CASE BeginShutdown
  BY <1>4, Zenon DEF BeginShutdown
<1>5. CASE Shutdown
  <2>1. CASE SendTerminate
    BY <2>1, Zenon DEF SendTerminate, Offer, Delivered, Refused
  <2>2. CASE ClearAwaiting
    BY <2>2, Zenon DEF ClearAwaiting
  <2>3. CASE RequestStop
    BY <2>3, Zenon DEF RequestStop, NotifyWatchdog
  <2>4. CASE AbortLaunch
    BY <2>4, Zenon DEF AbortLaunch, NotifyWatchdog
  <2>5. CASE StopHost
    BY <2>5, Zenon DEF StopHost, ClosePipes
  <2>6. CASE Join
    BY <2>6, Zenon DEF Join, JoinWatchdog
  <2> QED
    BY <1>5, <2>1, <2>2, <2>3, <2>4, <2>5, <2>6 DEF Shutdown
<1>6. CASE Reader
  <2>1. CASE Receive
    BY <2>1, Zenon DEF Receive, ReaderOnly
  <2>2. CASE LeaveReader
    BY <2>2, Zenon DEF LeaveReader, ReaderOnly
  <2>3. CASE DispatchReady
    BY <2>3, Zenon DEF DispatchReady, FrameDone, ReaderOnly
  <2>4. CASE DispatchRequest
    BY <2>4, Zenon DEF DispatchRequest, FrameDone, ReaderOnly
  <2>5. CASE Answer
    BY <2>5, Zenon DEF Answer, Offer, Delivered, Refused, FrameDone, ReaderOnly
  <2>6. CASE DispatchResult
    BY <2>6, Zenon DEF DispatchResult, NotifyWatchdog, ReaderOnly
  <2>7. CASE ReaderTakes
    BY <2>7, Zenon DEF ReaderTakes, FrameDone, ReaderOnly
  <2>8. CASE ReaderCalls
    BY <2>8, Zenon DEF ReaderCalls, FrameDone, ReaderOnly
  <2> QED
    BY <1>6, <2>1, <2>2, <2>3, <2>4, <2>5, <2>6, <2>7, <2>8 DEF Reader
<1>7. CASE UserAnswers
  BY <1>7, Zenon DEF UserAnswers, ReaderOnly
<1>8. CASE Watchdog
  <2>1. CASE CheckPhase1
    BY <2>1, Zenon DEF CheckPhase1, WatchdogOnly
  <2>2. CASE CheckPhase2
    BY <2>2, Zenon DEF CheckPhase2, WatchdogOnly
  <2>3. CASE FallAsleep
    BY <2>3, Zenon DEF FallAsleep, WatchdogOnly
  <2>4. CASE TimerExpires
    BY <2>4, Zenon DEF TimerExpires, WatchdogOnly
  <2>5. CASE ResetAwaiting
    BY <2>5, Zenon DEF ResetAwaiting, WatchdogOnly
  <2>6. CASE SendInterrupt
    BY <2>6, Zenon DEF SendInterrupt, Offer, Delivered, Refused, WatchdogOnly
  <2>7. CASE WatchdogTakes
    BY <2>7, Zenon DEF WatchdogTakes, WatchdogOnly
  <2>8. CASE WatchdogCalls
    BY <2>8, Zenon DEF WatchdogCalls, WatchdogOnly
  <2> QED
    BY <1>8, <2>1, <2>2, <2>3, <2>4, <2>5, <2>6, <2>7, <2>8 DEF Watchdog
<1>9. CASE Sidecar
  <2>1. CASE SidecarBoots
    BY <2>1, Zenon DEF SidecarBoots, SidecarOnly
  <2>2. CASE SidecarReads
    BY <2>2, Zenon DEF SidecarReads, SidecarOnly
  <2>3. CASE ScriptAsks
    BY <2>3, Zenon DEF ScriptAsks, AnswerType, RequestKinds, SidecarOnly
  <2>4. CASE ScriptReadsAnswer
    BY <2>4, Zenon DEF ScriptReadsAnswer, SidecarOnly
  <2>5. CASE ScriptFinishes
    BY <2>5, Zenon DEF ScriptFinishes, SidecarOnly
  <2>6. CASE SidecarDies
    BY <2>6, Zenon DEF SidecarDies, SidecarOnly
  <2> QED
    BY <1>9, <2>1, <2>2, <2>3, <2>4, <2>5, <2>6 DEF Sidecar
<1>10. CASE BrokenPipe
  BY <1>10, Zenon DEF BrokenPipe
<1>11. CASE UNCHANGED vars
  BY <1>11, Zenon DEF vars
<1> QED
  BY <1>1, <1>2, <1>3, <1>4, <1>5, <1>6, <1>7, <1>8, <1>9, <1>10, <1>11 DEF
     Next

\* What a step on the result of script n does to the outcomes.
LEMMA SettleType ==
    ASSUME outcome \in [Execs -> Outcomes],
           NEW n \in Execs, NEW of \in 0 .. MaxExec,
           NEW how \in {"result", "timeout", "sendFailed", "waitTimeout"},
           Settle(n, how, of)
    PROVE  outcome' \in [Execs -> Outcomes]
BY DEF Settle, Outcomes

\* The same for a callback, which may write to the frame of a later Execute.
LEMMA InvokeType ==
    ASSUME NumbersOK,
           NEW k \in Execs, NEW of \in 0 .. MaxExec,
           NEW how \in {"result", "timeout"},
           Invoke(k, how, of)
    PROVE  outcome' \in [Execs -> Outcomes] /\ late' \subseteq Execs
<1>1. caller = "wait" => exec \in Execs
  BY DEF NumbersOK, Execs, None
<1>2. late' \subseteq Execs
  BY DEF Invoke, NumbersOK
<1>3. CASE UNCHANGED outcome
  BY <1>2, <1>3 DEF NumbersOK
<1>4. CASE Settle(k, how, of)
  BY <1>2, <1>4, SettleType DEF NumbersOK
<1>5. CASE caller = "wait" /\ Settle(exec, how, of)
  BY <1>1, <1>2, <1>5, SettleType DEF NumbersOK
<1> QED
  BY <1>3, <1>4, <1>5 DEF Invoke

\* A worker that is about to invoke a callback holds one.
LEMMA HeldIsExec ==
    ASSUME TypeInv
    PROVE  /\ reader = "call" => held["reader"] \in Execs
           /\ watchdog = "call" => held["watchdog"] \in Execs
           /\ inbox # <<>> => Head(inbox) \in SidecarFrames
BY HeadTailProperties DEF TypeInv, NumbersOK, FramesOK, Execs, None, Workers

\* Every step leaves the numbers of scripts and requests in range.
LEMMA NumberStep == TypeInv /\ [Next]_vars => NumbersOK'
<1> USE MaxExecAssumption, MaxRequestsAssumption DEF NumbersOK, None, world,
    callerVars, readerVars, watchdogVars, flagVars, resultVars, pipeVars,
    sidecarVars, Goto
<1> SUFFICES ASSUME TypeInv, [Next]_vars PROVE NumbersOK'
  OBVIOUS
<1>0. NumbersOK /\ (caller = "wait" => exec \in Execs)
  BY DEF TypeInv, Execs
<1>1. CASE Launch
  <2>1. CASE StartFails
    BY <2>1, <1>0 DEF StartFails
  <2>2. CASE StartHost
    BY <2>2, <1>0 DEF StartHost
  <2>3. CASE Activate
    BY <2>3, <1>0 DEF Activate
  <2>4. CASE HandshakeTimeout
    BY <2>4, <1>0 DEF HandshakeTimeout
  <2> QED
    BY <1>1, <2>1, <2>2, <2>3, <2>4 DEF Launch
<1>2. CASE Begin
  BY <1>2, <1>0 DEF Begin, StoreCallback
<1>3. CASE Execution
  <2>1. CASE SendExecCode
    BY <2>1, <1>0 DEF SendExecCode, Delivered, Refused
  <2>2. CASE Recall
    <3>1. UNCHANGED <<exec, running, timed, requests, held, late>>
      BY <2>2 DEF Recall
    <3>2. callback # None => callback \in Execs
      BY <1>0 DEF Execs
    <3>3. outcome' \in [Execs -> Outcomes]
      BY <2>2, <1>0, <3>2, SettleType DEF Recall
    <3>4. callback' = None /\ caller' = "wait" /\ caller = "recall"
      BY <2>2 DEF Recall
    <3> QED
      BY <1>0, <3>1, <3>3, <3>4
  <2>3. CASE ActivateWatchdog
    BY <2>3, <1>0 DEF ActivateWatchdog, NotifyWatchdog
  <2>4. CASE WaitTimeout
    <3>1. UNCHANGED <<exec, callback, running, timed, requests, held, late, caller>>
      BY <2>4 DEF WaitTimeout
    <3>2. exec \in Execs /\ Settle(exec, "waitTimeout", exec)
      BY <2>4, <1>0 DEF WaitTimeout
    <3>3. outcome' \in [Execs -> Outcomes]
      BY <1>0, <3>2, SettleType
    <3> QED
      BY <1>0, <3>1, <3>3
  <2>5. CASE Return
    BY <2>5, <1>0 DEF Return, ClearHandlers
  <2> QED
    BY <1>3, <2>1, <2>2, <2>3, <2>4, <2>5 DEF Execution
<1>4. CASE BeginShutdown
  BY <1>4, <1>0 DEF BeginShutdown
<1>5. CASE Shutdown
  <2>1. CASE SendTerminate
    BY <2>1, <1>0 DEF SendTerminate, Offer, Delivered, Refused
  <2>2. CASE ClearAwaiting
    BY <2>2, <1>0 DEF ClearAwaiting
  <2>3. CASE RequestStop
    BY <2>3, <1>0 DEF RequestStop, NotifyWatchdog
  <2>4. CASE AbortLaunch
    BY <2>4, <1>0 DEF AbortLaunch, NotifyWatchdog
  <2>5. CASE StopHost
    BY <2>5, <1>0 DEF StopHost, ClosePipes
  <2>6. CASE Join
    BY <2>6, <1>0 DEF Join, JoinWatchdog
  <2> QED
    BY <1>5, <2>1, <2>2, <2>3, <2>4, <2>5, <2>6 DEF Shutdown
<1>6. CASE Reader
  <2>1. CASE Receive
    BY <2>1, <1>0 DEF Receive, ReaderOnly
  <2>2. CASE LeaveReader
    BY <2>2, <1>0 DEF LeaveReader, ReaderOnly
  <2>3. CASE DispatchReady
    BY <2>3, <1>0 DEF DispatchReady, FrameDone, ReaderOnly
  <2>4. CASE DispatchRequest
    BY <2>4, <1>0 DEF DispatchRequest, FrameDone, ReaderOnly
  <2>5. CASE Answer
    BY <2>5, <1>0 DEF Answer, Offer, Delivered, Refused, FrameDone, ReaderOnly
  <2>6. CASE DispatchResult
    BY <2>6, <1>0 DEF DispatchResult, NotifyWatchdog, ReaderOnly
  <2>7. CASE ReaderTakes
    <3>1. held' \in [Workers -> 0 .. MaxExec]
      BY <2>7, <1>0 DEF ReaderTakes, Workers
    <3>2. callback' = None
      BY <2>7 DEF ReaderTakes
    <3>3. UNCHANGED <<exec, running, timed, requests, outcome, late, caller>>
      BY <2>7 DEF ReaderTakes, ReaderOnly
    <3> QED
      BY <1>0, <3>1, <3>2, <3>3
  <2>8. CASE ReaderCalls
    <3>1. held["reader"] \in Execs /\ Head(inbox).of \in 0 .. MaxExec
      BY <2>8, HeldIsExec DEF ReaderCalls, TypeInv, FramesOK, SidecarFrames
    <3>2. Invoke(held["reader"], "result", Head(inbox).of)
      BY <2>8 DEF ReaderCalls
    <3>3. outcome' \in [Execs -> Outcomes] /\ late' \subseteq Execs
      BY <1>0, <3>1, <3>2, InvokeType
    <3>4. UNCHANGED <<exec, callback, running, timed, requests, caller>>
      BY <2>8 DEF ReaderCalls, ReaderOnly
    <3>5. held' \in [Workers -> 0 .. MaxExec]
      BY <2>8, <1>0 DEF ReaderCalls, Workers
    <3> QED
      BY <1>0, <3>3, <3>4, <3>5
  <2> QED
    BY <1>6, <2>1, <2>2, <2>3, <2>4, <2>5, <2>6, <2>7, <2>8 DEF Reader
<1>7. CASE UserAnswers
  BY <1>7, <1>0 DEF UserAnswers, ReaderOnly
<1>8. CASE Watchdog
  <2>1. CASE CheckPhase1
    BY <2>1, <1>0 DEF CheckPhase1, WatchdogOnly
  <2>2. CASE CheckPhase2
    BY <2>2, <1>0 DEF CheckPhase2, WatchdogOnly
  <2>3. CASE FallAsleep
    BY <2>3, <1>0 DEF FallAsleep, WatchdogOnly
  <2>4. CASE TimerExpires
    BY <2>4, <1>0 DEF TimerExpires, WatchdogOnly
  <2>5. CASE ResetAwaiting
    BY <2>5, <1>0 DEF ResetAwaiting, WatchdogOnly
  <2>6. CASE SendInterrupt
    BY <2>6, <1>0 DEF SendInterrupt, Offer, Delivered, Refused, WatchdogOnly
  <2>7. CASE WatchdogTakes
    <3>1. held' \in [Workers -> 0 .. MaxExec]
      BY <2>7, <1>0 DEF WatchdogTakes, Workers
    <3>2. callback' = None
      BY <2>7 DEF WatchdogTakes
    <3>3. UNCHANGED <<exec, running, timed, requests, outcome, late, caller>>
      BY <2>7 DEF WatchdogTakes, WatchdogOnly
    <3> QED
      BY <1>0, <3>1, <3>2, <3>3
  <2>8. CASE WatchdogCalls
    <3>1. held["watchdog"] \in Execs
      BY <2>8, HeldIsExec DEF WatchdogCalls
    <3>2. Invoke(held["watchdog"], "timeout", timed)
      BY <2>8 DEF WatchdogCalls
    <3>3. outcome' \in [Execs -> Outcomes] /\ late' \subseteq Execs
      BY <1>0, <3>1, <3>2, InvokeType
    <3>4. UNCHANGED <<exec, callback, running, timed, requests, caller>>
      BY <2>8 DEF WatchdogCalls, WatchdogOnly
    <3>5. held' \in [Workers -> 0 .. MaxExec]
      BY <2>8, <1>0 DEF WatchdogCalls, Workers
    <3> QED
      BY <1>0, <3>3, <3>4, <3>5
  <2> QED
    BY <1>8, <2>1, <2>2, <2>3, <2>4, <2>5, <2>6, <2>7, <2>8 DEF Watchdog
<1>9. CASE Sidecar
  <2>1. CASE SidecarBoots
    BY <2>1, <1>0 DEF SidecarBoots, SidecarOnly
  <2>2. CASE SidecarReads
    <3>1. Head(toSidecar) \in HostFrames
      BY <2>2 DEF SidecarReads, TypeInv, FramesOK
    <3>2. /\ UNCHANGED <<exec, callback, timed, held, outcome, late, caller>>
          /\ running' \in {running, Head(toSidecar).of}
          /\ requests' \in {requests, 0}
      BY <2>2 DEF SidecarReads, SidecarOnly
    <3>3. Head(toSidecar).of \in 0 .. MaxExec
      BY <3>1 DEF HostFrames
    <3> QED
      BY <1>0, <3>2, <3>3
  <2>3. CASE ScriptAsks
    BY <2>3, <1>0 DEF ScriptAsks, AnswerType, RequestKinds, SidecarOnly
  <2>4. CASE ScriptReadsAnswer
    BY <2>4, <1>0 DEF ScriptReadsAnswer, SidecarOnly
  <2>5. CASE ScriptFinishes
    BY <2>5, <1>0 DEF ScriptFinishes, SidecarOnly
  <2>6. CASE SidecarDies
    BY <2>6, <1>0 DEF SidecarDies, SidecarOnly
  <2> QED
    BY <1>9, <2>1, <2>2, <2>3, <2>4, <2>5, <2>6 DEF Sidecar
<1>10. CASE BrokenPipe
  BY <1>10, <1>0 DEF BrokenPipe
<1>11. CASE UNCHANGED vars
  BY <1>11, <1>0 DEF vars
<1> QED
  BY <1>1, <1>2, <1>3, <1>4, <1>5, <1>6, <1>7, <1>8, <1>9, <1>10, <1>11 DEF
     Next

\* Ending a frame leaves a chunk of frames, empty when the reader goes on reading.
LEMMA FrameDoneType ==
    ASSUME inbox \in Seq(SidecarFrames), inbox # <<>>, FrameDone
    PROVE  /\ inbox' \in Seq(SidecarFrames)
           /\ reader' \in {"dispatch", "receive"}
           /\ reader' = "dispatch" => inbox' # <<>>
<1>1. inbox' \in Seq(SidecarFrames) /\ Len(inbox') = Len(inbox) - 1
  BY HeadTailProperties DEF FrameDone
<1>2. Len(inbox) > 1 => inbox' # <<>>
  BY <1>1
<1> QED
  BY <1>1, <1>2 DEF FrameDone

\* Writing a frame keeps the pipe to the sidecar a sequence of frames.
LEMMA OfferType ==
    ASSUME toSidecar \in Seq(HostFrames), NEW frame \in HostFrames, Offer(frame)
    PROVE  toSidecar' \in Seq(HostFrames) /\ fromSidecar' = fromSidecar
BY DEF Offer, Delivered, Refused, pipeVars

\* The same for what the sidecar writes.
LEMMA SayType ==
    ASSUME fromSidecar \in Seq(SidecarFrames), NEW frame \in SidecarFrames, Say(frame)
    PROVE  fromSidecar' \in Seq(SidecarFrames)
BY DEF Say

\* Every step leaves frames on the pipes, and the reader's frame in its chunk.
LEMMA FrameStep == TypeInv /\ [Next]_vars => FramesOK'
<1> USE DEF FramesOK, None, world,
    callerVars, readerVars, watchdogVars, flagVars, resultVars, pipeVars,
    sidecarVars, Goto
<1> SUFFICES ASSUME TypeInv, [Next]_vars PROVE FramesOK'
  OBVIOUS
<1>0. FramesOK
  BY DEF TypeInv
<1>1. CASE Launch
  <2>1. CASE StartFails
    BY <2>1, <1>0 DEF StartFails
  <2>2. CASE StartHost
    BY <2>2, <1>0 DEF StartHost
  <2>3. CASE Activate
    BY <2>3, <1>0 DEF Activate
  <2>4. CASE HandshakeTimeout
    BY <2>4, <1>0 DEF HandshakeTimeout
  <2> QED
    BY <1>1, <2>1, <2>2, <2>3, <2>4 DEF Launch
<1>2. CASE Begin
  BY <1>2, <1>0 DEF Begin, StoreCallback
<1>3. CASE Execution
  <2>1. CASE SendExecCode
    <3>1. Frame("EXEC_CODE", exec) \in HostFrames
      BY DEF Frame, HostFrames, TypeInv, NumbersOK
    <3>2. Offer(Frame("EXEC_CODE", exec))
      BY <2>1 DEF SendExecCode, Offer
    <3>3. UNCHANGED <<reader, inbox, watchdog, held>>
      BY <2>1 DEF SendExecCode
    <3> QED
      BY <1>0, <3>1, <3>2, <3>3, OfferType
  <2>2. CASE Recall
    BY <2>2, <1>0 DEF Recall
  <2>3. CASE ActivateWatchdog
    BY <2>3, <1>0 DEF ActivateWatchdog, NotifyWatchdog
  <2>4. CASE WaitTimeout
    BY <2>4, <1>0 DEF WaitTimeout
  <2>5. CASE Return
    BY <2>5, <1>0 DEF Return, ClearHandlers
  <2> QED
    BY <1>3, <2>1, <2>2, <2>3, <2>4, <2>5 DEF Execution
<1>4. CASE BeginShutdown
  BY <1>4, <1>0 DEF BeginShutdown
<1>5. CASE Shutdown
  <2>1. CASE SendTerminate
    <3>1. Frame("TERMINATE", None) \in HostFrames
      BY MaxExecAssumption DEF Frame, HostFrames
    <3>2. Offer(Frame("TERMINATE", None))
      BY <2>1 DEF SendTerminate
    <3>3. UNCHANGED <<reader, inbox, watchdog, held>>
      BY <2>1 DEF SendTerminate
    <3> QED
      BY <1>0, <3>1, <3>2, <3>3, OfferType
  <2>2. CASE ClearAwaiting
    BY <2>2, <1>0 DEF ClearAwaiting
  <2>3. CASE RequestStop
    BY <2>3, <1>0 DEF RequestStop, NotifyWatchdog
  <2>4. CASE AbortLaunch
    BY <2>4, <1>0 DEF AbortLaunch, NotifyWatchdog
  <2>5. CASE StopHost
    BY <2>5, <1>0 DEF StopHost, ClosePipes
  <2>6. CASE Join
    BY <2>6, <1>0 DEF Join, JoinWatchdog
  <2> QED
    BY <1>5, <2>1, <2>2, <2>3, <2>4, <2>5, <2>6 DEF Shutdown
<1>6. CASE Reader
  <2>1. CASE Receive
    <3>1. PICK n \in 1 .. Len(fromSidecar) :
            inbox' = Prefix(fromSidecar, n) /\ fromSidecar' = Without(fromSidecar, n)
      BY <2>1 DEF Receive
    <3>2. /\ inbox' \in Seq(SidecarFrames) /\ Len(inbox') = n
          /\ fromSidecar' \in Seq(SidecarFrames)
      BY <1>0, <3>1, CutSequence
    <3>3. inbox' # <<>>
      BY <3>2
    <3>4. reader' = "dispatch" /\ UNCHANGED <<toSidecar, watchdog, held>>
      BY <2>1 DEF Receive, ReaderOnly
    <3> QED
      BY <1>0, <3>2, <3>3, <3>4
  <2>2. CASE LeaveReader
    BY <2>2, <1>0 DEF LeaveReader, ReaderOnly
  <2>3. CASE DispatchReady
    <3>1. inbox \in Seq(SidecarFrames) /\ inbox # <<>>
      BY <2>3, <1>0 DEF DispatchReady
    <3>2. FrameDone /\ UNCHANGED <<toSidecar, fromSidecar, watchdog, held>>
      BY <2>3 DEF DispatchReady, ReaderOnly
    <3> QED
      BY <1>0, <3>1, <3>2, FrameDoneType
  <2>4. CASE DispatchRequest
    <3>1. inbox \in Seq(SidecarFrames) /\ inbox # <<>>
      BY <2>4, <1>0 DEF DispatchRequest
    <3>2. UNCHANGED <<toSidecar, fromSidecar, watchdog, held>>
      BY <2>4 DEF DispatchRequest, ReaderOnly
    <3>3. CASE FrameDone
      BY <1>0, <3>1, <3>2, <3>3, FrameDoneType
    <3>4. CASE /\ Head(inbox).type \in RequestKinds
               /\ reader' \in {"readLine", "answer"} /\ UNCHANGED inbox
      BY <1>0, <3>1, <3>2, <3>4
    <3> QED
      BY <2>4, <3>3, <3>4 DEF DispatchRequest
  <2>5. CASE Answer
    <3>1. inbox \in Seq(SidecarFrames) /\ inbox # <<>> /\ Head(inbox).type \in RequestKinds
      BY <2>5, <1>0 DEF Answer
    <3>2. Frame(AnswerType(Head(inbox).type), Head(inbox).of) \in HostFrames
      <4>1. Head(inbox) \in SidecarFrames
        BY <3>1
      <4>2. Head(inbox).of \in 0 .. MaxExec
        BY <4>1 DEF SidecarFrames
      <4> QED
        BY <3>1, <4>2, AnswerTypes DEF Frame, HostFrames
    <3>3. toSidecar' \in Seq(HostFrames) /\ fromSidecar' = fromSidecar
      <4>1. CASE UNCHANGED pipeVars
        BY <1>0, <4>1
      <4>2. CASE Offer(Frame(AnswerType(Head(inbox).type), Head(inbox).of))
        BY <1>0, <3>2, <4>2, OfferType
      <4> QED
        BY <2>5, <4>1, <4>2 DEF Answer
    <3>4. FrameDone /\ UNCHANGED <<watchdog, held>>
      BY <2>5 DEF Answer, ReaderOnly
    <3> QED
      BY <1>0, <3>1, <3>3, <3>4, FrameDoneType
  <2>6. CASE DispatchResult
    BY <2>6, <1>0 DEF DispatchResult, NotifyWatchdog, ReaderOnly
  <2>7. CASE ReaderTakes
    <3>1. inbox \in Seq(SidecarFrames) /\ inbox # <<>>
      BY <2>7, <1>0 DEF ReaderTakes
    <3>2. /\ UNCHANGED <<toSidecar, fromSidecar, watchdog>>
          /\ held' = [held EXCEPT !["reader"] = callback]
          /\ held \in [Workers -> 0 .. MaxExec]
      BY <2>7 DEF ReaderTakes, ReaderOnly, TypeInv, NumbersOK
    <3>3. held'["reader"] = callback /\ held'["watchdog"] = held["watchdog"]
      BY <3>2 DEF Workers
    <3>4. CASE callback = None
      <4>1. FrameDone
        BY <2>7, <3>4 DEF ReaderTakes
      <4> QED
        BY <1>0, <3>1, <3>2, <3>3, <4>1, FrameDoneType
    <3>5. CASE callback # None
      <4>1. reader' = "call" /\ UNCHANGED inbox
        BY <2>7, <3>5 DEF ReaderTakes
      <4> QED
        BY <1>0, <3>1, <3>2, <3>3, <3>5, <4>1
    <3> QED
      BY <3>4, <3>5
  <2>8. CASE ReaderCalls
    <3>1. inbox \in Seq(SidecarFrames) /\ inbox # <<>>
      BY <2>8, <1>0 DEF ReaderCalls
    <3>2. /\ UNCHANGED <<toSidecar, fromSidecar, watchdog>> /\ FrameDone
          /\ held' = [held EXCEPT !["reader"] = None]
          /\ held \in [Workers -> 0 .. MaxExec]
      BY <2>8 DEF ReaderCalls, ReaderOnly, TypeInv, NumbersOK
    <3>3. held'["watchdog"] = held["watchdog"]
      BY <3>2 DEF Workers
    <3> QED
      BY <1>0, <3>1, <3>2, <3>3, FrameDoneType
  <2> QED
    BY <1>6, <2>1, <2>2, <2>3, <2>4, <2>5, <2>6, <2>7, <2>8 DEF Reader
<1>7. CASE UserAnswers
  BY <1>7, <1>0 DEF UserAnswers, ReaderOnly
<1>8. CASE Watchdog
  <2>1. CASE CheckPhase1
    BY <2>1, <1>0 DEF CheckPhase1, WatchdogOnly
  <2>2. CASE CheckPhase2
    BY <2>2, <1>0 DEF CheckPhase2, WatchdogOnly
  <2>3. CASE FallAsleep
    BY <2>3, <1>0 DEF FallAsleep, WatchdogOnly
  <2>4. CASE TimerExpires
    BY <2>4, <1>0 DEF TimerExpires, WatchdogOnly
  <2>5. CASE ResetAwaiting
    BY <2>5, <1>0 DEF ResetAwaiting, WatchdogOnly
  <2>6. CASE SendInterrupt
    <3>1. Frame("INTERRUPT", None) \in HostFrames
      BY MaxExecAssumption DEF Frame, HostFrames
    <3>2. Offer(Frame("INTERRUPT", None))
      BY <2>6 DEF SendInterrupt
    <3>3. UNCHANGED <<reader, inbox, held>>
      BY <2>6 DEF SendInterrupt, WatchdogOnly
    <3>4. watchdog' = "take"
      BY <2>6 DEF SendInterrupt
    <3> QED
      BY <1>0, <3>1, <3>2, <3>3, <3>4, OfferType
  <2>7. CASE WatchdogTakes
    <3>1. /\ UNCHANGED <<toSidecar, fromSidecar, reader, inbox>>
          /\ held' = [held EXCEPT !["watchdog"] = callback]
          /\ held \in [Workers -> 0 .. MaxExec]
          /\ watchdog' = IF callback = None THEN "check1" ELSE "call"
      BY <2>7 DEF WatchdogTakes, WatchdogOnly, TypeInv, NumbersOK
    <3>2. held'["reader"] = held["reader"] /\ held'["watchdog"] = callback
      BY <3>1 DEF Workers
    <3> QED
      BY <1>0, <3>1, <3>2
  <2>8. CASE WatchdogCalls
    <3>1. /\ UNCHANGED <<toSidecar, fromSidecar, reader, inbox>>
          /\ held' = [held EXCEPT !["watchdog"] = None]
          /\ held \in [Workers -> 0 .. MaxExec]
          /\ watchdog' = "check1"
      BY <2>8 DEF WatchdogCalls, WatchdogOnly, TypeInv, NumbersOK
    <3>2. held'["reader"] = held["reader"] /\ held'["watchdog"] = None
      BY <3>1 DEF Workers
    <3> QED
      BY <1>0, <3>1, <3>2
  <2> QED
    BY <1>8, <2>1, <2>2, <2>3, <2>4, <2>5, <2>6, <2>7, <2>8 DEF Watchdog
<1>9. CASE Sidecar
  <2>1. CASE SidecarBoots
    <3>1. Frame("READY", None) \in SidecarFrames
      BY MaxExecAssumption DEF Frame, SidecarFrames, TypeInv, NumbersOK
    <3>2. Say(Frame("READY", None)) /\ UNCHANGED <<toSidecar, reader, inbox, watchdog, held>>
      BY <2>1 DEF SidecarBoots, SidecarOnly
    <3> QED
      BY <1>0, <3>1, <3>2, SayType
  <2>2. CASE SidecarReads
    <3>1. toSidecar # <<>> /\ toSidecar' = Tail(toSidecar)
      BY <2>2 DEF SidecarReads
    <3>2. UNCHANGED <<fromSidecar, reader, inbox, watchdog, held>>
      BY <2>2 DEF SidecarReads, SidecarOnly
    <3> QED
      BY <1>0, <3>1, <3>2
  <2>3. CASE ScriptAsks
    <3>1. PICK kind \in RequestKinds : Say(Frame(kind, running))
      BY <2>3 DEF ScriptAsks
    <3>2. Frame(kind, running) \in SidecarFrames
      BY DEF Frame, SidecarFrames, TypeInv, NumbersOK
    <3>3. UNCHANGED <<toSidecar, reader, inbox, watchdog, held>>
      BY <2>3 DEF ScriptAsks, SidecarOnly
    <3> QED
      BY <1>0, <3>1, <3>2, <3>3, SayType
  <2>4. CASE ScriptReadsAnswer
    <3>1. UNCHANGED <<fromSidecar, reader, inbox, watchdog, held>>
      BY <2>4 DEF ScriptReadsAnswer, SidecarOnly
    <3>2. toSidecar' \in Seq(HostFrames)
      <4>1. CASE toSidecar' = Tail(toSidecar)
        BY <2>4, <1>0, <4>1 DEF ScriptReadsAnswer
      <4>2. CASE \E n \in 1 .. Len(toSidecar) : toSidecar' = Without(toSidecar, n)
        BY <1>0, <4>2, CutSequence
      <4> QED
        BY <2>4, <4>1, <4>2 DEF ScriptReadsAnswer
    <3> QED
      BY <1>0, <3>1, <3>2
  <2>5. CASE ScriptFinishes
    <3>1. Frame("EXEC_RESULT", running) \in SidecarFrames
      BY MaxExecAssumption DEF Frame, SidecarFrames, TypeInv, NumbersOK
    <3>2. Say(Frame("EXEC_RESULT", running)) /\ UNCHANGED <<toSidecar, reader, inbox, watchdog, held>>
      BY <2>5 DEF ScriptFinishes, SidecarOnly
    <3> QED
      BY <1>0, <3>1, <3>2, SayType
  <2>6. CASE SidecarDies
    BY <2>6, <1>0 DEF SidecarDies, SidecarOnly
  <2> QED
    BY <1>9, <2>1, <2>2, <2>3, <2>4, <2>5, <2>6 DEF Sidecar
<1>10. CASE BrokenPipe
  BY <1>10, <1>0 DEF BrokenPipe
<1>11. CASE UNCHANGED vars
  BY <1>11, <1>0 DEF vars
<1> QED
  BY <1>1, <1>2, <1>3, <1>4, <1>5, <1>6, <1>7, <1>8, <1>9, <1>10, <1>11 DEF
     Next

\* The invariant of the type proof is inductive.
LEMMA TypeStep == TypeInv /\ [Next]_vars => TypeInv'
BY ControlStep, FlagStep, NumberStep, FrameStep DEF TypeInv

\* The types hold of every run.
LEMMA TypeInvariant == Spec => []TypeInv
BY TypeInit, TypeStep, PTL DEF Spec

\* Every variable of the bridge keeps its type, for every number of scripts and
\* requests: in particular every frame the reader or the sidecar takes from a
\* pipe is one of the protocol, and a worker never dispatches an empty chunk.
THEOREM TypeCorrect == Spec => []TypeOK
BY TypeInvariant, TypeInvType, PTL

-----------------------------------------------------------------------------
(* Shutdown.  What holds on the way to "closed" and "failed": the threads  *)
(* run only between StartHost and the joins, the child is dead once the    *)
(* host was stopped, and a thread holds a callback only to invoke it.      *)

ShutInv ==
    /\ caller = "unlaunched" => reader = "off" /\ watchdog = "off" /\ sidecar = "none"
    /\ caller \in {"join", "abortJoin", "closed"} => sidecar = "dead"
    /\ caller = "closed" => reader = "done" /\ watchdog = "done"
    /\ caller = "failed" => /\ reader \in {"off", "done"}
                            /\ watchdog \in {"off", "done"}
                            /\ sidecar \in {"none", "dead"}
    /\ caller \in {"unlaunched", "handshake", "abort", "abortHost", "abortJoin",
                   "failed", "closed"} => callback = None
    /\ held["reader"] # None => reader = "call"
    /\ held["watchdog"] # None => watchdog = "call"

\* Where no thread holds a callback and the member is empty, nobody owns one.
LEMMA NoOwners ==
    ASSUME callback = None, held["reader"] = None, held["watchdog"] = None
    PROVE  \A k \in Execs : Owners(k) = {}
BY DEF Owners, Workers, Execs, None

\* What ShutInv says of a closed bridge is the property.
LEMMA ShutImplies == TypeInv /\ ShutInv => ShutdownLeavesNothing
<1> SUFFICES ASSUME TypeInv, ShutInv, caller \in {"closed", "failed"}
             PROVE  /\ sidecar \in {"none", "dead"}
                    /\ reader \in {"off", "done"}
                    /\ watchdog \in {"off", "done"}
                    /\ \A k \in Execs : Owners(k) = {}
  BY DEF ShutdownLeavesNothing
<1>1. /\ sidecar \in {"none", "dead"}
      /\ reader \in {"off", "done"} /\ watchdog \in {"off", "done"}
  BY DEF ShutInv
<1>2. callback = None /\ held["reader"] = None /\ held["watchdog"] = None
  BY <1>1 DEF ShutInv
<1> QED
  BY <1>1, <1>2, NoOwners

\* Before Launch there is nothing to leave.
LEMMA ShutInit == Init => ShutInv
BY DEF Init, ShutInv, Workers

\* Only the joins end with "closed" or "failed", and they wait for both threads.
LEMMA ShutStep == TypeInv /\ ShutInv /\ [Next]_vars => ShutInv'
<1> USE DEF ShutInv, None, world, callerVars, readerVars, watchdogVars, flagVars,
    resultVars, pipeVars, sidecarVars, Goto
<1> SUFFICES ASSUME TypeInv, ShutInv, [Next]_vars PROVE ShutInv'
  OBVIOUS
<1>0. ShutInv
  OBVIOUS
<1>1. CASE Launch
  <2>1. CASE StartFails
    BY <2>1, <1>0 DEF StartFails
  <2>2. CASE StartHost
    BY <2>2, <1>0 DEF StartHost
  <2>3. CASE Activate
    BY <2>3, <1>0 DEF Activate
  <2>4. CASE HandshakeTimeout
    BY <2>4, <1>0 DEF HandshakeTimeout
  <2> QED
    BY <1>1, <2>1, <2>2, <2>3, <2>4 DEF Launch
<1>2. CASE Begin
  BY <1>2, <1>0 DEF Begin, StoreCallback
<1>3. CASE Execution
  <2>1. CASE SendExecCode
    BY <2>1, <1>0 DEF SendExecCode, Delivered, Refused
  <2>2. CASE Recall
    BY <2>2, <1>0 DEF Recall
  <2>3. CASE ActivateWatchdog
    BY <2>3, <1>0 DEF ActivateWatchdog, NotifyWatchdog
  <2>4. CASE WaitTimeout
    BY <2>4, <1>0 DEF WaitTimeout
  <2>5. CASE Return
    BY <2>5, <1>0 DEF Return, ClearHandlers
  <2> QED
    BY <1>3, <2>1, <2>2, <2>3, <2>4, <2>5 DEF Execution
<1>4. CASE BeginShutdown
  BY <1>4, <1>0 DEF BeginShutdown
<1>5. CASE Shutdown
  <2>1. CASE SendTerminate
    BY <2>1, <1>0 DEF SendTerminate, Offer, Delivered, Refused
  <2>2. CASE ClearAwaiting
    BY <2>2, <1>0 DEF ClearAwaiting
  <2>3. CASE RequestStop
    BY <2>3, <1>0 DEF RequestStop, NotifyWatchdog
  <2>4. CASE AbortLaunch
    BY <2>4, <1>0 DEF AbortLaunch, NotifyWatchdog
  <2>5. CASE StopHost
    BY <2>5, <1>0 DEF StopHost, ClosePipes
  <2>6. CASE Join
    BY <2>6, <1>0 DEF Join, JoinWatchdog
  <2> QED
    BY <1>5, <2>1, <2>2, <2>3, <2>4, <2>5, <2>6 DEF Shutdown
<1>6. CASE Reader
  <2>1. CASE Receive
    BY <2>1, <1>0 DEF Receive, ReaderOnly
  <2>2. CASE LeaveReader
    BY <2>2, <1>0 DEF LeaveReader, ReaderOnly
  <2>3. CASE DispatchReady
    BY <2>3, <1>0 DEF DispatchReady, FrameDone, ReaderOnly
  <2>4. CASE DispatchRequest
    BY <2>4, <1>0 DEF DispatchRequest, FrameDone, ReaderOnly
  <2>5. CASE Answer
    BY <2>5, <1>0 DEF Answer, Offer, Delivered, Refused, FrameDone, ReaderOnly
  <2>6. CASE DispatchResult
    BY <2>6, <1>0 DEF DispatchResult, NotifyWatchdog, ReaderOnly
  <2>7. CASE ReaderTakes
    <3>1. /\ held' = [held EXCEPT !["reader"] = callback] /\ callback' = None
          /\ held \in [Workers -> 0 .. MaxExec] /\ reader = "take"
          /\ UNCHANGED <<caller, watchdog, sidecar>>
          /\ callback # None => reader' = "call"
      BY <2>7 DEF ReaderTakes, ReaderOnly, TypeInv, NumbersOK
    <3>2. held'["reader"] = callback /\ held'["watchdog"] = held["watchdog"]
      BY <3>1 DEF Workers
    <3> QED
      BY <1>0, <3>1, <3>2
  <2>8. CASE ReaderCalls
    <3>1. /\ held' = [held EXCEPT !["reader"] = None]
          /\ held \in [Workers -> 0 .. MaxExec] /\ reader = "call"
          /\ UNCHANGED <<caller, callback, watchdog, sidecar>>
      BY <2>8 DEF ReaderCalls, ReaderOnly, TypeInv, NumbersOK
    <3>2. held'["reader"] = None /\ held'["watchdog"] = held["watchdog"]
      BY <3>1 DEF Workers
    <3> QED
      BY <1>0, <3>1, <3>2
  <2> QED
    BY <1>6, <2>1, <2>2, <2>3, <2>4, <2>5, <2>6, <2>7, <2>8 DEF Reader
<1>7. CASE UserAnswers
  BY <1>7, <1>0 DEF UserAnswers, ReaderOnly
<1>8. CASE Watchdog
  <2>1. CASE CheckPhase1
    BY <2>1, <1>0 DEF CheckPhase1, WatchdogOnly
  <2>2. CASE CheckPhase2
    BY <2>2, <1>0 DEF CheckPhase2, WatchdogOnly
  <2>3. CASE FallAsleep
    BY <2>3, <1>0 DEF FallAsleep, WatchdogOnly
  <2>4. CASE TimerExpires
    BY <2>4, <1>0 DEF TimerExpires, WatchdogOnly
  <2>5. CASE ResetAwaiting
    BY <2>5, <1>0 DEF ResetAwaiting, WatchdogOnly
  <2>6. CASE SendInterrupt
    BY <2>6, <1>0 DEF SendInterrupt, Offer, Delivered, Refused, WatchdogOnly
  <2>7. CASE WatchdogTakes
    <3>1. /\ held' = [held EXCEPT !["watchdog"] = callback] /\ callback' = None
          /\ held \in [Workers -> 0 .. MaxExec] /\ watchdog = "take"
          /\ UNCHANGED <<caller, reader, sidecar>>
          /\ callback # None => watchdog' = "call"
      BY <2>7 DEF WatchdogTakes, WatchdogOnly, TypeInv, NumbersOK
    <3>2. held'["watchdog"] = callback /\ held'["reader"] = held["reader"]
      BY <3>1 DEF Workers
    <3> QED
      BY <1>0, <3>1, <3>2
  <2>8. CASE WatchdogCalls
    <3>1. /\ held' = [held EXCEPT !["watchdog"] = None]
          /\ held \in [Workers -> 0 .. MaxExec] /\ watchdog = "call"
          /\ UNCHANGED <<caller, callback, reader, sidecar>>
      BY <2>8 DEF WatchdogCalls, WatchdogOnly, TypeInv, NumbersOK
    <3>2. held'["watchdog"] = None /\ held'["reader"] = held["reader"]
      BY <3>1 DEF Workers
    <3> QED
      BY <1>0, <3>1, <3>2
  <2> QED
    BY <1>8, <2>1, <2>2, <2>3, <2>4, <2>5, <2>6, <2>7, <2>8 DEF Watchdog
<1>9. CASE Sidecar
  <2>1. CASE SidecarBoots
    BY <2>1, <1>0 DEF SidecarBoots, SidecarOnly
  <2>2. CASE SidecarReads
    BY <2>2, <1>0 DEF SidecarReads, SidecarOnly
  <2>3. CASE ScriptAsks
    BY <2>3, <1>0 DEF ScriptAsks, AnswerType, RequestKinds, SidecarOnly
  <2>4. CASE ScriptReadsAnswer
    BY <2>4, <1>0 DEF ScriptReadsAnswer, SidecarOnly
  <2>5. CASE ScriptFinishes
    BY <2>5, <1>0 DEF ScriptFinishes, SidecarOnly
  <2>6. CASE SidecarDies
    BY <2>6, <1>0 DEF SidecarDies, SidecarOnly
  <2> QED
    BY <1>9, <2>1, <2>2, <2>3, <2>4, <2>5, <2>6 DEF Sidecar
<1>10. CASE BrokenPipe
  BY <1>10, <1>0 DEF BrokenPipe
<1>11. CASE UNCHANGED vars
  BY <1>11, <1>0 DEF vars
<1> QED
  BY <1>1, <1>2, <1>3, <1>4, <1>5, <1>6, <1>7, <1>8, <1>9, <1>10, <1>11 DEF
     Next

\* Shutdown never returns, and a failed Launch never reports, while the child still
\* lives, a thread of the bridge still runs, or a result callback can still fire:
\* for every number of scripts, in both builds, whatever the sidecar did.
THEOREM ShutdownIsComplete == Spec => []ShutdownLeavesNothing
<1>1. Init => TypeInv /\ ShutInv
  BY TypeInit, ShutInit
<1>2. TypeInv /\ ShutInv /\ [Next]_vars => (TypeInv /\ ShutInv)'
  BY TypeStep, ShutStep
<1> QED
  BY <1>1, <1>2, ShutImplies, PTL DEF Spec

-----------------------------------------------------------------------------
(* The owner of a callback.  The member and the two workers never hold the *)
(* same callback; none belongs to a script not yet sent, and while nothing *)
(* was abandoned every one belongs to the script in flight, which has no   *)
(* result yet.  Execute therefore cannot return under a live callback.     *)

Callbacks == {callback, held["reader"], held["watchdog"]} \ {None}

OwnerInv ==
    /\ callback <= exec /\ held["reader"] <= exec /\ held["watchdog"] <= exec
    /\ callback # None => callback # held["reader"] /\ callback # held["watchdog"]
    /\ held["reader"] # None => held["reader"] # held["watchdog"]
    /\ \A n \in Execs : n > exec => outcome[n] = Pending
    /\ NothingAbandoned =>
        /\ late = {}
        /\ \A k \in Callbacks : InFlight(k) /\ outcome[k] = Pending

\* Before Execute nobody holds a callback.
LEMMA OwnerInit == Init => OwnerInv
BY DEF Init, OwnerInv, Workers, None, Callbacks

\* A callback that is called belongs to the script in flight.
LEMMA OwnerImplies ==
    TypeInv /\ OwnerInv => CallbackHasOneOwner /\ LateWritesOnlyWhenAbandoned
<1> SUFFICES ASSUME TypeInv, OwnerInv
             PROVE  CallbackHasOneOwner /\ LateWritesOnlyWhenAbandoned
  OBVIOUS
<1>1. \A k \in Execs : Cardinality(Owners(k)) <= 1
  <2> TAKE k \in Execs
  <2>1. \A x, y \in Owners(k) : x = y
    BY DEF Owners, OwnerInv, Workers, Execs, None
  <2> QED
    BY <2>1, AtMostOne
<1>2. \A k \in Execs : Owners(k) # {} => k \in Callbacks
  BY DEF Owners, Callbacks, Workers, Execs, None
<1>3. ASSUME NothingAbandoned, NEW k \in Execs, Owners(k) # {}
      PROVE  k = exec /\ outcome[k] = Pending
  BY <1>2, <1>3 DEF OwnerInv, InFlight
<1> QED
  BY <1>1, <1>3 DEF CallbackHasOneOwner, LateWritesOnlyWhenAbandoned, OwnerInv

\* A result is decided once: a later call of Settle for the same script changes
\* nothing, and a script that was abandoned stays so.
LEMMA SettleOnce ==
    ASSUME outcome \in [Execs -> Outcomes], NEW n \in Execs, NEW how, NEW of,
           Settle(n, how, of)
    PROVE  /\ \A m \in Execs \ {n} : outcome'[m] = outcome[m]
           /\ NothingAbandoned' => NothingAbandoned
BY DEF Settle, NothingAbandoned, Pending, Outcomes

\* A callback whose Execute has not returned settles its own script only.
LEMMA InvokeOwn ==
    ASSUME TypeInv, NEW k \in Execs, NEW how, NEW of, Invoke(k, how, of)
    PROVE  /\ \A m \in Execs : m > exec => outcome'[m] = outcome[m] \/ k > exec
           /\ NothingAbandoned' => NothingAbandoned
           /\ InFlight(k) => /\ late' = late
                             /\ \A m \in Execs \ {k} : outcome'[m] = outcome[m]
<1>0. /\ outcome \in [Execs -> Outcomes] /\ exec \in 0 .. MaxExec
      /\ caller = "wait" => exec \in Execs
  BY DEF TypeInv, NumbersOK, Execs, None
<1>1. CASE InFlight(k)
  <2>1. Settle(k, how, of) /\ late' = late
    BY <1>1 DEF Invoke
  <2> QED
    BY <1>0, <1>1, <2>1, SettleOnce DEF Execs
<1>2. CASE ~InFlight(k) /\ UNCHANGED outcome
  BY <1>2 DEF NothingAbandoned
<1>3. CASE ~InFlight(k) /\ caller = "wait" /\ Settle(exec, how, of)
  BY <1>0, <1>3, SettleOnce DEF Execs
<1> QED
  BY <1>1, <1>2, <1>3 DEF Invoke

\* A step that moves no callback, settles nothing and does not end an Execute.
Quiet ==
    /\ UNCHANGED <<exec, callback, held, outcome, late>>
    /\ InFlight(exec) => InFlight(exec)'

\* A step that touches no callback keeps their owners.
LEMMA QuietStep == OwnerInv /\ Quiet => OwnerInv'
BY DEF OwnerInv, Quiet, Callbacks, InFlight, NothingAbandoned

\* No step hands a callback to a second owner or leaves one behind.
LEMMA OwnerStep == TypeInv /\ ShutInv /\ OwnerInv /\ [Next]_vars => OwnerInv'
<1> USE DEF world, callerVars, readerVars, watchdogVars, flagVars,
    resultVars, pipeVars, sidecarVars, Goto
<1> SUFFICES ASSUME TypeInv, ShutInv, OwnerInv, [Next]_vars PROVE OwnerInv'
  OBVIOUS
<1>0. /\ callback \in 0 .. MaxExec /\ exec \in 0 .. MaxExec
      /\ held \in [Workers -> 0 .. MaxExec]
      /\ held["reader"] \in 0 .. MaxExec /\ held["watchdog"] \in 0 .. MaxExec
      /\ outcome \in [Execs -> Outcomes]
  BY DEF TypeInv, NumbersOK, Workers
<1>1. CASE Launch
  <2>1. CASE StartFails
    <3>1. Quiet
      BY <2>1 DEF StartFails, Quiet, InFlight
    <3> QED
      BY <3>1, QuietStep
  <2>2. CASE StartHost
    <3>1. Quiet
      BY <2>2 DEF StartHost, Quiet, InFlight
    <3> QED
      BY <3>1, QuietStep
  <2>3. CASE Activate
    <3>1. Quiet
      BY <2>3 DEF Activate, Quiet, InFlight
    <3> QED
      BY <3>1, QuietStep
  <2>4. CASE HandshakeTimeout
    <3>1. Quiet
      BY <2>4 DEF HandshakeTimeout, Quiet, InFlight
    <3> QED
      BY <3>1, QuietStep
  <2> QED
    BY <1>1, <2>1, <2>2, <2>3, <2>4 DEF Launch
<1>2. CASE Begin
  <2>1. /\ exec' = exec + 1 /\ callback' = exec + 1 /\ exec < MaxExec
        /\ UNCHANGED <<held, outcome, late>>
        /\ caller = "idle" /\ caller' = "send"
    BY <1>2 DEF Begin, StoreCallback
  <2>2. exec' \in Execs /\ outcome[exec'] = Pending
    <3>1. exec' \in Execs /\ exec' > exec
      BY <1>0, <2>1, MaxExecAssumption DEF Execs
    <3> QED
      BY <3>1 DEF OwnerInv
  <2>3. NothingAbandoned => held["reader"] = None /\ held["watchdog"] = None
    BY <2>1 DEF OwnerInv, Callbacks, InFlight
  <2>4. NothingAbandoned' = NothingAbandoned
    BY <2>1 DEF NothingAbandoned
  <2>5. NothingAbandoned' => late' = {} /\ Callbacks' \subseteq {exec'} /\ InFlight(exec)'
    BY <2>1, <2>3, <2>4 DEF OwnerInv, Callbacks, InFlight
  <2> QED
    BY <1>0, <2>1, <2>2, <2>5 DEF OwnerInv, None, InFlight
<1>3. CASE Execution
  <2>1. CASE SendExecCode
    <3>1. Quiet
      BY <2>1 DEF SendExecCode, Delivered, Refused, Quiet, InFlight
    <3> QED
      BY <3>1, QuietStep
  <2>2. CASE Recall
    <3>1. /\ caller = "recall" /\ caller' = "wait" /\ callback' = None
          /\ UNCHANGED <<exec, held, late>>
      BY <2>2 DEF Recall
    <3>2. CASE callback = None
      <4>1. UNCHANGED <<outcome, callback>>
        BY <2>2, <3>1, <3>2 DEF Recall
      <4>2. Quiet
        BY <3>1, <4>1 DEF Quiet, InFlight
      <4> QED
        BY <4>2, QuietStep
    <3>3. CASE callback # None
      <4>1. Settle(callback, "sendFailed", callback) /\ callback \in Execs
        BY <2>2, <1>0, <3>3 DEF Recall, Execs, None
      <4>2. /\ \A m \in Execs \ {callback} : outcome'[m] = outcome[m]
            /\ NothingAbandoned' => NothingAbandoned
        BY <1>0, <4>1, SettleOnce
      <4>3. Callbacks' \subseteq Callbacks \ {callback}
        BY <3>1, <3>3 DEF Callbacks, OwnerInv
      <4>4. Callbacks \subseteq Execs
        BY <1>0 DEF Callbacks, Execs, None
      <4>5. \A k : InFlight(k) => InFlight(k)'
        BY <3>1 DEF InFlight
      <4>6. NothingAbandoned' =>
              /\ late' = {}
              /\ \A k \in Callbacks' : InFlight(k)' /\ outcome'[k] = Pending
        BY <3>1, <4>2, <4>3, <4>4, <4>5 DEF OwnerInv
      <4>7. \A n \in Execs : n > exec' => outcome'[n] = Pending
        BY <1>0, <3>1, <4>1, <4>2 DEF OwnerInv
      <4> QED
        BY <1>0, <3>1, <4>6, <4>7 DEF OwnerInv, None
    <3> QED
      BY <3>2, <3>3
  <2>3. CASE ActivateWatchdog
    <3>1. Quiet
      BY <2>3 DEF ActivateWatchdog, NotifyWatchdog, Quiet, InFlight
    <3> QED
      BY <3>1, QuietStep
  <2>4. CASE WaitTimeout
    <3>1. /\ Settle(exec, "waitTimeout", exec) /\ outcome[exec] = Pending
          /\ UNCHANGED <<exec, callback, held, late>> /\ caller = "wait"
      BY <2>4 DEF WaitTimeout
    <3>2. exec \in Execs
      BY <1>0, <3>1 DEF TypeInv, NumbersOK, Execs, None
    <3>3. outcome'[exec].how = "waitTimeout"
      BY <1>0, <3>1, <3>2 DEF Settle
    <3>4. ~NothingAbandoned'
      BY <3>2, <3>3 DEF NothingAbandoned
    <3>5. \A m \in Execs \ {exec} : outcome'[m] = outcome[m]
      BY <1>0, <3>1, <3>2, SettleOnce
    <3> QED
      BY <1>0, <3>1, <3>4, <3>5 DEF OwnerInv, Callbacks
  <2>5. CASE Return
    <3>1. /\ UNCHANGED <<exec, callback, held, outcome, late>>
          /\ caller = "wait" /\ outcome[exec] # Pending
      BY <2>5 DEF Return, ClearHandlers
    <3>2. NothingAbandoned => Callbacks = {}
      BY <3>1 DEF OwnerInv, InFlight
    <3>3. Callbacks' = Callbacks /\ NothingAbandoned' = NothingAbandoned
      BY <3>1 DEF Callbacks, NothingAbandoned
    <3> QED
      BY <3>1, <3>2, <3>3 DEF OwnerInv
  <2> QED
    BY <1>3, <2>1, <2>2, <2>3, <2>4, <2>5 DEF Execution
<1>4. CASE BeginShutdown
  <2>1. Quiet
    BY <1>4 DEF BeginShutdown, Quiet, InFlight
  <2> QED
    BY <2>1, QuietStep
<1>5. CASE Shutdown
  <2>1. CASE SendTerminate
    <3>1. Quiet
      BY <2>1 DEF SendTerminate, Offer, Delivered, Refused, Quiet, InFlight
    <3> QED
      BY <3>1, QuietStep
  <2>2. CASE ClearAwaiting
    <3>1. Quiet
      BY <2>2 DEF ClearAwaiting, Quiet, InFlight
    <3> QED
      BY <3>1, QuietStep
  <2>3. CASE RequestStop
    <3>1. Quiet
      BY <2>3 DEF RequestStop, NotifyWatchdog, Quiet, InFlight
    <3> QED
      BY <3>1, QuietStep
  <2>4. CASE AbortLaunch
    <3>1. Quiet
      BY <2>4 DEF AbortLaunch, NotifyWatchdog, Quiet, InFlight
    <3> QED
      BY <3>1, QuietStep
  <2>5. CASE StopHost
    <3>1. Quiet
      BY <2>5 DEF StopHost, ClosePipes, Quiet, InFlight
    <3> QED
      BY <3>1, QuietStep
  <2>6. CASE Join
    <3>1. /\ UNCHANGED <<exec, held, outcome, late>> /\ callback' = None
          /\ caller \in {"join", "abortJoin"}
      BY <2>6 DEF Join, JoinWatchdog, ShutInv
    <3>2. NothingAbandoned => Callbacks = {}
      BY <3>1 DEF OwnerInv, InFlight
    <3>3. Callbacks' \subseteq Callbacks /\ NothingAbandoned' = NothingAbandoned
      BY <3>1 DEF Callbacks, NothingAbandoned
    <3> QED
      BY <1>0, <3>1, <3>2, <3>3 DEF OwnerInv, None
  <2> QED
    BY <1>5, <2>1, <2>2, <2>3, <2>4, <2>5, <2>6 DEF Shutdown
<1>6. CASE Reader
  <2>1. CASE Receive
    <3>1. Quiet
      BY <2>1 DEF Receive, ReaderOnly, Quiet, InFlight
    <3> QED
      BY <3>1, QuietStep
  <2>2. CASE LeaveReader
    <3>1. Quiet
      BY <2>2 DEF LeaveReader, ReaderOnly, Quiet, InFlight
    <3> QED
      BY <3>1, QuietStep
  <2>3. CASE DispatchReady
    <3>1. Quiet
      BY <2>3 DEF DispatchReady, FrameDone, ReaderOnly, Quiet, InFlight
    <3> QED
      BY <3>1, QuietStep
  <2>4. CASE DispatchRequest
    <3>1. Quiet
      BY <2>4 DEF DispatchRequest, FrameDone, ReaderOnly, Quiet, InFlight
    <3> QED
      BY <3>1, QuietStep
  <2>5. CASE Answer
    <3>1. Quiet
      BY <2>5 DEF Answer, Offer, Delivered, Refused, FrameDone, ReaderOnly, Quiet,
         InFlight
    <3> QED
      BY <3>1, QuietStep
  <2>6. CASE DispatchResult
    <3>1. Quiet
      BY <2>6 DEF DispatchResult, NotifyWatchdog, ReaderOnly, Quiet, InFlight
    <3> QED
      BY <3>1, QuietStep
  <2>7. CASE ReaderTakes
    <3>1. /\ held' = [held EXCEPT !["reader"] = callback] /\ callback' = None
          /\ UNCHANGED <<exec, caller, outcome, late>> /\ reader = "take"
      BY <2>7 DEF ReaderTakes, ReaderOnly
    <3>2. /\ held'["reader"] = callback /\ held'["watchdog"] = held["watchdog"]
          /\ held["reader"] = None
      BY <1>0, <3>1 DEF Workers, ShutInv
    <3>3. Callbacks' = Callbacks /\ NothingAbandoned' = NothingAbandoned
      BY <3>1, <3>2 DEF Callbacks, NothingAbandoned
    <3>4. \A k : InFlight(k)' = InFlight(k)
      BY <3>1 DEF InFlight
    <3>5. NothingAbandoned' =>
            /\ late' = {}
            /\ \A k \in Callbacks' : InFlight(k)' /\ outcome'[k] = Pending
      BY <3>1, <3>3, <3>4 DEF OwnerInv
    <3> QED
      BY <1>0, <3>1, <3>2, <3>5 DEF OwnerInv, None
  <2>8. CASE ReaderCalls
    <3>1. /\ held' = [held EXCEPT !["reader"] = None]
          /\ Invoke(held["reader"], "result", Head(inbox).of)
          /\ UNCHANGED <<exec, caller, callback>> /\ reader = "call"
      BY <2>8 DEF ReaderCalls, ReaderOnly
    <3>2. held'["reader"] = None /\ held'["watchdog"] = held["watchdog"]
      BY <1>0, <3>1 DEF Workers
    <3>3. held["reader"] \in Execs /\ ~(held["reader"] > exec)
      BY <1>0, <3>1, HeldIsExec DEF OwnerInv
    <3>4. /\ \A m \in Execs : m > exec => outcome'[m] = outcome[m]
          /\ NothingAbandoned' => NothingAbandoned
          /\ InFlight(held["reader"]) =>
                /\ late' = late
                /\ \A m \in Execs \ {held["reader"]} : outcome'[m] = outcome[m]
      BY <3>1, <3>3, InvokeOwn
    <3>5. /\ Callbacks' \subseteq Callbacks \ {held["reader"]}
          /\ held["reader"] \in Callbacks /\ Callbacks \subseteq Execs
      BY <1>0, <3>1, <3>2, <3>3 DEF OwnerInv, Callbacks, Execs, None
    <3>6. \A k : InFlight(k)' = InFlight(k)
      BY <3>1 DEF InFlight
    <3>7. NothingAbandoned' =>
            /\ late' = {}
            /\ \A k \in Callbacks' : InFlight(k)' /\ outcome'[k] = Pending
      BY <3>4, <3>5, <3>6 DEF OwnerInv
    <3> QED
      BY <1>0, <3>1, <3>2, <3>4, <3>7 DEF OwnerInv, None
  <2> QED
    BY <1>6, <2>1, <2>2, <2>3, <2>4, <2>5, <2>6, <2>7, <2>8 DEF Reader
<1>7. CASE UserAnswers
  <2>1. Quiet
    BY <1>7 DEF UserAnswers, ReaderOnly, Quiet, InFlight
  <2> QED
    BY <2>1, QuietStep
<1>8. CASE Watchdog
  <2>1. CASE CheckPhase1
    <3>1. Quiet
      BY <2>1 DEF CheckPhase1, WatchdogOnly, Quiet, InFlight
    <3> QED
      BY <3>1, QuietStep
  <2>2. CASE CheckPhase2
    <3>1. Quiet
      BY <2>2 DEF CheckPhase2, WatchdogOnly, Quiet, InFlight
    <3> QED
      BY <3>1, QuietStep
  <2>3. CASE FallAsleep
    <3>1. Quiet
      BY <2>3 DEF FallAsleep, WatchdogOnly, Quiet, InFlight
    <3> QED
      BY <3>1, QuietStep
  <2>4. CASE TimerExpires
    <3>1. Quiet
      BY <2>4 DEF TimerExpires, WatchdogOnly, Quiet, InFlight
    <3> QED
      BY <3>1, QuietStep
  <2>5. CASE ResetAwaiting
    <3>1. Quiet
      BY <2>5 DEF ResetAwaiting, WatchdogOnly, Quiet, InFlight
    <3> QED
      BY <3>1, QuietStep
  <2>6. CASE SendInterrupt
    <3>1. Quiet
      BY <2>6 DEF SendInterrupt, Offer, Delivered, Refused, WatchdogOnly, Quiet,
         InFlight
    <3> QED
      BY <3>1, QuietStep
  <2>7. CASE WatchdogTakes
    <3>1. /\ held' = [held EXCEPT !["watchdog"] = callback] /\ callback' = None
          /\ UNCHANGED <<exec, caller, outcome, late>> /\ watchdog = "take"
      BY <2>7 DEF WatchdogTakes, WatchdogOnly
    <3>2. /\ held'["watchdog"] = callback /\ held'["reader"] = held["reader"]
          /\ held["watchdog"] = None
      BY <1>0, <3>1 DEF Workers, ShutInv
    <3>3. Callbacks' = Callbacks /\ NothingAbandoned' = NothingAbandoned
      BY <3>1, <3>2 DEF Callbacks, NothingAbandoned
    <3>4. \A k : InFlight(k)' = InFlight(k)
      BY <3>1 DEF InFlight
    <3>5. NothingAbandoned' =>
            /\ late' = {}
            /\ \A k \in Callbacks' : InFlight(k)' /\ outcome'[k] = Pending
      BY <3>1, <3>3, <3>4 DEF OwnerInv
    <3> QED
      BY <1>0, <3>1, <3>2, <3>5 DEF OwnerInv, None
  <2>8. CASE WatchdogCalls
    <3>1. /\ held' = [held EXCEPT !["watchdog"] = None]
          /\ Invoke(held["watchdog"], "timeout", timed)
          /\ UNCHANGED <<exec, caller, callback>> /\ watchdog = "call"
      BY <2>8 DEF WatchdogCalls, WatchdogOnly
    <3>2. held'["watchdog"] = None /\ held'["reader"] = held["reader"]
      BY <1>0, <3>1 DEF Workers
    <3>3. held["watchdog"] \in Execs /\ ~(held["watchdog"] > exec)
      BY <1>0, <3>1, HeldIsExec DEF OwnerInv
    <3>4. /\ \A m \in Execs : m > exec => outcome'[m] = outcome[m]
          /\ NothingAbandoned' => NothingAbandoned
          /\ InFlight(held["watchdog"]) =>
                /\ late' = late
                /\ \A m \in Execs \ {held["watchdog"]} : outcome'[m] = outcome[m]
      BY <3>1, <3>3, InvokeOwn
    <3>5. /\ Callbacks' \subseteq Callbacks \ {held["watchdog"]}
          /\ held["watchdog"] \in Callbacks /\ Callbacks \subseteq Execs
      BY <1>0, <3>1, <3>2, <3>3 DEF OwnerInv, Callbacks, Execs, None
    <3>6. \A k : InFlight(k)' = InFlight(k)
      BY <3>1 DEF InFlight
    <3>7. NothingAbandoned' =>
            /\ late' = {}
            /\ \A k \in Callbacks' : InFlight(k)' /\ outcome'[k] = Pending
      BY <3>4, <3>5, <3>6 DEF OwnerInv
    <3> QED
      BY <1>0, <3>1, <3>2, <3>4, <3>7 DEF OwnerInv, None
  <2> QED
    BY <1>8, <2>1, <2>2, <2>3, <2>4, <2>5, <2>6, <2>7, <2>8 DEF Watchdog
<1>9. CASE Sidecar
  <2>1. CASE SidecarBoots
    <3>1. Quiet
      BY <2>1 DEF SidecarBoots, SidecarOnly, Quiet, InFlight
    <3> QED
      BY <3>1, QuietStep
  <2>2. CASE SidecarReads
    <3>1. Quiet
      BY <2>2 DEF SidecarReads, SidecarOnly, Quiet, InFlight
    <3> QED
      BY <3>1, QuietStep
  <2>3. CASE ScriptAsks
    <3>1. Quiet
      BY <2>3 DEF ScriptAsks, AnswerType, RequestKinds, SidecarOnly, Quiet,
         InFlight
    <3> QED
      BY <3>1, QuietStep
  <2>4. CASE ScriptReadsAnswer
    <3>1. Quiet
      BY <2>4 DEF ScriptReadsAnswer, SidecarOnly, Quiet, InFlight
    <3> QED
      BY <3>1, QuietStep
  <2>5. CASE ScriptFinishes
    <3>1. Quiet
      BY <2>5 DEF ScriptFinishes, SidecarOnly, Quiet, InFlight
    <3> QED
      BY <3>1, QuietStep
  <2>6. CASE SidecarDies
    <3>1. Quiet
      BY <2>6 DEF SidecarDies, SidecarOnly, Quiet, InFlight
    <3> QED
      BY <3>1, QuietStep
  <2> QED
    BY <1>9, <2>1, <2>2, <2>3, <2>4, <2>5, <2>6 DEF Sidecar
<1>10. CASE BrokenPipe
  <2>1. Quiet
    BY <1>10 DEF BrokenPipe, Quiet, InFlight
  <2> QED
    BY <2>1, QuietStep
<1>11. CASE UNCHANGED vars
  <2>1. Quiet
    BY <1>11 DEF vars, Quiet, InFlight
  <2> QED
    BY <2>1, QuietStep
<1> QED
  BY <1>1, <1>2, <1>3, <1>4, <1>5, <1>6, <1>7, <1>8, <1>9, <1>10, <1>11 DEF
     Next

\* The owners are as described in every run.
LEMMA OwnerInvariant == Spec => [](TypeInv /\ OwnerInv)
<1>1. Init => TypeInv /\ ShutInv /\ OwnerInv
  BY TypeInit, ShutInit, OwnerInit
<1>2. TypeInv /\ ShutInv /\ OwnerInv /\ [Next]_vars
        => (TypeInv /\ ShutInv /\ OwnerInv)'
  BY TypeStep, ShutStep, OwnerStep
<1> QED
  BY <1>1, <1>2, PTL DEF Spec

\* The result callback of a script is never in two hands, whatever the order in
\* which the result, the timeout and the failed send race for it; and as long as
\* the 35 s wait never ran out, one that exists belongs to the script in flight.
THEOREM CallbackIsOneShot == Spec => []CallbackHasOneOwner
BY OwnerInvariant, OwnerImplies, PTL

\* The references a callback holds to Execute's locals never dangle when it runs,
\* except after a 35 s wait that ran out.
THEOREM NoDanglingCallback == Spec => []LateWritesOnlyWhenAbandoned
BY OwnerInvariant, OwnerImplies, PTL

-----------------------------------------------------------------------------
(* Frames under way.  Frames carry no identification, so what they are for *)
(* is counted: at most one script and at most one result is under way, and *)
(* it is that of the latest Execute.                                       *)

\* What the sidecar has written and the reader has not yet dispatched.
Came == inbox \o fromSidecar

Lacks(s, type) == \A i \in 1 .. Len(s) : s[i].type # type

\* At most one frame of the type, and it belongs to script n.
OneOf(s, type, n) ==
    /\ \A i, j \in 1 .. Len(s) : s[i].type = type /\ s[j].type = type => i = j
    /\ \A i \in 1 .. Len(s) : s[i].type = type => s[i].of = n

\* t has no more frames of the type than s.
Kept(s, t, type) ==
    /\ Lacks(s, type) => Lacks(t, type)
    /\ \A n : OneOf(s, type, n) => OneOf(t, type, n)

\* A frame that leaves a queue at its head brings none.
LEMMA KeptTail ==
    ASSUME NEW S, NEW s \in Seq(S), s # <<>>, NEW type
    PROVE  Kept(s, Tail(s), type)
<1>1. /\ Len(Tail(s)) = Len(s) - 1 /\ Len(s) \in Nat
      /\ \A i \in 1 .. Len(Tail(s)) : Tail(s)[i] = s[i + 1]
  OBVIOUS
<1>2. Lacks(s, type) => Lacks(Tail(s), type)
  BY <1>1 DEF Lacks
<1>3. ASSUME NEW n, OneOf(s, type, n) PROVE OneOf(Tail(s), type, n)
  BY <1>1, <1>3 DEF OneOf
<1> QED
  BY <1>2, <1>3 DEF Kept

\* If the only frame of a type leaves, none is left.
LEMMA LastOne ==
    ASSUME NEW S, NEW s \in Seq(S), s # <<>>, NEW type, NEW n,
           OneOf(s, type, n), Head(s).type = type
    PROVE  Lacks(Tail(s), type) /\ Head(s).of = n /\ ~Lacks(s, type)
<1>1. /\ Len(Tail(s)) = Len(s) - 1 /\ Len(s) \in Nat \ {0} /\ Head(s) = s[1]
      /\ \A i \in 1 .. Len(Tail(s)) : Tail(s)[i] = s[i + 1]
  BY EmptySeq, HeadTailProperties
<1> QED
  BY <1>1 DEF OneOf, Lacks

\* A frame of another type does not count.
LEMMA KeptAppend ==
    ASSUME NEW S, NEW s \in Seq(S), NEW x \in S, NEW type, x.type # type
    PROVE  Kept(s, Append(s, x), type)
<1>1. /\ Len(Append(s, x)) = Len(s) + 1 /\ Len(s) \in Nat
      /\ \A i \in 1 .. Len(s) : Append(s, x)[i] = s[i]
      /\ Append(s, x)[Len(s) + 1] = x
  OBVIOUS
<1>2. Lacks(s, type) => Lacks(Append(s, x), type)
  BY <1>1 DEF Lacks
<1>3. ASSUME NEW n, OneOf(s, type, n) PROVE OneOf(Append(s, x), type, n)
  BY <1>1, <1>3 DEF OneOf
<1> QED
  BY <1>2, <1>3 DEF Kept

\* The first frame of its type is the only one.
LEMMA FirstOne ==
    ASSUME NEW S, NEW s \in Seq(S), NEW x \in S, Lacks(s, x.type)
    PROVE  OneOf(Append(s, x), x.type, x.of)
<1>1. /\ Len(Append(s, x)) = Len(s) + 1 /\ Len(s) \in Nat
      /\ \A i \in 1 .. Len(s) : Append(s, x)[i] = s[i]
      /\ Append(s, x)[Len(s) + 1] = x
  OBVIOUS
<1> QED
  BY <1>1 DEF OneOf, Lacks

\* What is left when a read takes and drops n frames.
LEMMA KeptWithout ==
    ASSUME NEW S, NEW s \in Seq(S), NEW m \in 1 .. Len(s), NEW type
    PROVE  Kept(s, Without(s, m), type)
<1>1. /\ Len(Without(s, m)) = Len(s) - m /\ Len(s) \in Nat
      /\ \A i \in 1 .. Len(Without(s, m)) : Without(s, m)[i] = s[i + m]
  BY DEF Without
<1>2. Lacks(s, type) => Lacks(Without(s, m), type)
  BY <1>1 DEF Lacks
<1>3. ASSUME NEW n, OneOf(s, type, n) PROVE OneOf(Without(s, m), type, n)
  <2>1. \A i \in 1 .. Len(Without(s, m)) :
            i + m \in 1 .. Len(s) /\ Without(s, m)[i] = s[i + m]
    BY <1>1
  <2>2. ASSUME NEW i \in 1 .. Len(Without(s, m)), Without(s, m)[i].type = type
        PROVE  Without(s, m)[i].of = n
    BY <1>3, <2>1, <2>2 DEF OneOf
  <2>3. ASSUME NEW i \in 1 .. Len(Without(s, m)), NEW j \in 1 .. Len(Without(s, m)),
               Without(s, m)[i].type = type, Without(s, m)[j].type = type
        PROVE  i = j
    <3>1. i + m = j + m
      BY <1>3, <2>1, <2>3 DEF OneOf
    <3> QED
      BY <1>1, <3>1
  <2> QED
    BY <2>2, <2>3 DEF OneOf
<1> QED
  BY <1>2, <1>3 DEF Kept

\* What is left when the pipe behind the chunk is closed.
LEMMA KeptFront ==
    ASSUME NEW S, NEW s \in Seq(S), NEW t \in Seq(S), NEW type
    PROVE  Kept(s \o t, s \o <<>>, type)
<1>1. /\ Len(s \o t) = Len(s) + Len(t) /\ Len(s) \in Nat /\ Len(t) \in Nat
      /\ \A i \in 1 .. Len(s) : (s \o t)[i] = s[i]
      /\ s \o <<>> = s
  OBVIOUS
<1>2. Lacks(s \o t, type) => Lacks(s, type)
  BY <1>1 DEF Lacks
<1>3. ASSUME NEW n, OneOf(s \o t, type, n) PROVE OneOf(s, type, n)
  BY <1>1, <1>3 DEF OneOf
<1> QED
  BY <1>1, <1>2, <1>3 DEF Kept

\* An empty queue has no frame of any type.
LEMMA KeptEmpty ==
    ASSUME NEW s, NEW type
    PROVE  Kept(s, <<>>, type) /\ Lacks(<<>>, type) /\ \A n : OneOf(<<>>, type, n)
BY DEF Kept, Lacks, OneOf

\* Reading a chunk moves frames from the pipe to the chunk, in their order.
LEMMA ReadChunk ==
    ASSUME NEW S, NEW s \in Seq(S), NEW m \in 1 .. Len(s)
    PROVE  Prefix(s, m) \o Without(s, m) = <<>> \o s
<1> DEFINE a == Prefix(s, m)
           b == Without(s, m)
<1>1. /\ a \in Seq(S) /\ b \in Seq(S) /\ Len(s) \in Nat
      /\ Len(a) = m /\ Len(b) = Len(s) - m
  BY DEF Prefix, Without
<1>2. /\ \A i \in 1 .. m : a[i] = s[i]
      /\ \A i \in 1 .. Len(b) : b[i] = s[i + m]
  BY DEF Prefix, Without
<1>3. Len(a \o b) = Len(s) /\ a \o b \in Seq(S)
  BY <1>1
<1>4. \A i \in 1 .. Len(s) : (a \o b)[i] = s[i]
  <2> TAKE i \in 1 .. Len(s)
  <2>1. CASE i <= m
    BY <1>1, <1>2, <2>1
  <2>2. CASE i > m
    <3>1. i - m \in 1 .. Len(b) /\ (a \o b)[i] = b[i - m]
      BY <1>1, <2>2
    <3> QED
      BY <1>1, <1>2, <3>1
  <2> QED
    BY <1>1, <2>1, <2>2
<1>5. a \o b = s
  BY <1>3, <1>4, SeqEqual
<1> QED
  BY <1>5

\* The first frame that came is the first of the chunk.
LEMMA CameTail ==
    ASSUME NEW S, NEW s \in Seq(S), NEW t \in Seq(S), s # <<>>
    PROVE  /\ Tail(s) \o t = Tail(s \o t) /\ Head(s \o t) = Head(s)
           /\ s \o t # <<>> /\ s \o t \in Seq(S)
<1>1. /\ s \o t \in Seq(S) /\ Len(s \o t) = Len(s) + Len(t)
      /\ Len(s) \in Nat \ {0} /\ Len(t) \in Nat
  BY EmptySeq
<1>2. s \o t # <<>> /\ Head(s \o t) = Head(s)
  BY <1>1
<1>3. /\ Len(Tail(s) \o t) = Len(Tail(s \o t))
      /\ Tail(s) \o t \in Seq(S) /\ Tail(s \o t) \in Seq(S)
  BY <1>1, <1>2
<1>4. \A i \in 1 .. Len(Tail(s \o t)) : (Tail(s) \o t)[i] = Tail(s \o t)[i]
  BY <1>1, <1>2
<1> QED
  BY <1>1, <1>2, <1>3, <1>4, SeqEqual

\* What the sidecar writes comes last.
LEMMA CameAppend ==
    ASSUME NEW S, NEW s \in Seq(S), NEW t \in Seq(S), NEW x \in S
    PROVE  s \o Append(t, x) = Append(s \o t, x)
OBVIOUS

-----------------------------------------------------------------------------
(* Where the threads stand.  Three facts the flow of scripts rests on: the *)
(* reader has a chunk only while it dispatches it, and a sidecar that has  *)
(* not said READY has said nothing; nothing runs before Launch returns;    *)
(* after a timeout no script is sent.                                      *)

ReaderInv ==
    /\ reader \in {"off", "receive", "done"} => inbox = <<>>
    /\ reader \in {"take", "call"} => Head(inbox).type = "EXEC_RESULT"
    /\ sidecar \in {"none", "boot"}
            => ready = FALSE /\ inbox = <<>> /\ fromSidecar = <<>>
    /\ caller \in {"idle", "send", "recall", "arm", "wait"}
            => sidecar \notin {"none", "boot"}

LaunchInv ==
    caller \in {"unlaunched", "handshake"} =>
        /\ active = FALSE /\ awaiting = FALSE /\ stopping = FALSE
        /\ watchdog \in {"off", "check1", "block1", "sleep1"}

TimeoutInv ==
    /\ \A n \in Execs : outcome[n].how = "timeout" =>
        /\ caller = "idle" => alive = FALSE
        /\ caller \in {"send", "recall", "arm", "wait"} => n = exec
    /\ caller \in {"send", "recall", "arm", "wait"} => callback \in {None, exec}
    /\ caller \in {"unlaunched", "handshake"} => exec = 0
    /\ \A n \in Execs : outcome[n].how = "pending" => outcome[n] = Pending

\* Before Launch there is no chunk, no script and no timeout.
LEMMA StageInit == Init => ReaderInv /\ LaunchInv /\ TimeoutInv
BY DEF Init, ReaderInv, LaunchInv, TimeoutInv, Pending, None

\* After a frame was dispatched the reader has the rest of the chunk, or none.
LEMMA FrameDoneLeaves ==
    ASSUME TypeInv, inbox # <<>>, FrameDone
    PROVE  /\ reader' \in {"dispatch", "receive"}
           /\ reader' = "receive" => inbox' = <<>>
<1>1. inbox \in Seq(SidecarFrames) /\ Len(inbox) \in Nat \ {0}
  BY EmptySeq DEF TypeInv, FramesOK
<1>2. Len(Tail(inbox)) = Len(inbox) - 1 /\ Tail(inbox) \in Seq(SidecarFrames)
  BY <1>1
<1> QED
  BY <1>1, <1>2, EmptySeq DEF FrameDone

\* The reader's chunk and the sidecar's first words are as ReaderInv says.
LEMMA ReaderInvStep == TypeInv /\ ShutInv /\ ReaderInv /\ [Next]_vars => ReaderInv'
<1> USE DEF world, callerVars, readerVars, watchdogVars, flagVars, resultVars,
    pipeVars, sidecarVars, Goto, ReaderInv
<1> SUFFICES ASSUME TypeInv, ShutInv, ReaderInv, [Next]_vars PROVE ReaderInv'
  OBVIOUS
<1>0. /\ reader \in {"dispatch", "readLine", "answer", "take", "call"} => inbox # <<>>
      /\ caller = "unlaunched" => reader = "off" /\ sidecar = "none"
  BY DEF TypeInv, FramesOK, ShutInv
<1>1. CASE Launch
  <2>1. CASE StartFails
    BY <2>1, <1>0 DEF StartFails
  <2>2. CASE StartHost
    BY <2>2, <1>0 DEF StartHost
  <2>3. CASE Activate
    BY <2>3, <1>0 DEF Activate
  <2>4. CASE HandshakeTimeout
    BY <2>4, <1>0 DEF HandshakeTimeout
  <2> QED
    BY <1>1, <2>1, <2>2, <2>3, <2>4 DEF Launch
<1>2. CASE Begin
  BY <1>2, <1>0 DEF Begin, StoreCallback
<1>3. CASE Execution
  <2>1. CASE SendExecCode
    BY <2>1, <1>0 DEF SendExecCode, Delivered, Refused
  <2>2. CASE Recall
    BY <2>2, <1>0 DEF Recall
  <2>3. CASE ActivateWatchdog
    BY <2>3, <1>0 DEF ActivateWatchdog, NotifyWatchdog
  <2>4. CASE WaitTimeout
    BY <2>4, <1>0 DEF WaitTimeout
  <2>5. CASE Return
    BY <2>5, <1>0 DEF Return, ClearHandlers
  <2> QED
    BY <1>3, <2>1, <2>2, <2>3, <2>4, <2>5 DEF Execution
<1>4. CASE BeginShutdown
  BY <1>4, <1>0 DEF BeginShutdown
<1>5. CASE Shutdown
  <2>1. CASE SendTerminate
    BY <2>1, <1>0 DEF SendTerminate, Offer, Delivered, Refused
  <2>2. CASE ClearAwaiting
    BY <2>2, <1>0 DEF ClearAwaiting
  <2>3. CASE RequestStop
    BY <2>3, <1>0 DEF RequestStop, NotifyWatchdog
  <2>4. CASE AbortLaunch
    BY <2>4, <1>0 DEF AbortLaunch, NotifyWatchdog
  <2>5. CASE StopHost
    BY <2>5, <1>0 DEF StopHost, ClosePipes
  <2>6. CASE Join
    BY <2>6, <1>0 DEF Join, JoinWatchdog
  <2> QED
    BY <1>5, <2>1, <2>2, <2>3, <2>4, <2>5, <2>6 DEF Shutdown
<1>6. CASE Reader
  <2>1. CASE Receive
    BY <2>1, <1>0 DEF Receive, ReaderOnly
  <2>2. CASE LeaveReader
    BY <2>2, <1>0 DEF LeaveReader, ReaderOnly
  <2>3. CASE DispatchReady
    <3>1. inbox # <<>> /\ FrameDone
      BY <2>3, <1>0 DEF DispatchReady, ReaderOnly
    <3>2. reader' \in {"dispatch", "receive"} /\ (reader' = "receive" => inbox' = <<>>)
      BY <3>1, FrameDoneLeaves
    <3> QED
      BY <2>3, <1>0, <3>2 DEF DispatchReady, ReaderOnly
  <2>4. CASE DispatchRequest
    <3>1. CASE FrameDone
      <4>1. reader' \in {"dispatch", "receive"} /\ (reader' = "receive" => inbox' = <<>>)
        BY <2>4, <1>0, <3>1, FrameDoneLeaves DEF DispatchRequest
      <4> QED
        BY <2>4, <1>0, <4>1 DEF DispatchRequest, ReaderOnly
    <3>2. CASE UNCHANGED inbox /\ reader' \in {"readLine", "answer"}
      BY <2>4, <1>0, <3>2 DEF DispatchRequest, ReaderOnly
    <3> QED
      BY <2>4, <3>1, <3>2 DEF DispatchRequest
  <2>5. CASE Answer
    <3>1. inbox # <<>> /\ FrameDone
      BY <2>5, <1>0 DEF Answer, Offer, Delivered, Refused, ReaderOnly
    <3>2. reader' \in {"dispatch", "receive"} /\ (reader' = "receive" => inbox' = <<>>)
      BY <3>1, FrameDoneLeaves
    <3> QED
      BY <2>5, <1>0, <3>2 DEF Answer, Offer, Delivered, Refused, ReaderOnly
  <2>6. CASE DispatchResult
    BY <2>6, <1>0 DEF DispatchResult, NotifyWatchdog, ReaderOnly
  <2>7. CASE ReaderTakes
    <3>1. CASE FrameDone
      <4>1. reader' \in {"dispatch", "receive"} /\ (reader' = "receive" => inbox' = <<>>)
        BY <2>7, <1>0, <3>1, FrameDoneLeaves DEF ReaderTakes
      <4> QED
        BY <2>7, <1>0, <4>1 DEF ReaderTakes, ReaderOnly
    <3>2. CASE UNCHANGED inbox /\ reader' = "call"
      BY <2>7, <1>0, <3>2 DEF ReaderTakes, ReaderOnly
    <3> QED
      BY <2>7, <3>1, <3>2 DEF ReaderTakes
  <2>8. CASE ReaderCalls
    <3>1. inbox # <<>> /\ FrameDone
      BY <2>8, <1>0 DEF ReaderCalls, ReaderOnly
    <3>2. reader' \in {"dispatch", "receive"} /\ (reader' = "receive" => inbox' = <<>>)
      BY <3>1, FrameDoneLeaves
    <3> QED
      BY <2>8, <1>0, <3>2 DEF ReaderCalls, ReaderOnly
  <2> QED
    BY <1>6, <2>1, <2>2, <2>3, <2>4, <2>5, <2>6, <2>7, <2>8 DEF Reader
<1>7. CASE UserAnswers
  BY <1>7, <1>0 DEF UserAnswers, ReaderOnly
<1>8. CASE Watchdog
  <2>1. CASE CheckPhase1
    BY <2>1, <1>0 DEF CheckPhase1, WatchdogOnly
  <2>2. CASE CheckPhase2
    BY <2>2, <1>0 DEF CheckPhase2, WatchdogOnly
  <2>3. CASE FallAsleep
    BY <2>3, <1>0 DEF FallAsleep, WatchdogOnly
  <2>4. CASE TimerExpires
    BY <2>4, <1>0 DEF TimerExpires, WatchdogOnly
  <2>5. CASE ResetAwaiting
    BY <2>5, <1>0 DEF ResetAwaiting, WatchdogOnly
  <2>6. CASE SendInterrupt
    BY <2>6, <1>0 DEF SendInterrupt, Offer, Delivered, Refused, WatchdogOnly
  <2>7. CASE WatchdogTakes
    BY <2>7, <1>0 DEF WatchdogTakes, WatchdogOnly
  <2>8. CASE WatchdogCalls
    BY <2>8, <1>0 DEF WatchdogCalls, WatchdogOnly
  <2> QED
    BY <1>8, <2>1, <2>2, <2>3, <2>4, <2>5, <2>6, <2>7, <2>8 DEF Watchdog
<1>9. CASE Sidecar
  <2>1. CASE SidecarBoots
    BY <2>1, <1>0 DEF SidecarBoots, SidecarOnly
  <2>2. CASE SidecarReads
    BY <2>2, <1>0 DEF SidecarReads, SidecarOnly
  <2>3. CASE ScriptAsks
    BY <2>3, <1>0 DEF ScriptAsks, AnswerType, RequestKinds, SidecarOnly
  <2>4. CASE ScriptReadsAnswer
    BY <2>4, <1>0 DEF ScriptReadsAnswer, SidecarOnly
  <2>5. CASE ScriptFinishes
    BY <2>5, <1>0 DEF ScriptFinishes, SidecarOnly
  <2>6. CASE SidecarDies
    BY <2>6, <1>0 DEF SidecarDies, SidecarOnly
  <2> QED
    BY <1>9, <2>1, <2>2, <2>3, <2>4, <2>5, <2>6 DEF Sidecar
<1>10. CASE BrokenPipe
  BY <1>10, <1>0 DEF BrokenPipe
<1>11. CASE UNCHANGED vars
  BY <1>11, <1>0 DEF vars
<1> QED
  BY <1>1, <1>2, <1>3, <1>4, <1>5, <1>6, <1>7, <1>8, <1>9, <1>10, <1>11 DEF
     Next

\* Until Launch returns the bridge is inactive and its timer does not run.
LEMMA LaunchInvStep == ShutInv /\ LaunchInv /\ [Next]_vars => LaunchInv'
<1> USE DEF world, callerVars, readerVars, watchdogVars, flagVars, resultVars,
    pipeVars, sidecarVars, Goto, LaunchInv
<1> SUFFICES ASSUME ShutInv, LaunchInv, [Next]_vars PROVE LaunchInv'
  OBVIOUS
<1>0. caller = "unlaunched" => watchdog = "off"
  BY DEF ShutInv
<1>1. CASE Launch
  <2>1. CASE StartFails
    BY <2>1, <1>0 DEF StartFails
  <2>2. CASE StartHost
    BY <2>2, <1>0 DEF StartHost
  <2>3. CASE Activate
    BY <2>3, <1>0 DEF Activate
  <2>4. CASE HandshakeTimeout
    BY <2>4, <1>0 DEF HandshakeTimeout
  <2> QED
    BY <1>1, <2>1, <2>2, <2>3, <2>4 DEF Launch
<1>2. CASE Begin
  BY <1>2, <1>0 DEF Begin, StoreCallback
<1>3. CASE Execution
  <2>1. CASE SendExecCode
    BY <2>1, <1>0 DEF SendExecCode, Delivered, Refused
  <2>2. CASE Recall
    BY <2>2, <1>0 DEF Recall
  <2>3. CASE ActivateWatchdog
    BY <2>3, <1>0 DEF ActivateWatchdog, NotifyWatchdog
  <2>4. CASE WaitTimeout
    BY <2>4, <1>0 DEF WaitTimeout
  <2>5. CASE Return
    BY <2>5, <1>0 DEF Return, ClearHandlers
  <2> QED
    BY <1>3, <2>1, <2>2, <2>3, <2>4, <2>5 DEF Execution
<1>4. CASE BeginShutdown
  BY <1>4, <1>0 DEF BeginShutdown
<1>5. CASE Shutdown
  <2>1. CASE SendTerminate
    BY <2>1, <1>0 DEF SendTerminate, Offer, Delivered, Refused
  <2>2. CASE ClearAwaiting
    BY <2>2, <1>0 DEF ClearAwaiting
  <2>3. CASE RequestStop
    BY <2>3, <1>0 DEF RequestStop, NotifyWatchdog
  <2>4. CASE AbortLaunch
    BY <2>4, <1>0 DEF AbortLaunch, NotifyWatchdog
  <2>5. CASE StopHost
    BY <2>5, <1>0 DEF StopHost, ClosePipes
  <2>6. CASE Join
    BY <2>6, <1>0 DEF Join, JoinWatchdog
  <2> QED
    BY <1>5, <2>1, <2>2, <2>3, <2>4, <2>5, <2>6 DEF Shutdown
<1>6. CASE Reader
  <2>1. CASE Receive
    BY <2>1, <1>0 DEF Receive, ReaderOnly
  <2>2. CASE LeaveReader
    BY <2>2, <1>0 DEF LeaveReader, ReaderOnly
  <2>3. CASE DispatchReady
    BY <2>3, <1>0 DEF DispatchReady, FrameDone, ReaderOnly
  <2>4. CASE DispatchRequest
    BY <2>4, <1>0 DEF DispatchRequest, FrameDone, ReaderOnly
  <2>5. CASE Answer
    BY <2>5, <1>0 DEF Answer, Offer, Delivered, Refused, FrameDone, ReaderOnly
  <2>6. CASE DispatchResult
    BY <2>6, <1>0 DEF DispatchResult, NotifyWatchdog, ReaderOnly
  <2>7. CASE ReaderTakes
    BY <2>7, <1>0 DEF ReaderTakes, FrameDone, ReaderOnly
  <2>8. CASE ReaderCalls
    BY <2>8, <1>0 DEF ReaderCalls, FrameDone, ReaderOnly
  <2> QED
    BY <1>6, <2>1, <2>2, <2>3, <2>4, <2>5, <2>6, <2>7, <2>8 DEF Reader
<1>7. CASE UserAnswers
  BY <1>7, <1>0 DEF UserAnswers, ReaderOnly
<1>8. CASE Watchdog
  <2>1. CASE CheckPhase1
    <3>1. ASSUME caller \in {"unlaunched", "handshake"}
          PROVE  watchdog' = "block1"
      BY <2>1, <3>1, Zenon DEF CheckPhase1
    <3> QED
      BY <2>1, <3>1 DEF CheckPhase1, WatchdogOnly
  <2>2. CASE CheckPhase2
    BY <2>2, <1>0 DEF CheckPhase2, WatchdogOnly
  <2>3. CASE FallAsleep
    BY <2>3, <1>0 DEF FallAsleep, WatchdogOnly
  <2>4. CASE TimerExpires
    BY <2>4, <1>0 DEF TimerExpires, WatchdogOnly
  <2>5. CASE ResetAwaiting
    BY <2>5, <1>0 DEF ResetAwaiting, WatchdogOnly
  <2>6. CASE SendInterrupt
    BY <2>6, <1>0 DEF SendInterrupt, Offer, Delivered, Refused, WatchdogOnly
  <2>7. CASE WatchdogTakes
    BY <2>7, <1>0 DEF WatchdogTakes, WatchdogOnly
  <2>8. CASE WatchdogCalls
    BY <2>8, <1>0 DEF WatchdogCalls, WatchdogOnly
  <2> QED
    BY <1>8, <2>1, <2>2, <2>3, <2>4, <2>5, <2>6, <2>7, <2>8 DEF Watchdog
<1>9. CASE Sidecar
  <2>1. CASE SidecarBoots
    BY <2>1, <1>0 DEF SidecarBoots, SidecarOnly
  <2>2. CASE SidecarReads
    BY <2>2, <1>0 DEF SidecarReads, SidecarOnly
  <2>3. CASE ScriptAsks
    BY <2>3, <1>0 DEF ScriptAsks, AnswerType, RequestKinds, SidecarOnly
  <2>4. CASE ScriptReadsAnswer
    BY <2>4, <1>0 DEF ScriptReadsAnswer, SidecarOnly
  <2>5. CASE ScriptFinishes
    BY <2>5, <1>0 DEF ScriptFinishes, SidecarOnly
  <2>6. CASE SidecarDies
    BY <2>6, <1>0 DEF SidecarDies, SidecarOnly
  <2> QED
    BY <1>9, <2>1, <2>2, <2>3, <2>4, <2>5, <2>6 DEF Sidecar
<1>10. CASE BrokenPipe
  BY <1>10, <1>0 DEF BrokenPipe
<1>11. CASE UNCHANGED vars
  BY <1>11, <1>0 DEF vars
<1> QED
  BY <1>1, <1>2, <1>3, <1>4, <1>5, <1>6, <1>7, <1>8, <1>9, <1>10, <1>11 DEF
     Next

\* A timeout is reported for the script in flight only, and ends the channel.
LEMMA TimeoutInvStep ==
    TypeInv /\ OwnerInv /\ TimeoutInv /\ [Next]_vars => TimeoutInv'
<1> USE DEF world, callerVars, readerVars, watchdogVars, flagVars, resultVars,
    pipeVars, sidecarVars, Goto, TimeoutInv
<1> SUFFICES ASSUME TypeInv, OwnerInv, TimeoutInv, [Next]_vars PROVE TimeoutInv'
  OBVIOUS
<1>0. /\ exec \in 0 .. MaxExec /\ outcome \in [Execs -> Outcomes] /\ MaxExec \in Nat
      /\ caller = "wait" => exec \in Execs
  BY MaxExecAssumption DEF TypeInv, NumbersOK, Execs, None
<1>1. CASE Launch
  <2>1. CASE StartFails
    BY <2>1, <1>0 DEF StartFails
  <2>2. CASE StartHost
    BY <2>2, <1>0 DEF StartHost
  <2>3. CASE Activate
    <3>1. \A n \in Execs : outcome'[n] = Pending
      BY <2>3, <1>0 DEF Activate, OwnerInv, Execs
    <3> QED
      BY <2>3, <3>1 DEF Activate, Pending
  <2>4. CASE HandshakeTimeout
    BY <2>4, <1>0 DEF HandshakeTimeout
  <2> QED
    BY <1>1, <2>1, <2>2, <2>3, <2>4 DEF Launch
<1>2. CASE Begin
  <2>1. alive = TRUE
    BY <1>2 DEF Begin, TypeInv, FlagsOK
  <2>2. caller = "idle" /\ caller' = "send" /\ UNCHANGED outcome
    BY <1>2 DEF Begin, StoreCallback
  <2>3. callback' = exec'
    BY <1>2 DEF Begin, StoreCallback
  <2> QED
    BY <2>1, <2>2, <2>3
<1>3. CASE Execution
  <2>1. CASE SendExecCode
    BY <2>1, <1>0 DEF SendExecCode, Delivered, Refused
  <2>2. CASE Recall
    <3>1. \A n \in Execs : outcome'[n].how = "timeout" => outcome[n].how = "timeout"
      BY <2>2, <1>0 DEF Recall, Settle
    <3>2. \A n \in Execs : outcome'[n].how = "pending" => outcome'[n] = outcome[n]
      BY <2>2, <1>0 DEF Recall, Settle
    <3> QED
      BY <2>2, <3>1, <3>2 DEF Recall
  <2>3. CASE ActivateWatchdog
    BY <2>3, <1>0 DEF ActivateWatchdog, NotifyWatchdog
  <2>4. CASE WaitTimeout
    <3>1. \A n \in Execs : outcome'[n].how = "timeout" => outcome[n].how = "timeout"
      BY <2>4, <1>0 DEF WaitTimeout, Settle
    <3>2. \A n \in Execs : outcome'[n].how = "pending" => outcome'[n] = outcome[n]
      BY <2>4, <1>0 DEF WaitTimeout, Settle
    <3> QED
      BY <2>4, <3>1, <3>2 DEF WaitTimeout
  <2>5. CASE Return
    <3>1. caller = "wait" /\ caller' = "idle" /\ UNCHANGED <<outcome, exec>>
      BY <2>5 DEF Return, ClearHandlers
    <3>2. \A n \in Execs : outcome[n].how = "timeout" => alive' = FALSE
      BY <2>5, <3>1 DEF Return
    <3> QED
      BY <3>1, <3>2
  <2> QED
    BY <1>3, <2>1, <2>2, <2>3, <2>4, <2>5 DEF Execution
<1>4. CASE BeginShutdown
  BY <1>4, <1>0 DEF BeginShutdown
<1>5. CASE Shutdown
  <2>1. CASE SendTerminate
    BY <2>1, <1>0 DEF SendTerminate, Offer, Delivered, Refused
  <2>2. CASE ClearAwaiting
    BY <2>2, <1>0 DEF ClearAwaiting
  <2>3. CASE RequestStop
    BY <2>3, <1>0 DEF RequestStop, NotifyWatchdog
  <2>4. CASE AbortLaunch
    BY <2>4, <1>0 DEF AbortLaunch, NotifyWatchdog
  <2>5. CASE StopHost
    BY <2>5, <1>0 DEF StopHost, ClosePipes
  <2>6. CASE Join
    BY <2>6, <1>0 DEF Join, JoinWatchdog
  <2> QED
    BY <1>5, <2>1, <2>2, <2>3, <2>4, <2>5, <2>6 DEF Shutdown
<1>6. CASE Reader
  <2>1. CASE Receive
    BY <2>1, <1>0 DEF Receive, ReaderOnly
  <2>2. CASE LeaveReader
    BY <2>2, <1>0 DEF LeaveReader, ReaderOnly
  <2>3. CASE DispatchReady
    BY <2>3, <1>0 DEF DispatchReady, FrameDone, ReaderOnly
  <2>4. CASE DispatchRequest
    BY <2>4, <1>0 DEF DispatchRequest, FrameDone, ReaderOnly
  <2>5. CASE Answer
    BY <2>5, <1>0 DEF Answer, Offer, Delivered, Refused, FrameDone, ReaderOnly
  <2>6. CASE DispatchResult
    BY <2>6, <1>0 DEF DispatchResult, NotifyWatchdog, ReaderOnly
  <2>7. CASE ReaderTakes
    BY <2>7, <1>0 DEF ReaderTakes, FrameDone, ReaderOnly
  <2>8. CASE ReaderCalls
    <3>1. \A n \in Execs : outcome'[n].how = "timeout" => outcome[n].how = "timeout"
      BY <2>8, <1>0 DEF ReaderCalls, Invoke, Settle
    <3>2. \A n \in Execs : outcome'[n].how = "pending" => outcome'[n] = outcome[n]
      BY <2>8, <1>0 DEF ReaderCalls, Invoke, Settle
    <3> QED
      BY <2>8, <3>1, <3>2 DEF ReaderCalls, ReaderOnly
  <2> QED
    BY <1>6, <2>1, <2>2, <2>3, <2>4, <2>5, <2>6, <2>7, <2>8 DEF Reader
<1>7. CASE UserAnswers
  BY <1>7, <1>0 DEF UserAnswers, ReaderOnly
<1>8. CASE Watchdog
  <2>1. CASE CheckPhase1
    BY <2>1, <1>0 DEF CheckPhase1, WatchdogOnly
  <2>2. CASE CheckPhase2
    BY <2>2, <1>0 DEF CheckPhase2, WatchdogOnly
  <2>3. CASE FallAsleep
    BY <2>3, <1>0 DEF FallAsleep, WatchdogOnly
  <2>4. CASE TimerExpires
    BY <2>4, <1>0 DEF TimerExpires, WatchdogOnly
  <2>5. CASE ResetAwaiting
    BY <2>5, <1>0 DEF ResetAwaiting, WatchdogOnly
  <2>6. CASE SendInterrupt
    BY <2>6, <1>0 DEF SendInterrupt, Offer, Delivered, Refused, WatchdogOnly
  <2>7. CASE WatchdogTakes
    BY <2>7, <1>0 DEF WatchdogTakes, WatchdogOnly
  <2>8. CASE WatchdogCalls
    <3>1. \A n \in Execs : outcome'[n].how = "timeout" =>
              \/ outcome[n].how = "timeout"
              \/ n = exec /\ caller \in {"send", "recall", "arm", "wait"}
      BY <2>8, <1>0 DEF WatchdogCalls, Invoke, Settle, InFlight
    <3>2. \A n \in Execs : outcome'[n].how = "pending" => outcome'[n] = outcome[n]
      BY <2>8, <1>0 DEF WatchdogCalls, Invoke, Settle
    <3> QED
      BY <2>8, <3>1, <3>2 DEF WatchdogCalls, WatchdogOnly
  <2> QED
    BY <1>8, <2>1, <2>2, <2>3, <2>4, <2>5, <2>6, <2>7, <2>8 DEF Watchdog
<1>9. CASE Sidecar
  <2>1. CASE SidecarBoots
    BY <2>1, <1>0 DEF SidecarBoots, SidecarOnly
  <2>2. CASE SidecarReads
    BY <2>2, <1>0 DEF SidecarReads, SidecarOnly
  <2>3. CASE ScriptAsks
    BY <2>3, <1>0 DEF ScriptAsks, AnswerType, RequestKinds, SidecarOnly
  <2>4. CASE ScriptReadsAnswer
    BY <2>4, <1>0 DEF ScriptReadsAnswer, SidecarOnly
  <2>5. CASE ScriptFinishes
    BY <2>5, <1>0 DEF ScriptFinishes, SidecarOnly
  <2>6. CASE SidecarDies
    BY <2>6, <1>0 DEF SidecarDies, SidecarOnly
  <2> QED
    BY <1>9, <2>1, <2>2, <2>3, <2>4, <2>5, <2>6 DEF Sidecar
<1>10. CASE BrokenPipe
  BY <1>10, <1>0 DEF BrokenPipe
<1>11. CASE UNCHANGED vars
  BY <1>11, <1>0 DEF vars
<1> QED
  BY <1>1, <1>2, <1>3, <1>4, <1>5, <1>6, <1>7, <1>8, <1>9, <1>10, <1>11 DEF
     Next

-----------------------------------------------------------------------------
(* The flow of one script.  While nothing was abandoned, the script that   *)
(* was sent is in exactly one place: in the pipe, in the sidecar, or on    *)
(* its way back as a result.  At the points where the next one may be sent *)
(* ("Free") it is in none of them.                                         *)

Busy == sidecar \in {"running", "RES_INPUT", "SHARED_VALUE"}

Free ==
    \/ caller \in {"unlaunched", "handshake", "send", "recall"}
    \/ caller = "idle" /\ alive = TRUE
    \/ /\ caller \in {"arm", "wait"}
       /\ outcome[exec].how \in {"result", "sendFailed"}

ScriptInv ==
    /\ OneOf(toSidecar, "EXEC_CODE", exec) /\ OneOf(Came, "EXEC_RESULT", exec)
    /\ ~Lacks(toSidecar, "EXEC_CODE")
            => sidecar \in {"idle", "dead"} /\ Lacks(Came, "EXEC_RESULT")
    /\ Busy => running = exec /\ Lacks(Came, "EXEC_RESULT")
    /\ Free => ~Busy /\ Lacks(toSidecar, "EXEC_CODE") /\ Lacks(Came, "EXEC_RESULT")
    /\ caller \in {"send", "recall"}
            => outcome[exec].how \notin {"result", "sendFailed"}

OwnInv == \A n \in Execs : outcome[n].how = "result" => outcome[n].of = n

FlowInv == NothingAbandoned => ScriptInv /\ OwnInv

\* Before Launch no script is anywhere.
LEMMA FlowInit == Init => FlowInv
<1> SUFFICES ASSUME Init PROVE ScriptInv /\ OwnInv
  BY DEF FlowInv
<1>1. toSidecar = <<>> /\ Came = <<>>
  BY DEF Init, Came
<1> QED
  BY <1>1, KeptEmpty DEF Init, ScriptInv, OwnInv, Busy, Pending

\* What ScriptInv says of the pipe and of the outcomes are the two properties.
LEMMA FlowImplies == TypeInv /\ FlowInv => ResultIsOwn /\ ScriptFindsIdleSidecar
BY DEF FlowInv, ScriptInv, OwnInv, ResultIsOwn, ScriptFindsIdleSidecar, Lacks

\* A step that sends no script, starts none, reports no result and leaves the
\* caller no freer than it was.
Passing ==
    /\ UNCHANGED <<exec, running>>
    /\ \A n \in Execs : outcome'[n].how \in {"result", "sendFailed"}
            => outcome'[n] = outcome[n]
    /\ Kept(toSidecar, toSidecar', "EXEC_CODE") /\ Kept(Came, Came', "EXEC_RESULT")
    /\ Busy' => Busy
    /\ sidecar \in {"idle", "dead"} => sidecar' \in {"idle", "dead"}
    /\ Free' => Free
    /\ caller' \in {"send", "recall"} => caller \in {"send", "recall"}

\* Such a step keeps every script where it is.
LEMMA PassingStep ==
    ASSUME TypeInv, FlowInv, Passing, NothingAbandoned' => NothingAbandoned
    PROVE  FlowInv'
<1> SUFFICES ASSUME NothingAbandoned, ScriptInv, OwnInv PROVE ScriptInv' /\ OwnInv'
  BY DEF FlowInv
<1>1. OwnInv'
  BY DEF OwnInv, Passing
<1>2. caller' \in {"send", "recall"}
        => outcome'[exec'].how \notin {"result", "sendFailed"}
  BY DEF Passing, ScriptInv, TypeInv, NumbersOK, Execs, None
<1>3. OneOf(toSidecar, "EXEC_CODE", exec)' /\ OneOf(Came, "EXEC_RESULT", exec)'
  BY DEF Passing, ScriptInv, Kept
<1> QED
  BY <1>1, <1>2, <1>3 DEF Passing, ScriptInv, Kept

\* Nothing moves between two queues that stay as they are.
LEMMA KeptSame ==
    ASSUME NEW s, NEW t, s = t, NEW type
    PROVE  Kept(s, t, type)
BY DEF Kept

\* The two ways on which frames travel, as sequences.
LEMMA WaysAreSequences ==
    ASSUME TypeInv
    PROVE  /\ toSidecar \in Seq(HostFrames)
           /\ inbox \in Seq(SidecarFrames) /\ fromSidecar \in Seq(SidecarFrames)
           /\ Came \in Seq(SidecarFrames)
BY DEF TypeInv, FramesOK, Came

\* A frame that is dispatched leaves what came at its head.
LEMMA DispatchTakesHead ==
    ASSUME TypeInv, inbox # <<>>, FrameDone, UNCHANGED fromSidecar
    PROVE  /\ Came' = Tail(Came) /\ Head(Came) = Head(inbox) /\ Came # <<>>
           /\ Kept(Came, Came', "EXEC_RESULT")
<1>1. Came' = Tail(Came) /\ Head(Came) = Head(inbox) /\ Came # <<>>
  BY WaysAreSequences, CameTail DEF Came, FrameDone
<1> QED
  BY <1>1, WaysAreSequences, KeptTail

\* A best-effort frame of the engine is not a script.
LEMMA OfferKeeps ==
    ASSUME TypeInv, NEW frame \in HostFrames, frame.type # "EXEC_CODE", Offer(frame)
    PROVE  Kept(toSidecar, toSidecar', "EXEC_CODE") /\ UNCHANGED fromSidecar
<1>1. CASE Delivered(frame)
  BY <1>1, WaysAreSequences, KeptAppend DEF Delivered
<1>2. CASE Refused
  BY <1>2, KeptSame DEF Refused, pipeVars
<1> QED
  BY <1>1, <1>2 DEF Offer

\* A frame of the sidecar comes behind what it wrote before.
LEMMA SayComes ==
    ASSUME TypeInv, NEW frame \in SidecarFrames, Say(frame), UNCHANGED inbox
    PROVE  /\ Came' = Append(Came, frame)
           /\ frame.type # "EXEC_RESULT" => Kept(Came, Came', "EXEC_RESULT")
<1>1. Came' = Append(Came, frame)
  BY WaysAreSequences, CameAppend DEF Came, Say
<1> QED
  BY <1>1, WaysAreSequences, KeptAppend

\* No step loses track of a script, reports a result for another one, or sends a
\* script while one may still be under way.
LEMMA FlowStep ==
    /\ TypeInv /\ ShutInv /\ OwnerInv /\ ReaderInv /\ LaunchInv /\ TimeoutInv /\ FlowInv
    /\ [Next]_vars
    => FlowInv'
<1> USE DEF world, callerVars, readerVars, watchdogVars, flagVars, resultVars,
    pipeVars, sidecarVars, Goto
<1> SUFFICES ASSUME TypeInv, ShutInv, OwnerInv, ReaderInv, LaunchInv, TimeoutInv,
                    FlowInv, [Next]_vars
             PROVE  FlowInv'
  OBVIOUS
<1>0. /\ exec \in 0 .. MaxExec /\ outcome \in [Execs -> Outcomes] /\ MaxExec \in Nat
      /\ reader \in {"dispatch", "readLine", "answer", "take", "call"} => inbox # <<>>
      /\ caller \in {"send", "recall", "arm", "wait"} => exec \in Execs
  BY MaxExecAssumption DEF TypeInv, NumbersOK, FramesOK, Execs, None
<1>a. ASSUME Passing, UNCHANGED outcome PROVE FlowInv'
  BY <1>a, PassingStep DEF NothingAbandoned
<1>1. CASE Launch
  <2>1. CASE StartFails
    <3>1. UNCHANGED <<outcome, Came, toSidecar>>
      BY <2>1 DEF StartFails, Came
    <3>2. Passing
      BY <2>1, <3>1, KeptSame DEF StartFails, Passing, Busy, Free
    <3> QED
      BY <3>1, <3>2, <1>a
  <2>2. CASE StartHost
    <3>1. UNCHANGED <<outcome, Came, toSidecar>>
      BY <2>2 DEF StartHost, Came
    <3>2. sidecar = "none" /\ sidecar' = "boot"
      BY <2>2 DEF StartHost, ShutInv
    <3>3. Passing
      BY <2>2, <3>1, <3>2, KeptSame DEF StartHost, Passing, Busy, Free
    <3> QED
      BY <3>1, <3>3, <1>a
  <2>3. CASE Activate
    <3>1. UNCHANGED <<outcome, Came, toSidecar>>
      BY <2>3 DEF Activate, Came
    <3>2. Passing
      BY <2>3, <3>1, KeptSame DEF Activate, Passing, Busy, Free
    <3> QED
      BY <3>1, <3>2, <1>a
  <2>4. CASE HandshakeTimeout
    <3>1. UNCHANGED <<outcome, Came, toSidecar>>
      BY <2>4 DEF HandshakeTimeout, Came
    <3>2. Passing
      BY <2>4, <3>1, KeptSame DEF HandshakeTimeout, Passing, Busy, Free
    <3> QED
      BY <3>1, <3>2, <1>a
  <2> QED
    BY <1>1, <2>1, <2>2, <2>3, <2>4 DEF Launch
<1>2. CASE Begin
  <2>1. /\ caller = "idle" /\ caller' = "send" /\ exec' = exec + 1 /\ exec < MaxExec
        /\ UNCHANGED <<outcome, Came, toSidecar, sidecar, running>> /\ alive = TRUE
    BY <1>2 DEF Begin, StoreCallback, Came, TypeInv, FlagsOK
  <2>2. exec' \in Execs /\ outcome[exec'] = Pending /\ (NothingAbandoned' => NothingAbandoned)
    BY <1>0, <2>1 DEF OwnerInv, Execs, NothingAbandoned
  <2> SUFFICES ASSUME NothingAbandoned, ScriptInv, OwnInv PROVE ScriptInv' /\ OwnInv'
    BY <2>2 DEF FlowInv
  <2>3. ~Busy /\ Lacks(toSidecar, "EXEC_CODE") /\ Lacks(Came, "EXEC_RESULT")
    BY <2>1 DEF ScriptInv, Free
  <2>4. /\ ~Busy' /\ Lacks(toSidecar, "EXEC_CODE")' /\ Lacks(Came, "EXEC_RESULT")'
        /\ OneOf(toSidecar, "EXEC_CODE", exec)' /\ OneOf(Came, "EXEC_RESULT", exec)'
    BY <2>1, <2>3 DEF Busy, Lacks, OneOf
  <2> QED
    BY <2>1, <2>2, <2>4 DEF ScriptInv, OwnInv, Pending
<1>3. CASE Execution
  <2>1. CASE SendExecCode
    <3>1. CASE Goto("send", "recall") /\ Refused
      <4>1. UNCHANGED <<outcome, Came, toSidecar>>
        BY <2>1, <3>1 DEF SendExecCode, Refused, Came
      <4>2. Passing
        BY <2>1, <3>1, <4>1, KeptSame DEF SendExecCode, Passing, Busy, Free
      <4> QED
        BY <4>1, <4>2, <1>a
    <3>2. CASE Goto("send", "arm") /\ Delivered(Frame("EXEC_CODE", exec))
      <4>1. /\ caller = "send" /\ caller' = "arm" /\ sidecar # "dead"
            /\ UNCHANGED <<exec, outcome, Came, sidecar, running>>
            /\ toSidecar' = Append(toSidecar, Frame("EXEC_CODE", exec))
        BY <2>1, <3>2 DEF SendExecCode, Delivered, Came
      <4> SUFFICES ASSUME NothingAbandoned, ScriptInv, OwnInv PROVE ScriptInv' /\ OwnInv'
        BY <4>1 DEF FlowInv, NothingAbandoned
      <4>2. ~Busy /\ Lacks(toSidecar, "EXEC_CODE") /\ Lacks(Came, "EXEC_RESULT")
        BY <4>1 DEF ScriptInv, Free
      <4>3. sidecar = "idle"
        BY <4>1, <4>2 DEF Busy, ReaderInv, TypeInv, ControlOK, SidecarStates
      <4>4. OneOf(toSidecar', "EXEC_CODE", exec)
        <5>1. /\ Frame("EXEC_CODE", exec) \in HostFrames
              /\ Frame("EXEC_CODE", exec).type = "EXEC_CODE"
              /\ Frame("EXEC_CODE", exec).of = exec
          BY <1>0 DEF Frame, HostFrames
        <5> QED
          BY <4>1, <4>2, <5>1, FirstOne, WaysAreSequences
      <4>5. ~Busy' /\ ~Free' /\ OneOf(Came, "EXEC_RESULT", exec)' /\ Lacks(Came, "EXEC_RESULT")'
        BY <4>1, <4>2 DEF Busy, Free, ScriptInv
      <4> QED
        BY <4>1, <4>3, <4>4, <4>5 DEF ScriptInv, OwnInv
    <3> QED
      BY <2>1, <3>1, <3>2 DEF SendExecCode
  <2>2. CASE Recall
    <3>1. /\ caller = "recall" /\ caller' = "wait"
          /\ UNCHANGED <<exec, Came, toSidecar, sidecar, running>>
      BY <2>2 DEF Recall, Came
    <3>2. \A n \in Execs : \/ outcome'[n] = outcome[n]
                            \/ outcome'[n].how = "sendFailed"
      BY <2>2, <1>0 DEF Recall, Settle
    <3>3. NothingAbandoned' => NothingAbandoned
      BY <2>2, <1>0 DEF Recall, Settle, NothingAbandoned, Pending
    <3> SUFFICES ASSUME NothingAbandoned, ScriptInv, OwnInv PROVE ScriptInv' /\ OwnInv'
      BY <3>3 DEF FlowInv
    <3>4. ~Busy /\ Lacks(toSidecar, "EXEC_CODE") /\ Lacks(Came, "EXEC_RESULT")
      BY <3>1 DEF ScriptInv, Free
    <3>5. OwnInv'
      BY <3>2 DEF OwnInv
    <3> QED
      BY <3>1, <3>4, <3>5 DEF ScriptInv, Busy
  <2>3. CASE ActivateWatchdog
    <3>1. UNCHANGED <<outcome, Came, toSidecar>>
      BY <2>3 DEF ActivateWatchdog, NotifyWatchdog, Came
    <3>2. Passing
      BY <2>3, <3>1, KeptSame DEF ActivateWatchdog, NotifyWatchdog, Passing,
         Busy, Free
    <3> QED
      BY <3>1, <3>2, <1>a
  <2>4. CASE WaitTimeout
    <3>1. caller = "wait" /\ Settle(exec, "waitTimeout", exec) /\ outcome[exec] = Pending
      BY <2>4 DEF WaitTimeout
    <3>2. outcome'[exec].how = "waitTimeout"
      BY <1>0, <3>1 DEF Settle
    <3> QED
      BY <1>0, <3>1, <3>2 DEF FlowInv, NothingAbandoned
  <2>5. CASE Return
    <3>1. UNCHANGED <<outcome, Came, toSidecar>>
      BY <2>5 DEF Return, ClearHandlers, Came
    <3>2. CASE NothingAbandoned
      <4>1. /\ caller = "wait" /\ caller' = "idle" /\ outcome[exec] # Pending
            /\ alive' = TRUE => outcome[exec].how # "timeout"
        BY <2>5 DEF Return, ClearHandlers
      <4>2. alive' = TRUE => outcome[exec].how \in {"result", "sendFailed"}
        <5>1. outcome[exec] \in Outcomes /\ outcome[exec].how # "waitTimeout"
          BY <1>0, <3>2, <4>1 DEF NothingAbandoned
        <5>2. outcome[exec].how # "pending"
          BY <1>0, <4>1 DEF TimeoutInv
        <5> QED
          BY <4>1, <5>1, <5>2 DEF Outcomes
      <4>3. Passing
        BY <2>5, <3>1, <4>1, <4>2, KeptSame DEF Return, ClearHandlers, Passing,
           Busy, Free
      <4> QED
        BY <3>1, <4>3, <1>a
    <3>3. CASE ~NothingAbandoned
      BY <3>1, <3>3 DEF FlowInv, NothingAbandoned
    <3> QED
      BY <3>2, <3>3
  <2> QED
    BY <1>3, <2>1, <2>2, <2>3, <2>4, <2>5 DEF Execution
<1>4. CASE BeginShutdown
  <2>1. UNCHANGED <<outcome, Came, toSidecar>>
    BY <1>4 DEF BeginShutdown, Came
  <2>2. Passing
    BY <1>4, <2>1, KeptSame DEF BeginShutdown, Passing, Busy, Free
  <2> QED
    BY <2>1, <2>2, <1>a
<1>5. CASE Shutdown
  <2>1. CASE SendTerminate
    <3>1. Offer(Frame("TERMINATE", None)) /\ UNCHANGED <<outcome, inbox>>
      BY <2>1 DEF SendTerminate
    <3>2. Frame("TERMINATE", None) \in HostFrames /\ Frame("TERMINATE", None).type # "EXEC_CODE"
      BY <1>0 DEF Frame, HostFrames, None
    <3>3. UNCHANGED <<fromSidecar, Came>> /\ Kept(toSidecar, toSidecar', "EXEC_CODE")
      BY <3>1, <3>2, OfferKeeps DEF Came
    <3>4. Passing
      BY <2>1, <3>1, <3>3, KeptSame DEF SendTerminate, Passing, Busy, Free
    <3> QED
      BY <3>1, <3>4, <1>a
  <2>2. CASE ClearAwaiting
    <3>1. UNCHANGED <<outcome, Came, toSidecar>>
      BY <2>2 DEF ClearAwaiting, Came
    <3>2. Passing
      BY <2>2, <3>1, KeptSame DEF ClearAwaiting, Passing, Busy, Free
    <3> QED
      BY <3>1, <3>2, <1>a
  <2>3. CASE RequestStop
    <3>1. UNCHANGED <<outcome, Came, toSidecar>>
      BY <2>3 DEF RequestStop, NotifyWatchdog, Came
    <3>2. Passing
      BY <2>3, <3>1, KeptSame DEF RequestStop, NotifyWatchdog, Passing, Busy,
         Free
    <3> QED
      BY <3>1, <3>2, <1>a
  <2>4. CASE AbortLaunch
    <3>1. UNCHANGED <<outcome, Came, toSidecar>>
      BY <2>4 DEF AbortLaunch, NotifyWatchdog, Came
    <3>2. Passing
      BY <2>4, <3>1, KeptSame DEF AbortLaunch, NotifyWatchdog, Passing, Busy,
         Free
    <3> QED
      BY <3>1, <3>2, <1>a
  <2>5. CASE StopHost
    <3>1. toSidecar' = <<>> /\ fromSidecar' = <<>> /\ UNCHANGED <<outcome, inbox>>
      BY <2>5 DEF StopHost, ClosePipes
    <3>2. Kept(toSidecar, toSidecar', "EXEC_CODE") /\ Kept(Came, Came', "EXEC_RESULT")
      BY <3>1, WaysAreSequences, KeptEmpty, KeptFront DEF Came
    <3>3. Passing
      BY <2>5, <3>1, <3>2 DEF StopHost, ClosePipes, Passing, Busy, Free
    <3> QED
      BY <3>1, <3>3, <1>a
  <2>6. CASE Join
    <3>1. UNCHANGED <<outcome, Came, toSidecar>>
      BY <2>6 DEF Join, JoinWatchdog, Came
    <3>2. Passing
      BY <2>6, <3>1, KeptSame DEF Join, JoinWatchdog, Passing, Busy, Free
    <3> QED
      BY <3>1, <3>2, <1>a
  <2> QED
    BY <1>5, <2>1, <2>2, <2>3, <2>4, <2>5, <2>6 DEF Shutdown
<1>6. CASE Reader
  <2>1. CASE Receive
    <3>1. inbox = <<>> /\ UNCHANGED <<outcome, toSidecar>>
      BY <2>1 DEF Receive, ReaderOnly, ReaderInv
    <3>2. UNCHANGED Came
      BY <2>1, <3>1, WaysAreSequences, ReadChunk DEF Receive, Came
    <3>3. Passing
      BY <2>1, <3>1, <3>2, KeptSame DEF Receive, ReaderOnly, Passing, Busy, Free
    <3> QED
      BY <3>1, <3>3, <1>a
  <2>2. CASE LeaveReader
    <3>1. UNCHANGED <<outcome, Came, toSidecar>>
      BY <2>2 DEF LeaveReader, ReaderOnly, Came
    <3>2. Passing
      BY <2>2, <3>1, KeptSame DEF LeaveReader, ReaderOnly, Passing, Busy, Free
    <3> QED
      BY <3>1, <3>2, <1>a
  <2>3. CASE DispatchReady
    <3>1. inbox # <<>> /\ FrameDone /\ UNCHANGED <<outcome, fromSidecar, toSidecar>>
      BY <2>3, <1>0 DEF DispatchReady, ReaderOnly
    <3>2. Kept(Came, Came', "EXEC_RESULT")
      BY <3>1, DispatchTakesHead
    <3>3. Passing
      BY <2>3, <3>1, <3>2, KeptSame DEF DispatchReady, ReaderOnly, Passing,
         Busy, Free
    <3> QED
      BY <3>1, <3>3, <1>a
  <2>4. CASE DispatchRequest
    <3>1. inbox # <<>> /\ UNCHANGED <<outcome, fromSidecar, toSidecar>>
      BY <2>4, <1>0 DEF DispatchRequest, ReaderOnly
    <3>2. Kept(Came, Came', "EXEC_RESULT")
      <4>1. CASE FrameDone
        BY <3>1, <4>1, DispatchTakesHead
      <4>2. CASE UNCHANGED inbox
        BY <3>1, <4>2, KeptSame DEF Came
      <4> QED
        BY <2>4, <4>1, <4>2 DEF DispatchRequest
    <3>3. Passing
      BY <2>4, <3>1, <3>2, KeptSame DEF DispatchRequest, ReaderOnly, Passing,
         Busy, Free
    <3> QED
      BY <3>1, <3>3, <1>a
  <2>5. CASE Answer
    <3>1. inbox # <<>> /\ FrameDone /\ UNCHANGED outcome
      BY <2>5, <1>0 DEF Answer
    <3>2. UNCHANGED fromSidecar /\ Kept(toSidecar, toSidecar', "EXEC_CODE")
      <4>1. Frame(AnswerType(Head(inbox).type), Head(inbox).of) \in HostFrames
        BY <2>5, <3>1, HeldIsExec, AnswerTypes DEF Answer, TypeInv, FramesOK,
           Frame,
           HostFrames, SidecarFrames
      <4>2. Frame(AnswerType(Head(inbox).type), Head(inbox).of).type # "EXEC_CODE"
        BY <2>5, AnswerTypes DEF Answer, TypeInv, FramesOK, Frame
      <4> QED
        BY <2>5, <4>1, <4>2, OfferKeeps, KeptSame DEF Answer
    <3>3. Kept(Came, Came', "EXEC_RESULT")
      BY <3>1, <3>2, DispatchTakesHead
    <3>4. Passing
      BY <2>5, <3>1, <3>2, <3>3 DEF Answer, ReaderOnly, Passing, Busy, Free
    <3> QED
      BY <3>1, <3>4, <1>a
  <2>6. CASE DispatchResult
    <3>1. UNCHANGED <<outcome, Came, toSidecar>>
      BY <2>6 DEF DispatchResult, NotifyWatchdog, ReaderOnly, Came
    <3>2. Passing
      BY <2>6, <3>1, KeptSame DEF DispatchResult, NotifyWatchdog, ReaderOnly,
         Passing, Busy, Free
    <3> QED
      BY <3>1, <3>2, <1>a
  <2>7. CASE ReaderTakes
    <3>1. inbox # <<>> /\ UNCHANGED <<outcome, fromSidecar, toSidecar>>
      BY <2>7, <1>0 DEF ReaderTakes, ReaderOnly
    <3>2. Kept(Came, Came', "EXEC_RESULT")
      <4>1. CASE FrameDone
        BY <3>1, <4>1, DispatchTakesHead
      <4>2. CASE UNCHANGED inbox
        BY <3>1, <4>2, KeptSame DEF Came
      <4> QED
        BY <2>7, <4>1, <4>2 DEF ReaderTakes
    <3>3. Passing
      BY <2>7, <3>1, <3>2, KeptSame DEF ReaderTakes, ReaderOnly, Passing, Busy,
         Free
    <3> QED
      BY <3>1, <3>3, <1>a
  <2>8. CASE ReaderCalls
    <3>1. /\ reader = "call" /\ inbox # <<>> /\ FrameDone /\ Head(inbox).type = "EXEC_RESULT"
          /\ Invoke(held["reader"], "result", Head(inbox).of)
          /\ UNCHANGED <<exec, caller, alive, fromSidecar, toSidecar, sidecar, running>>
      BY <2>8, <1>0 DEF ReaderCalls, ReaderOnly, ReaderInv
    <3>2. held["reader"] \in Callbacks /\ held["reader"] \in Execs
      BY <3>1, HeldIsExec DEF Callbacks, Execs, None
    <3>3. NothingAbandoned' => NothingAbandoned
      BY <3>1, <3>2, InvokeOwn
    <3> SUFFICES ASSUME NothingAbandoned, ScriptInv, OwnInv PROVE ScriptInv' /\ OwnInv'
      BY <3>3 DEF FlowInv
    <3>4. InFlight(held["reader"]) /\ held["reader"] = exec
      BY <3>2 DEF OwnerInv, InFlight
    <3>5. Settle(exec, "result", Head(inbox).of)
      BY <3>1, <3>4 DEF Invoke
    <3>6. /\ Came' = Tail(Came) /\ Lacks(Came', "EXEC_RESULT") /\ ~Lacks(Came, "EXEC_RESULT")
          /\ Head(inbox).of = exec
      <4>1. Came' = Tail(Came) /\ Head(Came) = Head(inbox) /\ Came # <<>>
        BY <3>1, DispatchTakesHead
      <4>2. OneOf(Came, "EXEC_RESULT", exec) /\ Came \in Seq(SidecarFrames)
        BY WaysAreSequences DEF ScriptInv
      <4> QED
        BY <3>1, <4>1, <4>2, LastOne
    <3>7. Lacks(toSidecar, "EXEC_CODE") /\ ~Busy /\ caller \notin {"send", "recall"}
      BY <3>6 DEF ScriptInv, Free
    <3>8. OwnInv'
      BY <1>0, <3>4, <3>5, <3>6 DEF OwnInv, Settle, InFlight
    <3>9. OneOf(toSidecar, "EXEC_CODE", exec)' /\ OneOf(Came, "EXEC_RESULT", exec)'
      BY <3>1, <3>6 DEF ScriptInv, OneOf, Lacks
    <3> QED
      BY <3>1, <3>6, <3>7, <3>8, <3>9 DEF ScriptInv, Busy
  <2> QED
    BY <1>6, <2>1, <2>2, <2>3, <2>4, <2>5, <2>6, <2>7, <2>8 DEF Reader
<1>7. CASE UserAnswers
  <2>1. UNCHANGED <<outcome, Came, toSidecar>>
    BY <1>7 DEF UserAnswers, ReaderOnly, Came
  <2>2. Passing
    BY <1>7, <2>1, KeptSame DEF UserAnswers, ReaderOnly, Passing, Busy, Free
  <2> QED
    BY <2>1, <2>2, <1>a
<1>8. CASE Watchdog
  <2>1. CASE CheckPhase1
    <3>1. UNCHANGED <<outcome, Came, toSidecar>>
      BY <2>1 DEF CheckPhase1, WatchdogOnly, Came
    <3>2. Passing
      BY <2>1, <3>1, KeptSame DEF CheckPhase1, WatchdogOnly, Passing, Busy, Free
    <3> QED
      BY <3>1, <3>2, <1>a
  <2>2. CASE CheckPhase2
    <3>1. UNCHANGED <<outcome, Came, toSidecar>>
      BY <2>2 DEF CheckPhase2, WatchdogOnly, Came
    <3>2. Passing
      BY <2>2, <3>1, KeptSame DEF CheckPhase2, WatchdogOnly, Passing, Busy, Free
    <3> QED
      BY <3>1, <3>2, <1>a
  <2>3. CASE FallAsleep
    <3>1. UNCHANGED <<outcome, Came, toSidecar>>
      BY <2>3 DEF FallAsleep, WatchdogOnly, Came
    <3>2. Passing
      BY <2>3, <3>1, KeptSame DEF FallAsleep, WatchdogOnly, Passing, Busy, Free
    <3> QED
      BY <3>1, <3>2, <1>a
  <2>4. CASE TimerExpires
    <3>1. UNCHANGED <<outcome, Came, toSidecar>>
      BY <2>4 DEF TimerExpires, WatchdogOnly, Came
    <3>2. Passing
      BY <2>4, <3>1, KeptSame DEF TimerExpires, WatchdogOnly, Passing, Busy,
         Free
    <3> QED
      BY <3>1, <3>2, <1>a
  <2>5. CASE ResetAwaiting
    <3>1. UNCHANGED <<outcome, Came, toSidecar>>
      BY <2>5 DEF ResetAwaiting, WatchdogOnly, Came
    <3>2. Passing
      BY <2>5, <3>1, KeptSame DEF ResetAwaiting, WatchdogOnly, Passing, Busy,
         Free
    <3> QED
      BY <3>1, <3>2, <1>a
  <2>6. CASE SendInterrupt
    <3>1. Offer(Frame("INTERRUPT", None)) /\ UNCHANGED <<outcome, inbox>>
      BY <2>6 DEF SendInterrupt, WatchdogOnly
    <3>2. Frame("INTERRUPT", None) \in HostFrames /\ Frame("INTERRUPT", None).type # "EXEC_CODE"
      BY <1>0 DEF Frame, HostFrames, None
    <3>3. UNCHANGED <<fromSidecar, Came>> /\ Kept(toSidecar, toSidecar', "EXEC_CODE")
      BY <3>1, <3>2, OfferKeeps DEF Came
    <3>4. Passing
      BY <2>6, <3>1, <3>3, KeptSame DEF SendInterrupt, WatchdogOnly, Passing,
         Busy, Free
    <3> QED
      BY <3>1, <3>4, <1>a
  <2>7. CASE WatchdogTakes
    <3>1. UNCHANGED <<outcome, Came, toSidecar>>
      BY <2>7 DEF WatchdogTakes, WatchdogOnly, Came
    <3>2. Passing
      BY <2>7, <3>1, KeptSame DEF WatchdogTakes, WatchdogOnly, Passing, Busy,
         Free
    <3> QED
      BY <3>1, <3>2, <1>a
  <2>8. CASE WatchdogCalls
    <3>1. /\ UNCHANGED <<Came, toSidecar>>
          /\ Invoke(held["watchdog"], "timeout", timed) /\ held["watchdog"] \in Execs
      BY <2>8, HeldIsExec DEF WatchdogCalls, WatchdogOnly, Came
    <3>2. \A n \in Execs : outcome'[n].how \in {"result", "sendFailed"}
            => outcome'[n] = outcome[n]
      BY <1>0, <3>1 DEF Invoke, Settle
    <3>3. Free' => Free
      BY <2>8, <1>0, <3>2 DEF WatchdogCalls, WatchdogOnly, Free
    <3>4. Passing
      BY <2>8, <3>1, <3>2, <3>3, KeptSame DEF WatchdogCalls, WatchdogOnly,
         Passing, Busy
    <3> QED
      BY <3>1, <3>4, InvokeOwn, PassingStep
  <2> QED
    BY <1>8, <2>1, <2>2, <2>3, <2>4, <2>5, <2>6, <2>7, <2>8 DEF Watchdog
<1>9. CASE Sidecar
  <2>1. CASE SidecarBoots
    <3>1. Say(Frame("READY", None)) /\ UNCHANGED <<outcome, inbox, toSidecar>>
      BY <2>1 DEF SidecarBoots, SidecarOnly
    <3>2. Frame("READY", None) \in SidecarFrames /\ Frame("READY", None).type # "EXEC_RESULT"
      BY <1>0 DEF Frame, SidecarFrames, None
    <3>3. Kept(Came, Came', "EXEC_RESULT")
      BY <3>1, <3>2, SayComes
    <3>4. Passing
      BY <2>1, <3>1, <3>3, KeptSame DEF SidecarBoots, SidecarOnly, Passing,
         Busy, Free
    <3> QED
      BY <3>1, <3>4, <1>a
  <2>2. CASE SidecarReads
    <3>1. /\ sidecar = "idle" /\ toSidecar # <<>> /\ toSidecar' = Tail(toSidecar)
          /\ UNCHANGED <<exec, caller, alive, outcome, Came>>
      BY <2>2 DEF SidecarReads, SidecarOnly, Came
    <3>2. CASE Head(toSidecar).type # "EXEC_CODE"
      <4>1. UNCHANGED running /\ sidecar' \in {"idle", "dead"}
        BY <2>2, <3>2 DEF SidecarReads
      <4>2. Kept(toSidecar, toSidecar', "EXEC_CODE")
        BY <3>1, WaysAreSequences, KeptTail
      <4>3. Passing
        BY <3>1, <4>1, <4>2, KeptSame DEF Passing, Busy, Free
      <4> QED
        BY <3>1, <4>3, <1>a
    <3>3. CASE Head(toSidecar).type = "EXEC_CODE"
      <4>1. sidecar' = "running" /\ running' = Head(toSidecar).of
        BY <2>2, <3>3 DEF SidecarReads
      <4> SUFFICES ASSUME NothingAbandoned, ScriptInv, OwnInv PROVE ScriptInv' /\ OwnInv'
        BY <3>1 DEF FlowInv, NothingAbandoned
      <4>2. /\ Lacks(toSidecar', "EXEC_CODE") /\ Head(toSidecar).of = exec
            /\ ~Lacks(toSidecar, "EXEC_CODE")
        BY <3>1, <3>3, WaysAreSequences, LastOne DEF ScriptInv
      <4>3. Lacks(Came, "EXEC_RESULT") /\ ~Free
        BY <4>2 DEF ScriptInv
      <4>4. Lacks(Came, "EXEC_RESULT")' /\ ~Free' /\ OneOf(Came, "EXEC_RESULT", exec)'
        BY <3>1, <4>3 DEF Free, ScriptInv
      <4>5. OneOf(toSidecar, "EXEC_CODE", exec)'
        BY <4>2 DEF OneOf, Lacks
      <4>6. OwnInv' /\ (caller' \in {"send", "recall"}
                          => outcome'[exec'].how \notin {"result", "sendFailed"})
        BY <3>1 DEF OwnInv, ScriptInv
      <4> QED
        BY <3>1, <4>1, <4>2, <4>4, <4>5, <4>6 DEF ScriptInv, Busy
    <3> QED
      BY <3>2, <3>3
  <2>3. CASE ScriptAsks
    <3>1. UNCHANGED <<outcome, inbox, toSidecar>>
      BY <2>3 DEF ScriptAsks, AnswerType, RequestKinds, SidecarOnly
    <3>2. PICK kind \in RequestKinds :
            Say(Frame(kind, running)) /\ sidecar' = AnswerType(kind)
      BY <2>3 DEF ScriptAsks
    <3>3. Frame(kind, running) \in SidecarFrames /\ Frame(kind, running).type # "EXEC_RESULT"
      BY DEF Frame, SidecarFrames, RequestKinds, TypeInv, NumbersOK
    <3>4. Kept(Came, Came', "EXEC_RESULT")
      BY <3>1, <3>2, <3>3, SayComes
    <3>5. Passing
      BY <2>3, <3>1, <3>4, KeptSame DEF ScriptAsks, SidecarOnly, Passing, Busy,
         Free
    <3> QED
      BY <3>1, <3>5, <1>a
  <2>4. CASE ScriptReadsAnswer
    <3>1. UNCHANGED <<outcome, Came>>
      BY <2>4 DEF ScriptReadsAnswer, SidecarOnly, Came
    <3>2. Kept(toSidecar, toSidecar', "EXEC_CODE")
      BY <2>4, WaysAreSequences, KeptTail, KeptWithout DEF ScriptReadsAnswer
    <3>3. sidecar \in {"RES_INPUT", "SHARED_VALUE"}
      BY <2>4 DEF ScriptReadsAnswer
    <3>4. Passing
      BY <2>4, <3>1, <3>2, <3>3, KeptSame DEF ScriptReadsAnswer, SidecarOnly,
         Passing, Busy, Free
    <3> QED
      BY <3>1, <3>4, <1>a
  <2>5. CASE ScriptFinishes
    <3>1. /\ sidecar = "running" /\ sidecar' = "idle" /\ Say(Frame("EXEC_RESULT", running))
          /\ UNCHANGED <<exec, caller, alive, outcome, inbox, toSidecar, running>>
      BY <2>5 DEF ScriptFinishes, SidecarOnly
    <3>2. Frame("EXEC_RESULT", running) \in SidecarFrames
      BY DEF Frame, SidecarFrames, TypeInv, NumbersOK
    <3>3. Came' = Append(Came, Frame("EXEC_RESULT", running))
      BY <3>1, <3>2, SayComes
    <3> SUFFICES ASSUME NothingAbandoned, ScriptInv, OwnInv PROVE ScriptInv' /\ OwnInv'
      BY <3>1 DEF FlowInv, NothingAbandoned
    <3>4. running = exec /\ Lacks(Came, "EXEC_RESULT") /\ ~Free /\ Lacks(toSidecar, "EXEC_CODE")
      BY <3>1 DEF ScriptInv, Busy
    <3>5. OneOf(Came', "EXEC_RESULT", exec)
      <4>1. Frame("EXEC_RESULT", running).type = "EXEC_RESULT"
            /\ Frame("EXEC_RESULT", running).of = exec
        BY <3>4 DEF Frame
      <4>2. Came \in Seq(SidecarFrames) /\ Lacks(Came, "EXEC_RESULT")
        BY <3>4, WaysAreSequences
      <4> HIDE DEF Frame
      <4>3. OneOf(Append(Came, Frame("EXEC_RESULT", running)), "EXEC_RESULT", exec)
        BY <3>2, <4>1, <4>2, FirstOne
      <4> QED
        BY <3>3, <4>3
    <3>6. ~Free' /\ ~Busy' /\ Lacks(toSidecar, "EXEC_CODE")'
      BY <3>1, <3>4 DEF Free, Busy
    <3>7. OwnInv' /\ OneOf(toSidecar, "EXEC_CODE", exec)'
          /\ (caller' \in {"send", "recall"}
                => outcome'[exec'].how \notin {"result", "sendFailed"})
      BY <3>1 DEF OwnInv, ScriptInv
    <3> QED
      BY <3>1, <3>5, <3>6, <3>7 DEF ScriptInv
  <2>6. CASE SidecarDies
    <3>1. UNCHANGED <<outcome, Came, toSidecar>>
      BY <2>6 DEF SidecarDies, SidecarOnly, Came
    <3>2. Passing
      BY <2>6, <3>1, KeptSame DEF SidecarDies, SidecarOnly, Passing, Busy, Free
    <3> QED
      BY <3>1, <3>2, <1>a
  <2> QED
    BY <1>9, <2>1, <2>2, <2>3, <2>4, <2>5, <2>6 DEF Sidecar
<1>10. CASE BrokenPipe
  <2>1. UNCHANGED <<outcome, Came, toSidecar>>
    BY <1>10 DEF BrokenPipe, Came
  <2>2. Passing
    BY <1>10, <2>1, KeptSame DEF BrokenPipe, Passing, Busy, Free
  <2> QED
    BY <2>1, <2>2, <1>a
<1>11. CASE UNCHANGED vars
  <2>1. UNCHANGED <<outcome, Came, toSidecar>>
    BY <1>11 DEF vars, Came
  <2>2. Passing
    BY <1>11, <2>1, KeptSame DEF vars, Passing, Busy, Free
  <2> QED
    BY <2>1, <2>2, <1>a
<1> QED
  BY <1>1, <1>2, <1>3, <1>4, <1>5, <1>6, <1>7, <1>8, <1>9, <1>10, <1>11 DEF
     Next

\* The flow is as described in every run.
LEMMA FlowInvariant ==
    Spec => [](TypeInv /\ OwnerInv /\ ReaderInv /\ LaunchInv /\ TimeoutInv /\ FlowInv)
<1> DEFINE Inv == TypeInv /\ ShutInv /\ OwnerInv /\ ReaderInv /\ LaunchInv
                    /\ TimeoutInv /\ FlowInv
<1>1. Init => Inv
  BY TypeInit, ShutInit, OwnerInit, StageInit, FlowInit
<1>2. Inv /\ [Next]_vars => Inv'
  BY TypeStep, ShutStep, OwnerStep, ReaderInvStep, LaunchInvStep, TimeoutInvStep,
     FlowStep
<1> QED
  BY <1>1, <1>2, PTL DEF Spec

\* Frames carry no identification, and still a result is never reported for
\* another script than the one that printed it, for every number of scripts and of
\* requests, as long as the 35 s wait never ran out.
THEOREM EveryResultIsOwn == Spec => []ResultIsOwn
BY FlowInvariant, FlowImplies, PTL

\* Under the same condition no script is sent to a sidecar that is blocked in an
\* input() of an earlier one and would discard it.
THEOREM ScriptReachesMainLoop == Spec => []ScriptFindsIdleSidecar
BY FlowInvariant, FlowImplies, PTL

-----------------------------------------------------------------------------
(* The bridge implements ScriptChannel.  Its phase is read off the caller; *)
(* the steps of the threads between two outcomes are stutters.             *)

\* The phase at each point of the caller.
LEMMA PhaseOf ==
    /\ engine = "killed" => ChannelPhase = "crashed"
    /\ engine = "up" /\ caller \in {"unlaunched", "handshake"} => ChannelPhase = "new"
    /\ engine = "up" /\ caller = "idle" => ChannelPhase = "open"
    /\ engine = "up" /\ caller \in {"send", "recall", "arm", "wait"}
            => ChannelPhase = "busy"
    /\ engine = "up" /\ caller \in {"abort", "abortHost", "abortJoin", "failed",
            "terminate", "clear", "stop", "host", "join", "closed"}
            => ChannelPhase = "shut"
<1>1. engine = "killed" => ChannelPhase = "crashed"
  BY DEF ChannelPhase
<1>2. engine = "up" /\ caller \in {"unlaunched", "handshake"} => ChannelPhase = "new"
  BY DEF ChannelPhase
<1>3. engine = "up" /\ caller = "idle" => ChannelPhase = "open"
  BY DEF ChannelPhase
<1>4. engine = "up" /\ caller \in {"send", "recall", "arm", "wait"}
            => ChannelPhase = "busy"
  BY DEF ChannelPhase
<1>5. engine = "up" /\ caller \in {"abort", "abortHost", "abortJoin", "failed",
            "terminate", "clear", "stop", "host", "join", "closed"}
            => ChannelPhase = "shut"
  BY DEF ChannelPhase
<1> QED
  BY <1>1, <1>2, <1>3, <1>4, <1>5

\* The same after a step.
LEMMA PhaseAfter ==
    /\ engine' = "killed" => ChannelPhase' = "crashed"
    /\ engine' = "up" /\ caller' \in {"unlaunched", "handshake"}
            => ChannelPhase' = "new"
    /\ engine' = "up" /\ caller' = "idle" => ChannelPhase' = "open"
    /\ engine' = "up" /\ caller' \in {"send", "recall", "arm", "wait"}
            => ChannelPhase' = "busy"
    /\ engine' = "up" /\ caller' \in {"abort", "abortHost", "abortJoin", "failed",
            "terminate", "clear", "stop", "host", "join", "closed"}
            => ChannelPhase' = "shut"
<1>1. engine' = "killed" => ChannelPhase' = "crashed"
  BY DEF ChannelPhase
<1>2. engine' = "up" /\ caller' \in {"unlaunched", "handshake"}
            => ChannelPhase' = "new"
  BY DEF ChannelPhase
<1>3. engine' = "up" /\ caller' = "idle" => ChannelPhase' = "open"
  BY DEF ChannelPhase
<1>4. engine' = "up" /\ caller' \in {"send", "recall", "arm", "wait"}
            => ChannelPhase' = "busy"
  BY DEF ChannelPhase
<1>5. engine' = "up" /\ caller' \in {"abort", "abortHost", "abortJoin", "failed",
            "terminate", "clear", "stop", "host", "join", "closed"}
            => ChannelPhase' = "shut"
  BY DEF ChannelPhase
<1> QED
  BY <1>1, <1>2, <1>3, <1>4, <1>5

\* A step that the channel does not see.
LEMMA ChannelStutters ==
    ASSUME UNCHANGED <<engine, caller, exec, outcome>>
    PROVE  UNCHANGED Channel!channelVars
<1>1. UNCHANGED ChannelPhase
  BY DEF ChannelPhase
<1> QED
  BY <1>1 DEF Channel!channelVars

\* Settling the script in flight completes it, or is seen by nobody when it was
\* settled before.
LEMMA SettleCompletes ==
    ASSUME TypeInv, TimeoutInv, engine = "up", UNCHANGED <<engine, exec>>,
           caller \in {"send", "recall", "arm", "wait"},
           caller' \in {"send", "recall", "arm", "wait"},
           NEW how \in {"result", "timeout", "sendFailed", "waitTimeout"},
           NEW of \in 0 .. MaxExec, Settle(exec, how, of),
           how = "result" => of = exec \/ \E m \in 1 .. (exec - 1) :
                                                outcome[m].how = "waitTimeout",
           how \in {"sendFailed", "waitTimeout"} => of = exec
    PROVE  Channel!Next \/ UNCHANGED Channel!channelVars
<1>1. ChannelPhase = "busy" /\ ChannelPhase' = "busy"
  BY PhaseOf, PhaseAfter
<1>2. CASE outcome[exec] = Pending
  <2> DEFINE o == [how |-> how, of |-> of]
  <2>1. o \in Channel!Outcomes \ {Channel!Pending}
    BY DEF Channel!Outcomes, Channel!Pending
  <2>2. outcome' = [outcome EXCEPT ![exec] = o]
    BY <1>2 DEF Settle
  <2>3. o.how = "result" => (o.of = exec \/ Channel!Abandoned(exec))
    BY DEF Channel!Abandoned
  <2>4. o.how \in {"sendFailed", "waitTimeout"} => o.of = exec
    OBVIOUS
  <2>5. outcome[exec] = Channel!Pending
    BY <1>2 DEF Pending, None, Channel!Pending
  <2>6. Channel!Complete
    BY <1>1, <2>1, <2>2, <2>3, <2>4, <2>5 DEF Channel!Complete
  <2> QED
    BY <2>6 DEF Channel!Next
<1>3. CASE outcome[exec] # Pending
  <2>1. outcome' = outcome
    BY <1>3 DEF Settle
  <2> QED
    BY <1>1, <2>1 DEF Channel!channelVars
<1> QED
  BY <1>2, <1>3

\* So does a callback, whose script is the one in flight or has returned.
LEMMA InvokeCompletes ==
    ASSUME TypeInv, TimeoutInv, engine = "up", UNCHANGED <<engine, caller, exec>>,
           NEW k, NEW how \in {"result", "timeout"},
           NEW of \in 0 .. MaxExec, Invoke(k, how, of),
           how = "result" => of = exec \/ outcome[exec] # Pending
                            \/ \E m \in 1 .. (exec - 1) :
                                    outcome[m].how = "waitTimeout"
    PROVE  Channel!Next \/ UNCHANGED Channel!channelVars
<1>1. CASE UNCHANGED outcome
  BY <1>1, ChannelStutters
<1>2. CASE Settle(exec, how, of) /\ caller \in {"send", "recall", "arm", "wait"}
  <2>1. CASE outcome[exec] # Pending
    <3>1. UNCHANGED outcome
      BY <1>2, <2>1 DEF Settle
    <3> QED
      BY <3>1, ChannelStutters
  <2>2. CASE outcome[exec] = Pending
    <3>1. how = "result" => of = exec \/ \E m \in 1 .. (exec - 1) :
                                                outcome[m].how = "waitTimeout"
      BY <2>2
    <3>2. how \in {"result", "timeout", "sendFailed", "waitTimeout"}
          /\ how \notin {"sendFailed", "waitTimeout"}
      OBVIOUS
    <3> QED
      BY <1>2, <3>1, <3>2, SettleCompletes
  <2> QED
    BY <2>1, <2>2
<1> QED
  BY <1>1, <1>2 DEF Invoke, InFlight

\* Every step of the bridge is a step of the channel, or is not seen by it.
LEMMA ChannelStep ==
    /\ TypeInv /\ OwnerInv /\ ReaderInv /\ LaunchInv /\ TimeoutInv /\ FlowInv
    /\ [Next]_vars
    => [Channel!Next]_(Channel!channelVars)
<1> USE DEF world, callerVars, readerVars, watchdogVars, flagVars, resultVars,
    pipeVars, sidecarVars, Goto
<1> SUFFICES ASSUME TypeInv, OwnerInv, ReaderInv, LaunchInv, TimeoutInv, FlowInv,
                    [Next]_vars
             PROVE  Channel!Next \/ UNCHANGED Channel!channelVars
  OBVIOUS
<1>0. /\ exec \in 0 .. MaxExec /\ outcome \in [Execs -> Outcomes] /\ MaxExec \in Nat
      /\ caller \in {"send", "recall", "arm", "wait"} => exec \in Execs
  BY MaxExecAssumption DEF TypeInv, NumbersOK, Execs, None
<1>1. CASE Launch
  <2>1. CASE StartFails
    <3>1. /\ engine = "up" /\ UNCHANGED <<engine, exec, outcome>>
          /\ caller = "unlaunched" /\ caller' = "failed"
      BY <2>1 DEF StartFails
    <3>2. ChannelPhase = "new" /\ ChannelPhase' = "shut"
      BY <3>1, PhaseOf, PhaseAfter
    <3>3. Channel!Open
      BY <3>1, <3>2 DEF Channel!Open
    <3> QED
      BY <3>3 DEF Channel!Next
  <2>2. CASE StartHost
    <3>1. /\ engine = "up" /\ UNCHANGED <<engine, exec, outcome>>
          /\ caller \in {"unlaunched"} /\ caller' \in {"handshake"}
      BY <2>2 DEF StartHost
    <3>2. UNCHANGED ChannelPhase
      BY <3>1, PhaseOf, PhaseAfter
    <3> QED
      BY <3>1, <3>2 DEF Channel!channelVars
  <2>3. CASE Activate
    <3>1. /\ engine = "up" /\ UNCHANGED <<engine, exec, outcome>>
          /\ caller = "handshake" /\ caller' = "idle"
      BY <2>3 DEF Activate
    <3>2. ChannelPhase = "new" /\ ChannelPhase' = "open"
      BY <3>1, PhaseOf, PhaseAfter
    <3>3. Channel!Open
      BY <3>1, <3>2 DEF Channel!Open
    <3> QED
      BY <3>3 DEF Channel!Next
  <2>4. CASE HandshakeTimeout
    <3>1. /\ engine = "up" /\ UNCHANGED <<engine, exec, outcome>>
          /\ caller = "handshake" /\ caller' = "abort"
      BY <2>4 DEF HandshakeTimeout
    <3>2. ChannelPhase = "new" /\ ChannelPhase' = "shut"
      BY <3>1, PhaseOf, PhaseAfter
    <3>3. Channel!Open
      BY <3>1, <3>2 DEF Channel!Open
    <3> QED
      BY <3>3 DEF Channel!Next
  <2> QED
    BY <1>1, <2>1, <2>2, <2>3, <2>4 DEF Launch
<1>2. CASE Begin
  <2>1. /\ engine = "up" /\ UNCHANGED <<engine, outcome>> /\ exec' = exec + 1
        /\ exec < MaxExec /\ caller = "idle" /\ caller' = "send" /\ alive = TRUE
    BY <1>2 DEF Begin, StoreCallback, TypeInv, FlagsOK
  <2>2. ChannelPhase = "open" /\ ChannelPhase' = "busy"
    BY <2>1, PhaseOf, PhaseAfter
  <2>3. \A n \in Channel!Execs : outcome[n].how # "timeout"
    BY <2>1 DEF TimeoutInv, Channel!Execs, Execs
  <2>4. Channel!Begin
    BY <2>1, <2>2, <2>3 DEF Channel!Begin
  <2> QED
    BY <2>4 DEF Channel!Next
<1>3. CASE Execution
  <2>1. CASE SendExecCode
    <3>1. /\ engine = "up" /\ UNCHANGED <<engine, exec, outcome>>
          /\ caller \in {"send"} /\ caller' \in {"arm", "recall"}
      BY <2>1 DEF SendExecCode, Delivered, Refused
    <3>2. UNCHANGED ChannelPhase
      BY <3>1, PhaseOf, PhaseAfter
    <3> QED
      BY <3>1, <3>2 DEF Channel!channelVars
  <2>2. CASE Recall
    <3>1. /\ engine = "up" /\ UNCHANGED <<engine, exec>>
          /\ caller = "recall" /\ caller' = "wait" /\ callback \in {None, exec}
      BY <2>2 DEF Recall, TimeoutInv
    <3>2. CASE callback = None
      <4>1. UNCHANGED outcome
        BY <2>2, <3>2 DEF Recall
      <4>2. UNCHANGED ChannelPhase
        BY <3>1, PhaseOf, PhaseAfter
      <4> QED
        BY <3>1, <4>1, <4>2 DEF Channel!channelVars
    <3>3. CASE callback # None
      <4>1. Settle(exec, "sendFailed", exec)
        BY <2>2, <3>1, <3>3 DEF Recall
      <4> QED
        BY <1>0, <3>1, <4>1, SettleCompletes
    <3> QED
      BY <3>2, <3>3
  <2>3. CASE ActivateWatchdog
    <3>1. /\ engine = "up" /\ UNCHANGED <<engine, exec, outcome>>
          /\ caller \in {"arm"} /\ caller' \in {"wait"}
      BY <2>3 DEF ActivateWatchdog, NotifyWatchdog
    <3>2. UNCHANGED ChannelPhase
      BY <3>1, PhaseOf, PhaseAfter
    <3> QED
      BY <3>1, <3>2 DEF Channel!channelVars
  <2>4. CASE WaitTimeout
    <3>1. /\ engine = "up" /\ UNCHANGED <<engine, exec, caller>> /\ caller = "wait"
          /\ Settle(exec, "waitTimeout", exec)
      BY <2>4 DEF WaitTimeout
    <3> QED
      BY <1>0, <3>1, SettleCompletes
  <2>5. CASE Return
    <3>1. /\ engine = "up" /\ UNCHANGED <<engine, exec, outcome>>
          /\ caller = "wait" /\ caller' = "idle" /\ outcome[exec] # Pending
      BY <2>5 DEF Return, ClearHandlers
    <3>2. ChannelPhase = "busy" /\ ChannelPhase' = "open"
      BY <3>1, PhaseOf, PhaseAfter
    <3>3. Channel!Return
      BY <3>1, <3>2 DEF Channel!Return, Channel!Pending, Pending, None
    <3> QED
      BY <3>3 DEF Channel!Next
  <2> QED
    BY <1>3, <2>1, <2>2, <2>3, <2>4, <2>5 DEF Execution
<1>4. CASE BeginShutdown
  <2>1. /\ engine = "up" /\ UNCHANGED <<engine, exec, outcome>>
        /\ caller = "idle" /\ caller' = "terminate"
    BY <1>4 DEF BeginShutdown
  <2>2. ChannelPhase = "open" /\ ChannelPhase' = "shut"
    BY <2>1, PhaseOf, PhaseAfter
  <2>3. Channel!Close
    BY <2>1, <2>2 DEF Channel!Close
  <2> QED
    BY <2>3 DEF Channel!Next
<1>5. CASE Shutdown
  <2>1. CASE SendTerminate
    <3>1. /\ engine = "up" /\ UNCHANGED <<engine, exec, outcome>>
          /\ caller \in {"terminate"} /\ caller' \in {"clear"}
      BY <2>1 DEF SendTerminate, Offer, Delivered, Refused
    <3>2. UNCHANGED ChannelPhase
      BY <3>1, PhaseOf, PhaseAfter
    <3> QED
      BY <3>1, <3>2 DEF Channel!channelVars
  <2>2. CASE ClearAwaiting
    <3>1. /\ engine = "up" /\ UNCHANGED <<engine, exec, outcome>>
          /\ caller \in {"clear"} /\ caller' \in {"stop"}
      BY <2>2 DEF ClearAwaiting
    <3>2. UNCHANGED ChannelPhase
      BY <3>1, PhaseOf, PhaseAfter
    <3> QED
      BY <3>1, <3>2 DEF Channel!channelVars
  <2>3. CASE RequestStop
    <3>1. /\ engine = "up" /\ UNCHANGED <<engine, exec, outcome>>
          /\ caller \in {"stop"} /\ caller' \in {"host"}
      BY <2>3 DEF RequestStop, NotifyWatchdog
    <3>2. UNCHANGED ChannelPhase
      BY <3>1, PhaseOf, PhaseAfter
    <3> QED
      BY <3>1, <3>2 DEF Channel!channelVars
  <2>4. CASE AbortLaunch
    <3>1. /\ engine = "up" /\ UNCHANGED <<engine, exec, outcome>>
          /\ caller \in {"abort"} /\ caller' \in {"abortHost"}
      BY <2>4 DEF AbortLaunch, NotifyWatchdog
    <3>2. UNCHANGED ChannelPhase
      BY <3>1, PhaseOf, PhaseAfter
    <3> QED
      BY <3>1, <3>2 DEF Channel!channelVars
  <2>5. CASE StopHost
    <3>1. /\ engine = "up" /\ UNCHANGED <<engine, exec, outcome>>
          /\ caller \in {"host", "abortHost"} /\ caller' \in {"join", "abortJoin"}
      BY <2>5 DEF StopHost, ClosePipes
    <3>2. UNCHANGED ChannelPhase
      BY <3>1, PhaseOf, PhaseAfter
    <3> QED
      BY <3>1, <3>2 DEF Channel!channelVars
  <2>6. CASE Join
    <3>1. /\ engine = "up" /\ UNCHANGED <<engine, exec, outcome>>
          /\ caller \in {"join", "abortJoin"} /\ caller' \in {"closed", "failed"}
      BY <2>6 DEF Join, JoinWatchdog
    <3>2. UNCHANGED ChannelPhase
      BY <3>1, PhaseOf, PhaseAfter
    <3> QED
      BY <3>1, <3>2 DEF Channel!channelVars
  <2> QED
    BY <1>5, <2>1, <2>2, <2>3, <2>4, <2>5, <2>6 DEF Shutdown
<1>6. CASE Reader
  <2>1. CASE Receive
    <3>1. UNCHANGED <<engine, caller, exec, outcome>>
      BY <2>1 DEF Receive, ReaderOnly
    <3> QED
      BY <3>1, ChannelStutters
  <2>2. CASE LeaveReader
    <3>1. UNCHANGED <<engine, caller, exec, outcome>>
      BY <2>2 DEF LeaveReader, ReaderOnly
    <3> QED
      BY <3>1, ChannelStutters
  <2>3. CASE DispatchReady
    <3>1. UNCHANGED <<engine, caller, exec, outcome>>
      BY <2>3 DEF DispatchReady, FrameDone, ReaderOnly
    <3> QED
      BY <3>1, ChannelStutters
  <2>4. CASE DispatchRequest
    <3>1. UNCHANGED <<engine, caller, exec, outcome>>
      BY <2>4 DEF DispatchRequest, FrameDone, ReaderOnly
    <3> QED
      BY <3>1, ChannelStutters
  <2>5. CASE Answer
    <3>1. UNCHANGED <<engine, caller, exec, outcome>>
      BY <2>5 DEF Answer, Offer, Delivered, Refused, FrameDone, ReaderOnly
    <3> QED
      BY <3>1, ChannelStutters
  <2>6. CASE DispatchResult
    <3>1. UNCHANGED <<engine, caller, exec, outcome>>
      BY <2>6 DEF DispatchResult, NotifyWatchdog, ReaderOnly
    <3> QED
      BY <3>1, ChannelStutters
  <2>7. CASE ReaderTakes
    <3>1. UNCHANGED <<engine, caller, exec, outcome>>
      BY <2>7 DEF ReaderTakes, FrameDone, ReaderOnly
    <3> QED
      BY <3>1, ChannelStutters
  <2>8. CASE ReaderCalls
    <3>1. /\ engine = "up" /\ UNCHANGED <<engine, caller, exec, fromSidecar>>
          /\ reader = "call" /\ inbox # <<>> /\ FrameDone
          /\ Head(inbox).type = "EXEC_RESULT"
          /\ Invoke(held["reader"], "result", Head(inbox).of)
      BY <2>8 DEF ReaderCalls, ReaderOnly, ReaderInv, TypeInv, FramesOK
    <3>2. Head(inbox).of \in 0 .. MaxExec
      BY <3>1, HeldIsExec DEF SidecarFrames
    <3>3. CASE NothingAbandoned
      <4>1. OneOf(Came, "EXEC_RESULT", exec) /\ Came \in Seq(SidecarFrames)
        BY <3>3, WaysAreSequences DEF FlowInv, ScriptInv
      <4>2. Head(Came) = Head(inbox) /\ Came # <<>>
        BY <3>1, DispatchTakesHead
      <4>3. Head(inbox).of = exec
        BY <3>1, <4>1, <4>2, LastOne
      <4> QED
        BY <3>1, <3>2, <4>3, InvokeCompletes
    <3>4. CASE ~NothingAbandoned
      <4>1. PICK m \in Execs : outcome[m].how = "waitTimeout"
        BY <3>4 DEF NothingAbandoned
      <4>2. m <= exec
        BY <1>0, <4>1 DEF OwnerInv, Pending, Execs
      <4>3. outcome[exec] # Pending \/ \E x \in 1 .. (exec - 1) : outcome[x].how = "waitTimeout"
        BY <1>0, <4>1, <4>2 DEF Pending, Execs
      <4> QED
        BY <3>1, <3>2, <4>3, InvokeCompletes
    <3> QED
      BY <3>3, <3>4
  <2> QED
    BY <1>6, <2>1, <2>2, <2>3, <2>4, <2>5, <2>6, <2>7, <2>8 DEF Reader
<1>7. CASE UserAnswers
  <2>1. UNCHANGED <<engine, caller, exec, outcome>>
    BY <1>7 DEF UserAnswers, ReaderOnly
  <2> QED
    BY <2>1, ChannelStutters
<1>8. CASE Watchdog
  <2>1. CASE CheckPhase1
    <3>1. UNCHANGED <<engine, caller, exec, outcome>>
      BY <2>1 DEF CheckPhase1, WatchdogOnly
    <3> QED
      BY <3>1, ChannelStutters
  <2>2. CASE CheckPhase2
    <3>1. UNCHANGED <<engine, caller, exec, outcome>>
      BY <2>2 DEF CheckPhase2, WatchdogOnly
    <3> QED
      BY <3>1, ChannelStutters
  <2>3. CASE FallAsleep
    <3>1. UNCHANGED <<engine, caller, exec, outcome>>
      BY <2>3 DEF FallAsleep, WatchdogOnly
    <3> QED
      BY <3>1, ChannelStutters
  <2>4. CASE TimerExpires
    <3>1. UNCHANGED <<engine, caller, exec, outcome>>
      BY <2>4 DEF TimerExpires, WatchdogOnly
    <3> QED
      BY <3>1, ChannelStutters
  <2>5. CASE ResetAwaiting
    <3>1. UNCHANGED <<engine, caller, exec, outcome>>
      BY <2>5 DEF ResetAwaiting, WatchdogOnly
    <3> QED
      BY <3>1, ChannelStutters
  <2>6. CASE SendInterrupt
    <3>1. UNCHANGED <<engine, caller, exec, outcome>>
      BY <2>6 DEF SendInterrupt, Offer, Delivered, Refused, WatchdogOnly
    <3> QED
      BY <3>1, ChannelStutters
  <2>7. CASE WatchdogTakes
    <3>1. UNCHANGED <<engine, caller, exec, outcome>>
      BY <2>7 DEF WatchdogTakes, WatchdogOnly
    <3> QED
      BY <3>1, ChannelStutters
  <2>8. CASE WatchdogCalls
    <3>1. /\ engine = "up" /\ UNCHANGED <<engine, caller, exec>>
          /\ Invoke(held["watchdog"], "timeout", timed) /\ timed \in 0 .. MaxExec
      BY <2>8 DEF WatchdogCalls, WatchdogOnly, TypeInv, NumbersOK
    <3> QED
      BY <3>1, InvokeCompletes
  <2> QED
    BY <1>8, <2>1, <2>2, <2>3, <2>4, <2>5, <2>6, <2>7, <2>8 DEF Watchdog
<1>9. CASE Sidecar
  <2>1. CASE SidecarBoots
    <3>1. UNCHANGED <<engine, caller, exec, outcome>>
      BY <2>1 DEF SidecarBoots, SidecarOnly
    <3> QED
      BY <3>1, ChannelStutters
  <2>2. CASE SidecarReads
    <3>1. UNCHANGED <<engine, caller, exec, outcome>>
      BY <2>2 DEF SidecarReads, SidecarOnly
    <3> QED
      BY <3>1, ChannelStutters
  <2>3. CASE ScriptAsks
    <3>1. UNCHANGED <<engine, caller, exec, outcome>>
      BY <2>3 DEF ScriptAsks, AnswerType, RequestKinds, SidecarOnly
    <3> QED
      BY <3>1, ChannelStutters
  <2>4. CASE ScriptReadsAnswer
    <3>1. UNCHANGED <<engine, caller, exec, outcome>>
      BY <2>4 DEF ScriptReadsAnswer, SidecarOnly
    <3> QED
      BY <3>1, ChannelStutters
  <2>5. CASE ScriptFinishes
    <3>1. UNCHANGED <<engine, caller, exec, outcome>>
      BY <2>5 DEF ScriptFinishes, SidecarOnly
    <3> QED
      BY <3>1, ChannelStutters
  <2>6. CASE SidecarDies
    <3>1. UNCHANGED <<engine, caller, exec, outcome>>
      BY <2>6 DEF SidecarDies, SidecarOnly
    <3> QED
      BY <3>1, ChannelStutters
  <2> QED
    BY <1>9, <2>1, <2>2, <2>3, <2>4, <2>5, <2>6 DEF Sidecar
<1>10. CASE BrokenPipe
  <2>1. /\ engine = "up" /\ engine' = "killed" /\ UNCHANGED <<exec, outcome>>
        /\ caller \notin {"unlaunched", "handshake"}
    BY <1>10, Zenon DEF BrokenPipe, LaunchInv
  <2>2. ChannelPhase \in {"open", "busy", "shut"} /\ ChannelPhase' = "crashed"
    BY <2>1, PhaseOf, PhaseAfter DEF TypeInv, ControlOK, CallerSteps
  <2>3. Channel!Crash
    BY <2>1, <2>2 DEF Channel!Crash
  <2> QED
    BY <2>3 DEF Channel!Next
<1>11. CASE UNCHANGED vars
  <2>1. UNCHANGED <<engine, caller, exec, outcome>>
    BY <1>11 DEF vars
  <2> QED
    BY <2>1, ChannelStutters
<1> QED
  BY <1>1, <1>2, <1>3, <1>4, <1>5, <1>6, <1>7, <1>8, <1>9, <1>10, <1>11 DEF
     Next

\* A bridge that was not launched is a channel that was not opened.
LEMMA ChannelInit == Init => Channel!Init
<1>1. Init => ChannelPhase = "new"
  BY PhaseOf DEF Init
<1> QED
  BY <1>1 DEF Init, Channel!Init, Channel!Execs, Channel!Pending, Execs, Pending, None

\* What an executor relies on holds for every number of scripts and requests, in
\* both builds, whatever the threads, the sidecar and the timers do: one outcome
\* per script, no script after a timeout, and no result of another script unless
\* an earlier one was given up on.
THEOREM BridgeImplementsChannel == Spec => ImplementsChannel
<1>1. Init => Channel!Init
  BY ChannelInit
<1>2. /\ TypeInv /\ OwnerInv /\ ReaderInv /\ LaunchInv /\ TimeoutInv /\ FlowInv
      /\ [Next]_vars
      => [Channel!Next]_(Channel!channelVars)
  BY ChannelStep
<1> QED
  BY <1>1, <1>2, FlowInvariant, PTL DEF Spec, ImplementsChannel, Channel!Spec
=============================================================================
