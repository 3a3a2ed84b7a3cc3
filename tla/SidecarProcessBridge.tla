------------------------- MODULE SidecarProcessBridge -------------------------
(***************************************************************************)
(* One SidecarProcessBridge object (ZeriLink/Source/ProcessBridge.cpp), as *)
(* ZeriWireSidecarBridge drives it, the process host below it and the      *)
(* sidecar process at the other end of its two pipes.                      *)
(*                                                                         *)
(* Threads.  The caller runs Launch, Execute and Shutdown; the wrapper's   *)
(* m_executeMutex serialises them, so one program counter stands for every *)
(* thread that calls in.  The reader is ReaderLoop/DispatchFrame and the   *)
(* watchdog is WatchdogLoop.  Each step below is one access to shared      *)
(* state: an atomic flag, a locked section, a system call on a pipe.       *)
(*                                                                         *)
(* Condition variables are modelled with the window that matters here:     *)
(* evaluating the predicate and going to sleep are two steps, so a notify  *)
(* issued without the mutex between the two is lost.  Spurious wake-ups,   *)
(* which the code cannot count on, are left out.                           *)
(*                                                                         *)
(* Time.  The 5 s handshake and the 30 s watchdog may expire at any point  *)
(* of their wait.  The caller's 35 s wait starts when the script was sent, *)
(* so it outlasts a watchdog that is timing: it expires only while the     *)
(* watchdog sleeps in phase 1 (threads are assumed to be scheduled within  *)
(* the 5 s that separate the two).                                         *)
(***************************************************************************)
EXTENDS Naturals, Sequences, FiniteSets

CONSTANTS
    MaxExec,        \* bound on the scripts sent through this bridge
    MaxRequests,    \* bound on the input/shared requests a script makes
    Platforms       \* the builds considered, a subset of {"posix", "windows"}

ASSUME MaxExecAssumption == MaxExec \in Nat \ {0}
ASSUME MaxRequestsAssumption == MaxRequests \in Nat
ASSUME PlatformsAssumption == Platforms \subseteq {"posix", "windows"}

VARIABLES
    platform,       \* the build that runs
    engine,         \* "up", or "killed" by SIGPIPE
    caller,         \* program counter of the calling thread
    reader,         \* program counter of m_readerThread
    watchdog,       \* program counter of m_watchdogThread
    active,         \* m_active
    ready,          \* m_ready
    awaiting,       \* m_awaitingResult
    stopping,       \* m_readerStop and m_watchdogStop, always set together
    alive,          \* ZeriWireSidecarBridge::m_alive
    handlers,       \* input and system-event handlers are installed
    exec,           \* number of the latest Execute
    callback,       \* m_resultCallback: the script it belongs to, or None
    held,           \* held[t]: the callback thread t moved out of the member
    outcome,        \* outcome[n]: the result Execute n reports
    pipe,           \* the host holds its ends of the two pipes
    toSidecar,      \* frames written and not yet read by the sidecar
    fromSidecar,    \* frames written by the sidecar and not yet read
    inbox,          \* frames of the reader's last chunk, being dispatched
    sidecar,        \* "none", "boot", "idle", "running", a wait, or "dead"
    running,        \* the script the sidecar runs, or ran last
    requests,       \* requests the running script has made
    timed,          \* ghost: script whose activation started the running timer
    late            \* ghost: callbacks invoked after their Execute returned

world        == <<platform, engine>>
callerVars   == <<caller, alive, handlers, exec>>
readerVars   == <<reader, inbox>>
watchdogVars == <<watchdog, timed>>
flagVars     == <<active, ready, awaiting, stopping>>
resultVars   == <<callback, held, outcome, late>>
pipeVars     == <<pipe, toSidecar, fromSidecar>>
sidecarVars  == <<sidecar, running, requests>>
vars == <<world, callerVars, readerVars, watchdogVars, flagVars, resultVars,
          pipeVars, sidecarVars>>

-----------------------------------------------------------------------------
(* Values.                                                                 *)

None == 0
Execs == 1 .. MaxExec

Workers == {"reader", "watchdog"}

Pending == [how |-> "pending", of |-> None]

Outcomes == [how : {"pending", "result", "timeout", "sendFailed", "waitTimeout"},
             of : 0 .. MaxExec]

\* Requests of a running script; the sidecar blocks until the answer arrives.
RequestKinds == {"REQ_INPUT", "SHARED"}
AnswerType(kind) == IF kind = "REQ_INPUT" THEN "RES_INPUT" ELSE "SHARED_VALUE"

Frame(type, n) == [type |-> type, of |-> n]

HostFrames == [type : {"EXEC_CODE", "RES_INPUT", "SHARED_VALUE", "INTERRUPT",
                       "TERMINATE"}, of : 0 .. MaxExec]
SidecarFrames == [type : {"READY", "EXEC_RESULT"} \cup RequestKinds,
                  of : 0 .. MaxExec]

Prefix(s, n) == SubSeq(s, 1, n)
Without(s, n) == SubSeq(s, n + 1, Len(s))

-----------------------------------------------------------------------------
(* Pipe writes: SendFrame and the process host's SendData.                 *)

\* The sidecar still holds the read end: the frame is in the pipe.
Delivered(frame) ==
    /\ pipe /\ sidecar # "dead"
    /\ toSidecar' = Append(toSidecar, frame)
    /\ UNCHANGED <<pipe, fromSidecar>>

\* SendData returns false: Stop closed the descriptor, or (Windows) WriteFile
\* reports the broken pipe.
Refused ==
    /\ ~pipe \/ (sidecar = "dead" /\ platform = "windows")
    /\ UNCHANGED pipeVars

\* Best-effort sends ignore the result of SendFrame.
Offer(frame) == Delivered(frame) \/ Refused

\* POSIX write(2) to a pipe without readers raises SIGPIPE, which no part of
\* the engine handles or ignores: the whole process ends.
BrokenPipe ==
    /\ engine = "up"
    /\ pipe /\ sidecar = "dead" /\ platform = "posix"
    /\ \/ caller \in {"send", "terminate"}
       \/ reader = "answer" /\ active
       \/ watchdog = "interrupt"
    /\ engine' = "killed"
    /\ UNCHANGED <<platform, callerVars, readerVars, watchdogVars, flagVars,
                   resultVars, pipeVars, sidecarVars>>

-----------------------------------------------------------------------------
(* m_watchdogCv.notify_one: wakes the watchdog if it is asleep, else lost. *)

NotifyWatchdog ==
    /\ watchdog' = CASE watchdog = "sleep1" -> "check1"
                     [] watchdog = "sleep2" -> "check2"
                     [] OTHER -> watchdog
    /\ UNCHANGED timed

-----------------------------------------------------------------------------
(* Invoking a result callback.  The callback of script k writes into the   *)
(* local variables of Execute k and wakes it.                              *)

InFlight(k) == exec = k /\ caller \in {"send", "recall", "arm", "wait"}

\* The first invocation decides what Execute reports.
Settle(n, how, of) ==
    outcome' = IF outcome[n] = Pending
               THEN [outcome EXCEPT ![n] = [how |-> how, of |-> of]]
               ELSE outcome

\* A callback whose Execute has returned writes through dangling references:
\* into dead stack memory, or into the frame of the Execute now running, which
\* the same call path put at the same place.
Invoke(k, how, of) ==
    IF InFlight(k)
    THEN Settle(k, how, of) /\ UNCHANGED late
    ELSE /\ late' = late \cup {k}
         /\ \/ UNCHANGED outcome
            \/ caller = "wait" /\ Settle(exec, how, of)

-----------------------------------------------------------------------------
(* Launch.                                                                 *)

Goto(from, to) == engine = "up" /\ caller = from /\ caller' = to

StartFails ==
    /\ Goto("unlaunched", "failed")
    /\ UNCHANGED <<world, alive, handlers, exec, readerVars, watchdogVars,
                   flagVars, resultVars, pipeVars, sidecarVars>>

StartHost ==
    /\ Goto("unlaunched", "handshake")
    /\ pipe' = TRUE
    /\ sidecar' = "boot"
    /\ ready' = FALSE
    /\ stopping' = FALSE
    /\ reader' = "receive"
    /\ watchdog' = "check1"
    /\ UNCHANGED <<world, alive, handlers, exec, inbox, timed, active, awaiting,
                   resultVars, toSidecar, fromSidecar, running, requests>>

Activate ==
    /\ Goto("handshake", "idle")
    /\ ready
    /\ active' = TRUE
    /\ alive' = TRUE
    /\ UNCHANGED <<world, handlers, exec, readerVars, watchdogVars, ready,
                   awaiting, stopping, resultVars, pipeVars, sidecarVars>>

HandshakeTimeout ==
    /\ Goto("handshake", "abort")
    /\ ~ready
    /\ UNCHANGED <<world, alive, handlers, exec, readerVars, watchdogVars,
                   flagVars, resultVars, pipeVars, sidecarVars>>

-----------------------------------------------------------------------------
(* ZeriWireSidecarBridge::Execute and SidecarProcessBridge::ExecuteCode.   *)

\* Handlers installed, callback stored.
StoreCallback ==
    /\ Goto("idle", "send")
    /\ exec < MaxExec
    /\ exec' = exec + 1
    /\ callback' = exec + 1
    /\ handlers' = TRUE
    /\ UNCHANGED <<world, alive, readerVars, watchdogVars, flagVars, held, outcome,
                   late, pipeVars, sidecarVars>>

Begin == alive /\ active /\ StoreCallback

SendExecCode ==
    /\ \/ Goto("send", "arm") /\ Delivered(Frame("EXEC_CODE", exec))
       \/ Goto("send", "recall") /\ Refused
    /\ UNCHANGED <<world, alive, handlers, exec, readerVars, watchdogVars,
                   flagVars, resultVars, sidecarVars>>

\* The send failed: the caller takes the callback back and invokes it itself.
Recall ==
    /\ Goto("recall", "wait")
    /\ IF callback = None THEN UNCHANGED outcome
                          ELSE Settle(callback, "sendFailed", callback)
    /\ callback' = None
    /\ UNCHANGED <<world, alive, handlers, exec, readerVars, watchdogVars,
                   flagVars, held, late, pipeVars, sidecarVars>>

\* m_awaitingResult is set only after the frame went out.
ActivateWatchdog ==
    /\ Goto("arm", "wait")
    /\ awaiting' = TRUE
    /\ NotifyWatchdog
    /\ UNCHANGED <<world, alive, handlers, exec, readerVars, active, ready,
                   stopping, resultVars, pipeVars, sidecarVars>>

\* Faulty variant: the wait for the result has no bound.
WaitForever == FALSE

WaitTimeout ==
    /\ engine = "up" /\ caller = "wait"
    /\ outcome[exec] = Pending
    /\ watchdog = "sleep1"
    /\ Settle(exec, "waitTimeout", exec)
    /\ UNCHANGED <<world, callerVars, readerVars, watchdogVars, flagVars, callback,
                   held, late, pipeVars, sidecarVars>>

ClearHandlers ==
    /\ Goto("wait", "idle")
    /\ outcome[exec] # Pending
    /\ handlers' = FALSE
    /\ UNCHANGED <<world, exec, readerVars, watchdogVars, flagVars, resultVars,
                   pipeVars, sidecarVars>>

\* Faulty variant: the timed-out sidecar is kept for the next script.
ReturnAlive == ClearHandlers /\ UNCHANGED alive

\* Execute returns; only SIDECAR_TIMEOUT marks the sidecar as not alive.
Return == ClearHandlers /\ alive' = (outcome[exec].how # "timeout")

-----------------------------------------------------------------------------
(* Shutdown of an active bridge (a cancel, a relaunch, program exit), and  *)
(* the shorter one after a failed handshake.                               *)

BeginShutdown ==
    /\ Goto("idle", "terminate")
    /\ alive' = FALSE
    /\ active' = FALSE
    /\ UNCHANGED <<world, handlers, exec, readerVars, watchdogVars, ready,
                   awaiting, stopping, resultVars, pipeVars, sidecarVars>>

SendTerminate ==
    /\ Goto("terminate", "clear")
    /\ Offer(Frame("TERMINATE", None))
    /\ UNCHANGED <<world, alive, handlers, exec, readerVars, watchdogVars,
                   flagVars, resultVars, sidecarVars>>

ClearAwaiting ==
    /\ Goto("clear", "stop")
    /\ awaiting' = FALSE
    /\ UNCHANGED <<world, alive, handlers, exec, readerVars, watchdogVars, active,
                   ready, stopping, resultVars, pipeVars, sidecarVars>>

RequestStop ==
    /\ Goto("stop", "host")
    /\ stopping' = TRUE
    /\ NotifyWatchdog
    /\ UNCHANGED <<world, alive, handlers, exec, readerVars, active, ready,
                   awaiting, resultVars, pipeVars, sidecarVars>>

AbortLaunch ==
    /\ Goto("abort", "abortHost")
    /\ stopping' = TRUE
    /\ awaiting' = FALSE
    /\ NotifyWatchdog
    /\ UNCHANGED <<world, alive, handlers, exec, readerVars, active, ready,
                   resultVars, pipeVars, sidecarVars>>

ClosePipes ==
    /\ Goto("host", "join") \/ Goto("abortHost", "abortJoin")
    /\ pipe' = FALSE
    /\ toSidecar' = <<>>
    /\ fromSidecar' = <<>>
    /\ UNCHANGED <<world, alive, handlers, exec, readerVars, watchdogVars,
                   flagVars, resultVars, running, requests>>

\* Faulty variant: the pipes are closed, the child is left alone.
StopWithoutKill == ClosePipes /\ UNCHANGED sidecar

\* PosixProcessHost::Stop also terminates and reaps the child.
StopHost == ClosePipes /\ sidecar' = "dead"

\* The callback is cleared on the active path only.
JoinWatchdog ==
    /\ watchdog = "done"
    /\ \/ Goto("join", "closed") /\ callback' = None
       \/ Goto("abortJoin", "failed") /\ UNCHANGED callback
    /\ UNCHANGED <<world, alive, handlers, exec, readerVars, watchdogVars,
                   flagVars, held, outcome, late, pipeVars, sidecarVars>>

Join == reader = "done" /\ JoinWatchdog

-----------------------------------------------------------------------------
(* The reader: ReaderLoop and DispatchFrame.                               *)

ReaderOnly == engine = "up" /\ UNCHANGED <<world, callerVars, sidecarVars>>

\* One ReceiveData returns any non-empty prefix of what the sidecar wrote.
Receive ==
    /\ reader = "receive"
    /\ ~stopping /\ pipe
    /\ \E n \in 1 .. Len(fromSidecar) :
        /\ inbox' = Prefix(fromSidecar, n)
        /\ fromSidecar' = Without(fromSidecar, n)
    /\ reader' = "dispatch"
    /\ ReaderOnly
    /\ UNCHANGED <<watchdogVars, flagVars, resultVars, pipe, toSidecar>>

\* A stop request, a closed host, or end of file ends the loop.
LeaveReader ==
    /\ reader = "receive"
    /\ stopping \/ ~pipe \/ (sidecar = "dead" /\ fromSidecar = <<>>)
    /\ reader' = "done"
    /\ ReaderOnly
    /\ UNCHANGED <<inbox, watchdogVars, flagVars, resultVars, pipeVars>>

\* The frame is done: the rest of the chunk first, then the next read.
FrameDone ==
    /\ inbox' = Tail(inbox)
    /\ reader' = IF Len(inbox) > 1 THEN "dispatch" ELSE "receive"

DispatchReady ==
    /\ reader = "dispatch" /\ Head(inbox).type = "READY"
    /\ ready' = TRUE
    /\ FrameDone
    /\ ReaderOnly
    /\ UNCHANGED <<watchdogVars, active, awaiting, stopping, resultVars, pipeVars>>

\* Without a handler a request is dropped and the sidecar keeps waiting.
DispatchRequest ==
    /\ reader = "dispatch" /\ Head(inbox).type \in RequestKinds
    /\ IF ~handlers
       THEN FrameDone
       ELSE /\ reader' = IF Head(inbox).type = "REQ_INPUT"
                         THEN "readLine" ELSE "answer"
            /\ UNCHANGED inbox
    /\ ReaderOnly
    /\ UNCHANGED <<watchdogVars, flagVars, resultVars, pipeVars>>

\* ITerminal::ReadLine, called on the reader thread, returns.
UserAnswers ==
    /\ reader = "readLine"
    /\ reader' = "answer"
    /\ ReaderOnly
    /\ UNCHANGED <<inbox, watchdogVars, flagVars, resultVars, pipeVars>>

\* SendInputResponse and SendSystemEvent: nothing is sent when not active.
Answer ==
    /\ reader = "answer"
    /\ IF active THEN Offer(Frame(AnswerType(Head(inbox).type), Head(inbox).of))
                 ELSE UNCHANGED pipeVars
    /\ FrameDone
    /\ ReaderOnly
    /\ UNCHANGED <<watchdogVars, flagVars, resultVars>>

\* EXEC_RESULT: stop the timer, then take the callback, then invoke it.
DispatchResult ==
    /\ reader = "dispatch" /\ Head(inbox).type = "EXEC_RESULT"
    /\ awaiting' = FALSE
    /\ NotifyWatchdog
    /\ reader' = "take"
    /\ ReaderOnly
    /\ UNCHANGED <<inbox, active, ready, stopping, resultVars, pipeVars>>

ReaderTakes ==
    /\ reader = "take"
    /\ held' = [held EXCEPT !["reader"] = callback]
    /\ callback' = None
    /\ IF callback = None THEN FrameDone
                          ELSE reader' = "call" /\ UNCHANGED inbox
    /\ ReaderOnly
    /\ UNCHANGED <<watchdogVars, flagVars, outcome, late, pipeVars>>

ReaderCalls ==
    /\ reader = "call"
    /\ Invoke(held["reader"], "result", Head(inbox).of)
    /\ held' = [held EXCEPT !["reader"] = None]
    /\ FrameDone
    /\ ReaderOnly
    /\ UNCHANGED <<watchdogVars, flagVars, callback, pipeVars>>

-----------------------------------------------------------------------------
(* The watchdog: WatchdogLoop, its two waits written as check, block and   *)
(* sleep.                                                                  *)

WatchdogOnly == engine = "up" /\ UNCHANGED <<world, callerVars, readerVars, sidecarVars>>

\* Loop condition and phase 1 predicate.  Entering phase 2 starts the timer.
CheckPhase1 ==
    /\ watchdog = "check1"
    /\ watchdog' = IF stopping THEN "done"
                   ELSE IF awaiting THEN "check2" ELSE "block1"
    /\ timed' = IF awaiting /\ ~stopping THEN exec ELSE timed
    /\ WatchdogOnly
    /\ UNCHANGED <<flagVars, resultVars, pipeVars>>

\* Phase 2 predicate, then the stop check behind the wait.
CheckPhase2 ==
    /\ watchdog = "check2"
    /\ watchdog' = IF stopping THEN "done"
                   ELSE IF awaiting THEN "block2" ELSE "check1"
    /\ WatchdogOnly
    /\ UNCHANGED <<timed, flagVars, resultVars, pipeVars>>

FallAsleep ==
    /\ \/ watchdog = "block1" /\ watchdog' = "sleep1"
       \/ watchdog = "block2" /\ watchdog' = "sleep2"
    /\ WatchdogOnly
    /\ UNCHANGED <<timed, flagVars, resultVars, pipeVars>>

\* The timer runs out: wait_for evaluates its predicate a last time.
TimerExpires ==
    /\ watchdog = "sleep2"
    /\ watchdog' = IF stopping THEN "done"
                   ELSE IF awaiting THEN "expired" ELSE "check1"
    /\ WatchdogOnly
    /\ UNCHANGED <<timed, flagVars, resultVars, pipeVars>>

ResetAwaiting ==
    /\ watchdog = "expired"
    /\ awaiting' = FALSE
    /\ watchdog' = "interrupt"
    /\ WatchdogOnly
    /\ UNCHANGED <<timed, active, ready, stopping, resultVars, pipeVars>>

SendInterrupt ==
    /\ watchdog = "interrupt"
    /\ Offer(Frame("INTERRUPT", None))
    /\ watchdog' = "take"
    /\ WatchdogOnly
    /\ UNCHANGED <<timed, flagVars, resultVars>>

\* Faulty variant: the callback is copied, as the request handlers are.
WatchdogCopies ==
    /\ watchdog = "take"
    /\ held' = [held EXCEPT !["watchdog"] = callback]
    /\ watchdog' = IF callback = None THEN "check1" ELSE "call"
    /\ WatchdogOnly
    /\ UNCHANGED <<timed, flagVars, callback, outcome, late, pipeVars>>

WatchdogTakes ==
    /\ watchdog = "take"
    /\ held' = [held EXCEPT !["watchdog"] = callback]
    /\ callback' = None
    /\ watchdog' = IF callback = None THEN "check1" ELSE "call"
    /\ WatchdogOnly
    /\ UNCHANGED <<timed, flagVars, outcome, late, pipeVars>>

WatchdogCalls ==
    /\ watchdog = "call"
    /\ Invoke(held["watchdog"], "timeout", timed)
    /\ held' = [held EXCEPT !["watchdog"] = None]
    /\ watchdog' = "check1"
    /\ WatchdogOnly
    /\ UNCHANGED <<timed, flagVars, callback, pipeVars>>

-----------------------------------------------------------------------------
(* The sidecar process: bootstrap_python.py, running arbitrary user code.  *)

SidecarOnly ==
    /\ engine = "up"
    /\ UNCHANGED <<world, callerVars, readerVars, watchdogVars, flagVars, resultVars,
                   pipe>>

Say(frame) == fromSidecar' = Append(fromSidecar, frame)

SidecarBoots ==
    /\ sidecar = "boot"
    /\ sidecar' = "idle"
    /\ Say(Frame("READY", None))
    /\ SidecarOnly
    /\ UNCHANGED <<toSidecar, running, requests>>

\* The main loop takes a frame.  INTERRUPT and answers nobody waits for do
\* nothing; TERMINATE exits.
SidecarReads ==
    /\ sidecar = "idle" /\ toSidecar # <<>>
    /\ toSidecar' = Tail(toSidecar)
    /\ LET frame == Head(toSidecar) IN
        IF frame.type = "EXEC_CODE"
        THEN sidecar' = "running" /\ running' = frame.of /\ requests' = 0
        ELSE /\ sidecar' = IF frame.type = "TERMINATE" THEN "dead" ELSE "idle"
             /\ UNCHANGED <<running, requests>>
    /\ SidecarOnly
    /\ UNCHANGED fromSidecar

\* input(), zeri.get() or zeri.set(): the request goes out, the script waits.
ScriptAsks ==
    /\ sidecar = "running" /\ requests < MaxRequests
    /\ \E kind \in RequestKinds :
        /\ Say(Frame(kind, running))
        /\ sidecar' = AnswerType(kind)
    /\ requests' = requests + 1
    /\ SidecarOnly
    /\ UNCHANGED <<toSidecar, running>>

\* A waiting script reads frames.  The answer ends the wait, and whatever else
\* the same read returned is lost; TERMINATE exits; the rest is skipped.
ScriptReadsAnswer ==
    /\ sidecar \in {"RES_INPUT", "SHARED_VALUE"} /\ toSidecar # <<>>
    /\ LET frame == Head(toSidecar) IN
        IF frame.type = sidecar
        THEN /\ sidecar' = "running"
             /\ \E n \in 1 .. Len(toSidecar) : toSidecar' = Without(toSidecar, n)
        ELSE /\ sidecar' = IF frame.type = "TERMINATE" THEN "dead" ELSE sidecar
             /\ toSidecar' = Tail(toSidecar)
    /\ SidecarOnly
    /\ UNCHANGED <<running, requests, fromSidecar>>

ScriptFinishes ==
    /\ sidecar = "running"
    /\ sidecar' = "idle"
    /\ Say(Frame("EXEC_RESULT", running))
    /\ SidecarOnly
    /\ UNCHANGED <<toSidecar, running, requests>>

\* os._exit, an uncaught BaseException, a crash of the interpreter, or a
\* bootstrap that cannot start.
SidecarDies ==
    /\ sidecar \in {"boot", "running"}
    /\ sidecar' = "dead"
    /\ SidecarOnly
    /\ UNCHANGED <<toSidecar, fromSidecar, running, requests>>

-----------------------------------------------------------------------------
Init ==
    /\ platform \in Platforms
    /\ engine = "up"
    /\ caller = "unlaunched" /\ alive = FALSE /\ handlers = FALSE /\ exec = 0
    /\ reader = "off" /\ inbox = <<>>
    /\ watchdog = "off" /\ timed = None
    /\ active = FALSE /\ ready = FALSE /\ awaiting = FALSE /\ stopping = FALSE
    /\ callback = None
    /\ held = [t \in Workers |-> None]
    /\ outcome = [n \in Execs |-> Pending]
    /\ late = {}
    /\ pipe = FALSE /\ toSidecar = <<>> /\ fromSidecar = <<>>
    /\ sidecar = "none" /\ running = None /\ requests = 0

Launch == StartFails \/ StartHost \/ Activate \/ HandshakeTimeout

\* The steps the caller takes once an Execute or a Shutdown has begun.
Execution == SendExecCode \/ Recall \/ ActivateWatchdog \/ WaitTimeout \/ Return
Shutdown  == SendTerminate \/ ClearAwaiting \/ RequestStop \/ AbortLaunch
                \/ StopHost \/ Join

Reader   == Receive \/ LeaveReader \/ DispatchReady \/ DispatchRequest \/ Answer
                \/ DispatchResult \/ ReaderTakes \/ ReaderCalls
Watchdog == CheckPhase1 \/ CheckPhase2 \/ FallAsleep \/ TimerExpires
                \/ ResetAwaiting \/ SendInterrupt \/ WatchdogTakes
                \/ WatchdogCalls
Sidecar  == SidecarBoots \/ SidecarReads \/ ScriptAsks \/ ScriptReadsAnswer
                \/ ScriptFinishes \/ SidecarDies

Next == Launch \/ Begin \/ Execution \/ BeginShutdown \/ Shutdown \/ Reader
            \/ UserAnswers \/ Watchdog \/ Sidecar \/ BrokenPipe

\* The engine's threads are scheduled and its timers expire.  Nothing is
\* assumed of the user, of the sidecar, or of the next command.
Fairness ==
    /\ WF_vars(Launch \/ Execution \/ Shutdown)
    /\ WF_vars(Reader)
    /\ WF_vars(Watchdog)
    /\ WF_vars(BrokenPipe)

Spec == Init /\ [][Next]_vars
FairSpec == Spec /\ Fairness

-----------------------------------------------------------------------------
(* Properties.                                                             *)

CallerSteps == {"unlaunched", "handshake", "abort", "abortHost", "abortJoin",
                "failed", "idle", "send", "recall", "arm", "wait", "terminate",
                "clear", "stop", "host", "join", "closed"}
ReaderSteps == {"off", "receive", "dispatch", "take", "call", "readLine", "answer",
                "done"}
WatchdogSteps == {"off", "check1", "block1", "sleep1", "check2", "block2",
                  "sleep2", "expired", "interrupt", "take", "call", "done"}
SidecarStates == {"none", "boot", "idle", "running", "RES_INPUT", "SHARED_VALUE",
                  "dead"}

\* Every variable keeps its type: the flags and counters of the bridge, the
\* frames on both pipes and in the reader's chunk.
TypeOK ==
    /\ platform \in Platforms /\ engine \in {"up", "killed"}
    /\ caller \in CallerSteps /\ reader \in ReaderSteps
    /\ watchdog \in WatchdogSteps /\ sidecar \in SidecarStates
    /\ active \in BOOLEAN /\ ready \in BOOLEAN /\ awaiting \in BOOLEAN
    /\ stopping \in BOOLEAN /\ alive \in BOOLEAN /\ handlers \in BOOLEAN
    /\ pipe \in BOOLEAN
    /\ exec \in 0 .. MaxExec /\ callback \in 0 .. MaxExec
    /\ running \in 0 .. MaxExec /\ timed \in 0 .. MaxExec
    /\ requests \in 0 .. MaxRequests
    /\ held \in [Workers -> 0 .. MaxExec]
    /\ outcome \in [Execs -> Outcomes]
    /\ toSidecar \in Seq(HostFrames)
    /\ fromSidecar \in Seq(SidecarFrames) /\ inbox \in Seq(SidecarFrames)
    /\ late \subseteq Execs

\* Where the callback of script k is: in the member, or moved out by a thread.
Owners(k) == {t \in Workers : held[t] = k}
                \cup (IF callback = k THEN {"member"} ELSE {})

\* No Execute gave up after 35 s on a script that may still be answered.
NothingAbandoned == \A n \in Execs : outcome[n].how # "waitTimeout"

\* A result callback is a one-shot object: reader, watchdog and the failed send
\* race for it, it is never in two places, and it is gone once it was invoked.
CallbackHasOneOwner ==
    /\ \A k \in Execs : Cardinality(Owners(k)) <= 1
    /\ NothingAbandoned =>
        \A k \in Execs : Owners(k) # {} => k = exec /\ outcome[k] = Pending

\* As long as no Execute gave up after 35 s, a result is the output of the very
\* script it is reported for, although frames carry no identification: a late
\* result of a timed-out script never reaches the next one.
ResultIsOwn ==
    NothingAbandoned =>
        \A n \in Execs : outcome[n].how = "result" => outcome[n].of = n

\* The callback captures locals of Execute by reference.  It never writes to them
\* after Execute returned, unless some Execute gave up after 35 s.
LateWritesOnlyWhenAbandoned ==
    NothingAbandoned => late = {}

\* A script is sent only to a sidecar that will read it in its main loop: one
\* blocked in input() would discard the frame, and the script would be lost.
ScriptFindsIdleSidecar ==
    NothingAbandoned =>
        \A i \in 1 .. Len(toSidecar) :
            toSidecar[i].type = "EXEC_CODE" => sidecar \in {"idle", "dead"}

\* When Shutdown or a failed Launch returns, the child is reaped, both threads
\* have ended, and no callback is left to be called.
ShutdownLeavesNothing ==
    caller \in {"closed", "failed"} =>
        /\ sidecar \in {"none", "dead"}
        /\ reader \in {"off", "done"}
        /\ watchdog \in {"off", "done"}
        /\ \A k \in Execs : Owners(k) = {}

\* How far the channel of ScriptChannel is, seen from the caller.
ChannelPhase ==
    CASE engine = "killed" -> "crashed"
      [] engine = "up" /\ caller \in {"unlaunched", "handshake"} -> "new"
      [] engine = "up" /\ caller = "idle" -> "open"
      [] engine = "up" /\ caller \in {"send", "recall", "arm", "wait"} -> "busy"
      [] OTHER -> "shut"

\* The bridge keeps the promise of ScriptChannel.
Channel == INSTANCE ScriptChannel WITH
    phase <- ChannelPhase, current <- exec, outcome <- outcome

ImplementsChannel == Channel!Spec

\* Execute always comes back: whatever the sidecar and the user do, the script
\* ends with a result, the watchdog's timeout, or the 35 s wait.
ExecuteReturns ==
    (caller \in {"send", "recall", "arm", "wait"})
        ~> (caller = "idle" \/ engine = "killed")

\* A sidecar never outlives the bridge that was told to shut down, even when
\* its script ignores TERMINATE and the watchdog never wakes up.
ShutdownKillsSidecar ==
    (caller \in {"terminate", "abort"}) ~> (sidecar = "dead" \/ engine = "killed")
=============================================================================
