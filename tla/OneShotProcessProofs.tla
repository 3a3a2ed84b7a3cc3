----------------------- MODULE OneShotProcessProofs -----------------------
(***************************************************************************)
(* Type correctness of the one-shot process bridge, and three promises to  *)
(* its clients, for any number of runs, chunks and cancellations: a run no *)
(* Terminate overlaps reports the exit code of its own process, a client   *)
(* that waits uses the bridge safely, and the sandbox captures everything. *)
(*                                                                         *)
(* The invariant follows the main thread.  InterruptInv and ExitInv say    *)
(* when the child is still to be waited for; ThreadInv says which threads  *)
(* can be joined, as long as nobody cancels and the client waits; and      *)
(* CaptureInv says that m_running falls only with the last reader, so that *)
(* whoever leaves the sandbox's loop finds both streams read to their end. *)
(*                                                                         *)
(* The last part is about the sandbox context that is this bridge's        *)
(* client (Sandbox, whose names differ from those of OneShotProcess):      *)
(* ScanInv says where the scan of the modules may be beside a command.     *)
(***************************************************************************)
EXTENDS OneShotProcess, Sandbox, TLAPS

Kills == {"terminate", "close", "test", "kill", "reap"}
Joins == {"test_out", "join_out", "test_err", "join_err"}
\* The main thread has a child it has not waited for.
Before == {"flags", "spawn_out", "spawn_err", "watch", "prompt", "send", "wait", "waitpid"}
After == {"clear", "report"} \cup Joins

\* Only an answer to a prompt makes the main thread call Terminate.
InterruptInv ==
    /\ pc["main"] \in Kills => interrupted
    /\ interrupted => terminated /\ pc["main"] \in Kills \cup Joins \cup {"wait", "waitpid", "clear", "report"}

\* A run no Terminate overlaps waits for its own child.
ExitInv ==
    /\ pc["main"] # "idle" => runs > 0
    /\ pc["main"] # "idle" /\ ~terminated =>
          /\ pc["cancel"] = "off"
          /\ pc["main"] \in Before => childPid > 0 /\ proc \in {"running", "asking", "zombie"}
          /\ pc["main"] \in After => proc = "reaped" /\ lastExit = status
          /\ pc["main"] = "report" => result = lastExit

Live == {"check", "read", "end"}
Quiet == cancels = 0 /\ client # "python"

\* What a client that waits finds of the threads, as long as nobody cancels.
ThreadInv ==
    Quiet =>
    /\ pc["cancel"] = "off"
    /\ \A s \in Streams : joinable[s] <=> reader[s] \in Live \cup {"ended"}
    /\ pc["main"] \in {"idle", "run", "flags", "spawn_out", "report"} =>
          ~joinable["out"] /\ ~joinable["err"]
    /\ pc["main"] = "spawn_err" => ~joinable["err"]
    /\ pc["main"] \in {"test_err", "join_err"} => ~joinable["out"]
    /\ childPid > 0 => proc \in {"running", "asking", "zombie"} \/ pc["main"] = "clear"
    /\ pc["main"] \in {"kill", "waitpid"} \cup (Before \ {"wait"}) => childPid > 0
    /\ pc["main"] = "wait" /\ childPid = 0 => ~joinable["out"] /\ ~joinable["err"]

Drained(s) == pipe[s] = <<>> /\ NoWriter
Waiting == {"wait", "waitpid", "clear", "report"} \cup Joins
Unended(s) == IF reader[s] \in Live THEN 1 ELSE 0

CaptureInv ==
    client = "sandbox" =>
    /\ cancels = 0
    /\ ~interrupted =>
       /\ pc["main"] \notin {"idle", "run"} =>
             /\ open
             /\ \A s \in Streams : delivered[s] + Len(pipe[s]) = written[s]
       /\ pc["main"] = "spawn_out" => running /\ loops = 2
       /\ pc["main"] = "spawn_err" =>
             /\ running /\ loops = 1 + Unended("out")
             /\ reader["out"] = "end" \/ reader["out"] = "ended" => Drained("out")
             /\ reader["out"] \in Live \cup {"ended"}
       /\ pc["main"] \in {"watch", "prompt", "send"} =>
             /\ loops = Unended("out") + Unended("err")
             /\ running <=> loops > 0
             /\ \A s \in Streams : /\ reader[s] \in Live \cup {"ended"}
                                   /\ reader[s] \in {"end", "ended"} => Drained(s)
       /\ pc["main"] \in Waiting =>
             \A s \in Streams : reader[s] \in {"ended", "joined"} /\ Drained(s)

IInv == TypeOK /\ InterruptInv /\ ExitInv /\ ThreadInv /\ CaptureInv

\* The sets the invariant is made of.
LEMMA Names ==
    /\ Actors = {"main", "cancel"} /\ Streams = {"out", "err"}
    /\ \A s \in Streams :
          /\ Spawn[s] = IF s = "out" THEN "spawn_out" ELSE "spawn_err"
          /\ JoinTest[s] = IF s = "out" THEN "test_out" ELSE "test_err"
          /\ Join[s] = IF s = "out" THEN "join_out" ELSE "join_err"
  BY DEF Actors, Streams, Spawn, JoinTest, Join

\* Before the first run nothing lives and nothing is joinable.
LEMMA InitInv == Init => IInv
  <1> SUFFICES ASSUME Init PROVE IInv
    OBVIOUS
  <1>1. TypeOK
    <2>1. /\ pipe \in [Streams -> Seq({"text", "prompt"})]
          /\ written \in [Streams -> Nat] /\ delivered \in [Streams -> Nat]
      BY DEF Init
    <2>2. /\ DOMAIN pc = Actors /\ pc["main"] = "idle" /\ pc["cancel"] = "off"
          /\ reader \in [Streams -> {"none", "check", "read", "end", "ended", "joined"}]
      BY DEF Init, Actors
    <2>3. /\ joinable \in [Streams -> BOOLEAN] /\ running \in BOOLEAN /\ open \in BOOLEAN
          /\ signalled \in BOOLEAN /\ heirs \in BOOLEAN /\ awaiting \in BOOLEAN
          /\ interrupted \in BOOLEAN /\ terminated \in BOOLEAN /\ aborted \in BOOLEAN
      BY Zenon DEF Init
    <2> QED BY <2>1, <2>2, <2>3 DEF Init, TypeOK, MainStates
  <1>2. pc["main"] = "idle" /\ pc["cancel"] = "off"
    BY DEF Init, Actors
  <1>3. InterruptInv /\ ExitInv /\ CaptureInv
    BY <1>2 DEF Init, InterruptInv, ExitInv, CaptureInv, Kills, Joins, Waiting
  <1>4. ThreadInv
    BY <1>2 DEF Init, ThreadInv, Before, Streams, Live
  <1> QED BY <1>1, <1>3, <1>4 DEF IInv

\* A client starts over: what the last run left decides.
LEMMA BeginKeeps ==
    ASSUME IInv, Begin
    PROVE  IInv'
  <1> USE Names DEF Begin, At, Goto, threadVars, flagVars, childVars, clientVars
  <1>1. TypeOK'
    BY DEF IInv, TypeOK, MainStates, CommonStates
  <1>2. InterruptInv'
    BY DEF IInv, TypeOK, InterruptInv, Kills, Joins
  <1>3. ExitInv'
    <2>1. pc'["main"] = "run" /\ runs' > 0 /\ pc'["cancel"] = pc["cancel"]
      BY DEF IInv, TypeOK
    <2>2. ~terminated' => pc["cancel"] = "off"
      OBVIOUS
    <2> QED BY <2>1, <2>2 DEF ExitInv, Before, After, Joins
  <1>4. ThreadInv'
    BY DEF IInv, TypeOK, ThreadInv, Before, Quiet, Live
  <1>5. CaptureInv'
    BY DEF IInv, TypeOK, InterruptInv, ThreadInv, CaptureInv, Kills, Joins, Quiet, Live, Waiting,
           Drained, NoWriter, Unended
  <1> QED BY <1>1, <1>2, <1>3, <1>4, <1>5 DEF IInv

\* Run refuses while m_running is set.
LEMMA RunRefusedKeeps ==
    ASSUME IInv, RunRefused
    PROVE  IInv'
  <1> USE Names DEF RunRefused, At, Goto, threadVars, flagVars, childVars, clientVars
  <1>1. TypeOK'
    BY DEF IInv, TypeOK, MainStates, CommonStates
  <1>2. InterruptInv'
    BY DEF IInv, TypeOK, InterruptInv, Kills, Joins
  <1>3. ExitInv'
    BY DEF IInv, TypeOK, InterruptInv, ExitInv, Kills, Joins, Before, After
  <1>4. ThreadInv'
    BY DEF IInv, TypeOK, ThreadInv, Before, Quiet, Live
  <1>5. CaptureInv'
    BY DEF IInv, TypeOK, InterruptInv, ThreadInv, CaptureInv, Kills, Joins, Quiet, Live, Waiting,
           Drained, NoWriter, Unended
  <1> QED BY <1>1, <1>2, <1>3, <1>4, <1>5 DEF IInv

\* The pipes and the child of a new run.
LEMMA ForkKeeps ==
    ASSUME IInv, Fork
    PROVE  IInv'
  <1> USE Names DEF Fork, At, Goto, threadVars, flagVars, childVars, clientVars
  <1>1. TypeOK'
    <2>1. /\ pipe' \in [Streams -> Seq({"text", "prompt"})]
          /\ written' \in [Streams -> Nat] /\ delivered' \in [Streams -> Nat]
      OBVIOUS
    <2> QED BY <2>1 DEF IInv, TypeOK, MainStates, CommonStates
  <1>2. InterruptInv'
    BY DEF IInv, TypeOK, InterruptInv, Kills, Joins
  <1>3. ExitInv'
    BY DEF IInv, TypeOK, InterruptInv, ExitInv, Kills, Joins, Before, After
  <1>4. ThreadInv'
    BY DEF IInv, TypeOK, ExitInv, ThreadInv, Before, Quiet, Live
  <1>5. CaptureInv'
    BY DEF IInv, TypeOK, InterruptInv, ThreadInv, CaptureInv, Kills, Joins, Quiet, Live, Waiting,
           Drained, NoWriter, Unended
  <1> QED BY <1>1, <1>2, <1>3, <1>4, <1>5 DEF IInv

\* The flags of a new run are set before its readers start.
LEMMA RunFlagsKeeps ==
    ASSUME IInv, RunFlags
    PROVE  IInv'
  <1> USE Names DEF RunFlags, At, Goto, threadVars, flagVars, childVars, clientVars
  <1>1. TypeOK'
    BY DEF IInv, TypeOK, MainStates, CommonStates
  <1>2. InterruptInv'
    BY DEF IInv, TypeOK, InterruptInv, Kills, Joins
  <1>3. ExitInv'
    BY DEF IInv, TypeOK, InterruptInv, ExitInv, Kills, Joins, Before, After
  <1>4. ThreadInv'
    BY DEF IInv, TypeOK, ThreadInv, Before, Quiet, Live
  <1>5. CaptureInv'
    BY DEF IInv, TypeOK, InterruptInv, ThreadInv, CaptureInv, Kills, Joins, Quiet, Live, Waiting,
           Drained, NoWriter, Unended
  <1> QED BY <1>1, <1>2, <1>3, <1>4, <1>5 DEF IInv

\* Where Run goes on after a reader was started.
LEMMA AfterSpawnIs ==
    ASSUME TypeOK, NEW s \in Streams
    PROVE  AfterSpawn(s) = IF s = "out" THEN "spawn_err"
                           ELSE IF client = "sandbox" THEN "watch"
                           ELSE IF client = "executor" THEN "wait" ELSE "idle"
  BY Names, ClientsAssumption DEF TypeOK, AfterSpawn, AllClients

\* Assigning to a joinable std::thread ends the engine; no waiting client does.
LEMMA SpawnReaderKeeps ==
    ASSUME IInv, NEW s \in Streams, SpawnReader(s)
    PROVE  IInv'
  <1> USE Names DEF At, Goto, threadVars, flagVars, childVars, clientVars
  <1>1. CASE joinable[s]
    <2>1. UNCHANGED <<pc, threadVars, flagVars, childVars, clientVars>>
      BY <1>1 DEF SpawnReader
    <2>2. aborted' \in BOOLEAN
      BY <1>1, Zenon DEF SpawnReader
    <2>3. TypeOK'
      BY <2>1, <2>2 DEF IInv, TypeOK
    <2>4. InterruptInv' /\ ExitInv' /\ ThreadInv' /\ CaptureInv'
      BY <2>1 DEF IInv, InterruptInv, ExitInv, ThreadInv, CaptureInv, Quiet, Drained, NoWriter, Unended
    <2> QED BY <2>3, <2>4 DEF IInv
  <1>2. CASE ~joinable[s]
    <2>1. /\ pc["main"] = Spawn[s] /\ pc'["main"] = AfterSpawn(s)
          /\ pc'["cancel"] = pc["cancel"] /\ DOMAIN pc' = Actors
          /\ reader' = [reader EXCEPT ![s] = "check"]
          /\ joinable' = [joinable EXCEPT ![s] = TRUE]
          /\ UNCHANGED <<delivered, flagVars, childVars, clientVars, aborted>>
      BY <1>2 DEF IInv, TypeOK, SpawnReader
    <2> USE <2>1, AfterSpawnIs
    <2>2. TypeOK'
      <3>1. /\ reader' \in [Streams -> {"none", "check", "read", "end", "ended", "joined"}]
            /\ joinable' \in [Streams -> BOOLEAN]
        BY DEF IInv, TypeOK
      <3> QED BY <3>1 DEF IInv, TypeOK, MainStates, CommonStates
    <2>3. InterruptInv'
      BY DEF IInv, InterruptInv, Kills, Joins
    <2>4. ExitInv'
      BY DEF IInv, ExitInv, Before, After, Joins
    <2>5. ThreadInv'
      <3> SUFFICES ASSUME Quiet PROVE ThreadInv'
        BY DEF ThreadInv, Quiet
      <3>1. /\ reader'[s] = "check" /\ joinable'[s] = TRUE
            /\ \A t \in Streams \ {s} : reader'[t] = reader[t] /\ joinable'[t] = joinable[t]
        BY DEF IInv, TypeOK
      <3>2. client \in {"executor", "sandbox"} /\ childPid > 0
        BY ClientsAssumption DEF IInv, TypeOK, ThreadInv, Quiet, Before, AllClients
      <3>3. \A t \in Streams : joinable'[t] <=> reader'[t] \in Live \cup {"ended"}
        BY <3>1 DEF IInv, ThreadInv, Live
      <3>4. CASE s = "out"
        BY <3>1, <3>2, <3>3, <3>4 DEF IInv, ThreadInv, Before
      <3>5. CASE s = "err"
        BY <3>1, <3>2, <3>3, <3>5 DEF IInv, ThreadInv, Before
      <3> QED BY <3>4, <3>5
    <2>6. CaptureInv'
      BY <1>2 DEF IInv, TypeOK, ThreadInv, CaptureInv, Joins, Quiet, Live, Waiting, Drained, NoWriter,
                  Unended
    <2> QED BY <2>2, <2>3, <2>4, <2>5, <2>6 DEF IInv
  <1> QED BY <1>1, <1>2

\* WaitForExit goes to waitpid only while a child is there.
LEMMA WaitTestKeeps ==
    ASSUME IInv, WaitTest
    PROVE  IInv'
  <1> USE Names DEF WaitTest, At, Goto, Leave, threadVars, flagVars, childVars, clientVars
  <1>1. TypeOK'
    BY DEF IInv, TypeOK, MainStates, CommonStates
  <1>2. InterruptInv'
    BY DEF IInv, TypeOK, InterruptInv, Kills, Joins
  <1>3. ExitInv'
    BY DEF IInv, TypeOK, InterruptInv, ExitInv, Kills, Joins, Before, After
  <1>4. ThreadInv'
    BY DEF IInv, TypeOK, ThreadInv, Before, Quiet, Live
  <1>5. CaptureInv'
    BY DEF IInv, TypeOK, InterruptInv, ThreadInv, CaptureInv, Kills, Joins, Quiet, Live, Waiting,
           Drained, NoWriter, Unended
  <1> QED BY <1>1, <1>2, <1>3, <1>4, <1>5 DEF IInv

\* The exit code is taken from the child of this run.
LEMMA WaitPidKeeps ==
    ASSUME IInv, WaitPid
    PROVE  IInv'
  <1> USE Names DEF WaitPid, At, Goto, threadVars, flagVars, childVars, clientVars
  <1>1. TypeOK'
    BY DEF IInv, TypeOK, MainStates, CommonStates
  <1>2. InterruptInv'
    BY DEF IInv, TypeOK, InterruptInv, Kills, Joins
  <1>3. ExitInv'
    BY DEF IInv, TypeOK, InterruptInv, ExitInv, Kills, Joins, Before, After
  <1>4. ThreadInv'
    BY DEF IInv, TypeOK, ThreadInv, Before, Quiet, Live
  <1>5. CaptureInv'
    BY DEF IInv, TypeOK, InterruptInv, ThreadInv, CaptureInv, Kills, Joins, Quiet, Live, Waiting,
           Drained, NoWriter, Unended
  <1> QED BY <1>1, <1>2, <1>3, <1>4, <1>5 DEF IInv

\* WaitForExit clears m_running once the child is reaped.
LEMMA WaitClearKeeps ==
    ASSUME IInv, WaitClear
    PROVE  IInv'
  <1> USE Names DEF WaitClear, At, Goto, threadVars, flagVars, childVars, clientVars
  <1>0. running' \in BOOLEAN
    BY Zenon DEF IInv, TypeOK
  <1>1. TypeOK'
    BY <1>0 DEF IInv, TypeOK, MainStates, CommonStates
  <1>2. InterruptInv'
    BY DEF IInv, TypeOK, InterruptInv, Kills, Joins
  <1>3. ExitInv'
    BY DEF IInv, TypeOK, InterruptInv, ExitInv, Kills, Joins, Before, After
  <1>4. ThreadInv'
    BY DEF IInv, TypeOK, ThreadInv, Before, Quiet, Live
  <1>5. CaptureInv'
    BY DEF IInv, TypeOK, InterruptInv, ThreadInv, CaptureInv, Kills, Joins, Quiet, Live, Waiting,
           Drained, NoWriter, Unended
  <1> QED BY <1>1, <1>2, <1>3, <1>4, <1>5 DEF IInv

\* The result of a run is reported with its own exit code.
LEMMA ReportKeeps ==
    ASSUME IInv, Report
    PROVE  IInv'
  <1> USE Names DEF Report, At, Goto, threadVars, flagVars, childVars, clientVars
  <1>1. TypeOK'
    <2>1. written' \in [Streams -> Nat] /\ delivered' \in [Streams -> Nat]
      OBVIOUS
    <2>2. awaiting' \in BOOLEAN /\ interrupted' \in BOOLEAN
      BY Zenon
    <2> QED BY <2>1, <2>2 DEF IInv, TypeOK, MainStates, CommonStates
  <1>2. InterruptInv'
    BY DEF IInv, TypeOK, InterruptInv, Kills, Joins
  <1>3. ExitInv'
    BY DEF IInv, TypeOK, InterruptInv, ExitInv, Kills, Joins, Before, After
  <1>4. ThreadInv'
    BY DEF IInv, TypeOK, ThreadInv, Before, Quiet, Live
  <1>5. CaptureInv'
    BY DEF IInv, TypeOK, InterruptInv, ThreadInv, CaptureInv, Kills, Joins, Quiet, Live, Waiting,
           Drained, NoWriter, Unended
  <1> QED BY <1>1, <1>2, <1>3, <1>4, <1>5 DEF IInv

\* The sandbox looks for prompts and for the end.
LEMMA WatchKeeps ==
    ASSUME IInv, Watch
    PROVE  IInv'
  <1> USE Names DEF Watch, At, Goto, threadVars, flagVars, childVars, clientVars
  <1>0. awaiting' \in BOOLEAN
    BY Zenon DEF IInv, TypeOK
  <1>1. TypeOK'
    BY <1>0 DEF IInv, TypeOK, MainStates, CommonStates
  <1>2. InterruptInv'
    BY DEF IInv, TypeOK, InterruptInv, Kills, Joins
  <1>3. ExitInv'
    BY DEF IInv, TypeOK, InterruptInv, ExitInv, Kills, Joins, Before, After
  <1>4. ThreadInv'
    BY DEF IInv, TypeOK, ThreadInv, Before, Quiet, Live
  <1>5. CaptureInv'
    BY DEF IInv, TypeOK, InterruptInv, ThreadInv, CaptureInv, Kills, Joins, Quiet, Live, Waiting,
           Drained, NoWriter, Unended
  <1> QED BY <1>1, <1>2, <1>3, <1>4, <1>5 DEF IInv

\* The user answers a prompt or says /stop.
LEMMA AnswerKeeps ==
    ASSUME IInv, Answer
    PROVE  IInv'
  <1> USE Names DEF Answer, At, Goto, threadVars, flagVars, childVars, clientVars
  <1>1. TypeOK'
    BY DEF IInv, TypeOK, MainStates, CommonStates
  <1>2. InterruptInv'
    BY DEF IInv, TypeOK, InterruptInv, Kills, Joins
  <1>3. ExitInv'
    BY DEF IInv, TypeOK, InterruptInv, ExitInv, Kills, Joins, Before, After
  <1>4. ThreadInv'
    BY DEF IInv, TypeOK, ThreadInv, Before, Quiet, Live
  <1>5. CaptureInv'
    BY DEF IInv, TypeOK, InterruptInv, ThreadInv, CaptureInv, Kills, Joins, Quiet, Live, Waiting,
           Drained, NoWriter, Unended
  <1> QED BY <1>1, <1>2, <1>3, <1>4, <1>5 DEF IInv

\* A line goes to the child, or finds it gone.
LEMMA SendInputKeeps ==
    ASSUME IInv, SendInput
    PROVE  IInv'
  <1> USE Names DEF SendInput, At, Goto, threadVars, flagVars, childVars, clientVars
  <1>1. TypeOK'
    BY DEF IInv, TypeOK, MainStates, CommonStates
  <1>2. InterruptInv'
    BY DEF IInv, TypeOK, InterruptInv, Kills, Joins
  <1>3. ExitInv'
    BY DEF IInv, TypeOK, InterruptInv, ExitInv, Kills, Joins, Before, After
  <1>4. ThreadInv'
    BY DEF IInv, TypeOK, ThreadInv, Before, Quiet, Live
  <1>5. CaptureInv'
    BY DEF IInv, TypeOK, InterruptInv, ThreadInv, CaptureInv, Kills, Joins, Quiet, Live, Waiting,
           Drained, NoWriter, Unended
  <1> QED BY <1>1, <1>2, <1>3, <1>4, <1>5 DEF IInv

\* The read thread begins a Terminate; from then on nothing is claimed of threads.
LEMMA CancelKeeps ==
    ASSUME IInv, Cancel
    PROVE  IInv'
  <1> USE Names DEF Cancel, At, Goto, threadVars, flagVars, childVars, clientVars
  <1>1. TypeOK'
    BY DEF IInv, TypeOK, MainStates, CommonStates
  <1>2. InterruptInv'
    BY DEF IInv, TypeOK, InterruptInv, Kills, Joins
  <1>3. ExitInv'
    BY DEF IInv, TypeOK, InterruptInv, ExitInv, Kills, Joins, Before, After
  <1>4. ThreadInv'
    BY DEF IInv, TypeOK, ThreadInv, Before, Quiet, Live
  <1>5. CaptureInv'
    BY DEF IInv, TypeOK, InterruptInv, ThreadInv, CaptureInv, Kills, Joins, Quiet, Live, Waiting,
           Drained, NoWriter, Unended
  <1> QED BY <1>1, <1>2, <1>3, <1>4, <1>5 DEF IInv

\* Terminate clears m_running,
LEMMA TerminateFlagKeeps ==
    ASSUME IInv, NEW a \in Actors, TerminateFlag(a)
    PROVE  IInv'
  <1> USE Names DEF TerminateFlag, At, Goto, threadVars, flagVars, childVars, clientVars
  <1>0. running' \in BOOLEAN
    BY Zenon DEF IInv, TypeOK
  <1>1. TypeOK'
    BY <1>0 DEF IInv, TypeOK, MainStates, CommonStates
  <1>2. InterruptInv'
    BY DEF IInv, TypeOK, InterruptInv, Kills, Joins
  <1>3. ExitInv'
    BY DEF IInv, TypeOK, InterruptInv, ExitInv, Kills, Joins, Before, After
  <1>4. ThreadInv'
    BY DEF IInv, TypeOK, ThreadInv, Before, Quiet, Live
  <1>5. CaptureInv'
    BY DEF IInv, TypeOK, InterruptInv, ThreadInv, CaptureInv, Kills, Joins, Quiet, Live, Waiting,
           Drained, NoWriter, Unended
  <1> QED BY <1>1, <1>2, <1>3, <1>4, <1>5 DEF IInv

\* closes the input pipe,
LEMMA TerminateCloseKeeps ==
    ASSUME IInv, NEW a \in Actors, TerminateClose(a)
    PROVE  IInv'
  <1> USE Names DEF TerminateClose, At, Goto, threadVars, flagVars, childVars, clientVars
  <1>0. open' \in BOOLEAN
    BY Zenon DEF IInv, TypeOK
  <1>1. TypeOK'
    BY <1>0 DEF IInv, TypeOK, MainStates, CommonStates
  <1>2. InterruptInv'
    BY DEF IInv, TypeOK, InterruptInv, Kills, Joins
  <1>3. ExitInv'
    BY DEF IInv, TypeOK, InterruptInv, ExitInv, Kills, Joins, Before, After
  <1>4. ThreadInv'
    BY DEF IInv, TypeOK, ThreadInv, Before, Quiet, Live
  <1>5. CaptureInv'
    BY DEF IInv, TypeOK, InterruptInv, ThreadInv, CaptureInv, Kills, Joins, Quiet, Live, Waiting,
           Drained, NoWriter, Unended
  <1> QED BY <1>1, <1>2, <1>3, <1>4, <1>5 DEF IInv

\* looks whether there is a child,
LEMMA TerminateTestKeeps ==
    ASSUME IInv, NEW a \in Actors, TerminateTest(a)
    PROVE  IInv'
  <1> USE Names DEF TerminateTest, At, Goto, threadVars, flagVars, childVars, clientVars
  <1>1. TypeOK'
    BY DEF IInv, TypeOK, MainStates, CommonStates
  <1>2. InterruptInv'
    BY DEF IInv, TypeOK, InterruptInv, Kills, Joins
  <1>3. ExitInv'
    BY DEF IInv, TypeOK, InterruptInv, ExitInv, Kills, Joins, Before, After
  <1>4. ThreadInv'
    BY DEF IInv, TypeOK, ThreadInv, Before, Quiet, Live
  <1>5. CaptureInv'
    BY DEF IInv, TypeOK, InterruptInv, ThreadInv, CaptureInv, Kills, Joins, Quiet, Live, Waiting,
           Drained, NoWriter, Unended
  <1> QED BY <1>1, <1>2, <1>3, <1>4, <1>5 DEF IInv

\* signals it,
LEMMA TerminateKillKeeps ==
    ASSUME IInv, NEW a \in Actors, TerminateKill(a)
    PROVE  IInv'
  <1> USE Names DEF TerminateKill, At, Goto, threadVars, flagVars, childVars, clientVars
  <1>1. TypeOK'
    BY DEF IInv, TypeOK, MainStates, CommonStates
  <1>2. InterruptInv'
    BY DEF IInv, TypeOK, InterruptInv, Kills, Joins
  <1>3. ExitInv'
    BY DEF IInv, TypeOK, InterruptInv, ExitInv, Kills, Joins, Before, After
  <1>4. ThreadInv'
    BY DEF IInv, TypeOK, ThreadInv, Before, Quiet, Live
  <1>5. CaptureInv'
    BY DEF IInv, TypeOK, InterruptInv, ThreadInv, CaptureInv, Kills, Joins, Quiet, Live, Waiting,
           Drained, NoWriter, Unended
  <1> QED BY <1>1, <1>2, <1>3, <1>4, <1>5 DEF IInv

\* and waits for it.
LEMMA TerminateReapKeeps ==
    ASSUME IInv, NEW a \in Actors, TerminateReap(a)
    PROVE  IInv'
  <1> USE Names DEF TerminateReap, At, Goto, threadVars, flagVars, childVars, clientVars
  <1>1. TypeOK'
    BY DEF IInv, TypeOK, MainStates, CommonStates
  <1>2. InterruptInv'
    BY DEF IInv, TypeOK, InterruptInv, Kills, Joins
  <1>3. ExitInv'
    BY DEF IInv, TypeOK, InterruptInv, ExitInv, Kills, Joins, Before, After
  <1>4. ThreadInv'
    BY DEF IInv, TypeOK, ThreadInv, Before, Quiet, Live
  <1>5. CaptureInv'
    BY DEF IInv, TypeOK, InterruptInv, ThreadInv, CaptureInv, Kills, Joins, Quiet, Live, Waiting,
           Drained, NoWriter, Unended
  <1> QED BY <1>1, <1>2, <1>3, <1>4, <1>5 DEF IInv

\* A thread is joined only if it is joinable,
LEMMA JoinableTestKeeps ==
    ASSUME IInv, NEW a \in Actors, NEW s \in Streams, JoinableTest(a, s)
    PROVE  IInv'
  <1> USE Names DEF JoinableTest, At, Goto, Leave, AfterJoin, threadVars, flagVars, childVars, clientVars
  <1>1. TypeOK'
    BY DEF IInv, TypeOK, MainStates, CommonStates
  <1>2. InterruptInv'
    BY DEF IInv, TypeOK, InterruptInv, Kills, Joins
  <1>3. ExitInv'
    BY DEF IInv, TypeOK, InterruptInv, ExitInv, Kills, Joins, Before, After
  <1>4. ThreadInv'
    BY DEF IInv, TypeOK, ThreadInv, Before, Quiet, Live
  <1>5. CaptureInv'
    BY DEF IInv, TypeOK, InterruptInv, ThreadInv, CaptureInv, Kills, Joins, Quiet, Live, Waiting,
           Drained, NoWriter, Unended
  <1> QED BY <1>1, <1>2, <1>3, <1>4, <1>5 DEF IInv

\* and is not joinable afterwards.
LEMMA JoinThreadKeeps ==
    ASSUME IInv, NEW a \in Actors, NEW s \in Streams, JoinThread(a, s)
    PROVE  IInv'
  <1> USE Names DEF JoinThread, At, Goto, Leave, AfterJoin, threadVars, flagVars, childVars, clientVars
  <1>0. aborted' \in BOOLEAN
    BY Zenon DEF IInv, TypeOK
  <1>1. TypeOK'
    BY <1>0 DEF IInv, TypeOK, MainStates, CommonStates
  <1>2. InterruptInv'
    BY DEF IInv, TypeOK, InterruptInv, Kills, Joins
  <1>3. ExitInv'
    BY DEF IInv, TypeOK, InterruptInv, ExitInv, Kills, Joins, Before, After
  <1>4. ThreadInv'
    BY DEF IInv, TypeOK, ThreadInv, Before, Quiet, Live
  <1>5. CaptureInv'
    BY DEF IInv, TypeOK, InterruptInv, ThreadInv, CaptureInv, Kills, Joins, Quiet, Live, Waiting,
           Drained, NoWriter, Unended
  <1> QED BY <1>1, <1>2, <1>3, <1>4, <1>5 DEF IInv

\* A reader goes on while m_running is set.
LEMMA ReaderCheckKeeps ==
    ASSUME IInv, NEW s \in Streams, ReaderCheck(s)
    PROVE  IInv'
  <1> USE Names DEF ReaderCheck, AtReader, threadVars, flagVars, childVars, clientVars
  <1>1. TypeOK'
    BY DEF IInv, TypeOK, MainStates, CommonStates
  <1>2. InterruptInv'
    BY DEF IInv, TypeOK, InterruptInv, Kills, Joins
  <1>3. ExitInv'
    BY DEF IInv, TypeOK, InterruptInv, ExitInv, Kills, Joins, Before, After
  <1>4. ThreadInv'
    BY DEF IInv, TypeOK, ThreadInv, Before, Quiet, Live
  <1>5. CaptureInv'
    BY DEF IInv, TypeOK, InterruptInv, ThreadInv, CaptureInv, Kills, Joins, Quiet, Live, Waiting,
           Drained, NoWriter, Unended
  <1> QED BY <1>1, <1>2, <1>3, <1>4, <1>5 DEF IInv

\* A chunk is taken from the pipe and appended by its client.
LEMMA ReaderGetsKeeps ==
    ASSUME IInv, NEW s \in Streams, ReaderGets(s)
    PROVE  IInv'
  <1> USE Names DEF ReaderGets, AtReader, threadVars, flagVars, childVars, clientVars
  <1>0. PICK n \in 1 .. Len(pipe[s]) :
             /\ pipe' = [pipe EXCEPT ![s] = SubSeq(@, n + 1, Len(@))]
             /\ delivered' = [delivered EXCEPT ![s] = @ + n]
             /\ awaiting' = (awaiting \/ (client = "sandbox" /\ pipe[s][n] = "prompt"))
    OBVIOUS
  <1>1. TypeOK'
    <2>1. SubSeq(pipe[s], n + 1, Len(pipe[s])) \in Seq({"text", "prompt"})
      BY <1>0 DEF IInv, TypeOK
    <2>2. pipe' \in [Streams -> Seq({"text", "prompt"})]
      BY <1>0, <2>1 DEF IInv, TypeOK
    <2>3. delivered' \in [Streams -> Nat] /\ awaiting' \in BOOLEAN
      BY <1>0 DEF IInv, TypeOK
    <2>4. reader' \in [Streams -> {"none", "check", "read", "end", "ended", "joined"}]
      BY DEF IInv, TypeOK
    <2> QED BY <2>2, <2>3, <2>4 DEF IInv, TypeOK
  <1>2. InterruptInv'
    BY DEF IInv, TypeOK, InterruptInv, Kills, Joins
  <1>3. ExitInv'
    BY DEF IInv, TypeOK, InterruptInv, ExitInv, Kills, Joins, Before, After
  <1>4. ThreadInv'
    BY DEF IInv, TypeOK, ThreadInv, Before, Quiet, Live
  <1>5. CaptureInv'
    <2>1. /\ pipe[s] \in Seq({"text", "prompt"}) /\ pipe[s] # <<>>
          /\ Len(pipe'[s]) = Len(pipe[s]) - n /\ delivered'[s] = delivered[s] + n
          /\ delivered[s] \in Nat /\ n \in Nat
      <3>1. pipe[s] \in Seq({"text", "prompt"}) /\ delivered[s] \in Nat /\ Len(pipe[s]) \in Nat
        BY DEF IInv, TypeOK
      <3>2. n \in Nat /\ n > 0 /\ n <= Len(pipe[s]) /\ pipe[s] # <<>>
        BY <1>0, <3>1
      <3>3. pipe'[s] = SubSeq(pipe[s], n + 1, Len(pipe[s])) /\ delivered'[s] = delivered[s] + n
        BY <1>0 DEF IInv, TypeOK
      <3>4. Len(SubSeq(pipe[s], n + 1, Len(pipe[s]))) = Len(pipe[s]) - n
        BY <3>1, <3>2
      <3> QED BY <3>1, <3>2, <3>3, <3>4
    <2>2. delivered[s] + Len(pipe[s]) = written[s] => delivered'[s] + Len(pipe'[s]) = written'[s]
      BY <2>1 DEF IInv, TypeOK
    <2>3. /\ reader[s] = "read" /\ reader'[s] = "check" /\ UNCHANGED <<pc, loops, running, open>>
          /\ \A t \in Streams \ {s} : /\ reader'[t] = reader[t] /\ pipe'[t] = pipe[t]
                                      /\ delivered'[t] = delivered[t] /\ written'[t] = written[t]
      BY <1>0 DEF IInv, TypeOK
    <2> QED BY <2>1, <2>2, <2>3 DEF IInv, TypeOK, CaptureInv, Live, Waiting, Joins, Drained, NoWriter,
                                    Unended
  <1> QED BY <1>1, <1>2, <1>3, <1>4, <1>5 DEF IInv

\* A reader leaves its loop at the end of the stream or when told to.
LEMMA ReaderStopsKeeps ==
    ASSUME IInv, NEW s \in Streams, ReaderStops(s)
    PROVE  IInv'
  <1> USE Names DEF ReaderStops, AtReader, threadVars, flagVars, childVars, clientVars
  <1>1. TypeOK'
    BY DEF IInv, TypeOK, MainStates, CommonStates
  <1>2. InterruptInv'
    BY DEF IInv, TypeOK, InterruptInv, Kills, Joins
  <1>3. ExitInv'
    BY DEF IInv, TypeOK, InterruptInv, ExitInv, Kills, Joins, Before, After
  <1>4. ThreadInv'
    BY DEF IInv, TypeOK, ThreadInv, Before, Quiet, Live
  <1>5. CaptureInv'
    BY DEF IInv, TypeOK, InterruptInv, ThreadInv, CaptureInv, Kills, Joins, Quiet, Live, Waiting,
           Drained, NoWriter, Unended
  <1> QED BY <1>1, <1>2, <1>3, <1>4, <1>5 DEF IInv

\* The last reader to leave clears m_running in a sandbox run.
LEMMA ReaderEndsKeeps ==
    ASSUME IInv, NEW s \in Streams, ReaderEnds(s)
    PROVE  IInv'
  <1> USE Names DEF ReaderEnds, AtReader, threadVars, flagVars, childVars, clientVars
  <1>1. TypeOK'
    BY DEF IInv, TypeOK, MainStates, CommonStates
  <1>2. InterruptInv'
    BY DEF IInv, TypeOK, InterruptInv, Kills, Joins
  <1>3. ExitInv'
    BY DEF IInv, TypeOK, InterruptInv, ExitInv, Kills, Joins, Before, After
  <1>4. ThreadInv'
    BY DEF IInv, TypeOK, ThreadInv, Before, Quiet, Live
  <1>5. CaptureInv'
    BY DEF IInv, TypeOK, InterruptInv, ThreadInv, CaptureInv, Kills, Joins, Quiet, Live, Waiting,
           Drained, NoWriter, Unended
  <1> QED BY <1>1, <1>2, <1>3, <1>4, <1>5 DEF IInv

\* Output reaches a pipe, not yet the client.
LEMMA ChildWritesKeeps ==
    ASSUME IInv, NEW s \in Streams, ChildWrites(s)
    PROVE  IInv'
  <1> USE Names DEF ChildWrites, Writes, threadVars, flagVars, childVars, clientVars
  <1>1. TypeOK'
    <2>1. PICK chunk \in {"text", "prompt"} : Writes(s, chunk)
      OBVIOUS
    <2>2. pipe' \in [Streams -> Seq({"text", "prompt"})] /\ written' \in [Streams -> Nat]
      BY <2>1 DEF IInv, TypeOK
    <2>3. proc' \in {proc, "asking"}
      OBVIOUS
    <2> QED BY <2>2, <2>3 DEF IInv, TypeOK
  <1>2. InterruptInv'
    BY DEF IInv, TypeOK, InterruptInv, Kills, Joins
  <1>3. ExitInv'
    BY DEF IInv, TypeOK, InterruptInv, ExitInv, Kills, Joins, Before, After
  <1>4. ThreadInv'
    BY DEF IInv, TypeOK, ThreadInv, Before, Quiet, Live
  <1>5. CaptureInv'
    <2>1. PICK chunk \in {"text", "prompt"} : Writes(s, chunk)
      OBVIOUS
    <2>2. /\ Len(pipe'[s]) = Len(pipe[s]) + 1 /\ written'[s] = written[s] + 1
          /\ \A t \in Streams \ {s} : pipe'[t] = pipe[t] /\ written'[t] = written[t]
      BY <2>1 DEF IInv, TypeOK
    <2>3. \A t \in Streams : delivered[t] + Len(pipe[t]) = written[t] =>
                              delivered'[t] + Len(pipe'[t]) = written'[t]
      <3> TAKE t \in Streams
      <3>1. delivered[t] \in Nat /\ Len(pipe[t]) \in Nat /\ written[t] \in Nat /\ delivered' = delivered
        BY DEF IInv, TypeOK
      <3>2. CASE t = s
        BY <2>2, <3>1, <3>2
      <3>3. CASE t # s
        BY <2>2, <3>1, <3>3
      <3> QED BY <3>2, <3>3
    <2>4. ~NoWriter /\ UNCHANGED <<pc, reader, running, open, loops, clientVars>>
      BY DEF NoWriter
    <2> HIDE DEF ChildWrites, Writes
    <2> QED BY <2>3, <2>4 DEF IInv, CaptureInv, Waiting, Joins, Live, Drained, Unended
  <1> QED BY <1>1, <1>2, <1>3, <1>4, <1>5 DEF IInv

\* The child takes a line.
LEMMA ChildReadsKeeps ==
    ASSUME IInv, ChildReads
    PROVE  IInv'
  <1> USE Names DEF ChildReads, threadVars, flagVars, childVars, clientVars
  <1>1. TypeOK'
    BY DEF IInv, TypeOK, MainStates, CommonStates
  <1>2. InterruptInv'
    BY DEF IInv, TypeOK, InterruptInv, Kills, Joins
  <1>3. ExitInv'
    BY DEF IInv, TypeOK, InterruptInv, ExitInv, Kills, Joins, Before, After
  <1>4. ThreadInv'
    BY DEF IInv, TypeOK, ThreadInv, Before, Quiet, Live
  <1>5. CaptureInv'
    BY DEF IInv, TypeOK, InterruptInv, ThreadInv, CaptureInv, Kills, Joins, Quiet, Live, Waiting,
           Drained, NoWriter, Unended
  <1> QED BY <1>1, <1>2, <1>3, <1>4, <1>5 DEF IInv

\* The child ends; its processes may keep the pipes.
LEMMA ChildExitsKeeps ==
    ASSUME IInv, ChildExits
    PROVE  IInv'
  <1> USE Names DEF ChildExits, threadVars, flagVars, childVars, clientVars
  <1>1. TypeOK'
    BY DEF IInv, TypeOK, MainStates, CommonStates
  <1>2. InterruptInv'
    BY DEF IInv, TypeOK, InterruptInv, Kills, Joins
  <1>3. ExitInv'
    BY DEF IInv, TypeOK, InterruptInv, ExitInv, Kills, Joins, Before, After
  <1>4. ThreadInv'
    BY DEF IInv, TypeOK, ThreadInv, Before, Quiet, Live
  <1>5. CaptureInv'
    BY DEF IInv, TypeOK, InterruptInv, ThreadInv, CaptureInv, Kills, Joins, Quiet, Live, Waiting,
           Drained, NoWriter, Unended
  <1> QED BY <1>1, <1>2, <1>3, <1>4, <1>5 DEF IInv

\* The processes it left end.
LEMMA HeirsExitKeeps ==
    ASSUME IInv, HeirsExit
    PROVE  IInv'
  <1> USE Names DEF HeirsExit, threadVars, flagVars, childVars, clientVars
  <1>0. heirs' \in BOOLEAN
    BY Zenon DEF IInv, TypeOK
  <1>1. TypeOK'
    BY <1>0 DEF IInv, TypeOK, MainStates, CommonStates
  <1>2. InterruptInv'
    BY DEF IInv, TypeOK, InterruptInv, Kills, Joins
  <1>3. ExitInv'
    BY DEF IInv, TypeOK, InterruptInv, ExitInv, Kills, Joins, Before, After
  <1>4. ThreadInv'
    BY DEF IInv, TypeOK, ThreadInv, Before, Quiet, Live
  <1>5. CaptureInv'
    BY DEF IInv, TypeOK, InterruptInv, ThreadInv, CaptureInv, Kills, Joins, Quiet, Live, Waiting,
           Drained, NoWriter, Unended
  <1> QED BY <1>1, <1>2, <1>3, <1>4, <1>5 DEF IInv

\* Every step keeps the invariant.
LEMMA NextKeeps == IInv /\ [Next]_vars => IInv'
  <1> SUFFICES ASSUME IInv, [Next]_vars PROVE IInv'
    OBVIOUS
  <1>1. CASE Begin \/ RunRefused \/ RunSteps
    BY <1>1, BeginKeeps, RunRefusedKeeps, ForkKeeps, RunFlagsKeeps, SpawnReaderKeeps DEF RunSteps
  <1>2. CASE WaitForExit
    BY <1>2, WaitTestKeeps, WaitPidKeeps, WaitClearKeeps, ReportKeeps DEF WaitForExit
  <1>3. CASE Sandbox \/ Cancel
    BY <1>3, WatchKeeps, AnswerKeeps, SendInputKeeps, CancelKeeps DEF Sandbox
  <1>4. CASE \E a \in Actors : Actor(a)
    BY <1>4, TerminateFlagKeeps, TerminateCloseKeeps, TerminateTestKeeps, TerminateKillKeeps,
       TerminateReapKeeps, JoinableTestKeeps, JoinThreadKeeps DEF Actor, Terminate
  <1>5. CASE \E s \in Streams : Reader(s)
    BY <1>5, ReaderCheckKeeps, ReaderGetsKeeps, ReaderStopsKeeps, ReaderEndsKeeps DEF Reader
  <1>6. CASE Child
    BY <1>6, ChildWritesKeeps, ChildReadsKeeps, ChildExitsKeeps, HeirsExitKeeps DEF Child
  <1>7. CASE UNCHANGED vars
    BY <1>7 DEF IInv, TypeOK, InterruptInv, ExitInv, ThreadInv, CaptureInv, Quiet, Drained, NoWriter,
                Unended, vars, threadVars, flagVars, childVars, clientVars
  <1> QED BY <1>1, <1>2, <1>3, <1>4, <1>5, <1>6, <1>7 DEF Next

\* The inductive invariant holds of every run, with any number of runs and chunks.
THEOREM IInvHolds == Spec => []IInv
  BY InitInv, NextKeeps, PTL DEF Spec

\* The threads, the flags and the child keep their types, with any clients and
\* bounds.
THEOREM TypeCorrect == Spec => []TypeOK
  <1>1. IInv => TypeOK
    BY DEF IInv
  <1> QED BY <1>1, IInvHolds, PTL

\* WaitForExit returns the exit code of the process of this run, if no Terminate
\* overlaps it: after any number of runs, refused, cancelled or interrupted.
THEOREM ExitCodesAreOwn == Spec => []ExitCodeIsOwn
  <1>1. IInv => ExitCodeIsOwn
    BY DEF IInv, ExitInv, After, ExitCodeIsOwn, Reporting
  <1> QED BY <1>1, IInvHolds, PTL

\* Run and WaitForExit in turn, with an interruption at any prompt: no thread is
\* joined twice or assigned while joinable, and SIGTERM goes to a child that has
\* not been reaped.
THEOREM WaitingClientsAreSafe == Spec => []ThreadSafeUncancelled
  <1>1. IInv => ThreadSafeUncancelled
    <2> SUFFICES ASSUME IInv, Quiet PROVE ThreadSafe
      BY DEF ThreadSafeUncancelled, Quiet
    <2>1. /\ pc["cancel"] = "off"
          /\ pc["main"] = "kill" => childPid > 0 /\ proc # "reaped"
          /\ pc["main"] = "spawn_out" => ~joinable["out"]
          /\ pc["main"] = "spawn_err" => ~joinable["err"]
      BY DEF IInv, ThreadInv
    <2>2. RunStartsAfresh
      BY <2>1, Names DEF RunStartsAfresh
    <2>3. \A s \in Streams : Join[s] # "off"
      BY Names
    <2>4. ASSUME NEW a \in Actors, pc[a] = "kill" PROVE childPid > 0 /\ proc # "reaped"
      BY <2>1, <2>4, Names
    <2> QED BY <2>1, <2>2, <2>3, <2>4 DEF ThreadSafe
  <1> QED BY <1>1, IInvHolds, PTL

\* What the sandbox stores of a run the user did not interrupt is all that the
\* program and its heirs wrote on both streams, whatever the chunks and their order.
THEOREM SandboxMissesNothing == Spec => []SandboxCapturesAll
  <1>1. IInv => SandboxCapturesAll
    <2> SUFFICES ASSUME IInv, Reporting, client = "sandbox", ~interrupted, NEW s \in Streams
                 PROVE  delivered[s] = written[s] /\ pipe[s] = <<>>
      BY DEF SandboxCapturesAll
    <2>1. pipe[s] = <<>> /\ delivered[s] + Len(pipe[s]) = written[s]
      BY DEF IInv, CaptureInv, Waiting, Drained, Reporting
    <2> QED BY <2>1 DEF IInv, TypeOK
  <1> QED BY <1>1, IInvHolds, PTL

-----------------------------------------------------------------------------
(* The sandbox context, which runs its processes over the bridge, with the *)
(* constants and variables of its own module.  What a command has shown of *)
(* the modules stays shown, and the scan ends before the map it writes is  *)
(* destroyed: for any directories, manifests, lines and targets.           *)
(*                                                                         *)
(* SeenStays is not inductive: it holds because only the first input       *)
(* starts a scan (OneScan), because the map is still empty when the scan   *)
(* empties it (EmptyTillScanned), and because RunModule looks up a name    *)
(* that /run has found.                                                    *)

OneScan == ~deferred <=> scanner = "none"

EmptyTillScanned == scanner \in {"none", "sleeping", "clearing"} => DOMAIN modules = {}

FoundIsSeen == job.at = "found" => job.name \in seen

ScanInv ==
    /\ deferred \in BOOLEAN
    /\ OneScan /\ EmptyTillScanned /\ FoundIsSeen
    /\ seen \subseteq DOMAIN modules
    /\ outcome # "RUN_NOT_FOUND"
    /\ ScanEndsFirst

\* Filling in a module takes none away.
LEMMA InsertKeeps ==
    ASSUME NEW m
    PROVE  DOMAIN modules \subseteq DOMAIN Insert(m)
  BY DEF Insert

\* Nothing is listed before the first scan.
LEMMA ScanInit == SandboxInit => ScanInv
  <1> SUFFICES ASSUME SandboxInit PROVE ScanInv
    OBVIOUS
  <1>1. DOMAIN modules = {} /\ seen = {}
    BY DEF SandboxInit, None
  <1>2. job.at # "found" /\ outcome # "RUN_NOT_FOUND"
    BY DEF SandboxInit, Idle
  <1>3. engine = "up" /\ deferred = FALSE /\ scanner = "none"
    BY DEF SandboxInit
  <1> QED BY <1>1, <1>2, <1>3 DEF ScanInv, OneScan, EmptyTillScanned, FoundIsSeen, ScanEndsFirst

\* No rule for a target says that a module was not found.
LEMMA ResultCodes ==
    /\ \A p : LET r == RunExternalFilePath(p) IN r[1] = "error" => r[2] # "RUN_NOT_FOUND"
    /\ \A args, cwd : LET r == RunExternalTarget(args, cwd)
                      IN r[1] = "error" => r[2] # "RUN_NOT_FOUND"
  <1>1. ASSUME NEW p
        PROVE  LET r == RunExternalFilePath(p) IN r[1] = "error" => r[2] # "RUN_NOT_FOUND"
    BY DEF RunExternalFilePath, Error, Process, Throw
  <1>2. ASSUME NEW args, NEW cwd
        PROVE  LET r == RunExternalTarget(args, cwd) IN r[1] = "error" => r[2] # "RUN_NOT_FOUND"
    BY DEF RunExternalTarget, Error, Process, Throw
  <1> QED BY <1>1, <1>2

\* A result that is not the one of RunModule's second look-up.
LEMMA JobBegins ==
    ASSUME NEW r, NEW kind, kind # "found", BeginJob(r, kind),
           r[1] = "error" => r[2] # "RUN_NOT_FOUND",
           outcome # "RUN_NOT_FOUND"
    PROVE  /\ outcome' # "RUN_NOT_FOUND" /\ job'.at # "found"
           /\ engine' \in {engine, "leaving"}
  BY DEF BeginJob, Idle

\* An input leaves the map alone and starts at most the one sleeper.
LEMMA ReadLineKeeps ==
    ASSUME ScanInv, ReadLine
    PROVE  /\ deferred' \in BOOLEAN /\ OneScan' /\ EmptyTillScanned'
           /\ modules' = modules /\ engine = "up"
           /\ scanner' \in {scanner, "sleeping"}
  BY DEF ScanInv, ReadLine, OneScan, EmptyTillScanned

\* The scan adds to the map, and is the only one to empty it, once.
LEMMA ScanStep == ScanInv /\ Scan => ScanInv'
  <1> SUFFICES ASSUME ScanInv, Scan PROVE ScanInv'
    OBVIOUS
  <1> USE DEF ScanInv, OneScan, EmptyTillScanned, FoundIsSeen, ScanEndsFirst
  <1>1. CASE StartBackgroundScan
    BY <1>1 DEF Scan, StartBackgroundScan
  <1>2. CASE ScanClears
    BY <1>2 DEF Scan, ScanClears, None
  <1>3. CASE ScanTask
    <2>1. DOMAIN modules \subseteq DOMAIN modules'
      BY <1>3, InsertKeeps DEF ScanTask
    <2>2. scanner = "scanning" /\ scanner' \in {"scanning", "done"}
      BY <1>3 DEF ScanTask
    <2> QED BY <2>1, <2>2 DEF Scan
  <1> QED BY <1>1, <1>2, <1>3 DEF Scan

\* A command with an input.
LEMMA CommandStep ==
    ASSUME ScanInv, ReadLine, seen' \subseteq DOMAIN modules, seen \subseteq seen',
           outcome' # "RUN_NOT_FOUND", FoundIsSeen', engine' \in {engine, "leaving"}
    PROVE  ScanInv'
  BY ReadLineKeeps DEF ScanInv, ScanEndsFirst

\* A command resolved by name or path.
LEMMA RunStep ==
    ASSUME ScanInv, NEW t \in Targets, Run(t)
    PROVE  ScanInv'
  <1> DEFINE name == t.args[1][2]
             found == /\ Len(t.args) = 1 /\ t.cwd = NoCwd /\ IsRelative(t.args[1])
                      /\ name \in DOMAIN modules
  <1>1. CASE found
    <2>1. ReadLine /\ job' = [at |-> "found", name |-> name] /\ seen' = seen \cup {name}
          /\ UNCHANGED <<engine, outcome>>
      BY <1>1 DEF Run
    <2>2. FoundIsSeen'
      BY <2>1 DEF FoundIsSeen
    <2> QED BY <1>1, <2>1, <2>2, CommandStep DEF ScanInv
  <1>2. CASE ~found
    <2>1. ReadLine /\ BeginJob(RunExternalTarget(t.args, t.cwd), "run") /\ seen' = seen
      BY <1>2 DEF Run
    <2>2. /\ outcome' # "RUN_NOT_FOUND" /\ job'.at # "found"
          /\ engine' \in {engine, "leaving"}
      BY <2>1, JobBegins, ResultCodes DEF ScanInv
    <2> QED BY <2>1, <2>2, CommandStep DEF ScanInv, FoundIsSeen
  <1> QED BY <1>1, <1>2

\* A module is started as the map has it.
LEMMA RunModuleStep == ScanInv /\ RunModule => ScanInv'
  <1> SUFFICES ASSUME ScanInv, RunModule PROVE ScanInv'
    OBVIOUS
  <1>1. job.name \in DOMAIN modules
    BY DEF ScanInv, FoundIsSeen, RunModule
  <1>2. PICK r : /\ BeginJob(r, "run")
                 /\ r[1] = "error" => r[2] # "RUN_NOT_FOUND"
    <2> DEFINE m == modules[job.name]
               r == IF m.entry = "" THEN Error("RUN_NO_ENTRY")
                    ELSE Process(<<m.path, m.entry>>, None, m.path)
    <2>1. BeginJob(r, "run")
      BY <1>1 DEF RunModule
    <2>2. r[1] = "error" => r[2] # "RUN_NOT_FOUND"
      BY DEF Error, Process
    <2> HIDE DEF r
    <2> QED BY <2>1, <2>2
  <1>3. /\ outcome' # "RUN_NOT_FOUND" /\ job'.at # "found"
        /\ engine' \in {engine, "leaving"}
    <2>1. outcome # "RUN_NOT_FOUND" /\ "run" # "found"
      BY DEF ScanInv
    <2> QED BY <1>2, <2>1, JobBegins
  <1> QED BY <1>3 DEF ScanInv, OneScan, EmptyTillScanned, FoundIsSeen, ScanEndsFirst,
             RunModule, scanVars

\* Every step keeps the invariant.
LEMMA ScanNext == ScanInv /\ [SandboxNext]_sandboxVars => ScanInv'
  <1> SUFFICES ASSUME ScanInv, [SandboxNext]_sandboxVars PROVE ScanInv'
    OBVIOUS
  <1>1. CASE Scan
    BY <1>1, ScanStep
  <1>2. CASE ListModules
    <2>1. FoundIsSeen'
      BY <1>2 DEF ListModules, ReadLine, FoundIsSeen, ScanInv
    <2> QED BY <1>2, <2>1, CommandStep DEF ListModules, ScanInv
  <1>3. CASE HandleOpen
    <2>1. /\ outcome' # "RUN_NOT_FOUND" /\ job'.at # "found"
          /\ engine' \in {engine, "leaving"}
      BY <1>3, JobBegins DEF HandleOpen, Process, ScanInv
    <2> QED BY <1>3, <2>1, CommandStep DEF HandleOpen, ScanInv, FoundIsSeen
  <1>4. CASE RunModule
    BY <1>4, RunModuleStep
  <1>5. CASE SyncEnds \/ RunEnds
    <2>1. UNCHANGED <<engine, deferred, scanVars, seen>> /\ job' = Idle
      BY <1>5 DEF SyncEnds, RunEnds
    <2>2. outcome' # "RUN_NOT_FOUND"
      <3>1. CASE SyncEnds
        BY <3>1 DEF SyncEnds
      <3>2. CASE RunEnds
        BY <3>2 DEF RunEnds
      <3> QED BY <1>5, <3>1, <3>2
    <2> QED BY <2>1, <2>2 DEF ScanInv, OneScan, EmptyTillScanned, FoundIsSeen,
                              ScanEndsFirst, Idle, scanVars
  <1>6. CASE Exit
    <2>1. FoundIsSeen'
      BY <1>6 DEF Exit, FoundIsSeen, ScanInv
    <2> QED BY <1>6, <2>1, CommandStep DEF Exit, ScanInv
  <1>7. CASE DestroyStops \/ DestroyJoins \/ PathChanges
    BY <1>7 DEF ScanInv, OneScan, EmptyTillScanned, FoundIsSeen, ScanEndsFirst,
                DestroyStops, DestroyJoins, PathChanges, scanVars
  <1>8. CASE \E name \in Builds : BuildModule(name)
    <2>1. PICK name \in Builds : BuildModule(name)
      BY <1>8
    <2>2. PICK r : /\ BeginJob(r, "sync")
                   /\ r[1] = "error" => r[2] # "RUN_NOT_FOUND"
      BY <2>1 DEF BuildModule, Error, Process
    <2>3. /\ outcome' # "RUN_NOT_FOUND" /\ job'.at # "found"
          /\ engine' \in {engine, "leaving"}
      <3>1. outcome # "RUN_NOT_FOUND" /\ "sync" # "found"
        BY DEF ScanInv
      <3> QED BY <2>2, <3>1 DEF BeginJob, Idle
    <2> QED BY <2>1, <2>3, CommandStep DEF BuildModule, ScanInv, FoundIsSeen
  <1>9. CASE \E line \in DOMAIN Normalized : RunLine(line)
    <2>1. PICK line \in DOMAIN Normalized : RunLine(line)
      BY <1>9
    <2>2. /\ outcome' # "RUN_NOT_FOUND" /\ job'.at # "found"
          /\ engine' \in {engine, "leaving"}
      BY <2>1, JobBegins, ResultCodes DEF RunLine, ScanInv
    <2> QED BY <2>1, <2>2, CommandStep DEF RunLine, ScanInv, FoundIsSeen
  <1>10. CASE \E t \in Targets : Run(t)
    BY <1>10, RunStep
  <1>11. CASE UNCHANGED sandboxVars
    BY <1>11 DEF ScanInv, OneScan, EmptyTillScanned, FoundIsSeen, ScanEndsFirst,
                 sandboxVars, scanVars
  <1> QED BY <1>1, <1>2, <1>3, <1>4, <1>5, <1>6, <1>7, <1>8, <1>9, <1>10, <1>11 DEF SandboxNext

\* The inductive invariant holds of every run.
THEOREM ScanInvHolds == SandboxSpec => []ScanInv
  BY ScanInit, ScanNext, PTL DEF SandboxSpec

\* A module a command has listed, built or found is never missing again, and
\* RunModule finds what HandleRun has found: with any modules directory, any
\* order of commands and a scan at any speed.
THEOREM SeenModulesStay == SandboxSpec => []SeenStays
  <1>1. ScanInv => SeenStays
    BY DEF ScanInv, SeenStays
  <1> QED BY <1>1, ScanInvHolds, PTL

\* ~ModuleManager: no scan is between its clearing and its end when the map is
\* destroyed.
THEOREM ScanEndsBeforeTheMap == SandboxSpec => []ScanEndsFirst
  <1>1. ScanInv => ScanEndsFirst
    BY DEF ScanInv
  <1> QED BY <1>1, ScanInvHolds, PTL
=============================================================================
