------------------------- MODULE YuumiBridgeProofs -------------------------
(***************************************************************************)
(* Type correctness of the engine's side of the connection, that the       *)
(* writer never sleeps on a queued frame, that no output is lost uncounted,*)
(* doubled or reordered, and that the handshake leads.                     *)
(*                                                                         *)
(* The lost wake-up is excluded by the meaning of the mutex (WriterInv):   *)
(* the writer holds it from the test of its predicate to its sleep, so     *)
(* that a send can only come before the test or after the sleep, and there *)
(* is no writer before the threads are started.                            *)
(*                                                                         *)
(* The output needs four parts.  PhaseInv: what RunMain's boot has done to *)
(* the sink, and that a sender on its way to the queue has nothing in the  *)
(* buffer.  FrameInv: the writer's frame is empty when it pops the next.   *)
(* KeptInv: order and count over every queue at once.  LeadInv: nothing    *)
(* but heartbeats goes before the handshake, or nothing goes at all.       *)
(***************************************************************************)
EXTENDS YuumiBridge, SequenceTheorems, FiniteSetTheorems, TLAPS

WriterInv ==
    /\ main = "start" => at["writer"] = "none"
    /\ mutex = "writer" <=> at["writer"] = "evaluated"
    /\ at["writer"] \in {"evaluated", "asleep"} => queue = <<>>

IInv == TypeOK /\ WriterInv

\* What may be sent is a message.
LEMMA MessageTypes ==
    /\ Beat \in Messages /\ Warning \in Messages
    /\ \A s \in Senders, n \in Nat : <<s, n>> \in Messages
  BY DEF Messages, Senders

\* What the sink may become.
LEMMA SinkTypes ==
    ASSUME NEW k \in Sinks, NEW c \in BOOLEAN, NEW b \in Seq(Messages), NEW d \in Nat
    PROVE  /\ k.buffer \in Seq(Messages) /\ k.dropped \in Nat
           /\ [k EXCEPT !.connected = c] \in Sinks
           /\ [k EXCEPT !.buffer = b] \in Sinks
           /\ [k EXCEPT !.connected = c, !.buffer = b] \in Sinks
           /\ [k EXCEPT !.buffer = b, !.dropped = d] \in Sinks
  BY DEF Sinks

\* A notify reaches a sleeping writer and changes nothing else.
LEMMA NotifiedKeeps ==
    ASSUME TypeOK
    PROVE  /\ Notified(at) \in [Threads -> ThreadStates]
           /\ Notified(at)["writer"] = IF at["writer"] = "asleep" THEN "evaluate" ELSE at["writer"]
           /\ \A t \in Threads \ {"writer"} : Notified(at)[t] = at[t]
  BY DEF TypeOK, Notified, Threads, ThreadStates

\* Bridge::send takes the mutex: the writer is not between its test and its
\* sleep, and does not sleep afterwards.
LEMMA EnqueueKeeps ==
    ASSUME IInv, NEW m \in Messages, Enqueue(m)
    PROVE  /\ queue' \in Seq(Messages) /\ at' \in [Threads -> ThreadStates]
           /\ UNCHANGED <<mutex, connected, frame>>
           /\ main' = main => WriterInv'
  <1>1. queue' \in Seq(Messages) /\ at' \in [Threads -> ThreadStates]
    BY NotifiedKeeps DEF IInv, TypeOK, Enqueue
  <1>2. /\ at'["writer"] \notin {"evaluated", "asleep"} /\ mutex' = "free"
        /\ at["writer"] = "none" => at'["writer"] = "none"
    BY NotifiedKeeps DEF IInv, TypeOK, WriterInv, Enqueue
  <1> QED BY <1>1, <1>2 DEF Enqueue, IInv, WriterInv

\* Before start() there is no writer.
LEMMA InitInv == Init => IInv
  <1> SUFFICES ASSUME Init PROVE IInv
    OBVIOUS
  <1>1. sink \in Sinks
    BY DEF Init, Sinks
  <1>2. sent \in [Senders -> Nat] /\ sending \in [Senders -> SendStates]
    BY DEF Init, SendStates
  <1>3. at \in [Threads -> ThreadStates] /\ at["writer"] = "none"
    BY DEF Init, Threads, ThreadStates
  <1>4. /\ pending \in Seq(Messages) /\ queue \in Seq(Messages)
        /\ frame \in Seq(Messages) /\ received \in Seq(Messages)
    BY DEF Init
  <1>5. WriterInv
    BY <1>3 DEF Init, WriterInv
  <1>6. /\ main \in MainStates /\ mutex \in {"free", "writer"}
        /\ {connected, socketOpen, peerOpen, shutdown, aborted} \subseteq BOOLEAN
    BY DEF Init, MainStates
  <1>7. {throws, commands, asked, toEngine} \subseteq Nat
    BY DEF Init
  <1> QED BY <1>1, <1>2, <1>3, <1>4, <1>5, <1>6, <1>7 DEF IInv, TypeOK

\* OutputSink::Send, from whichever thread.
LEMMA SinkKeeps ==
    ASSUME IInv, NEW s \in Senders, SinkStep(s)
    PROVE  IInv'
  <1>1. CASE SendDirect(s)
    <2>1. <<s, sent[s]>> \in Messages
      BY MessageTypes DEF IInv, TypeOK
    <2>2. Enqueue(<<s, sent[s]>>)
      BY <1>1 DEF SendDirect
    <2> QED BY <1>1, <2>1, <2>2, EnqueueKeeps
            DEF IInv, TypeOK, SendDirect, SendStates, netVars, socketVars, wireVars
  <1>2. CASE SendThrows(s)
    <2>1. sink' \in Sinks
      BY <1>2, SinkTypes DEF IInv, TypeOK, SendThrows
    <2>2. throws' \in Nat /\ sending' \in [Senders -> SendStates]
      BY <1>2 DEF IInv, TypeOK, SendThrows, SendStates
    <2> QED BY <1>2, <2>1, <2>2 DEF IInv, TypeOK, WriterInv, SendThrows, ioVars, netVars, socketVars,
                                    wireVars
  <1>3. CASE BufferMessage(s)
    <2> DEFINE m == <<s, sent[s]>>
    <2>1. m \in Messages /\ sink \in Sinks /\ sink.buffer \in Seq(Messages) /\ sink.dropped \in Nat
      BY MessageTypes, SinkTypes DEF IInv, TypeOK
    <2>2. sink' \in Sinks
      <3> HIDE DEF m
      <3>1. CASE Len(sink.buffer) >= MaxBuffered
        <4>1. sink.buffer # <<>>
          BY <2>1, <3>1, BoundsAssumption
        <4>2. Append(Tail(sink.buffer), m) \in Seq(Messages) /\ sink.dropped + 1 \in Nat
          BY <2>1, <4>1
        <4>3. sink' = [sink EXCEPT !.buffer = Append(Tail(sink.buffer), m),
                                   !.dropped = sink.dropped + 1]
          BY <1>3, <2>1, <3>1 DEF BufferMessage, Buffered, Sinks, m
        <4> QED BY <2>1, <4>2, <4>3, SinkTypes
      <3>2. CASE ~(Len(sink.buffer) >= MaxBuffered)
        <4>1. Append(sink.buffer, m) \in Seq(Messages)
          BY <2>1
        <4>2. sink' = [sink EXCEPT !.buffer = Append(sink.buffer, m)]
          BY <1>3, <2>1, <3>2 DEF BufferMessage, Buffered, Sinks, m
        <4> QED BY <2>1, <4>1, <4>2, SinkTypes
      <3> QED BY <3>1, <3>2
    <2> QED BY <1>3, <2>2 DEF IInv, TypeOK, WriterInv, BufferMessage, SendStates, ioVars, netVars,
                              socketVars, wireVars
  <1> QED BY <1>1, <1>2, <1>3 DEF SinkStep

\* A sender numbers its message and enters the sink.
LEMMA BeginKeeps ==
    ASSUME TypeOK, NEW s \in Senders, Begin(s)
    PROVE  /\ sent' \in [Senders -> Nat] /\ sending' \in [Senders -> SendStates]
           /\ UNCHANGED <<sink, pending, throws>>
  BY DEF TypeOK, Begin, SendStates

\* A step of main that only says something, or only goes on.
LEMMA SayKeeps ==
    ASSUME IInv, NEW state, NEW next \in MainStates \ {"start"}, Say(state, next)
    PROVE  IInv'
  <1>1. "main" \in Senders
    BY DEF Senders
  <1> QED BY <1>1, BeginKeeps DEF IInv, TypeOK, WriterInv, Say, ioVars, netVars, socketVars, wireVars

\* A step of main that touches nothing else.
LEMMA GoesKeeps ==
    ASSUME IInv, NEW from, NEW to \in MainStates \ {"start"}, Goes(from, to)
    PROVE  IInv'
  BY DEF IInv, TypeOK, WriterInv, Goes, sinkVars, ioVars, netVars, socketVars, wireVars

\* The flush of the buffer, with a send that may throw.
LEMMA FlushKeeps ==
    ASSUME IInv, FlushTake \/ FlushSend \/ FlushThrows
    PROVE  IInv'
  <1>1. CASE FlushTake
    <2>1. pending' \in Seq(Messages)
      <3> DEFINE warning == IF sink.dropped > 0 THEN <<Warning>> ELSE <<>>
      <3>1. warning \in Seq(Messages) /\ sink.buffer \in Seq(Messages)
        <4>1. sink.buffer \in Seq(Messages)
          BY SinkTypes DEF IInv, TypeOK
        <4>2. <<Warning>> \in Seq(Messages) /\ <<>> \in Seq(Messages)
          BY MessageTypes
        <4> QED BY <4>1, <4>2
      <3>2. pending' = warning \o sink.buffer
        BY <1>1 DEF FlushTake
      <3> HIDE DEF warning
      <3> QED BY <3>1, <3>2, ConcatProperties
    <2>2. sink' \in Sinks
      <3>1. <<>> \in Seq(Messages) /\ 0 \in Nat /\ sink \in Sinks
        BY DEF IInv, TypeOK
      <3>2. sink' = [sink EXCEPT !.buffer = <<>>, !.dropped = 0]
        BY <1>1 DEF FlushTake
      <3> QED BY <3>1, <3>2, SinkTypes
    <2> QED BY <1>1, <2>1, <2>2 DEF IInv, TypeOK, WriterInv, FlushTake, MainStates, ioVars, netVars,
                                    socketVars, wireVars
  <1>2. CASE FlushSend
    <2>1. Head(pending) \in Messages /\ pending' \in Seq(Messages)
      BY <1>2 DEF IInv, TypeOK, FlushSend
    <2>2. Enqueue(Head(pending))
      BY <1>2 DEF FlushSend
    <2> QED BY <1>2, <2>1, <2>2, EnqueueKeeps DEF IInv, TypeOK, FlushSend, netVars, socketVars, wireVars
  <1>3. CASE FlushThrows
    <2>1. sink' \in Sinks
      <3>1. sink \in Sinks /\ pending \in Seq(Messages)
        BY DEF IInv, TypeOK
      <3>2. sink.buffer \o pending \in Seq(Messages)
        BY <3>1, SinkTypes, ConcatProperties
      <3>3. sink' = [sink EXCEPT !.connected = FALSE, !.buffer = sink.buffer \o pending]
        BY <1>3, <3>1 DEF FlushThrows, Sinks
      <3> QED BY <3>1, <3>2, <3>3, SinkTypes
    <2> QED BY <1>3, <2>1 DEF IInv, TypeOK, WriterInv, FlushThrows, ioVars, netVars, socketVars, wireVars
  <1> QED BY <1>1, <1>2, <1>3

\* RunMain's own steps.
LEMMA MainKeeps ==
    ASSUME IInv, MainStep
    PROVE  IInv'
  <1> USE DEF IInv
  <1>1. CASE Start
    <2>1. CASE StartConnects
      <3>1. at' \in [Threads -> ThreadStates] /\ at'["writer"] = "evaluate"
        BY <2>1 DEF StartConnects, ThreadStates, Threads
      <3>2. mutex # "writer"
        BY <2>1 DEF WriterInv, StartConnects
      <3> QED BY <2>1, <3>1, <3>2 DEF TypeOK, WriterInv, StartConnects, MainStates, sinkVars, wireVars
    <2>2. CASE StartFails
      BY <2>2, GoesKeeps DEF StartFails, MainStates
    <2> QED BY <1>1, <2>1, <2>2 DEF Start
  <1>2. CASE Handshake \/ Ready \/ Reply \/ Goodbye
    <2>1. PICK next \in MainStates \ {"start"} : \E state : Say(state, next)
      BY <1>2 DEF Handshake, Ready, Reply, Goodbye, MainStates
    <2> QED BY <2>1, SayKeeps
  <1>3. CASE SetConnected
    <2>1. sink' \in Sinks
      BY <1>3, SinkTypes DEF TypeOK, SetConnected
    <2> QED BY <1>3, <2>1 DEF TypeOK, WriterInv, SetConnected, MainStates, ioVars, netVars, socketVars,
                              wireVars
  <1>4. CASE FlushTake \/ FlushSend \/ FlushThrows
    BY <1>4, FlushKeeps
  <1>5. CASE FlushEnds \/ LeaveLoop \/ Leave \/ StopJoin
    <2>1. PICK to \in MainStates \ {"start"} : \E from : Goes(from, to)
      BY <1>5 DEF FlushEnds, LeaveLoop, Leave, StopJoin, MainStates
    <2> QED BY <2>1, GoesKeeps
  <1>6. CASE TakeCommand
    BY <1>6 DEF TypeOK, WriterInv, TakeCommand, MainStates, sinkVars, ioVars, socketVars, wireVars
  <1>7. CASE StopExchange
    BY <1>7 DEF TypeOK, WriterInv, StopExchange, MainStates, sinkVars, netVars, socketVars, wireVars
  <1>8. CASE StopClose
    BY <1>8 DEF TypeOK, WriterInv, StopClose, MainStates, sinkVars, ioVars, wireVars
  <1>9. CASE StopNotify
    <2>1. at' \in [Threads -> ThreadStates]
      BY <1>9, NotifiedKeeps DEF StopNotify
    <2>2. WriterInv'
      BY <1>9, NotifiedKeeps DEF StopNotify, WriterInv
    <2> QED BY <1>9, <2>1, <2>2 DEF TypeOK, StopNotify, MainStates, sinkVars, netVars, socketVars, wireVars
  <1> QED BY <1>1, <1>2, <1>3, <1>4, <1>5, <1>6, <1>7, <1>8, <1>9 DEF MainStep, Stop

\* write_loop.
LEMMA WriterKeeps ==
    ASSUME IInv, Writer
    PROVE  IInv'
  <1> USE DEF IInv, threadRest, sinkVars, socketVars, wireVars
  <1>1. "writer" \in Threads
    BY DEF Threads
  <1>2. CASE WriterEvaluates
    <2>1. queue # <<>> => Head(queue) \in Messages /\ Tail(queue) \in Seq(Messages)
      BY DEF TypeOK
    <2>2. queue' \in Seq(Messages) /\ frame' \in Seq(Messages)
      <3>1. CASE UNCHANGED <<queue, frame>>
        BY <3>1 DEF TypeOK
      <3>2. CASE queue # <<>> /\ frame' = <<Head(queue)>> /\ queue' = Tail(queue)
        BY <2>1, <3>2
      <3> QED BY <1>2, <3>1, <3>2 DEF WriterEvaluates
    <2>3. /\ at' \in [Threads -> ThreadStates] /\ mutex' \in {"free", "writer"}
          /\ WriterInv'
      BY <1>1, <1>2 DEF TypeOK, WriterInv, WriterEvaluates, Goto, ThreadStates
    <2> QED BY <1>2, <2>2, <2>3 DEF TypeOK, WriterEvaluates
  <1>3. CASE WriterSleeps
    BY <1>1, <1>3 DEF TypeOK, WriterInv, WriterSleeps, Goto, ThreadStates
  <1>4. CASE WriterAborts
    BY <1>4 DEF TypeOK, WriterInv, WriterAborts
  <1>5. CASE WriterWrites
    BY <1>1, <1>5 DEF TypeOK, WriterInv, WriterWrites, Goto, ThreadStates
  <1>6. CASE WriterFails
    BY <1>1, <1>6 DEF TypeOK, WriterInv, WriterFails, Goto, ThreadStates
  <1>7. CASE NotifyError("writer")
    BY <1>1, <1>7 DEF TypeOK, WriterInv, NotifyError, Goto, ThreadStates
  <1> QED BY <1>2, <1>3, <1>4, <1>5, <1>6, <1>7 DEF Writer

\* read_loop leaves the writer where it is.
LEMMA ReaderKeeps ==
    ASSUME IInv, Reader
    PROVE  IInv'
  <1> USE DEF IInv, threadRest, sinkVars, socketVars, wireVars
  <1>1. "reader" \in Threads /\ "writer" \in Threads
    BY DEF Threads
  <1>2. CASE ReaderTop
    BY <1>1, <1>2 DEF TypeOK, WriterInv, ReaderTop, Goto, ThreadStates
  <1>3. CASE ReaderGets
    <2>1. commands' \in Nat /\ toEngine' \in Nat /\ aborted' \in BOOLEAN
      <3>1. commands \in Nat /\ toEngine \in Nat /\ aborted \in BOOLEAN
        BY DEF TypeOK
      <3>2. /\ toEngine > 0 /\ toEngine' = toEngine - 1
            /\ commands' = commands + 1 \/ commands' = commands
            /\ aborted' = TRUE \/ aborted' = aborted
        BY <1>3 DEF ReaderGets
      <3>3. commands' \in Nat /\ toEngine' \in Nat
        BY <3>1, <3>2
      <3>4. aborted' \in BOOLEAN
        BY <3>1, <3>2, Zenon
      <3> QED BY <3>3, <3>4
    <2>2. at' \in [Threads -> ThreadStates] /\ WriterInv'
      <3>1. CASE at' = at
        BY <1>3, <3>1 DEF TypeOK, WriterInv, ReaderGets
      <3>2. ASSUME NEW state \in ThreadStates, Goto("reader", state)
            PROVE  at' \in [Threads -> ThreadStates] /\ WriterInv'
        BY <1>1, <1>3, <3>2 DEF TypeOK, WriterInv, ReaderGets, Goto
      <3> QED BY <1>3, <3>1, <3>2 DEF ReaderGets, ThreadStates
    <2> QED BY <1>3, <2>1, <2>2 DEF TypeOK, ReaderGets
  <1>4. CASE ReaderFails
    BY <1>1, <1>4 DEF TypeOK, WriterInv, ReaderFails, Goto, ThreadStates
  <1>5. CASE ReaderLeaves
    BY <1>1, <1>5 DEF TypeOK, WriterInv, ReaderLeaves, Goto, ThreadStates
  <1>6. CASE NotifyError("reader")
    BY <1>1, <1>6 DEF TypeOK, WriterInv, NotifyError, Goto, ThreadStates
  <1> QED BY <1>2, <1>3, <1>4, <1>5, <1>6 DEF Reader

\* heartbeat_loop sends with the mutex, as the others do.
LEMMA HeartbeatKeeps ==
    ASSUME IInv, Heartbeat
    PROVE  IInv'
  <1> USE DEF IInv, threadRest, sinkVars, socketVars, wireVars
  <1>1. "beat" \in Threads /\ "writer" \in Threads
    BY DEF Threads
  <1>2. CASE BeatTop
    BY <1>1, <1>2 DEF TypeOK, WriterInv, BeatTop, Goto, ThreadStates
  <1>3. CASE BeatSends
    <2>1. at' \in [Threads -> ThreadStates]
      BY <1>1, <1>3, NotifiedKeeps DEF BeatSends, ThreadStates
    <2>2. /\ at'["writer"] \notin {"evaluated", "asleep"} /\ mutex' = "free"
          /\ at["writer"] = "none" => at'["writer"] = "none"
      BY <1>1, <1>3, NotifiedKeeps DEF TypeOK, WriterInv, BeatSends
    <2>3. queue' \in Seq(Messages)
      BY <1>3, MessageTypes DEF TypeOK, BeatSends
    <2> QED BY <1>3, <2>1, <2>2, <2>3 DEF TypeOK, WriterInv, BeatSends
  <1> QED BY <1>2, <1>3 DEF Heartbeat

\* Every step keeps the invariant.
LEMMA NextKeeps == IInv /\ [Next]_vars => IInv'
  <1> SUFFICES ASSUME IInv, [Next]_vars PROVE IInv'
    OBVIOUS
  <1>1. CASE MainStep
    BY <1>1, MainKeeps
  <1>2. CASE WorkerSends
    <2>1. "worker" \in Senders
      BY DEF Senders
    <2> QED BY <1>2, <2>1, BeginKeeps DEF IInv, TypeOK, WriterInv, WorkerSends, ioVars, netVars,
                                          socketVars, wireVars
  <1>3. CASE \E s \in Senders : SinkStep(s)
    BY <1>3, SinkKeeps
  <1>4. CASE Writer
    BY <1>4, WriterKeeps
  <1>5. CASE Reader
    BY <1>5, ReaderKeeps
  <1>6. CASE Heartbeat
    BY <1>6, HeartbeatKeeps
  <1>7. CASE Peer
    <2>1. UNCHANGED engineVars /\ peerOpen' \in BOOLEAN
      BY <1>7 DEF IInv, TypeOK, Peer, PeerWrites, PeerCloses
    <2>2. UNCHANGED received /\ toEngine' \in Nat /\ asked' \in Nat
      BY <1>7 DEF IInv, TypeOK, Peer, PeerWrites, PeerCloses, wireVars
    <2> QED BY <2>1, <2>2 DEF IInv, TypeOK, WriterInv, engineVars, sinkVars, ioVars
  <1>8. CASE UNCHANGED vars
    BY <1>8 DEF IInv, TypeOK, WriterInv, vars, sinkVars, ioVars, netVars, socketVars, wireVars
  <1> QED BY <1>1, <1>2, <1>3, <1>4, <1>5, <1>6, <1>7, <1>8 DEF Next, Engine

\* The inductive invariant holds of every run.
THEOREM IInvHolds == Spec => []IInv
  BY InitInv, NextKeeps, PTL DEF Spec

\* RunMain, the sink, the queue and the threads of the bridge keep their types.
THEOREM TypeCorrect == Spec => []TypeOK
  <1>1. IInv => TypeOK
    BY DEF IInv
  <1> QED BY <1>1, IInvHolds, PTL

\* Bridge::send notifies under _queue_mutex, which the writer holds from its
\* test to its sleep: with any number of senders' messages, heartbeats, throws
\* and losses, it never sleeps on a queued frame.
THEOREM NoLostWakeUp == Spec => []NoFrameAwaitsHeartbeat
  <1>1. IInv => NoFrameAwaitsHeartbeat
    BY DEF IInv, WriterInv, NoFrameAwaitsHeartbeat
  <1> QED BY <1>1, IInvHolds, PTL

-----------------------------------------------------------------------------
(* The output: nothing lost uncounted, doubled or reordered; the handshake *)
(* first                                                                   *)

\* The first message the engine sends.
First == <<"main", 1>>

Before == {"start", "greet", "failed"}
Booting == Before \cup {"connect", "flush", "flushing"}

\* What the sink holds while RunMain greets, connects and flushes, and when a
\* sender keeps the order by going to the queue or to the buffer.
PhaseInv ==
    /\ main \in Booting => /\ sink.dropped = 0
                           /\ sent["worker"] = 0 /\ sending["worker"] = "idle"
    /\ main \in Before => /\ sent["main"] = 0 /\ sending["main"] = "idle"
                          /\ sink.buffer = <<>> /\ ~sink.connected
    /\ main = "connect" => /\ sent["main"] = 1 /\ ~sink.connected
                           /\ \/ sending["main"] = "buffer" /\ sink.buffer = <<>>
                              \/ sending["main"] = "idle" /\ sink.buffer = <<First>>
    /\ main \in {"flush", "flushing"} => sent["main"] = 1 /\ sending["main"] = "idle"
    /\ main = "flush" => sink.buffer = <<First>>
    /\ pending # <<>> => main = "flushing" /\ pending = <<First>> /\ sink.buffer = <<>>
    /\ sink.connected /\ main # "flush" => sink.buffer = <<>>
    /\ \A s \in Senders : sending[s] = "buffer" => ~sink.connected
    /\ \A s \in Senders : sending[s] = "direct" =>
          \A i \in DOMAIN sink.buffer : sink.buffer[i][1] # s

\* The writer holds a frame only while it writes it, or has failed to.
FrameInv ==
    /\ main = "start" => frame = <<>>
    /\ at["writer"] = "writing" => Len(frame) = 1
    /\ connected /\ at["writer"] # "writing" => frame = <<>>

Elems(q) == {q[i] : i \in DOMAIN q}

\* What the engine has sent to the bridge, and what the flush has not yet.
Gone == received \o frame \o queue

\* What has left the senders' hands is in order and nowhere else; what is
\* missing was counted.
KeptInv ==
    /\ InHand \subseteq Sent
    /\ InOrder(Output)
    /\ Elems(Accepted) \subseteq (Sent \ InHand) \cup {Beat}
    /\ Elems(sink.buffer) \subseteq Sent \ InHand
    /\ IsFiniteSet(Missing) /\ Cardinality(Missing) = sink.dropped

Beats(q) == \A i \in DOMAIN q : q[i] = Beat
Led(q) == \E i \in DOMAIN q : q[i] = First /\ \A j \in 1 .. i - 1 : q[j] = Beat

\* Nothing but heartbeats before the flush; afterwards the handshake has gone
\* first, or nothing goes any more.
LeadInv ==
    /\ main \in Booting \ {"flushing"} => Beats(Accepted)
    /\ pending # <<>> => Beats(Gone)
    /\ \/ main \in Booting \ {"flushing"}
       \/ pending # <<>>
       \/ Led(Accepted)
       \/ Beats(Accepted) /\ ~sink.connected /\ \A s \in Senders : sending[s] # "direct"

\* The names and places the invariants speak of.
LEMMA PhaseNames ==
    /\ "main" \in Senders /\ "worker" \in Senders
    /\ Before \subseteq Booting /\ Booting \subseteq MainStates
    /\ {"greet", "failed", "connect", "flush", "flushing"} \subseteq Booting
    /\ {"ready", "loop", "run", "goodbye", "leave", "stop", "close", "notify", "join", "done"}
          \cap Booting = {}
    /\ First # Beat /\ First[1] = "main"
  BY DEF Senders, Before, Booting, MainStates, First, Beat

\* A step that changes neither the sink nor a sender, and leaves RunMain where
\* it is or moves it between places the phases do not tell apart.
LEMMA PhaseRest ==
    ASSUME PhaseInv, UNCHANGED <<sent, sending, sink, pending>>,
           \/ main' = main
           \/ main = "start" /\ main' \in {"greet", "failed"}
           \/ main \notin Booting /\ main' \notin Booting
    PROVE  PhaseInv'
  BY DEF PhaseInv, Before, Booting

\* A sender enters the sink: to the buffer unless the sink is connected.
LEMMA PhaseBegin ==
    ASSUME TypeOK, PhaseInv, NEW s \in Senders, Begin(s),
           \/ s = "worker" /\ main' = main /\ main \notin Booting
           \/ s = "main" /\ main \notin Booting /\ main' \notin Booting
           \/ s = "main" /\ main = "greet" /\ main' = "connect"
    PROVE  PhaseInv'
  <1>1. /\ sent[s] \in Nat /\ sending[s] = "idle" /\ UNCHANGED <<sink, pending>>
        /\ sent'[s] = sent[s] + 1
        /\ sending'[s] = IF sink.connected THEN "direct" ELSE "buffer"
        /\ \A t \in Senders \ {s} : sent'[t] = sent[t] /\ sending'[t] = sending[t]
    BY DEF TypeOK, Begin
  <1>2. CASE main \notin Booting /\ main' \notin Booting
    <2>1. main # "flush" /\ main' # "flush" /\ pending = <<>>
      BY <1>2, PhaseNames DEF PhaseInv
    <2>2. \A t \in Senders : sending'[t] = "buffer" => ~sink.connected
      BY <1>1 DEF PhaseInv
    <2>3. \A t \in Senders : sending'[t] = "direct" =>
              \A i \in DOMAIN sink.buffer : sink.buffer[i][1] # t
      <3>1. sink.connected => sink.buffer = <<>>
        BY <2>1 DEF PhaseInv
      <3> QED BY <1>1, <3>1 DEF PhaseInv
    <2> QED BY <1>1, <1>2, <2>1, <2>2, <2>3 DEF PhaseInv, Before, Booting
  <1>3. CASE s = "main" /\ main = "greet" /\ main' = "connect"
    BY <1>1, <1>3 DEF PhaseInv, Before, Booting, Senders
  <1> QED BY <1>2, <1>3

\* SendDirect and SendThrows: a message that is sent directly leaves no other
\* of its sender in the buffer behind.
LEMMA PhaseSend ==
    ASSUME TypeOK, PhaseInv, NEW s \in Senders, SendDirect(s) \/ SendThrows(s)
    PROVE  PhaseInv'
  <1>1. /\ main' = main /\ sent' = sent /\ pending' = pending
        /\ sending[s] = "direct" /\ sending'[s] \in {"idle", "buffer"}
        /\ \A t \in Senders \ {s} : sending'[t] = sending[t]
        /\ sink'.buffer = sink.buffer /\ sink'.dropped = sink.dropped
        /\ sink'.connected => sink.connected /\ sending'[s] = "idle"
    BY DEF TypeOK, SendDirect, SendThrows, Sinks
  <1>2. main \notin Booting
    BY <1>1 DEF PhaseInv, Before, Booting, Senders
  <1>3. main # "flush" /\ main # "flushing" /\ main # "connect" /\ main \notin Before
    BY <1>2 DEF Before, Booting
  <1> QED BY <1>1, <1>2, <1>3 DEF PhaseInv

\* What the buffer becomes when a message is kept in it.
LEMMA BufferedIs ==
    ASSUME TypeOK, NEW m \in Messages
    PROVE  /\ Buffered(sink, m).connected = sink.connected
           /\ \/ /\ Len(sink.buffer) < MaxBuffered
                 /\ Buffered(sink, m).buffer = Append(sink.buffer, m)
                 /\ Buffered(sink, m).dropped = sink.dropped
              \/ /\ sink.buffer # <<>>
                 /\ Buffered(sink, m).buffer = Append(Tail(sink.buffer), m)
                 /\ Buffered(sink, m).dropped = sink.dropped + 1
  <1> DEFINE k == sink.buffer
  <1>1. sink \in Sinks /\ k \in Seq(Messages) /\ MaxBuffered \in Nat \ {0} /\ Len(k) \in Nat
    BY BoundsAssumption DEF TypeOK, Sinks
  <1>2. CASE Len(k) >= MaxBuffered
    <2>1. k # <<>>
      BY <1>1, <1>2
    <2> QED BY <1>1, <1>2, <2>1 DEF Buffered, Sinks
  <1>3. CASE ~(Len(k) >= MaxBuffered)
    BY <1>1, <1>3 DEF Buffered, Sinks
  <1> QED BY <1>2, <1>3

\* BufferMessage: only a sender that found the sink disconnected is there.
LEMMA PhaseBuffer ==
    ASSUME TypeOK, PhaseInv, NEW s \in Senders, BufferMessage(s)
    PROVE  PhaseInv'
  <1> DEFINE m == <<s, sent[s]>>
  <1>1. m \in Messages /\ sink.buffer \in Seq(Messages)
    BY MessageTypes DEF TypeOK, Sinks
  <1>2. /\ main' = main /\ sent' = sent /\ pending' = pending /\ sink' = Buffered(sink, m)
        /\ sending[s] = "buffer" /\ sending'[s] = "idle"
        /\ \A t \in Senders \ {s} : sending'[t] = sending[t]
    BY DEF TypeOK, BufferMessage
  <1>3. ~sink.connected /\ sink'.connected = sink.connected
    BY <1>1, <1>2, BufferedIs DEF PhaseInv
  <1>4. CASE main \in Booting
    <2>1. main = "connect" /\ s = "main" /\ sink.buffer = <<>> /\ m = First
      BY <1>2, <1>4, PhaseNames DEF PhaseInv, Before, Booting, First, Senders
    <2>2. sink'.dropped = sink.dropped /\ sink'.buffer = Append(<<>>, First)
      BY <1>1, <1>2, <2>1, BufferedIs
    <2>3. Append(<<>>, First) = <<First>>
      OBVIOUS
    <2> QED BY <1>2, <1>3, <2>1, <2>2, <2>3, PhaseNames DEF PhaseInv, Before, Booting, Senders
  <1>5. CASE main \notin Booting
    <2>1. \A t \in Senders : sending'[t] = "direct" =>
              \A i \in DOMAIN sink'.buffer : sink'.buffer[i][1] # t
      <3> SUFFICES ASSUME NEW t \in Senders, sending'[t] = "direct", NEW i \in DOMAIN sink'.buffer
                   PROVE  sink'.buffer[i][1] # t
        OBVIOUS
      <3>1. t # s /\ sending[t] = "direct" /\ m[1] # t
        BY <1>2
      <3>2. \A j \in DOMAIN sink.buffer : sink.buffer[j][1] # t
        BY <3>1 DEF PhaseInv
      <3>3. sink'.buffer[i] = m \/ \E j \in DOMAIN sink.buffer : sink'.buffer[i] = sink.buffer[j]
        <4> HIDE DEF m
        <4>1. CASE sink'.buffer = Append(sink.buffer, m)
          BY <1>1, <4>1
        <4>2. CASE sink.buffer # <<>> /\ sink'.buffer = Append(Tail(sink.buffer), m)
          <5> DEFINE q == sink.buffer
          <5>1. q \in Seq(Messages) /\ q # <<>> /\ i \in DOMAIN Append(Tail(q), m)
            BY <1>1, <4>2
          <5>2. Tail(q) \in Seq(Messages) /\ Len(Tail(q)) = Len(q) - 1 /\ Len(q) \in Nat \ {0}
                /\ \A j \in 1 .. Len(Tail(q)) : Tail(q)[j] = q[j + 1]
            BY <5>1, HeadTailProperties
          <5>3. Append(Tail(q), m)[i] = m \/ (i \in 1 .. Len(Tail(q)) /\ Append(Tail(q), m)[i] = Tail(q)[i])
            BY <5>1, <5>2, <1>1
          <5>4. i \in 1 .. Len(Tail(q)) => i + 1 \in DOMAIN q
            BY <5>1, <5>2
          <5> QED BY <4>2, <5>2, <5>3, <5>4
        <4> QED BY <1>1, <1>2, <4>1, <4>2, BufferedIs
      <3> QED BY <3>1, <3>2, <3>3
    <2>2. pending = <<>> /\ main # "flush" /\ main # "flushing" /\ main # "connect" /\ main \notin Before
      BY <1>5 DEF PhaseInv, Before, Booting
    <2>3. \A t \in Senders : sending'[t] = "buffer" => ~sink'.connected
      BY <1>3
    <2> QED BY <1>2, <1>3, <1>5, <2>1, <2>2, <2>3 DEF PhaseInv
  <1> QED BY <1>4, <1>5

\* The flush takes the handshake and nothing else, and puts it back when a send
\* throws.
LEMMA PhaseFlush ==
    ASSUME TypeOK, PhaseInv,
           SetConnected \/ FlushTake \/ FlushSend \/ FlushThrows \/ FlushEnds
    PROVE  PhaseInv'
  <1> USE DEF PhaseInv, Before, Booting, Senders
  <1>1. CASE SetConnected
    <2>1. /\ sink'.connected /\ sink'.buffer = sink.buffer /\ sink'.dropped = sink.dropped
          /\ main = "connect" /\ main' = "flush" /\ sending["main"] = "idle"
          /\ UNCHANGED <<sent, sending, pending>>
      BY <1>1 DEF SetConnected, TypeOK, Sinks
    <2> QED BY <2>1
  <1>2. CASE FlushTake
    <2>1. sink'.buffer = <<>> /\ sink'.dropped = 0 /\ sink'.connected = sink.connected
      BY <1>2 DEF FlushTake, TypeOK, Sinks
    <2>2. sink.buffer = <<First>> /\ sink.dropped = 0 /\ <<First>> \in Seq(Messages)
      BY <1>2 DEF FlushTake, TypeOK, Sinks
    <2>3. pending' = <<>> \o <<First>>
      BY <1>2, <2>2 DEF FlushTake
    <2>4. pending' = <<First>>
      BY <2>2, <2>3
    <2> QED BY <1>2, <2>1, <2>4 DEF FlushTake
  <1>3. CASE FlushSend
    <2>1. pending' = <<>>
      BY <1>3 DEF FlushSend
    <2> QED BY <1>3, <2>1 DEF FlushSend
  <1>4. CASE FlushThrows
    <2>1. sink'.buffer = <<>> \o <<First>> /\ sink'.dropped = sink.dropped /\ ~sink'.connected
      BY <1>4 DEF FlushThrows, TypeOK, Sinks
    <2> QED BY <1>4, <2>1 DEF FlushThrows
  <1>5. CASE FlushEnds
    BY <1>5 DEF FlushEnds, Goes, sinkVars
  <1> QED BY <1>1, <1>2, <1>3, <1>4, <1>5

\* Every step keeps PhaseInv.
LEMMA PhaseKeeps ==
    ASSUME IInv, PhaseInv, [Next]_vars
    PROVE  PhaseInv'
  <1> USE DEF IInv
  <1>1. CASE Start
    BY <1>1, PhaseRest DEF Start, StartConnects, StartFails, Goes, sinkVars
  <1>2. CASE Handshake \/ Ready \/ Reply \/ Goodbye
    <2>1. Begin("main") /\ \/ main = "greet" /\ main' = "connect"
                           \/ main \notin Booting /\ main' \notin Booting
      BY <1>2 DEF Handshake, Ready, Reply, Goodbye, Say, Before, Booting
    <2> QED BY <2>1, PhaseBegin, PhaseNames
  <1>3. CASE SetConnected \/ FlushTake \/ FlushSend \/ FlushThrows \/ FlushEnds
    BY <1>3, PhaseFlush
  <1>4. CASE TakeCommand \/ LeaveLoop \/ Leave \/ Stop
    BY <1>4, PhaseRest DEF TakeCommand, LeaveLoop, Leave, Stop, StopExchange, StopClose, StopNotify,
                           StopJoin, Goes, sinkVars, Before, Booting
  <1>5. CASE WorkerSends
    <2>1. Begin("worker") /\ main' = main /\ main \notin Booting
      BY <1>5 DEF WorkerSends, Before, Booting
    <2> QED BY <2>1, PhaseBegin, PhaseNames
  <1>6. CASE \E s \in Senders : SinkStep(s)
    BY <1>6, PhaseSend, PhaseBuffer DEF SinkStep
  <1>7. CASE Writer
    BY <1>7, PhaseRest DEF Writer, WriterEvaluates, WriterSleeps, WriterAborts, WriterWrites, WriterFails,
                           NotifyError, threadRest, sinkVars
  <1>8. CASE Reader \/ Heartbeat
    BY <1>8, PhaseRest DEF Reader, ReaderTop, ReaderGets, ReaderFails, ReaderLeaves, NotifyError,
                           Heartbeat, BeatTop, BeatSends, threadRest, sinkVars
  <1>9. CASE Peer \/ UNCHANGED vars
    BY <1>9, PhaseRest DEF Peer, PeerWrites, PeerCloses, engineVars, vars, sinkVars
  <1> QED BY <1>1, <1>2, <1>3, <1>4, <1>5, <1>6, <1>7, <1>8, <1>9 DEF Next, Engine, MainStep

\* A step that leaves the writer's frame alone, does not let it begin to write
\* and does not connect.
LEMMA FrameRest ==
    ASSUME FrameInv, UNCHANGED frame, main' = "start" => main = "start",
           at'["writer"] = "writing" <=> at["writer"] = "writing", connected' => connected
    PROVE  FrameInv'
  BY DEF FrameInv

\* The steps of the writer itself.
LEMMA FrameWriter ==
    ASSUME IInv, FrameInv, Writer
    PROVE  FrameInv'
  <1> USE DEF threadRest, Goto, TypeOK, IInv
  <1>1. "writer" \in Threads
    BY DEF Threads
  <1>2. main' = main /\ (main = "start" => at["writer"] = "none")
    BY DEF WriterInv, Writer, WriterEvaluates, WriterSleeps, WriterAborts, WriterWrites, WriterFails,
           NotifyError
  <1>3. CASE WriterEvaluates
    <2>1. CASE connected /\ queue # <<>>
      <3>1. frame' = <<Head(queue)>> /\ at'["writer"] = "writing"
        BY <1>1, <1>3, <2>1 DEF WriterEvaluates
      <3>2. main # "start"
        BY <1>2, <1>3 DEF WriterEvaluates
      <3> QED BY <1>2, <3>1, <3>2 DEF FrameInv
    <2>2. CASE ~(connected /\ queue # <<>>)
      BY <1>1, <1>2, <1>3, <2>2, FrameRest DEF WriterEvaluates, wireVars
    <2> QED BY <2>1, <2>2
  <1>4. CASE WriterSleeps \/ WriterAborts \/ WriterFails \/ NotifyError("writer")
    <2>1. UNCHANGED frame /\ (connected' => connected)
      BY <1>4 DEF WriterSleeps, WriterAborts, WriterFails, NotifyError, wireVars
    <2>2. CASE WriterFails
      BY <1>1, <1>2, <2>1, <2>2 DEF WriterFails, FrameInv
    <2>3. CASE ~WriterFails
      BY <1>1, <1>2, <1>4, <2>1, <2>3, FrameRest DEF WriterSleeps, WriterAborts, NotifyError
    <2> QED BY <2>2, <2>3
  <1>5. CASE WriterWrites
    <2>1. frame' = <<>> /\ at'["writer"] = "evaluate" /\ main # "start"
      BY <1>1, <1>2, <1>5 DEF WriterWrites
    <2> QED BY <1>2, <2>1 DEF FrameInv
  <1> QED BY <1>3, <1>4, <1>5 DEF Writer

\* Every step keeps FrameInv.
LEMMA FrameKeeps ==
    ASSUME IInv, FrameInv, [Next]_vars
    PROVE  FrameInv'
  <1> USE DEF IInv
  <1>1. CASE StartConnects
    <2>1. frame' = <<>> /\ main' = "greet"
      BY <1>1 DEF StartConnects, FrameInv
    <2>2. at'["writer"] = "evaluate"
      BY <1>1 DEF StartConnects, Threads
    <2> QED BY <2>1, <2>2 DEF FrameInv
  <1>2. CASE MainStep /\ ~StartConnects
    <2>1. main' # "start"
      BY <1>2 DEF MainStep, Start, StartFails, Handshake, SetConnected, FlushTake, FlushSend, FlushThrows,
           FlushEnds, Ready, TakeCommand, Reply, LeaveLoop, Goodbye, Leave, Stop, StopExchange, StopClose,
           StopNotify, StopJoin, Say, Goes
    <2>2. CASE StopExchange
      BY <2>1, <2>2, FrameRest DEF StopExchange
    <2>3. CASE FlushSend \/ StopNotify
      BY <2>1, <2>3, FrameRest, NotifiedKeeps DEF FlushSend, StopNotify, Enqueue
    <2>4. CASE ~StopExchange /\ ~FlushSend /\ ~StopNotify
      <3>1. UNCHANGED <<frame, connected, at>>
        BY <1>2, <2>4 DEF MainStep, Start, StartFails, Handshake, SetConnected, FlushTake, FlushThrows,
           FlushEnds, Ready, TakeCommand, Reply, LeaveLoop, Goodbye, Leave, Stop, StopClose, StopJoin, Say,
           Goes, ioVars
      <3> QED BY <2>1, <3>1, FrameRest
    <2> QED BY <2>2, <2>3, <2>4
  <1>3. CASE WorkerSends
    BY <1>3, FrameRest DEF WorkerSends, ioVars, netVars, wireVars
  <1>4. CASE \E s \in Senders : SinkStep(s)
    <2>1. PICK s \in Senders : SinkStep(s)
      BY <1>4
    <2>2. UNCHANGED <<main, frame, connected>> /\ (UNCHANGED at \/ at' = Notified(at))
      BY <2>1 DEF SinkStep, SendDirect, SendThrows, BufferMessage, Enqueue, ioVars, netVars, wireVars
    <2> QED BY <2>2, FrameRest, NotifiedKeeps
  <1>5. CASE Writer
    BY <1>5, FrameWriter
  <1>6. CASE Reader \/ Heartbeat
    <2>1. UNCHANGED <<main, frame>> /\ (connected' => connected)
      BY <1>6 DEF Reader, ReaderTop, ReaderGets, ReaderFails, ReaderLeaves, NotifyError,
                  Heartbeat, BeatTop, BeatSends, threadRest
    <2>2. at'["writer"] = "writing" <=> at["writer"] = "writing"
      BY <1>6, NotifiedKeeps DEF Reader, ReaderTop, ReaderGets, ReaderFails, ReaderLeaves, NotifyError,
                  Heartbeat, BeatTop, BeatSends, Goto, TypeOK, Threads
    <2> QED BY <2>1, <2>2, FrameRest
  <1>7. CASE Peer \/ UNCHANGED vars
    BY <1>7, FrameRest DEF Peer, PeerWrites, PeerCloses, engineVars, vars, ioVars, netVars, wireVars
  <1> QED BY <1>1, <1>2, <1>3, <1>4, <1>5, <1>6, <1>7 DEF Next, Engine

\* Where the elements of a concatenation come from.
LEMMA ConcatPlaces ==
    ASSUME NEW p \in Seq(Messages), NEW q \in Seq(Messages)
    PROVE  /\ p \o q \in Seq(Messages)
           /\ DOMAIN p = 1 .. Len(p) /\ DOMAIN q = 1 .. Len(q) /\ DOMAIN (p \o q) = 1 .. Len(p) + Len(q)
           /\ Len(p) \in Nat /\ Len(q) \in Nat
           /\ \A i \in 1 .. Len(p) : (p \o q)[i] = p[i]
           /\ \A i \in 1 .. Len(q) : (p \o q)[Len(p) + i] = q[i]
           /\ \A i \in 1 .. Len(p) + Len(q) :
                 i \in 1 .. Len(p) \/ \E j \in 1 .. Len(q) : i = Len(p) + j
  <1>1. /\ p \o q \in Seq(Messages) /\ Len(p \o q) = Len(p) + Len(q)
        /\ \A i \in 1 .. Len(p) + Len(q) :
              (p \o q)[i] = IF i <= Len(p) THEN p[i] ELSE q[i - Len(p)]
        /\ Len(p) \in Nat /\ Len(q) \in Nat
    BY ConcatProperties
  <1>2. DOMAIN p = 1 .. Len(p) /\ DOMAIN q = 1 .. Len(q) /\ DOMAIN (p \o q) = 1 .. Len(p) + Len(q)
    BY <1>1, LenProperties
  <1>3. \A i \in 1 .. Len(p) : (p \o q)[i] = p[i]
    BY <1>1
  <1>4. \A i \in 1 .. Len(q) : (p \o q)[Len(p) + i] = q[i]
    <2> TAKE i \in 1 .. Len(q)
    <2>1. Len(p) + i \in 1 .. Len(p) + Len(q) /\ ~(Len(p) + i <= Len(p)) /\ (Len(p) + i) - Len(p) = i
      BY <1>1
    <2> QED BY <1>1, <2>1
  <1>5. \A i \in 1 .. Len(p) + Len(q) : i \in 1 .. Len(p) \/ \E j \in 1 .. Len(q) : i = Len(p) + j
    <2> TAKE i \in 1 .. Len(p) + Len(q)
    <2>1. i \in 1 .. Len(p) \/ (i - Len(p) \in 1 .. Len(q) /\ i = Len(p) + (i - Len(p)))
      BY <1>1
    <2> QED BY <2>1
  <1> QED BY <1>1, <1>2, <1>3, <1>4, <1>5

\* A concatenation has the elements of both parts.
LEMMA ElemsConcat ==
    ASSUME NEW p \in Seq(Messages), NEW q \in Seq(Messages)
    PROVE  Elems(p \o q) = Elems(p) \cup Elems(q)
  <1>1. ASSUME NEW x \in Elems(p \o q) PROVE x \in Elems(p) \cup Elems(q)
    <2>1. PICK i \in DOMAIN (p \o q) : x = (p \o q)[i]
      BY <1>1 DEF Elems
    <2>2. CASE i \in 1 .. Len(p)
      BY <2>1, <2>2, ConcatPlaces DEF Elems
    <2>3. CASE \E j \in 1 .. Len(q) : i = Len(p) + j
      BY <2>1, <2>3, ConcatPlaces DEF Elems
    <2> QED BY <2>1, <2>2, <2>3, ConcatPlaces
  <1>2. ASSUME NEW x \in Elems(p) PROVE x \in Elems(p \o q)
    <2>1. PICK i \in 1 .. Len(p) : x = p[i]
      BY <1>2, ConcatPlaces DEF Elems
    <2>2. i \in DOMAIN (p \o q) /\ (p \o q)[i] = x
      BY <2>1, ConcatPlaces
    <2> QED BY <2>2 DEF Elems
  <1>3. ASSUME NEW x \in Elems(q) PROVE x \in Elems(p \o q)
    <2>1. PICK i \in 1 .. Len(q) : x = q[i]
      BY <1>3, ConcatPlaces DEF Elems
    <2>2. Len(p) + i \in DOMAIN (p \o q) /\ (p \o q)[Len(p) + i] = x
      BY <2>1, ConcatPlaces
    <2> QED BY <2>2 DEF Elems
  <1> QED BY <1>1, <1>2, <1>3

\* Sequences of one message and of none.
LEMMA OneMessage ==
    ASSUME NEW m \in Messages
    PROVE  /\ <<m>> \in Seq(Messages) /\ <<>> \in Seq(Messages)
           /\ Elems(<<m>>) = {m} /\ Elems(<<>>) = {}
           /\ InOrder(<<m>>) /\ InOrder(<<>>)
           /\ Beats(<<m>>) <=> m = Beat
           /\ Led(<<m>>) <=> m = First
  <1>1. DOMAIN <<m>> = {1} /\ <<m>>[1] = m /\ <<m>> \in Seq(Messages) /\ 1 .. 0 = {}
    OBVIOUS
  <1>2. DOMAIN <<>> = {} /\ <<>> \in Seq(Messages)
    OBVIOUS
  <1>3. InOrder(<<m>>) /\ InOrder(<<>>)
    BY <1>1, <1>2 DEF InOrder
  <1>4. (Beats(<<m>>) <=> m = Beat) /\ (Led(<<m>>) <=> m = First)
    BY <1>1 DEF Beats, Led
  <1> QED BY <1>1, <1>2, <1>3, <1>4 DEF Elems

\* The messages of p come before those of q.
Precedes(p, q) ==
    \A x \in Elems(p), y \in Elems(q) : x[1] = y[1] /\ x[1] \in Senders => x[2] < y[2]

\* A concatenation is in order when its parts are and the first precedes the
\* second.
LEMMA InOrderConcat ==
    ASSUME NEW p \in Seq(Messages), NEW q \in Seq(Messages)
    PROVE  InOrder(p \o q) <=> InOrder(p) /\ InOrder(q) /\ Precedes(p, q)
  <1> DEFINE pq == p \o q
  <1>1. /\ \A i \in 1 .. Len(p) : i \in DOMAIN pq /\ i \in DOMAIN p /\ pq[i] = p[i]
        /\ \A i \in 1 .. Len(q) : Len(p) + i \in DOMAIN pq /\ i \in DOMAIN q /\ pq[Len(p) + i] = q[i]
        /\ \A i \in DOMAIN pq : i \in 1 .. Len(p) \/ \E j \in 1 .. Len(q) : i = Len(p) + j
        /\ Len(p) \in Nat /\ Len(q) \in Nat
        /\ DOMAIN p = 1 .. Len(p) /\ DOMAIN q = 1 .. Len(q)
    BY ConcatPlaces
  <1> HIDE DEF pq
  <1>2. ASSUME InOrder(pq) PROVE InOrder(p)
    BY <1>1, <1>2 DEF InOrder
  <1>3. ASSUME InOrder(pq) PROVE InOrder(q)
    <2> SUFFICES ASSUME NEW i \in 1 .. Len(q), NEW j \in 1 .. Len(q), i < j,
                        q[i][1] = q[j][1], q[i][1] \in Senders
                 PROVE  q[i][2] < q[j][2]
      BY <1>1 DEF InOrder
    <2>1. Len(p) + i < Len(p) + j
      BY <1>1
    <2>2. /\ Len(p) + i \in DOMAIN pq /\ pq[Len(p) + i] = q[i]
          /\ Len(p) + j \in DOMAIN pq /\ pq[Len(p) + j] = q[j]
      BY <1>1
    <2> QED BY <1>3, <2>1, <2>2 DEF InOrder
  <1>4. ASSUME InOrder(pq) PROVE Precedes(p, q)
    <2> SUFFICES ASSUME NEW i \in 1 .. Len(p), NEW j \in 1 .. Len(q),
                        p[i][1] = q[j][1], p[i][1] \in Senders
                 PROVE  p[i][2] < q[j][2]
      BY <1>1 DEF Precedes, Elems
    <2>1. i < Len(p) + j
      BY <1>1
    <2>2. /\ i \in DOMAIN pq /\ pq[i] = p[i]
          /\ Len(p) + j \in DOMAIN pq /\ pq[Len(p) + j] = q[j]
      BY <1>1
    <2> QED BY <1>4, <2>1, <2>2 DEF InOrder
  <1>5. ASSUME InOrder(p), InOrder(q), Precedes(p, q) PROVE InOrder(pq)
    <2> SUFFICES ASSUME NEW i \in DOMAIN pq, NEW j \in DOMAIN pq, i < j,
                        pq[i][1] = pq[j][1], pq[i][1] \in Senders
                 PROVE  pq[i][2] < pq[j][2]
      BY DEF InOrder
    <2>1. CASE i \in 1 .. Len(p) /\ j \in 1 .. Len(p)
      BY <1>1, <1>5, <2>1 DEF InOrder
    <2>2. CASE i \in 1 .. Len(p) /\ \E l \in 1 .. Len(q) : j = Len(p) + l
      <3>1. pq[i] \in Elems(p) /\ pq[j] \in Elems(q)
        BY <1>1, <2>2 DEF Elems
      <3> QED BY <1>5, <3>1 DEF Precedes
    <2>3. CASE \E k \in 1 .. Len(q) : i = Len(p) + k
      <3>1. PICK k \in 1 .. Len(q) : i = Len(p) + k
        BY <2>3
      <3>2. PICK l \in 1 .. Len(q) : j = Len(p) + l
        BY <1>1, <3>1
      <3>3. k < l /\ pq[i] = q[k] /\ pq[j] = q[l] /\ k \in DOMAIN q /\ l \in DOMAIN q
        BY <1>1, <3>1, <3>2
      <3> QED BY <1>5, <3>3 DEF InOrder
    <2> QED BY <1>1, <2>1, <2>2, <2>3
  <1> QED BY <1>2, <1>3, <1>4, <1>5 DEF pq

\* Nothing but heartbeats: in both parts.
LEMMA BeatsConcat ==
    ASSUME NEW p \in Seq(Messages), NEW q \in Seq(Messages)
    PROVE  Beats(p \o q) <=> Beats(p) /\ Beats(q)
  <1>1. \A r : Beats(r) <=> Elems(r) \subseteq {Beat}
    BY DEF Beats, Elems
  <1> QED BY <1>1, ElemsConcat

\* What leads the first part leads the whole, and after heartbeats the second
\* part decides.
LEMMA LedConcat ==
    ASSUME NEW p \in Seq(Messages), NEW q \in Seq(Messages)
    PROVE  Led(p \o q) <=> Led(p) \/ (Beats(p) /\ Led(q))
  <1> DEFINE pq == p \o q
  <1>1. /\ \A i \in 1 .. Len(p) : i \in DOMAIN pq /\ i \in DOMAIN p /\ pq[i] = p[i]
        /\ \A i \in 1 .. Len(q) : Len(p) + i \in DOMAIN pq /\ i \in DOMAIN q /\ pq[Len(p) + i] = q[i]
        /\ \A i \in DOMAIN pq : i \in 1 .. Len(p) \/ \E j \in 1 .. Len(q) : i = Len(p) + j
        /\ Len(p) \in Nat /\ Len(q) \in Nat
        /\ DOMAIN p = 1 .. Len(p) /\ DOMAIN q = 1 .. Len(q)
    BY ConcatPlaces
  <1> HIDE DEF pq
  <1>2. ASSUME Led(p) PROVE Led(pq)
    <2>1. PICK i \in 1 .. Len(p) : p[i] = First /\ \A j \in 1 .. i - 1 : p[j] = Beat
      BY <1>1, <1>2 DEF Led
    <2>2. i \in DOMAIN pq /\ pq[i] = First /\ \A j \in 1 .. i - 1 : pq[j] = Beat
      BY <1>1, <2>1
    <2> QED BY <2>2 DEF Led
  <1>3. ASSUME Beats(p), Led(q) PROVE Led(pq)
    <2>1. PICK i \in 1 .. Len(q) : q[i] = First /\ \A j \in 1 .. i - 1 : q[j] = Beat
      BY <1>1, <1>3 DEF Led
    <2>2. Len(p) + i \in DOMAIN pq /\ pq[Len(p) + i] = First
      BY <1>1, <2>1
    <2>3. ASSUME NEW j \in 1 .. (Len(p) + i) - 1 PROVE pq[j] = Beat
      <3>1. CASE j \in 1 .. Len(p)
        BY <1>1, <1>3, <3>1 DEF Beats
      <3>2. CASE j \notin 1 .. Len(p)
        <4> DEFINE k == j - Len(p)
        <4>1. k \in 1 .. i - 1 /\ k \in 1 .. Len(q) /\ j = Len(p) + k
          BY <1>1, <2>1, <3>2
        <4> HIDE DEF k
        <4> QED BY <1>1, <2>1, <4>1
      <3> QED BY <3>1, <3>2
    <2> QED BY <2>2, <2>3 DEF Led
  <1>4. ASSUME Led(pq), ~Led(p) PROVE Beats(p) /\ Led(q)
    <2>1. PICK i \in DOMAIN pq : pq[i] = First /\ \A j \in 1 .. i - 1 : pq[j] = Beat
      BY <1>4 DEF Led
    <2>2. i \notin 1 .. Len(p)
      <3> SUFFICES ASSUME i \in 1 .. Len(p) PROVE FALSE
        OBVIOUS
      <3>1. i \in DOMAIN p /\ p[i] = First /\ \A j \in 1 .. i - 1 : p[j] = Beat
        BY <1>1, <2>1
      <3> QED BY <1>4, <3>1 DEF Led
    <2>3. PICK k \in 1 .. Len(q) : i = Len(p) + k
      BY <1>1, <2>2
    <2>4. Beats(p)
      BY <1>1, <2>1, <2>3 DEF Beats
    <2>5. q[k] = First /\ \A j \in 1 .. k - 1 : q[j] = Beat
      <3>1. q[k] = First
        BY <1>1, <2>1, <2>3
      <3>2. ASSUME NEW j \in 1 .. k - 1 PROVE q[j] = Beat
        <4>1. Len(p) + j \in 1 .. i - 1 /\ j \in 1 .. Len(q)
          BY <1>1, <2>3
        <4> QED BY <1>1, <2>1, <4>1
      <3> QED BY <3>1, <3>2
    <2>6. k \in DOMAIN q
      BY <1>1
    <2> QED BY <2>4, <2>5, <2>6 DEF Led
  <1> QED BY <1>2, <1>3, <1>4 DEF pq

\* The same messages, but for one heartbeat.
BeatApart(p, q) ==
    \/ p = q
    \/ \E a, b \in Seq(Messages) :
          \/ p = a \o b /\ q = (a \o <<Beat>>) \o b
          \/ q = a \o b /\ p = (a \o <<Beat>>) \o b

\* A heartbeat more or less makes no difference to what the invariants say.
LEMMA BeatMakesNoDifference ==
    ASSUME NEW p \in Seq(Messages), NEW q \in Seq(Messages), BeatApart(p, q)
    PROVE  /\ Elems(p) \cup {Beat} = Elems(q) \cup {Beat}
           /\ InOrder(p) <=> InOrder(q)
           /\ Beats(p) <=> Beats(q)
           /\ Led(p) <=> Led(q)
  <1>1. ASSUME NEW a \in Seq(Messages), NEW b \in Seq(Messages)
        PROVE  /\ Elems(a \o b) \cup {Beat} = Elems((a \o <<Beat>>) \o b) \cup {Beat}
               /\ InOrder(a \o b) <=> InOrder((a \o <<Beat>>) \o b)
               /\ Beats(a \o b) <=> Beats((a \o <<Beat>>) \o b)
               /\ Led(a \o b) <=> Led((a \o <<Beat>>) \o b)
    <2> DEFINE c == a \o <<Beat>>
    <2>1. /\ Beat \in Messages /\ <<Beat>> \in Seq(Messages) /\ Elems(<<Beat>>) = {Beat}
          /\ InOrder(<<Beat>>) /\ Beats(<<Beat>>) /\ ~Led(<<Beat>>)
          /\ Beat[1] \notin Senders
      <3>1. Beat \in Messages /\ First # Beat /\ Beat[1] \notin Senders
        BY MessageTypes DEF First, Beat, Senders
      <3> QED BY <3>1, OneMessage
    <2>2. c \in Seq(Messages) /\ Elems(c) = Elems(a) \cup {Beat}
      BY <2>1, ElemsConcat, ConcatPlaces
    <2>3. Elems(a \o b) = Elems(a) \cup Elems(b) /\ Elems(c \o b) = Elems(c) \cup Elems(b)
      BY <2>2, ElemsConcat
    <2>4. (Beats(a \o b) <=> Beats(c \o b)) /\ (Led(a \o b) <=> Led(c \o b))
      <3>1. /\ Beats(a \o b) <=> Beats(a) /\ Beats(b)
            /\ Led(a \o b) <=> Led(a) \/ (Beats(a) /\ Led(b))
        BY BeatsConcat, LedConcat
      <3>2. (Beats(c) <=> Beats(a)) /\ (Led(c) <=> Led(a))
        BY <2>1, BeatsConcat, LedConcat
      <3>3. /\ Beats(c \o b) <=> Beats(c) /\ Beats(b)
            /\ Led(c \o b) <=> Led(c) \/ (Beats(c) /\ Led(b))
        BY <2>2, BeatsConcat, LedConcat
      <3> QED BY <3>1, <3>2, <3>3
    <2>5. InOrder(a \o b) <=> InOrder(c \o b)
      <3>1. InOrder(c) <=> InOrder(a)
        BY <2>1, InOrderConcat DEF Precedes
      <3>2. Precedes(c, b) <=> Precedes(a, b)
        BY <2>1, <2>2 DEF Precedes
      <3> QED BY <2>2, <3>1, <3>2, InOrderConcat
    <2> QED BY <2>2, <2>3, <2>4, <2>5
  <1>2. CASE p = q
    BY <1>2
  <1>3. CASE p # q
    <2>1. PICK a, b \in Seq(Messages) : \/ p = a \o b /\ q = (a \o <<Beat>>) \o b
                                        \/ q = a \o b /\ p = (a \o <<Beat>>) \o b
      BY <1>3 DEF BeatApart
    <2>2. CASE p = a \o b /\ q = (a \o <<Beat>>) \o b
      BY <1>1, <2>2
    <2>3. CASE q = a \o b /\ p = (a \o <<Beat>>) \o b
      <3>1. /\ Elems(q) \cup {Beat} = Elems(p) \cup {Beat}
            /\ InOrder(q) <=> InOrder(p)
            /\ Beats(q) <=> Beats(p)
            /\ Led(q) <=> Led(p)
        BY <1>1, <2>3
      <3> QED BY <3>1
    <2> QED BY <2>1, <2>2, <2>3
  <1> QED BY <1>2, <1>3

\* The three parts of Gone, associated the other way.
LEMMA ThreeParts ==
    ASSUME NEW r \in Seq(Messages), NEW f \in Seq(Messages), NEW q \in Seq(Messages)
    PROVE  r \o f \o q = r \o (f \o q)
  BY ConcatAssociative

\* Steps that move a message from the queue to the socket, or add or drop a
\* heartbeat, and steps that touch none of this: all but a send.
LEMMA GoneMoves ==
    ASSUME IInv, FrameInv, [Next]_vars, ~FlushSend, \A s \in Senders : ~SendDirect(s)
    PROVE  /\ Gone \in Seq(Messages) /\ Gone' \in Seq(Messages)
           /\ BeatApart(Gone, Gone')
  <1> USE DEF IInv
  <1>0. /\ received \in Seq(Messages) /\ frame \in Seq(Messages) /\ queue \in Seq(Messages)
        /\ received' \in Seq(Messages) /\ frame' \in Seq(Messages) /\ queue' \in Seq(Messages)
    BY NextKeeps DEF TypeOK
  <1>1. \A x, y, z \in Seq(Messages) : x \o y \o z \in Seq(Messages)
    BY ConcatProperties
  <1>2. Gone \in Seq(Messages) /\ Gone' \in Seq(Messages)
    BY <1>0, <1>1 DEF Gone
  <1>3. <<>> \in Seq(Messages) /\ Beat \in Messages /\ <<Beat>> \in Seq(Messages)
    BY MessageTypes
  <1>4. CASE WriterEvaluates
    <2>1. CASE connected /\ queue # <<>>
      <3>1. /\ frame = <<>> /\ frame' = <<Head(queue)>> /\ queue' = Tail(queue) /\ received' = received
        BY <1>4, <2>1 DEF WriterEvaluates, FrameInv, wireVars
      <3>2. frame' \o queue' = queue /\ frame \o queue = queue
        <4>1. Head(queue) \in Messages /\ Tail(queue) \in Seq(Messages)
              /\ Len(Tail(queue)) = Len(queue) - 1
              /\ \A i \in 1 .. Len(Tail(queue)) : Tail(queue)[i] = queue[i + 1]
          BY <1>0, <2>1, HeadTailProperties
        <4>2. <<Head(queue)>> \o Tail(queue) = queue
          BY <1>0, <2>1, <4>1
        <4> QED BY <1>0, <3>1, <4>2, ConcatEmptySeq
      <3>3. Gone = received \o (frame \o queue) /\ Gone' = received' \o (frame' \o queue')
        <4>1. Gone = received \o (frame \o queue)
          <5>1. received \in Seq(Messages) /\ frame \in Seq(Messages) /\ queue \in Seq(Messages)
            BY <1>0
          <5>2. received \o frame \o queue = received \o (frame \o queue)
            BY <5>1, ThreeParts
          <5> QED BY <5>2 DEF Gone
        <4>2. Gone' = received' \o (frame' \o queue')
          BY <1>0, ThreeParts DEF Gone
        <4> QED BY <4>1, <4>2
      <3> QED BY <1>2, <3>1, <3>2, <3>3 DEF BeatApart
    <2>2. CASE ~(connected /\ queue # <<>>)
      <3>1. UNCHANGED <<received, frame, queue>>
        BY <1>4, <2>2 DEF WriterEvaluates, wireVars
      <3> QED BY <1>2, <3>1 DEF Gone, BeatApart
    <2> QED BY <2>1, <2>2
  <1>5. CASE WriterWrites
    <2>1. frame' = <<>> /\ queue' = queue
      BY <1>5 DEF WriterWrites
    <2>2. CASE frame = <<Beat>>
      <3>1. Gone = (received \o <<Beat>>) \o queue /\ received' = received
        BY <1>5, <2>2 DEF Gone, WriterWrites
      <3>2. Gone' = received \o queue
        BY <1>0, <2>1, <3>1, ConcatEmptySeq DEF Gone
      <3> QED BY <1>0, <1>2, <3>1, <3>2 DEF BeatApart
    <2>3. CASE frame # <<Beat>>
      <3>1. received' = received \o frame /\ received' \in Seq(Messages)
        BY <1>0, <1>5, <2>3 DEF WriterWrites
      <3>2. Gone' = Gone
        BY <1>0, <2>1, <3>1, ConcatEmptySeq DEF Gone
      <3> QED BY <1>2, <3>2 DEF BeatApart
    <2> QED BY <2>2, <2>3
  <1>6. CASE BeatSends
    <2>1. received' = received /\ frame' = frame /\ queue' = IF queue = <<>> THEN <<Beat>> ELSE queue
      BY <1>6 DEF BeatSends, wireVars
    <2>2. CASE queue = <<>>
      <3> DEFINE a == received \o frame
      <3>1. a \in Seq(Messages) /\ Gone = a \o <<>> /\ Gone' = a \o <<Beat>>
        BY <1>0, <2>1, <2>2, ConcatProperties DEF Gone
      <3>2. Gone' = (a \o <<Beat>>) \o <<>>
        BY <1>2, <3>1, ConcatEmptySeq
      <3> HIDE DEF a
      <3> QED BY <1>2, <1>3, <3>1, <3>2 DEF BeatApart
    <2>3. CASE queue # <<>>
      BY <1>2, <2>1, <2>3 DEF Gone, BeatApart
    <2> QED BY <2>2, <2>3
  <1>7. ASSUME UNCHANGED <<received, frame, queue>>
        PROVE  BeatApart(Gone, Gone')
    BY <1>7 DEF Gone, BeatApart
  <1>8. CASE MainStep
    <2>1. UNCHANGED <<received, frame, queue>>
      BY <1>8 DEF MainStep, Start, StartConnects, StartFails, Handshake, SetConnected, FlushTake, FlushThrows,
           FlushEnds, Ready, TakeCommand, Reply, LeaveLoop, Goodbye, Leave, Stop, StopExchange, StopClose,
           StopNotify, StopJoin, Say, Goes, ioVars, netVars, wireVars
    <2> QED BY <1>2, <1>7, <2>1
  <1>9. CASE WorkerSends \/ (\E s \in Senders : SinkStep(s))
    <2>1. UNCHANGED <<received, frame, queue>>
      BY <1>9 DEF WorkerSends, SinkStep, SendThrows, BufferMessage, ioVars, netVars, wireVars
    <2> QED BY <1>2, <1>7, <2>1
  <1>10. CASE Writer /\ ~WriterEvaluates /\ ~WriterWrites
    <2>1. UNCHANGED <<received, frame, queue>>
      BY <1>10 DEF Writer, WriterSleeps, WriterAborts, WriterFails, NotifyError, wireVars
    <2> QED BY <1>2, <1>7, <2>1
  <1>11. CASE Reader \/ (Heartbeat /\ ~BeatSends)
    <2>1. UNCHANGED <<received, frame, queue>>
      BY <1>11 DEF Reader, ReaderTop, ReaderGets, ReaderFails, ReaderLeaves, NotifyError, Heartbeat, BeatTop,
                   wireVars
    <2> QED BY <1>2, <1>7, <2>1
  <1>12. CASE Peer \/ UNCHANGED vars
    <2>1. UNCHANGED <<received, frame, queue>>
      BY <1>12 DEF Peer, PeerWrites, PeerCloses, engineVars, vars, ioVars, netVars, wireVars
    <2> QED BY <1>2, <1>7, <2>1
  <1> QED BY <1>2, <1>4, <1>5, <1>6, <1>8, <1>9, <1>10, <1>11, <1>12 DEF Next, Engine, Heartbeat

\* What a send adds: the only message of the flush, or one in a sender's hand.
LEMMA GoneGrows ==
    ASSUME IInv, PhaseInv,
           FlushSend \/ \E s \in Senders : SendDirect(s)
    PROVE  /\ Gone \in Seq(Messages) /\ Gone' \in Seq(Messages)
           /\ FlushSend => pending = <<First>> /\ pending' = <<>> /\ Gone' = Gone \o <<First>>
           /\ \A s \in Senders : SendDirect(s) =>
                 pending = <<>> /\ pending' = <<>> /\ Gone' = Gone \o <<<<s, sent[s]>>>>
  <1> USE DEF IInv
  <1>1. received \in Seq(Messages) /\ frame \in Seq(Messages) /\ queue \in Seq(Messages)
    BY DEF TypeOK
  <1>2. Gone \in Seq(Messages)
    BY <1>1, ConcatProperties DEF Gone
  <1>3. ASSUME NEW m \in Messages, Enqueue(m), UNCHANGED received
        PROVE  Gone' = Gone \o <<m>> /\ Gone' \in Seq(Messages)
    <2>1. queue' = queue \o <<m>> /\ frame' = frame /\ <<m>> \in Seq(Messages)
      BY <1>1, <1>3, AppendIsConcat DEF Enqueue
    <2>2. received \o frame \in Seq(Messages)
      BY <1>1, ConcatProperties
    <2>3. Gone' = (received \o frame) \o (queue \o <<m>>)
      BY <1>3, <2>1 DEF Gone
    <2>4. Gone' = Gone \o <<m>>
      <3> DEFINE sentOff == received \o frame
      <3>1. sentOff \in Seq(Messages) /\ queue \in Seq(Messages) /\ <<m>> \in Seq(Messages)
        BY <1>1, <2>1, <2>2
      <3>2. Gone = sentOff \o queue /\ Gone' = sentOff \o (queue \o <<m>>)
        BY <2>3 DEF Gone
      <3> HIDE DEF sentOff
      <3>3. sentOff \o queue \o <<m>> = sentOff \o (queue \o <<m>>)
        BY <3>1, ThreeParts
      <3> QED BY <3>2, <3>3
    <2> QED BY <1>2, <2>1, <2>4, ConcatProperties
  <1>4. CASE FlushSend
    <2>1. pending = <<First>> /\ Head(pending) = First /\ pending' = <<>> /\ First \in Messages
      <3>1. pending = <<First>>
        BY <1>4 DEF FlushSend, PhaseInv
      <3>2. First \in Messages
        BY MessageTypes DEF First, Senders
      <3> QED BY <1>4, <3>1, <3>2 DEF FlushSend
    <2>2. main = "flushing" /\ \A s \in Senders : ~SendDirect(s)
      BY <1>4 DEF FlushSend, PhaseInv, SendDirect, Senders, Booting
    <2> QED BY <1>2, <1>3, <1>4, <2>1, <2>2 DEF FlushSend, netVars, wireVars
  <1>5. ASSUME NEW s \in Senders, SendDirect(s)
        PROVE  /\ pending = <<>> /\ pending' = <<>> /\ Gone' = Gone \o <<<<s, sent[s]>>>>
               /\ Gone' \in Seq(Messages) /\ ~FlushSend
    <2>1. <<s, sent[s]>> \in Messages /\ Enqueue(<<s, sent[s]>>) /\ UNCHANGED <<received, pending>>
      BY <1>5, MessageTypes DEF SendDirect, TypeOK, netVars, wireVars
    <2>2. main # "flushing" /\ pending = <<>>
      BY <1>5 DEF SendDirect, PhaseInv, Senders, Booting
    <2> QED BY <1>3, <2>1, <2>2 DEF FlushSend
  <1> QED BY <1>2, <1>4, <1>5

\* The flush and the sink, when nothing new goes out.
LEMMA LeadRest ==
    ASSUME IInv, PhaseInv, FrameInv, LeadInv, [Next]_vars,
           ~FlushSend, \A s \in Senders : ~SendDirect(s),
           UNCHANGED pending,
           sink'.connected => sink.connected \/ main' \in Booting \ {"flushing"},
           \A s \in Senders : sending'[s] = "direct" => sending[s] = "direct" \/ sink.connected,
           \/ main' = main
           \/ main \in Before /\ main' \in Before \cup {"connect"}
           \/ main = "connect" /\ main' = "flush"
           \/ main \notin Booting \ {"flushing"} /\ main' \notin Booting
    PROVE  LeadInv'
  <1>1. /\ Gone \in Seq(Messages) /\ Gone' \in Seq(Messages)
        /\ (Beats(Gone') <=> Beats(Gone)) /\ (Led(Gone') <=> Led(Gone))
    BY GoneMoves, BeatMakesNoDifference
  <1>2. pending = <<>> => Accepted = Gone /\ Accepted' = Gone'
    BY <1>1, ConcatEmptySeq DEF Accepted, Gone
  <1>3. main \in Booting \ {"flushing"} => pending = <<>>
    BY DEF PhaseInv
  <1>4. main' \in Booting \ {"flushing"} <=> main \in Booting \ {"flushing"}
    BY DEF Before, Booting
  <1>5. CASE pending # <<>>
    BY <1>1, <1>3, <1>4, <1>5 DEF LeadInv
  <1>6. CASE pending = <<>>
    BY <1>1, <1>2, <1>4, <1>6 DEF LeadInv
  <1> QED BY <1>5, <1>6

\* Every step keeps LeadInv.
LEMMA LeadKeeps ==
    ASSUME IInv, PhaseInv, FrameInv, LeadInv, [Next]_vars
    PROVE  LeadInv'
  <1> USE DEF IInv
  <1>1. CASE FlushSend
    <2>1. pending = <<First>> /\ pending' = <<>> /\ Gone \in Seq(Messages) /\ Gone' \in Seq(Messages)
          /\ Gone' = Gone \o <<First>> /\ main' = "flushing"
      BY <1>1, GoneGrows DEF FlushSend, PhaseInv
    <2>2. First \in Messages /\ Beats(Gone)
      BY <2>1, MessageTypes DEF First, Senders, LeadInv
    <2>3. Led(Gone')
      BY <2>1, <2>2, OneMessage, LedConcat
    <2>4. Accepted' = Gone'
      BY <2>1, ConcatEmptySeq DEF Accepted, Gone
    <2> QED BY <2>1, <2>3, <2>4 DEF LeadInv
  <1>2. CASE \E s \in Senders : SendDirect(s)
    <2>1. PICK s \in Senders : SendDirect(s)
      BY <1>2
    <2> DEFINE m == <<s, sent[s]>>
    <2>2. pending = <<>> /\ pending' = <<>> /\ Gone \in Seq(Messages) /\ Gone' \in Seq(Messages)
          /\ Gone' = Gone \o <<m>> /\ main' = main /\ sending[s] = "direct"
      BY <2>1, GoneGrows DEF SendDirect
    <2>3. m \in Messages /\ <<m>> \in Seq(Messages)
      BY MessageTypes DEF TypeOK
    <2>4. Accepted = Gone /\ Accepted' = Gone'
      BY <2>2, ConcatEmptySeq DEF Accepted, Gone
    <2>5. main \notin Booting
      BY <2>1 DEF SendDirect, PhaseInv, Senders, Before, Booting
    <2>6. Led(Gone)
      BY <2>2, <2>4, <2>5 DEF LeadInv
    <2> HIDE DEF m
    <2>7. Led(Gone')
      BY <2>2, <2>3, <2>6, LedConcat
    <2> QED BY <2>2, <2>4, <2>5, <2>7 DEF LeadInv
  <1>3. CASE FlushTake \/ FlushThrows
    <2>1. /\ Gone \in Seq(Messages) /\ Gone' \in Seq(Messages) /\ (Beats(Gone') <=> Beats(Gone))
          /\ main' = "flushing"
      <3>1. \A s \in Senders : sending[s] = "idle"
        BY <1>3 DEF FlushTake, FlushThrows, PhaseInv, Senders, Booting
      <3>2. ~FlushSend
        <4>1. throws \in Nat /\ throws + 1 # throws
          BY DEF TypeOK
        <4>2. CASE FlushTake
          BY <4>2 DEF FlushTake, FlushSend
        <4>3. CASE FlushThrows
          BY <4>1, <4>3 DEF FlushThrows, FlushSend
        <4> QED BY <1>3, <4>2, <4>3
      <3> QED BY <1>3, <3>1, <3>2, GoneMoves, BeatMakesNoDifference DEF FlushTake, FlushThrows, SendDirect
    <2>2. CASE FlushTake
      <3>1. Accepted = Gone /\ main = "flush"
        <4>1. pending = <<>> /\ main = "flush"
          BY <2>2 DEF FlushTake, PhaseInv
        <4> QED BY <2>1, <4>1, ConcatEmptySeq DEF Accepted, Gone
      <3>2. Beats(Gone)
        BY <3>1 DEF LeadInv, Booting
      <3>3. pending' # <<>>
        <4>1. sink.buffer = <<First>> /\ sink.dropped = 0
          BY <2>2 DEF FlushTake, PhaseInv, Booting
        <4>2. pending' = <<>> \o <<First>>
          BY <2>2, <4>1 DEF FlushTake
        <4> QED BY <4>2
      <3> QED BY <2>1, <3>2, <3>3 DEF LeadInv
    <2>3. CASE FlushThrows
      <3>1. Beats(Gone) /\ pending' = <<>> /\ ~sink'.connected
        BY <2>3 DEF FlushThrows, LeadInv, TypeOK, Sinks
      <3>2. Accepted' = Gone'
        BY <2>1, <3>1, ConcatEmptySeq DEF Accepted, Gone
      <3>3. \A s \in Senders : sending'[s] # "direct"
        BY <2>3 DEF FlushThrows, PhaseInv, Senders, Booting
      <3> QED BY <2>1, <3>1, <3>2, <3>3 DEF LeadInv
    <2> QED BY <1>3, <2>2, <2>3
  <1>4. CASE ~FlushSend /\ ~FlushTake /\ ~FlushThrows /\ \A s \in Senders : ~SendDirect(s)
    <2>1. UNCHANGED pending
      BY <1>4 DEF Next, Engine, MainStep, Start, StartConnects, StartFails, Handshake, SetConnected,
           FlushEnds, Ready, TakeCommand, Reply, LeaveLoop, Goodbye, Leave, Stop, StopExchange, StopClose,
           StopNotify, StopJoin, Say, Goes, Begin, WorkerSends, SinkStep, SendThrows, BufferMessage,
           Writer, WriterEvaluates, WriterSleeps, WriterAborts, WriterWrites, WriterFails, NotifyError,
           Reader, ReaderTop, ReaderGets, ReaderFails, ReaderLeaves, Heartbeat, BeatTop, BeatSends,
           Peer, PeerWrites, PeerCloses, engineVars, vars, sinkVars, threadRest
    <2>2. CASE MainStep
      <3>1. CASE Handshake \/ Ready \/ Reply \/ Goodbye
        <4>1. /\ Begin("main")
              /\ \/ main = "greet" /\ main' = "connect"
                 \/ main \notin Booting /\ main' \notin Booting
          BY <3>1 DEF Handshake, Ready, Reply, Goodbye, Say, Before, Booting
        <4>2. UNCHANGED sink
          BY <4>1 DEF Begin
        <4>3. \A s \in Senders : sending'[s] = "direct" => sending[s] = "direct" \/ sink.connected
          BY <4>1, PhaseNames DEF Begin, TypeOK
        <4> QED BY <1>4, <2>1, <4>1, <4>2, <4>3, LeadRest DEF Before
      <3>2. CASE SetConnected
        <4>1. UNCHANGED sending /\ main = "connect" /\ main' = "flush"
          BY <3>2 DEF SetConnected
        <4> QED BY <1>4, <2>1, <4>1, LeadRest DEF Before, Booting
      <3>3. CASE ~SetConnected /\ ~(Handshake \/ Ready \/ Reply \/ Goodbye)
        <4>1. UNCHANGED <<sink, sending>>
          BY <1>4, <2>2, <3>3 DEF MainStep, Start, StartConnects, StartFails, FlushEnds, TakeCommand, LeaveLoop,
             Leave, Stop, StopExchange, StopClose, StopNotify, StopJoin, Goes, sinkVars
        <4>2. \/ main' = main
              \/ main \in Before /\ main' \in Before
              \/ main \notin Booting \ {"flushing"} /\ main' \notin Booting
          BY <1>4, <2>2, <3>3 DEF MainStep, Start, StartConnects, StartFails, FlushEnds, TakeCommand, LeaveLoop,
             Leave, Stop, StopExchange, StopClose, StopNotify, StopJoin, Goes, Before, Booting
        <4> QED BY <1>4, <2>1, <4>1, <4>2, LeadRest
      <3> QED BY <3>1, <3>2, <3>3
    <2>3. CASE WorkerSends
      <3>1. Begin("worker") /\ main' = main /\ UNCHANGED sink
        BY <2>3 DEF WorkerSends, Begin
      <3>2. \A s \in Senders : sending'[s] = "direct" => sending[s] = "direct" \/ sink.connected
        BY <3>1, PhaseNames DEF Begin, TypeOK
      <3> QED BY <1>4, <2>1, <3>1, <3>2, LeadRest
    <2>4. CASE \E s \in Senders : SinkStep(s)
      <3>1. PICK s \in Senders : SendThrows(s) \/ BufferMessage(s)
        BY <1>4, <2>4 DEF SinkStep
      <3>2. main' = main /\ \A t \in Senders : sending'[t] = "direct" => sending[t] = "direct"
        BY <3>1 DEF SendThrows, BufferMessage, TypeOK
      <3>3. sink'.connected => sink.connected
        <4>1. CASE SendThrows(s)
          BY <4>1 DEF SendThrows, TypeOK, Sinks
        <4>2. CASE BufferMessage(s)
          <5>1. <<s, sent[s]>> \in Messages /\ sink' = Buffered(sink, <<s, sent[s]>>)
            BY <4>2, MessageTypes DEF BufferMessage, TypeOK
          <5> QED BY <5>1, BufferedIs
        <4> QED BY <3>1, <4>1, <4>2
      <3> QED BY <1>4, <2>1, <3>2, <3>3, LeadRest
    <2>5. CASE Writer \/ Reader \/ Heartbeat \/ Peer \/ UNCHANGED vars
      <3>1. UNCHANGED <<main, sink, sending>>
        BY <2>5 DEF Writer, WriterEvaluates, WriterSleeps, WriterAborts, WriterWrites, WriterFails, NotifyError,
           Reader, ReaderTop, ReaderGets, ReaderFails, ReaderLeaves, Heartbeat, BeatTop, BeatSends,
           Peer, PeerWrites, PeerCloses, engineVars, vars, sinkVars, threadRest
      <3> QED BY <1>4, <2>1, <3>1, LeadRest
    <2> QED BY <2>2, <2>3, <2>4, <2>5 DEF Next, Engine
  <1> QED BY <1>1, <1>2, <1>3, <1>4

\* What has been sent: the numbers of every sender up to the last; no heartbeat.
LEMMA SentMessages ==
    /\ \A m : m \in Sent <=> \E s \in Senders : \E n \in 1 .. sent[s] : m = <<s, n>>
    /\ \A s \in Senders : \A n : <<s, n>> \in Sent <=> n \in 1 .. sent[s]
    /\ Beat \notin Sent
  <1>1. \A m : m \in Sent <=> \E s \in Senders : \E n \in 1 .. sent[s] : m = <<s, n>>
    BY DEF Sent
  <1> QED BY <1>1 DEF Beat, Senders

\* Nothing is sent and nothing counted: what is in hand is the same, and what is
\* in the queues is the same but for heartbeats.
LEMMA KeptRest ==
    ASSUME KeptInv, UNCHANGED sent, InHand' = InHand, sink'.dropped = sink.dropped,
           InOrder(Output'), Elems(Output') \cup {Beat} = Elems(Output) \cup {Beat},
           Elems(Accepted') \subseteq (Sent \ InHand) \cup {Beat},
           Elems(sink'.buffer) \subseteq Sent \ InHand
    PROVE  KeptInv'
  <1>1. Sent' = Sent
    BY DEF Sent
  <1>2. Missing = Sent \ (InHand \cup Elems(Output)) /\ Missing' = Sent' \ (InHand' \cup Elems(Output'))
    BY DEF Missing, Elems
  <1>3. Missing' = Missing
    BY <1>1, <1>2, SentMessages
  <1> QED BY <1>1, <1>3 DEF KeptInv

\* What the parts of the output are.
LEMMA OutputParts ==
    ASSUME IInv, [Next]_vars
    PROVE  /\ Gone \in Seq(Messages) /\ pending \in Seq(Messages) /\ sink.buffer \in Seq(Messages)
           /\ Accepted \in Seq(Messages) /\ Accepted = Gone \o pending /\ Output = Accepted \o sink.buffer
           /\ Gone' \in Seq(Messages) /\ pending' \in Seq(Messages) /\ sink'.buffer \in Seq(Messages)
           /\ Accepted' \in Seq(Messages) /\ Accepted' = Gone' \o pending'
           /\ Output' = Accepted' \o sink'.buffer
  <1>1. TypeOK /\ TypeOK'
    BY NextKeeps DEF IInv
  <1>2. /\ received \in Seq(Messages) /\ frame \in Seq(Messages) /\ queue \in Seq(Messages)
        /\ pending \in Seq(Messages) /\ sink.buffer \in Seq(Messages)
    BY <1>1 DEF TypeOK, Sinks
  <1>3. /\ received' \in Seq(Messages) /\ frame' \in Seq(Messages) /\ queue' \in Seq(Messages)
        /\ pending' \in Seq(Messages) /\ sink'.buffer \in Seq(Messages)
    BY <1>1 DEF TypeOK, Sinks
  <1>4. Gone \in Seq(Messages) /\ Gone' \in Seq(Messages)
    <2>1. Gone \in Seq(Messages)
      BY <1>2, ConcatProperties DEF Gone
    <2>2. Gone' \in Seq(Messages)
      BY <1>3, ConcatProperties DEF Gone
    <2> QED BY <2>1, <2>2
  <1>5. Accepted = Gone \o pending /\ Accepted' = Gone' \o pending'
    BY DEF Accepted, Gone
  <1> QED BY <1>2, <1>3, <1>4, <1>5, ConcatProperties DEF Output

\* The elements of what has left the sink, and of all the output.
LEMMA OutputElems ==
    ASSUME IInv, [Next]_vars
    PROVE  /\ Elems(Accepted) = Elems(Gone) \cup Elems(pending)
           /\ Elems(Accepted') = Elems(Gone') \cup Elems(pending')
           /\ Elems(Output) = Elems(Accepted) \cup Elems(sink.buffer)
           /\ Elems(Output') = Elems(Accepted') \cup Elems(sink'.buffer)
  <1>1. Elems(Accepted) = Elems(Gone) \cup Elems(pending)
    <2>1. Gone \in Seq(Messages) /\ pending \in Seq(Messages) /\ Accepted = Gone \o pending
      BY OutputParts
    <2> QED BY <2>1, ElemsConcat
  <1>2. Elems(Accepted') = Elems(Gone') \cup Elems(pending')
    <2>1. Gone' \in Seq(Messages) /\ pending' \in Seq(Messages) /\ Accepted' = Gone' \o pending'
      BY OutputParts
    <2> QED BY <2>1, ElemsConcat
  <1>3. Elems(Output) = Elems(Accepted) \cup Elems(sink.buffer)
    <2>1. /\ Accepted \in Seq(Messages) /\ sink.buffer \in Seq(Messages)
          /\ Output = Accepted \o sink.buffer
      BY OutputParts
    <2> QED BY <2>1, ElemsConcat
  <1>4. Elems(Output') = Elems(Accepted') \cup Elems(sink'.buffer)
    <2>1. /\ Accepted' \in Seq(Messages) /\ sink'.buffer \in Seq(Messages)
          /\ Output' = Accepted' \o sink'.buffer
      BY OutputParts
    <2> QED BY <2>1, ElemsConcat
  <1> QED BY <1>1, <1>2, <1>3, <1>4

\* Only heartbeats come and go.
LEMMA KeptBeat ==
    ASSUME IInv, FrameInv, KeptInv, [Next]_vars, ~FlushSend, \A s \in Senders : ~SendDirect(s),
           UNCHANGED <<sent, pending>>, InHand' = InHand, sink'.buffer = sink.buffer,
           sink'.dropped = sink.dropped
    PROVE  KeptInv'
  <1>1. Elems(Gone) \cup {Beat} = Elems(Gone') \cup {Beat} /\ (InOrder(Gone) <=> InOrder(Gone'))
    BY GoneMoves, BeatMakesNoDifference
  <1>2. /\ Elems(Accepted) = Elems(Gone) \cup Elems(pending)
        /\ Elems(Accepted') = Elems(Gone') \cup Elems(pending)
        /\ Elems(Output) = Elems(Accepted) \cup Elems(sink.buffer)
        /\ Elems(Output') = Elems(Accepted') \cup Elems(sink.buffer)
    BY OutputElems
  <1>3. InOrder(Output')
    <2>1. InOrder(Output) /\ Beat[1] \notin Senders
      BY DEF KeptInv, Beat, Senders
    <2>2. InOrder(Accepted) /\ InOrder(sink.buffer) /\ Precedes(Accepted, sink.buffer)
      <3>1. /\ Accepted \in Seq(Messages) /\ sink.buffer \in Seq(Messages)
            /\ InOrder(Accepted \o sink.buffer)
        BY <2>1, OutputParts
      <3> QED BY <3>1, InOrderConcat
    <2>3. InOrder(Gone) /\ InOrder(pending) /\ Precedes(Gone, pending)
      <3>1. Gone \in Seq(Messages) /\ pending \in Seq(Messages) /\ InOrder(Gone \o pending)
        BY <2>2, OutputParts
      <3> QED BY <3>1, InOrderConcat
    <2>4. \A x \in Elems(Gone') : x \in Elems(Gone) \/ x = Beat
      BY <1>1
    <2>5. Precedes(Gone', pending) /\ InOrder(Gone')
      BY <1>1, <2>1, <2>3, <2>4 DEF Precedes
    <2>6. InOrder(Accepted')
      <3>1. /\ Gone' \in Seq(Messages) /\ pending \in Seq(Messages)
            /\ Accepted' = Gone' \o pending
        BY OutputParts
      <3> QED BY <2>3, <2>5, <3>1, InOrderConcat
    <2>7. Precedes(Accepted', sink.buffer)
      BY <1>2, <2>1, <2>2, <2>4 DEF Precedes
    <2>8. /\ Accepted' \in Seq(Messages) /\ sink.buffer \in Seq(Messages)
          /\ Output' = Accepted' \o sink.buffer
      BY OutputParts
    <2> QED BY <2>2, <2>6, <2>7, <2>8, InOrderConcat
  <1>4. /\ Elems(Accepted') \subseteq (Sent \ InHand) \cup {Beat}
        /\ Elems(Output') \cup {Beat} = Elems(Output) \cup {Beat}
    BY <1>1, <1>2 DEF KeptInv
  <1>5. Elems(sink'.buffer) \subseteq Sent \ InHand
    BY DEF KeptInv
  <1> QED BY <1>3, <1>4, <1>5, KeptRest

\* A sender numbers a message: it is in its hand, and nowhere else yet.
LEMMA KeptBegin ==
    ASSUME IInv, FrameInv, KeptInv, [Next]_vars, NEW s \in Senders, Begin(s),
           UNCHANGED <<received, frame, queue>>
    PROVE  KeptInv'
  <1> DEFINE m == <<s, sent[s] + 1>>
  <1>1. /\ sent[s] \in Nat /\ sending[s] = "idle"
        /\ sent' = [sent EXCEPT ![s] = sent[s] + 1]
        /\ sending'[s] # "idle" /\ \A t \in Senders \ {s} : sending'[t] = sending[t]
        /\ UNCHANGED <<sink, pending>> /\ sent \in [Senders -> Nat]
    BY DEF Begin, IInv, TypeOK
  <1>2. /\ sent'[s] = sent[s] + 1 /\ \A t \in Senders \ {s} : sent'[t] = sent[t]
    BY <1>1
  <1>3. Sent' = Sent \cup {m} /\ m \notin Sent
    <2>1. \A n : n \in 1 .. sent[s] + 1 <=> n \in 1 .. sent[s] \/ n = sent[s] + 1
      BY <1>1
    <2>2. Sent' = UNION {{<<t, n>> : n \in 1 .. sent'[t]} : t \in Senders}
      BY DEF Sent
    <2>3. \A x : x \in Sent' <=> \E t \in Senders : \E n \in 1 .. sent'[t] : x = <<t, n>>
      BY <2>2
    <2>4. ASSUME NEW x \in Sent' PROVE x \in Sent \cup {m}
      <3>1. PICK t \in Senders : \E n \in 1 .. sent'[t] : x = <<t, n>>
        BY <2>3, <2>4
      <3>2. CASE t = s
        BY <1>2, <2>1, <3>1, <3>2, SentMessages
      <3>3. CASE t # s
        BY <1>2, <3>1, <3>3, SentMessages
      <3> QED BY <3>2, <3>3
    <2>5. ASSUME NEW x \in Sent PROVE x \in Sent'
      <3>1. PICK t \in Senders : \E n \in 1 .. sent[t] : x = <<t, n>>
        BY <2>5, SentMessages
      <3>2. \A n \in 1 .. sent[t] : n \in 1 .. sent'[t]
        BY <1>2, <2>1
      <3> QED BY <2>3, <3>1, <3>2
    <2>6. m \in Sent'
      BY <1>1, <1>2, <2>3
    <2>7. m \notin Sent
      <3>1. sent[s] + 1 \notin 1 .. sent[s]
        BY <1>1
      <3> QED BY <3>1, SentMessages
    <2> QED BY <2>4, <2>5, <2>6, <2>7
  <1>4. InHand' = InHand \cup {m}
    BY <1>1, <1>2 DEF InHand
  <1> HIDE DEF m
  <1>5. Accepted' = Accepted /\ Output' = Output /\ sink' = sink
    BY <1>1 DEF Accepted, Output
  <1>6. Missing = Sent \ (InHand \cup Elems(Output)) /\ Missing' = Sent' \ (InHand' \cup Elems(Output'))
    BY DEF Missing, Elems
  <1>7. Missing' = Missing
    BY <1>3, <1>4, <1>5, <1>6
  <1>8. InHand' \subseteq Sent' /\ Sent' \ InHand' = Sent \ InHand
    BY <1>3, <1>4 DEF KeptInv
  <1> QED BY <1>5, <1>7, <1>8 DEF KeptInv

\* A sender's last message leaves its hand for the end of the queue or of the
\* buffer: it comes after all of this sender's.
LEMMA HandIsLast ==
    ASSUME IInv, KeptInv, NEW s \in Senders, sending[s] # "idle"
    PROVE  /\ <<s, sent[s]>> \in Sent \cap InHand
           /\ \A x \in Sent \ InHand : x[1] = s => x[2] < sent[s]
           /\ (sending' = [sending EXCEPT ![s] = "idle"] /\ sent' = sent)
                  => InHand' = InHand \ {<<s, sent[s]>>}
  <1>1. sent[s] \in Nat /\ sending \in [Senders -> SendStates]
    BY DEF IInv, TypeOK
  <1>2. <<s, sent[s]>> \in InHand
    BY DEF InHand
  <1>3. ASSUME NEW x \in Sent \ InHand, x[1] = s PROVE x[2] < sent[s]
    <2>1. PICK n \in 1 .. sent[s] : x = <<s, n>>
      BY <1>3, SentMessages
    <2>2. n # sent[s]
      BY <1>2, <1>3, <2>1
    <2> QED BY <1>1, <2>1, <2>2
  <1>4. ASSUME sending' = [sending EXCEPT ![s] = "idle"], sent' = sent
        PROVE  InHand' = InHand \ {<<s, sent[s]>>}
    <2>1. {t \in Senders : sending'[t] # "idle"} = {t \in Senders : sending[t] # "idle"} \ {s}
      BY <1>1, <1>4
    <2>2. InHand' = {<<t, sent[t]>> : t \in {t \in Senders : sending'[t] # "idle"}}
      BY <1>4 DEF InHand
    <2> QED BY <2>1, <2>2 DEF InHand
  <1> QED BY <1>2, <1>3, <1>4 DEF KeptInv

\* Bridge::send takes the message in hand to the end of the queue; the sender
\* has nothing in the buffer behind it.
LEMMA KeptDirect ==
    ASSUME IInv, PhaseInv, KeptInv, [Next]_vars, NEW s \in Senders, SendDirect(s)
    PROVE  KeptInv'
  <1> DEFINE m == <<s, sent[s]>>
  <1>1. /\ sending[s] = "direct" /\ sent' = sent /\ sink' = sink
        /\ sending' = [sending EXCEPT ![s] = "idle"]
    BY DEF SendDirect
  <1>2. /\ m \in Sent \cap InHand /\ InHand' = InHand \ {m}
        /\ \A x \in Sent \ InHand : x[1] = s => x[2] < sent[s]
    BY <1>1, HandIsLast
  <1>3. /\ Gone' = Gone \o <<m>> /\ pending = <<>> /\ pending' = <<>>
        /\ m \in Messages /\ m[1] = s /\ m[2] = sent[s] /\ m # Beat
    BY GoneGrows, MessageTypes DEF IInv, TypeOK, Beat, Senders
  <1> HIDE DEF m
  <1>4. Accepted = Gone /\ Accepted' = Accepted \o <<m>> /\ <<m>> \in Seq(Messages)
    <2>1. /\ Gone \in Seq(Messages) /\ Accepted = Gone \o pending
          /\ Gone' \in Seq(Messages) /\ Accepted' = Gone' \o pending'
      BY OutputParts
    <2>2. Gone \o <<>> = Gone /\ Gone' \o <<>> = Gone'
      BY <2>1, ConcatEmptySeq
    <2> QED BY <1>3, <2>1, <2>2, OneMessage
  <1>5. Elems(Accepted') = Elems(Accepted) \cup {m}
    <2>1. Accepted \in Seq(Messages) /\ Elems(<<m>>) = {m}
      BY <1>3, OutputParts, OneMessage
    <2> QED BY <1>4, <2>1, ElemsConcat
  <1>6. /\ Elems(Output) = Elems(Accepted) \cup Elems(sink.buffer)
        /\ Elems(Output') = Elems(Accepted') \cup Elems(sink.buffer)
    BY <1>1, OutputElems
  <1>7. InOrder(Output')
    <2>1. InOrder(Accepted) /\ InOrder(sink.buffer) /\ Precedes(Accepted, sink.buffer)
      BY OutputParts, InOrderConcat DEF KeptInv
    <2>2. Beat[1] # s
      BY DEF Beat, Senders
    <2>3. Precedes(Accepted, <<m>>)
      BY <1>2, <1>3, <2>2, OneMessage DEF Precedes, KeptInv
    <2>4. InOrder(Accepted')
      BY <1>3, <1>4, <2>1, <2>3, OneMessage, OutputParts, InOrderConcat
    <2>5. \A y \in Elems(sink.buffer) : y[1] # s
      BY <1>1 DEF Elems, PhaseInv
    <2>6. Precedes(Accepted', sink.buffer)
      BY <1>3, <1>5, <2>1, <2>5 DEF Precedes
    <2> QED BY <1>1, <2>1, <2>4, <2>6, OutputParts, InOrderConcat
  <1>8. Sent' = Sent
    BY <1>1 DEF Sent
  <1>9. Missing = Sent \ (InHand \cup Elems(Output)) /\ Missing' = Sent' \ (InHand' \cup Elems(Output'))
    BY DEF Missing, Elems
  <1>10. Missing' = Missing
    BY <1>2, <1>5, <1>6, <1>8, <1>9
  <1>11. /\ Elems(Accepted') \subseteq (Sent \ InHand') \cup {Beat}
         /\ Elems(sink.buffer) \subseteq Sent \ InHand' /\ InHand' \subseteq Sent
    BY <1>2, <1>5 DEF KeptInv
  <1> QED BY <1>1, <1>7, <1>8, <1>10, <1>11 DEF KeptInv

\* A non-empty sequence is its head and its tail.
LEMMA HeadAndTail ==
    ASSUME NEW q \in Seq(Messages), q # <<>>
    PROVE  /\ Head(q) \in Messages /\ <<Head(q)>> \in Seq(Messages) /\ Tail(q) \in Seq(Messages)
           /\ q = <<Head(q)>> \o Tail(q)
  <1>1. Head(q) \in Messages /\ Tail(q) \in Seq(Messages)
        /\ Len(Tail(q)) = Len(q) - 1
        /\ \A i \in 1 .. Len(Tail(q)) : Tail(q)[i] = q[i + 1]
    BY HeadTailProperties
  <1>2. <<Head(q)>> \o Tail(q) = q
    BY <1>1
  <1> QED BY <1>1, <1>2

\* The sink keeps the message in hand at the end of its buffer; at the limit
\* the oldest makes room and is counted.
LEMMA KeptBuffer ==
    ASSUME IInv, PhaseInv, FrameInv, KeptInv, [Next]_vars, NEW s \in Senders, BufferMessage(s)
    PROVE  KeptInv'
  <1> DEFINE m == <<s, sent[s]>>
  <1> DEFINE k == sink.buffer
  <1>1. /\ sending[s] = "buffer" /\ sent' = sent /\ sink' = Buffered(sink, m)
        /\ sending' = [sending EXCEPT ![s] = "idle"]
        /\ UNCHANGED <<pending, received, frame, queue>>
    BY DEF BufferMessage, ioVars, netVars, wireVars
  <1>2. /\ m \in Sent \cap InHand /\ InHand' = InHand \ {m}
        /\ \A x \in Sent \ InHand : x[1] = s => x[2] < sent[s]
    BY <1>1, HandIsLast
  <1>3. /\ m \in Messages /\ m[1] = s /\ m[2] = sent[s] /\ Beat[1] # s
    BY MessageTypes DEF IInv, TypeOK, Beat, Senders
  <1>4. \/ sink'.buffer = Append(k, m) /\ sink'.dropped = sink.dropped
        \/ k # <<>> /\ sink'.buffer = Append(Tail(k), m) /\ sink'.dropped = sink.dropped + 1
    BY <1>1, <1>3, BufferedIs DEF IInv
  <1>5. k \in Seq(Messages) /\ Accepted \in Seq(Messages) /\ Output = Accepted \o k
        /\ sink'.buffer \in Seq(Messages) /\ Output' = Accepted' \o sink'.buffer
    BY OutputParts
  <1>6. Accepted' = Accepted
    BY <1>1 DEF Accepted
  <1> HIDE DEF m, k
  <1>7. InOrder(Accepted) /\ InOrder(k) /\ Precedes(Accepted, k)
    BY <1>5, InOrderConcat DEF KeptInv
  <1>8. Elems(Output) = Elems(Accepted) \cup Elems(k)
    BY OutputElems DEF k
  <1>9. /\ Elems(k) \subseteq Sent \ InHand /\ Elems(Accepted) \subseteq (Sent \ InHand) \cup {Beat}
        /\ InHand \subseteq Sent /\ IsFiniteSet(Missing) /\ Cardinality(Missing) = sink.dropped
    BY DEF KeptInv, k
  <1>10. Sent' = Sent
    BY <1>1 DEF Sent
  <1>11. Missing = Sent \ (InHand \cup Elems(Output)) /\ Missing' = Sent' \ (InHand' \cup Elems(Output'))
    BY DEF Missing, Elems
  <1>12. ASSUME NEW b \in Seq(Messages), InOrder(b), Precedes(Accepted, b), Elems(b) \subseteq Elems(k),
                sink'.buffer = Append(b, m)
         PROVE  /\ Elems(sink'.buffer) = Elems(b) \cup {m}
                /\ Elems(Output') = Elems(Accepted) \cup Elems(b) \cup {m}
                /\ InOrder(Output')
                /\ InHand' \subseteq Sent'
                /\ Elems(Accepted') \subseteq (Sent' \ InHand') \cup {Beat}
                /\ Elems(sink'.buffer) \subseteq Sent' \ InHand'
    <2>1. sink'.buffer = b \o <<m>> /\ <<m>> \in Seq(Messages) /\ Elems(<<m>>) = {m} /\ InOrder(<<m>>)
      BY <1>3, <1>12, OneMessage, AppendIsConcat
    <2>2. Elems(sink'.buffer) = Elems(b) \cup {m}
      BY <2>1, <1>12, ElemsConcat
    <2>3. Elems(Output') = Elems(Accepted') \cup Elems(sink'.buffer)
      BY OutputElems
    <2>4. Precedes(b, <<m>>) /\ Precedes(Accepted, <<m>>)
      BY <1>2, <1>3, <1>9, <1>12, <2>1 DEF Precedes
    <2>5. InOrder(sink'.buffer)
      BY <1>12, <2>1, <2>4, InOrderConcat
    <2>6. Precedes(Accepted, sink'.buffer)
      BY <1>12, <2>1, <2>2, <2>4 DEF Precedes
    <2>7. InOrder(Output')
      BY <1>5, <1>6, <1>7, <2>5, <2>6, InOrderConcat
    <2>8. /\ InHand' \subseteq Sent'
          /\ Elems(Accepted') \subseteq (Sent' \ InHand') \cup {Beat}
          /\ Elems(sink'.buffer) \subseteq Sent' \ InHand'
      BY <1>2, <1>6, <1>9, <1>10, <1>12, <2>2
    <2> QED BY <1>6, <2>2, <2>3, <2>7, <2>8
  <1>13. CASE sink'.buffer = Append(k, m) /\ sink'.dropped = sink.dropped
    <2>1. /\ Elems(Output') = Elems(Accepted) \cup Elems(k) \cup {m} /\ InOrder(Output')
          /\ InHand' \subseteq Sent' /\ Elems(Accepted') \subseteq (Sent' \ InHand') \cup {Beat}
          /\ Elems(sink'.buffer) \subseteq Sent' \ InHand'
      BY <1>5, <1>7, <1>12, <1>13
    <2>2. Missing' = Missing
      BY <1>2, <1>8, <1>10, <1>11, <2>1
    <2> QED BY <1>9, <1>13, <2>1, <2>2 DEF KeptInv
  <1>14. CASE k # <<>> /\ sink'.buffer = Append(Tail(k), m) /\ sink'.dropped = sink.dropped + 1
    <2> DEFINE h == Head(k)
    <2> DEFINE t == Tail(k)
    <2>1. /\ h \in Messages /\ <<h>> \in Seq(Messages) /\ t \in Seq(Messages) /\ k = <<h>> \o t
      BY <1>5, <1>14, HeadAndTail
    <2> HIDE DEF h, t
    <2>2. InOrder(t) /\ Precedes(<<h>>, t) /\ Elems(<<h>>) = {h} /\ Elems(k) = {h} \cup Elems(t)
      BY <1>7, <2>1, OneMessage, InOrderConcat, ElemsConcat
    <2>3. Precedes(Accepted, t)
      BY <1>7, <2>2 DEF Precedes
    <2>4. /\ Elems(Output') = Elems(Accepted) \cup Elems(t) \cup {m} /\ InOrder(Output')
          /\ InHand' \subseteq Sent' /\ Elems(Accepted') \subseteq (Sent' \ InHand') \cup {Beat}
          /\ Elems(sink'.buffer) \subseteq Sent' \ InHand'
      BY <1>12, <1>14, <2>1, <2>2, <2>3 DEF t
    <2>5. h \in Sent \ InHand /\ h[1] \in Senders /\ ~(h[2] < h[2]) /\ h # m
      <3>1. h \in Sent \ InHand
        BY <1>9, <2>2
      <3>2. PICK r \in Senders : \E n \in 1 .. sent[r] : h = <<r, n>>
        BY <3>1, SentMessages
      <3>3. sent[r] \in Nat
        BY DEF IInv, TypeOK
      <3> QED BY <1>2, <3>1, <3>2, <3>3
    <2>6. h \notin Elems(t) /\ h \notin Elems(Accepted)
      BY <1>7, <2>2, <2>5 DEF Precedes
    <2>7. Missing' = Missing \cup {h} /\ h \notin Missing
      BY <1>2, <1>8, <1>10, <1>11, <2>2, <2>4, <2>5, <2>6
    <2>8. IsFiniteSet(Missing') /\ Cardinality(Missing') = Cardinality(Missing) + 1
      BY <1>9, <2>7, FS_AddElement
    <2> QED BY <1>9, <1>14, <2>4, <2>8 DEF KeptInv
  <1> QED BY <1>4, <1>13, <1>14

\* The flush moves the buffer to the queue, or back, as it is.
LEMMA KeptFlush ==
    ASSUME IInv, PhaseInv, FrameInv, KeptInv, [Next]_vars, FlushTake \/ FlushSend \/ FlushThrows
    PROVE  KeptInv'
  <1>1. UNCHANGED <<sent, sending>> /\ InHand' = InHand
    <2>1. sent' = sent /\ sending' = sending
      <3>1. CASE FlushTake
        BY <3>1 DEF FlushTake
      <3>2. CASE FlushSend
        BY <3>2 DEF FlushSend
      <3>3. CASE FlushThrows
        BY <3>3 DEF FlushThrows
      <3> QED BY <3>1, <3>2, <3>3
    <2> QED BY <2>1 DEF InHand
  <1>2. /\ Gone \in Seq(Messages) /\ Accepted = Gone \o pending /\ Output = Accepted \o sink.buffer
        /\ Accepted' = Gone' \o pending' /\ Output' = Accepted' \o sink'.buffer
        /\ Accepted \in Seq(Messages) /\ Accepted' \in Seq(Messages)
        /\ Elems(Output) = Elems(Accepted) \cup Elems(sink.buffer)
        /\ Elems(Output') = Elems(Accepted') \cup Elems(sink'.buffer)
    BY OutputParts, OutputElems
  <1>3. <<First>> \in Seq(Messages) /\ \A q \in Seq(Messages) : q \o <<>> = q
    BY MessageTypes, ConcatEmptySeq DEF First, Senders
  <1>4. CASE FlushSend
    <2>1. /\ pending = <<First>> /\ pending' = <<>> /\ Gone' = Gone \o <<First>>
          /\ sink' = sink /\ Gone' \in Seq(Messages)
      BY <1>4, GoneGrows DEF FlushSend
    <2>2. Accepted' = Accepted
      BY <1>2, <1>3, <2>1
    <2> QED BY <1>1, <1>2, <2>1, <2>2, KeptRest DEF KeptInv
  <1>5. CASE FlushTake
    <2>1. sink.buffer = <<First>> /\ sink.dropped = 0 /\ pending = <<>>
      BY <1>5 DEF FlushTake, PhaseInv, Booting
    <2>2. sink'.buffer = <<>> /\ sink'.dropped = 0
      BY <1>5 DEF FlushTake, IInv, TypeOK, Sinks
    <2>3. pending' = <<First>>
      <3>1. pending' = <<>> \o <<First>>
        BY <1>5, <2>1 DEF FlushTake
      <3> QED BY <1>3, <3>1, ConcatEmptySeq
    <2>4. Gone' = Gone
      BY <1>5 DEF FlushTake, Gone, ioVars, netVars, wireVars
    <2>5. Accepted = Gone /\ Accepted' = Gone \o <<First>> /\ Output' = Output
      BY <1>2, <1>3, <2>1, <2>2, <2>3, <2>4
    <2>6. /\ Elems(Accepted') \subseteq (Sent \ InHand) \cup {Beat}
          /\ Elems(sink'.buffer) \subseteq Sent \ InHand
      <3>1. Elems(Output') = Elems(Accepted) \cup Elems(sink.buffer) /\ Elems(sink'.buffer) = {}
        <4>1. Elems(<<>>) = {}
          BY MessageTypes, OneMessage
        <4> QED BY <1>2, <2>2, <2>5, <4>1
      <3> QED BY <1>2, <3>1 DEF KeptInv
    <2> QED BY <1>1, <2>1, <2>2, <2>5, <2>6, KeptRest DEF KeptInv
  <1>6. CASE FlushThrows
    <2>1. sink.buffer = <<>> /\ pending = <<First>>
      BY <1>6 DEF FlushThrows, PhaseInv
    <2>2. sink'.buffer = <<>> \o <<First>> /\ sink'.dropped = sink.dropped /\ pending' = <<>>
      BY <1>6, <2>1 DEF FlushThrows, IInv, TypeOK, Sinks
    <2>3. sink'.buffer = <<First>>
      BY <1>3, <2>2, ConcatEmptySeq
    <2>4. Gone' = Gone
      BY <1>6 DEF FlushThrows, Gone, ioVars, netVars, wireVars
    <2>5. Accepted' = Gone /\ Accepted = Gone \o <<First>> /\ Output' = Output
      BY <1>2, <1>3, <2>1, <2>2, <2>3, <2>4
    <2>6. /\ Elems(Accepted') \subseteq (Sent \ InHand) \cup {Beat}
          /\ Elems(sink'.buffer) \subseteq Sent \ InHand
      <3>1. Elems(Accepted) = Elems(Gone) \cup Elems(<<First>>)
        BY <1>2, <1>3, <2>5, ElemsConcat
      <3>2. First \notin {Beat} /\ Elems(<<First>>) = {First}
        BY PhaseNames, MessageTypes, OneMessage DEF First, Senders
      <3> QED BY <2>3, <2>5, <3>1, <3>2 DEF KeptInv
    <2> QED BY <1>1, <2>2, <2>5, <2>6, KeptRest DEF KeptInv
  <1> QED BY <1>4, <1>5, <1>6

\* Every step keeps KeptInv.
LEMMA KeptKeeps ==
    ASSUME IInv, PhaseInv, FrameInv, KeptInv, [Next]_vars
    PROVE  KeptInv'
  <1>1. CASE FlushTake \/ FlushSend \/ FlushThrows
    BY <1>1, KeptFlush
  <1>2. CASE \E s \in Senders : SendDirect(s)
    BY <1>2, KeptDirect
  <1>3. CASE \E s \in Senders : BufferMessage(s)
    BY <1>3, KeptBuffer
  <1>4. CASE Handshake \/ Ready \/ Reply \/ Goodbye \/ WorkerSends
    <2>1. UNCHANGED <<received, frame, queue>> /\ \E s \in Senders : Begin(s)
      BY <1>4 DEF Handshake, Ready, Reply, Goodbye, Say, WorkerSends, Senders, ioVars, netVars, wireVars
    <2> QED BY <2>1, KeptBegin
  <1>5. CASE \E s \in Senders : SendThrows(s)
    <2>1. PICK s \in Senders : SendThrows(s)
      BY <1>5
    <2>2. /\ UNCHANGED <<sent, pending, received, frame, queue>>
          /\ sink'.buffer = sink.buffer /\ sink'.dropped = sink.dropped
          /\ {t \in Senders : sending'[t] # "idle"} = {t \in Senders : sending[t] # "idle"}
      BY <2>1 DEF SendThrows, IInv, TypeOK, Sinks, ioVars, netVars, wireVars
    <2>3. InHand' = InHand
      BY <2>2 DEF InHand
    <2>4. Accepted' = Accepted /\ Output' = Output
      BY <2>2 DEF Accepted, Output
    <2> QED BY <2>2, <2>3, <2>4, KeptRest DEF KeptInv
  <1>6. CASE /\ ~(FlushTake \/ FlushSend \/ FlushThrows) /\ \A s \in Senders : ~SinkStep(s)
             /\ ~(Handshake \/ Ready \/ Reply \/ Goodbye \/ WorkerSends)
    <2>1. UNCHANGED <<sent, sending, pending>> /\ sink'.buffer = sink.buffer /\ sink'.dropped = sink.dropped
      <3>1. CASE SetConnected
        BY <3>1 DEF SetConnected, IInv, TypeOK, Sinks
      <3>2. CASE ~SetConnected
        BY <1>6, <3>2 DEF Next, Engine, MainStep, Start, StartConnects, StartFails,
           FlushEnds, TakeCommand, LeaveLoop, Leave, Stop, StopExchange, StopClose, StopNotify, StopJoin, Goes,
           Writer, WriterEvaluates, WriterSleeps, WriterAborts, WriterWrites, WriterFails, NotifyError,
           Reader, ReaderTop, ReaderGets, ReaderFails, ReaderLeaves, Heartbeat, BeatTop, BeatSends,
           Peer, PeerWrites, PeerCloses, engineVars, vars, sinkVars, threadRest
      <3> QED BY <3>1, <3>2
    <2>2. InHand' = InHand
      BY <2>1 DEF InHand
    <2>3. \A s \in Senders : ~SendDirect(s)
      BY <1>6 DEF SinkStep
    <2> QED BY <1>6, <2>1, <2>2, <2>3, KeptBeat
  <1> QED BY <1>1, <1>2, <1>3, <1>4, <1>5, <1>6 DEF SinkStep

OutputInv == IInv /\ PhaseInv /\ FrameInv /\ KeptInv /\ LeadInv

\* Nothing is sent yet.
LEMMA OutputInit == Init => OutputInv
  <1> SUFFICES ASSUME Init PROVE OutputInv
    OBVIOUS
  <1>1. IInv
    BY InitInv
  <1>2. PhaseInv
    BY DEF Init, PhaseInv, Before, Booting, Senders
  <1>3. FrameInv
    BY DEF Init, FrameInv, Threads
  <1>4. Gone = <<>> /\ Accepted = <<>> /\ Output = <<>>
    <2>1. Gone = <<>>
      BY DEF Init, Gone
    <2>2. Accepted = <<>>
      BY <2>1 DEF Init, Accepted, Gone
    <2> QED BY <2>1, <2>2 DEF Init, Output
  <1>5. Sent = {} /\ InHand = {} /\ Missing = {}
    <2>1. \A s \in Senders : 1 .. sent[s] = {} /\ sending[s] = "idle"
      BY DEF Init
    <2>2. \A m : m \notin Sent
      BY <2>1, SentMessages
    <2> QED BY <2>1, <2>2 DEF InHand, Missing
  <1>6. InOrder(<<>>) /\ Elems(<<>>) = {} /\ Beats(<<>>)
    <2>1. DOMAIN <<>> = {}
      OBVIOUS
    <2> QED BY <2>1, OneMessage, MessageTypes DEF Beats
  <1>7. KeptInv
    BY <1>4, <1>5, <1>6, FS_EmptySet DEF KeptInv, Init
  <1>8. LeadInv
    BY <1>4, <1>6 DEF LeadInv, Init, Before, Booting
  <1> QED BY <1>1, <1>2, <1>3, <1>7, <1>8 DEF OutputInv

\* The invariant of the output holds of every run.
THEOREM OutputInvHolds == Spec => []OutputInv
  <1>1. OutputInv /\ [Next]_vars => OutputInv'
    BY NextKeeps, PhaseKeeps, FrameKeeps, KeptKeeps, LeadKeeps DEF OutputInv
  <1> QED BY <1>1, OutputInit, PTL DEF Spec

\* Whatever is buffered before the flush, put back by a flush that throws or
\* pushed out by an overflow, for any numbers of messages and any size of the
\* buffer: no sender's messages change places, none is doubled, and the sink
\* has counted exactly those that are missing.
THEOREM NoOutputIsLost == Spec => []OutputIsKept
  <1>1. OutputInv => OutputIsKept
    BY DEF OutputInv, KeptInv, OutputIsKept
  <1> QED BY <1>1, OutputInvHolds, PTL

\* RunMain greets, connects the sink and flushes: whatever the threads send
\* meanwhile, the peer reads the handshake first.
THEOREM HandshakeIsFirst == Spec => []HandshakeLeads
  <1>1. ASSUME OutputInv PROVE HandshakeLeads
    <2>1. Accepted \in Seq(Messages)
      <3>1. received \o frame \o queue \in Seq(Messages) /\ pending \in Seq(Messages)
        BY <1>1, ConcatProperties DEF OutputInv, IInv, TypeOK
      <3> QED BY <3>1, ConcatProperties DEF Accepted
    <2>2. Led(Accepted) \/ Beats(Accepted)
      <3>1. CASE pending # <<>>
        <4>1. Accepted = Gone \o <<First>> /\ Beats(Gone) /\ Gone \in Seq(Messages) /\ First \in Messages
          <5>1. pending = <<First>> /\ Beats(Gone)
            BY <1>1, <3>1 DEF OutputInv, PhaseInv, LeadInv
          <5>2. Gone \in Seq(Messages)
            BY <1>1, ConcatProperties DEF OutputInv, IInv, TypeOK, Gone
          <5> QED BY <5>1, <5>2, MessageTypes DEF Accepted, Gone, First, Senders
        <4> QED BY <4>1, OneMessage, LedConcat
      <3>2. CASE pending = <<>>
        BY <1>1, <3>2 DEF OutputInv, LeadInv
      <3> QED BY <3>1, <3>2
    <2>3. CASE Beats(Accepted)
      BY <2>3 DEF Beats, HandshakeLeads
    <2>4. CASE Led(Accepted)
      <3>1. PICK k \in DOMAIN Accepted : Accepted[k] = First /\ \A j \in 1 .. k - 1 : Accepted[j] = Beat
        BY <2>4 DEF Led
      <3>2. DOMAIN Accepted = 1 .. Len(Accepted) /\ Len(Accepted) \in Nat
        BY <2>1, LenProperties
      <3> SUFFICES ASSUME NEW i \in DOMAIN Accepted, \A j \in 1 .. i - 1 : Accepted[j] = Beat
                   PROVE  Accepted[i] \in {Beat, First}
        BY DEF HandshakeLeads, First
      <3>3. k \notin 1 .. i - 1
        BY <3>1, PhaseNames
      <3>4. i = k \/ i \in 1 .. k - 1
        BY <3>2, <3>3
      <3> QED BY <3>1, <3>4
    <2> QED BY <2>2, <2>3, <2>4
  <1> QED BY <1>1, OutputInvHolds, PTL
=============================================================================
