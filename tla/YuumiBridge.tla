----------------------------- MODULE YuumiBridge -----------------------------
(***************************************************************************)
(* The engine's side of its connection to the TUI: yuumi::Bridge with its  *)
(* read, write and heartbeat threads, the Transport below it, OutputSink   *)
(* above it, and the part of RunMain that starts and ends them.            *)
(*                                                                         *)
(* Senders.  Output is sent by the main thread and, while a command runs,  *)
(* by a worker: a thread of the command's context (the reader of a one-    *)
(* shot process or of a sidecar).  A message is <<sender, number>>; a      *)
(* heartbeat is Beat.  The terminal's queues are reduced to the number of  *)
(* lines waiting (the detail is in ReplSession).                           *)
(*                                                                         *)
(* Socket.  A write returns when the peer has taken the frame: until then  *)
(* the writer is blocked in it.  Closing the socket under a thread that is *)
(* already blocked in a read may leave that call blocked: a POSIX close    *)
(* does not interrupt it.                                                  *)
(*                                                                         *)
(* Condition variable.  The writer finds its predicate false and goes to   *)
(* sleep in two steps with _queue_mutex held: a notify issued without the  *)
(* mutex can fall in between.  Spurious wake-ups are left out.             *)
(***************************************************************************)
EXTENDS Naturals, Sequences, FiniteSets

CONSTANTS
    MaxCommands,    \* bound on the commands the peer sends
    MaxWorker,      \* bound on the messages the worker sends
    MaxThrows,      \* bound on the calls of Bridge::send that throw
    MaxBuffered     \* kMaxBufferedMessages

ASSUME BoundsAssumption ==
    /\ {MaxCommands, MaxWorker, MaxThrows} \subseteq Nat
    /\ MaxBuffered \in Nat \ {0}

Senders == {"main", "worker"}
Threads == {"reader", "writer", "beat"}
Beat == <<"beat", 0>>
\* The diagnostic Flush puts in front when the buffer has overflowed.
Warning == <<"warning", 0>>

VARIABLES
    main,       \* program counter of RunMain
    sent,       \* sent[s]: messages sender s has handed to OutputSink
    sending,    \* sending[s]: where s is in OutputSink::Send
    sink,       \* OutputSink: [connected, buffer, dropped]
    pending,    \* the messages Flush has taken and not sent yet
    throws,     \* calls of Bridge::send that have thrown
    connected,  \* Bridge::_connected
    queue,      \* Bridge::_send_queue
    mutex,      \* the owner of _queue_mutex when a step ends with it held
    at,         \* at[t]: where I/O thread t is
    frame,      \* the frame the writer has popped
    socketOpen, \* the engine has not closed its socket
    peerOpen,   \* the peer has not closed its end
    received,   \* frames the peer has taken, heartbeats left out
    toEngine,   \* number of frames the peer has written and the reader not read
    commands,   \* lines waiting in the terminal's command queue
    asked,      \* commands the peer has sent
    shutdown,   \* BridgeTerminal::m_shutdown
    aborted     \* an exception has left a thread: std::terminate

sinkVars == <<sent, sending, sink, pending, throws>>
socketVars == <<socketOpen, peerOpen>>
wireVars == <<received, toEngine, asked>>
ioVars == <<connected, queue, mutex, at, frame>>
netVars == <<socketVars, wireVars, commands, shutdown, aborted>>
vars == <<main, sinkVars, ioVars, netVars>>

MainStates == {"start", "greet", "connect", "flush", "flushing", "ready", "loop",
               "run", "goodbye", "leave", "stop", "close", "notify", "join",
               "done", "failed"}
SendStates == {"idle", "direct", "buffer"}
ThreadStates == {"none", "top", "evaluate", "evaluated", "asleep", "writing",
                 "reading", "lost", "sleeping", "ended"}
Frames == {"command", "skipped", "oversize"}

Messages == (Senders \X Nat) \cup {Beat, Warning}

Sinks == [connected : BOOLEAN, buffer : Seq(Messages), dropped : Nat]

\* Every variable keeps its type: RunMain's and the threads' places, the sink,
\* and the messages on their way.
TypeOK ==
    /\ main \in MainStates
    /\ sent \in [Senders -> Nat] /\ sending \in [Senders -> SendStates]
    /\ sink \in Sinks
    /\ pending \in Seq(Messages) /\ queue \in Seq(Messages)
    /\ frame \in Seq(Messages) /\ received \in Seq(Messages)
    /\ at \in [Threads -> ThreadStates]
    /\ {connected, socketOpen, peerOpen, shutdown, aborted} \subseteq BOOLEAN
    /\ mutex \in {"free", "writer"}
    /\ {throws, commands, asked, toEngine} \subseteq Nat

Init ==
    /\ main = "start"
    /\ sent = [s \in Senders |-> 0] /\ sending = [s \in Senders |-> "idle"]
    /\ sink = [connected |-> FALSE, buffer |-> <<>>, dropped |-> 0]
    /\ pending = <<>> /\ throws = 0
    /\ connected = FALSE /\ queue = <<>> /\ mutex = "free"
    /\ at = [t \in Threads |-> "none"] /\ frame = <<>>
    /\ socketOpen = FALSE /\ peerOpen = TRUE
    /\ received = <<>> /\ toEngine = 0 /\ asked = 0
    /\ commands = 0 /\ shutdown = FALSE /\ aborted = FALSE

Goto(t, state) == at' = [at EXCEPT ![t] = state]

-----------------------------------------------------------------------------
(* Bridge::send and OutputSink                                             *)

\* notify_one and notify_all on _queue_cv: the writer is its only waiter.
Notified(a) == [a EXCEPT !["writer"] = IF @ = "asleep" THEN "evaluate" ELSE @]

\* A slip: send without _queue_mutex.
EnqueueUnlocked(m) ==
    /\ queue' = Append(queue, m)
    /\ at' = Notified(at)
    /\ UNCHANGED <<mutex, connected, frame>>

Enqueue(m) ==
    /\ mutex = "free"
    /\ queue' = Append(queue, m)
    /\ at' = Notified(at)
    /\ UNCHANGED <<mutex, connected, frame>>

\* OutputSink::Send: the flag is read first.
Begin(s) ==
    /\ sending[s] = "idle"
    /\ sent' = [sent EXCEPT ![s] = @ + 1]
    /\ sending' = [sending EXCEPT ![s] = IF sink.connected THEN "direct" ELSE "buffer"]
    /\ UNCHANGED <<sink, pending, throws>>

SendDirect(s) ==
    /\ sending[s] = "direct"
    /\ Enqueue(<<s, sent[s]>>)
    /\ sending' = [sending EXCEPT ![s] = "idle"]
    /\ UNCHANGED <<main, sent, sink, pending, throws, netVars>>

\* Bridge::send throws (no memory for the queue): the message is buffered.
SendThrows(s) ==
    /\ sending[s] = "direct" /\ throws < MaxThrows
    /\ throws' = throws + 1
    /\ sink' = [sink EXCEPT !.connected = FALSE]
    /\ sending' = [sending EXCEPT ![s] = "buffer"]
    /\ UNCHANGED <<main, sent, pending, ioVars, netVars>>

\* At the limit the oldest message makes room for the new one.
Buffered(k, m) ==
    IF Len(k.buffer) >= MaxBuffered
    THEN [k EXCEPT !.buffer = Append(Tail(@), m), !.dropped = @ + 1]
    ELSE [k EXCEPT !.buffer = Append(@, m)]

BufferMessage(s) ==
    /\ sending[s] = "buffer"
    /\ sink' = Buffered(sink, <<s, sent[s]>>)
    /\ sending' = [sending EXCEPT ![s] = "idle"]
    /\ UNCHANGED <<main, sent, pending, throws, ioVars, netVars>>

SinkStep(s) == SendDirect(s) \/ SendThrows(s) \/ BufferMessage(s)

-----------------------------------------------------------------------------
(* RunMain                                                                 *)


\* Main goes on and nothing else changes.
Goes(from, to) == main = from /\ main' = to /\ UNCHANGED <<sinkVars, ioVars, netVars>>

\* bridge.start: listen and accept; read the handshake of the peer, answer it,
\* and start the threads.
StartConnects ==
    /\ main = "start" /\ peerOpen
    /\ connected' = TRUE /\ socketOpen' = TRUE
    /\ at' = [t \in Threads |-> IF t = "writer" THEN "evaluate" ELSE "top"]
    /\ main' = "greet"
    /\ UNCHANGED <<sinkVars, queue, mutex, frame, peerOpen, wireVars,
                   commands, shutdown, aborted>>

\* No pipe, a wrong magic or version, or a peer that leaves: main returns 1.
StartFails == Goes("start", "failed")

Start == StartConnects \/ StartFails

\* Main hands a message to the sink and goes on when Send has returned.
Say(state, next) ==
    /\ main = state /\ sending["main"] = "idle"
    /\ Begin("main")
    /\ main' = next
    /\ UNCHANGED <<ioVars, netVars>>

Handshake == Say("greet", "connect")

\* A slip: the flush is forgotten.
SetConnectedOnly ==
    /\ main = "connect" /\ sending["main"] = "idle"
    /\ sink' = [sink EXCEPT !.connected = TRUE]
    /\ main' = "ready"
    /\ UNCHANGED <<sent, sending, pending, throws, ioVars, netVars>>

SetConnected ==
    /\ main = "connect" /\ sending["main"] = "idle"
    /\ sink' = [sink EXCEPT !.connected = TRUE]
    /\ main' = "flush"
    /\ UNCHANGED <<sent, sending, pending, throws, ioVars, netVars>>

\* Flush swaps the buffer out and takes the dropped counter.
FlushTake ==
    /\ main = "flush"
    /\ pending' = (IF sink.dropped > 0 THEN <<Warning>> ELSE <<>>) \o sink.buffer
    /\ sink' = [sink EXCEPT !.buffer = <<>>, !.dropped = 0]
    /\ main' = "flushing"
    /\ UNCHANGED <<sent, sending, throws, ioVars, netVars>>

FlushSend ==
    /\ main = "flushing" /\ pending # <<>>
    /\ Enqueue(Head(pending))
    /\ pending' = Tail(pending)
    /\ UNCHANGED <<main, sent, sending, sink, throws, netVars>>

\* A slip: the message whose send threw is not put back.
FlushThrowsOne ==
    /\ main = "flushing" /\ pending # <<>> /\ throws < MaxThrows
    /\ throws' = throws + 1
    /\ sink' = [sink EXCEPT !.connected = FALSE, !.buffer = @ \o Tail(pending)]
    /\ pending' = <<>>
    /\ UNCHANGED <<main, sent, sending, ioVars, netVars>>

\* What could not be sent goes back to the end of the buffer.
FlushThrows ==
    /\ main = "flushing" /\ pending # <<>> /\ throws < MaxThrows
    /\ throws' = throws + 1
    /\ sink' = [sink EXCEPT !.connected = FALSE, !.buffer = @ \o pending]
    /\ pending' = <<>>
    /\ UNCHANGED <<main, sent, sending, ioVars, netVars>>

FlushEnds == pending = <<>> /\ Goes("flushing", "ready")

Ready == Say("ready", "loop")

\* ReadLine gives the next line, or nothing once the connection is lost.
TakeCommand ==
    /\ main = "loop" /\ sending["main"] = "idle" /\ ~shutdown /\ commands > 0
    /\ commands' = commands - 1
    /\ main' = "run"
    /\ UNCHANGED <<sinkVars, ioVars, socketVars, wireVars, shutdown, aborted>>

\* The command answers; it may be /exit.
Reply == Say("run", "loop") \/ Say("run", "goodbye")

LeaveLoop == sending["main"] = "idle" /\ shutdown /\ Goes("loop", "goodbye")

\* engine_shutdown and "Goodbye.", one message here.
Goodbye == Say("goodbye", "leave")

\* A worker sends while a command runs or, given up, after it.
WorkerSends ==
    /\ main = "run" \/ (main \in {"loop", "goodbye", "leave"} /\ sent["worker"] > 0)
    /\ sent["worker"] < MaxWorker
    /\ Begin("worker")
    /\ UNCHANGED <<main, ioVars, netVars>>

\* The contexts die with RuntimeState, which joins their threads; then the
\* sink, then the bridge: ~Bridge calls stop.
Leave == (\A s \in Senders : sending[s] = "idle") /\ Goes("leave", "stop")

\* stop: the exchange; only who finds the flag set closes the transport.
StopExchange ==
    /\ main = "stop"
    /\ connected' = FALSE
    /\ main' = IF connected THEN "close" ELSE "notify"
    /\ UNCHANGED <<sinkVars, queue, mutex, at, frame, netVars>>

StopClose ==
    /\ main = "close"
    /\ socketOpen' = FALSE
    /\ main' = "notify"
    /\ UNCHANGED <<sinkVars, ioVars, peerOpen, wireVars,
                   commands, shutdown, aborted>>

\* notify_all without _queue_mutex.
StopNotify ==
    /\ main = "notify"
    /\ at' = Notified(at)
    /\ main' = "join"
    /\ UNCHANGED <<sinkVars, connected, queue, mutex, frame, netVars>>

StopJoin == (\A t \in Threads : at[t] = "ended") /\ Goes("join", "done")

Stop == StopExchange \/ StopClose \/ StopNotify \/ StopJoin

MainStep ==
    \/ Start \/ Handshake \/ SetConnected \/ FlushTake \/ FlushSend \/ FlushThrows
    \/ FlushEnds \/ Ready \/ TakeCommand \/ Reply \/ LeaveLoop \/ Goodbye \/ Leave \/ Stop

-----------------------------------------------------------------------------
(* write_loop                                                              *)

threadRest == <<main, sinkVars, socketVars, commands, aborted>>

\* The predicate is evaluated with the mutex held; a frame is popped before
\* the mutex is given back.  The test of _connected at the head of the loop is
\* part of this one: both end the thread.
WriterEvaluates ==
    /\ at["writer"] = "evaluate" /\ mutex = "free"
    /\ \/ /\ ~connected
          /\ Goto("writer", "ended")
          /\ UNCHANGED <<queue, frame, mutex>>
       \/ /\ connected /\ queue # <<>>
          /\ frame' = <<Head(queue)>> /\ queue' = Tail(queue)
          /\ Goto("writer", "writing")
          /\ UNCHANGED mutex
       \/ /\ connected /\ queue = <<>>
          /\ mutex' = "writer"
          /\ Goto("writer", "evaluated")
          /\ UNCHANGED <<queue, frame>>
    /\ UNCHANGED <<threadRest, connected, wireVars, shutdown>>

\* wait gives the mutex back and sleeps.
WriterSleeps ==
    /\ at["writer"] = "evaluated"
    /\ mutex' = "free"
    /\ Goto("writer", "asleep")
    /\ UNCHANGED <<threadRest, connected, queue, frame, wireVars, shutdown>>

\* The handshake, the ready message and the goodbye are the engine's own texts.
IsFixed(m) ==
    /\ m[1] = "main"
    /\ \/ m[2] <= 2
       \/ main \in {"leave", "stop", "close", "notify", "join", "done"} /\ m[2] = sent["main"]

\* Protocol::encode dumps the message.  The worker passes on what a process has
\* written, and a command what it finds in files and names: that may be binary,
\* or end inside a character, and dump throws on what is not UTF-8.  The
\* exception leaves the thread.
WriterAborts ==
    /\ at["writer"] = "writing"
    /\ Head(frame) \notin {Beat, Warning} /\ ~IsFixed(Head(frame))
    /\ aborted' = TRUE
    /\ UNCHANGED <<main, sinkVars, connected, queue, mutex, at, frame, socketVars,
                   wireVars, commands, shutdown>>

WriterWrites ==
    /\ at["writer"] = "writing"
    /\ socketOpen /\ peerOpen
    /\ received' = IF frame = <<Beat>> THEN received ELSE received \o frame
    /\ frame' = <<>>
    /\ Goto("writer", "evaluate")
    /\ UNCHANGED <<threadRest, connected, queue, mutex, toEngine, asked, shutdown>>

\* The peer has gone, or the socket was closed before or under the write.
WriterFails ==
    /\ at["writer"] = "writing"
    /\ ~(socketOpen /\ peerOpen)
    /\ connected' = FALSE
    /\ Goto("writer", "lost")
    /\ UNCHANGED <<threadRest, queue, mutex, frame, wireVars, shutdown>>

-----------------------------------------------------------------------------
(* read_loop and heartbeat_loop                                            *)

\* asio::read is entered: on a closed socket it fails at once.
ReaderTop ==
    /\ at["reader"] = "top"
    /\ Goto("reader", IF ~connected THEN "ended" ELSE "reading")
    /\ UNCHANGED <<threadRest, connected, queue, mutex, frame, wireVars, shutdown>>

\* RunMain's handler queues a command or an answer; Control frames and bodies that do not
\* decode are skipped; a length above MAX_MESSAGE_SIZE ends the loop; the handler throws
\* on a message that is no object or has a "type" that is no string, and nobody catches it.
ReaderGets ==
    /\ at["reader"] = "reading" /\ toEngine > 0
    /\ toEngine' = toEngine - 1
    /\ \/ \E f \in Frames :
             /\ commands' = IF f = "command" THEN commands + 1 ELSE commands
             /\ Goto("reader", IF f = "oversize" THEN "evaluate" ELSE "top")
             /\ UNCHANGED aborted
       \/ /\ aborted' = TRUE
          /\ UNCHANGED <<commands, at>>
    /\ UNCHANGED <<main, sinkVars, connected, queue, mutex, frame, socketVars,
                   received, asked, shutdown>>

\* End of stream, or the engine's own close: that may leave the call blocked.
ReaderFails ==
    /\ at["reader"] = "reading"
    /\ ~socketOpen \/ (~peerOpen /\ toEngine = 0)
    /\ Goto("reader", "evaluate")
    /\ UNCHANGED <<threadRest, connected, queue, mutex, frame, wireVars, shutdown>>

\* A slip: the loop ends without a word.
ReaderLeavesSilently ==
    /\ at["reader"] = "evaluate"
    /\ connected' = FALSE
    /\ Goto("reader", "ended")
    /\ UNCHANGED <<threadRest, queue, mutex, frame, wireVars, shutdown>>

\* The exchange at the end of the loop: a loss is reported by who finds the
\* flag still set.
ReaderLeaves ==
    /\ at["reader"] = "evaluate"
    /\ connected' = FALSE
    /\ Goto("reader", IF connected THEN "lost" ELSE "ended")
    /\ UNCHANGED <<threadRest, queue, mutex, frame, wireVars, shutdown>>

\* notify_error runs RunMain's handler, BridgeTerminal::RequestShutdown.
NotifyError(t) ==
    /\ at[t] = "lost"
    /\ shutdown' = TRUE
    /\ Goto(t, IF t = "writer" THEN "evaluate" ELSE "ended")
    /\ UNCHANGED <<threadRest, connected, queue, mutex, frame, wireVars>>

\* Two seconds pass, then a heartbeat is queued.  Behind other frames it is
\* left out of the model, its notify is not: the queue stays finite.
BeatTop ==
    /\ at["beat"] = "top"
    /\ Goto("beat", IF connected THEN "sleeping" ELSE "ended")
    /\ UNCHANGED <<threadRest, connected, queue, mutex, frame, wireVars, shutdown>>

BeatSends ==
    /\ at["beat"] = "sleeping"
    /\ mutex = "free"
    /\ queue' = IF queue = <<>> THEN <<Beat>> ELSE queue
    /\ at' = [Notified(at) EXCEPT !["beat"] = "top"]
    /\ UNCHANGED <<threadRest, connected, mutex, frame, wireVars, shutdown>>

Writer ==
    \/ WriterEvaluates \/ WriterSleeps \/ WriterAborts \/ WriterWrites
    \/ WriterFails \/ NotifyError("writer")
Reader == ReaderTop \/ ReaderGets \/ ReaderFails \/ ReaderLeaves \/ NotifyError("reader")
Heartbeat == BeatTop \/ BeatSends

-----------------------------------------------------------------------------
(* The peer: the Go client                                                 *)

engineVars == <<main, sinkVars, ioVars, socketOpen, commands, shutdown, aborted>>

PeerWrites ==
    /\ peerOpen /\ socketOpen /\ asked < MaxCommands
    /\ toEngine' = toEngine + 1
    /\ asked' = asked + 1
    /\ UNCHANGED <<engineVars, peerOpen, received>>

\* /exit in the TUI, or its end, closes the connection.
PeerCloses ==
    /\ peerOpen
    /\ peerOpen' = FALSE
    /\ UNCHANGED <<engineVars, wireVars>>

Peer == PeerWrites \/ PeerCloses

Engine == MainStep \/ WorkerSends \/ (\E s \in Senders : SinkStep(s))
          \/ Writer \/ Reader \/ Heartbeat

Next == (~aborted /\ Engine) \/ Peer

(* Fairness: every thread of a running engine is scheduled; the peer takes  *)
(* what is written while its end is open.                                   *)
(* Nothing makes the peer send or close, and no call has to throw; a read   *)
(* that its own side closed need not fail.                                  *)
Fairness ==
    /\ WF_vars(~aborted /\ MainStep)
    /\ \A s \in Senders : WF_vars(~aborted /\ SinkStep(s))
    /\ WF_vars(~aborted /\ Writer)
    /\ WF_vars(~aborted /\ Heartbeat)
    /\ WF_vars(~aborted /\ (ReaderTop \/ ReaderGets \/ ReaderLeaves \/ NotifyError("reader")))
    /\ WF_vars(~aborted /\ ReaderFails /\ ~peerOpen)

Spec == Init /\ [][Next]_vars /\ Fairness

-----------------------------------------------------------------------------
(* Properties                                                              *)

\* Everything that has left the sink, in the order it left, and what it keeps.
Accepted == received \o frame \o queue \o pending
Output == Accepted \o sink.buffer

\* A message of one sender that follows another was sent after it.
InOrder(out) ==
    \A i, j \in DOMAIN out :
        i < j /\ out[i][1] = out[j][1] /\ out[i][1] \in Senders => out[i][2] < out[j][2]

\* What the senders have sent, and what of it is still in their hands.
Sent == UNION {{<<s, n>> : n \in 1 .. sent[s]} : s \in Senders}
InHand == {<<s, sent[s]>> : s \in {t \in Senders : sending[t] # "idle"}}
Missing == Sent \ (InHand \cup {Output[i] : i \in DOMAIN Output})

\* Every sender's messages stay in order, none is there twice, and one that
\* is missing was counted as dropped by the sink: across the boot buffer, the
\* flush, a send that throws and a buffer that overflows.
OutputIsKept == InOrder(Output) /\ Cardinality(Missing) = sink.dropped

\* "First output frame": before anything else the peer reads the handshake,
\* although it is buffered and flushed while the I/O threads run.
HandshakeLeads ==
    \A i \in DOMAIN Accepted :
        (\A j \in 1 .. i - 1 : Accepted[j] = Beat) => Accepted[i] \in {Beat, <<"main", 1>>}

\* The writer never sleeps on a queued frame: no notify of a send falls between
\* its test of the queue and its sleep, to be made good by a heartbeat up to two
\* seconds later.
NoFrameAwaitsHeartbeat == at["writer"] = "asleep" => queue = <<>>

Leaving == {"stop", "close", "notify", "join", "done"}

\* When the peer goes the session ends: the terminal is told to shut down, or
\* the engine was leaving anyway.
LossEndsSession ==
    (~peerOpen /\ main \notin {"start", "failed"}) ~> (shutdown \/ main \in Leaving \/ aborted)
==============================================================================
