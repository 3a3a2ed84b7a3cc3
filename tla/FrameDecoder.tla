---------------------------- MODULE FrameDecoder ----------------------------
(***************************************************************************)
(* The way of a frame from a sidecar to the engine: write_frame of the     *)
(* bootstraps, and the incremental FrameDecoder as the reader thread of a  *)
(* sidecar bridge drives it.  A pipe keeps the bytes in order and gives    *)
(* them out in chunks that have nothing to do with frames.                 *)
(*                                                                         *)
(* A byte is a digit of base Base and a header has HeaderSize of them, the *)
(* lowest first, so that lengths above MaxPayload and lengths that do not  *)
(* fit the header are within reach of small streams.                       *)
(***************************************************************************)
EXTENDS Naturals, Sequences

CONSTANTS
    Base,           \* 256
    HeaderSize,     \* kHeaderSize, 4
    Weight,         \* what each digit counts, and the first length that does not fit:
                    \* the shifts by 0, 8, 16 and 24, and 2^32
    MaxPayload,     \* kMaxPayload, 16 MiB
    BufferSize,     \* 4096: what one ReceiveData may return
    Frames,         \* frames a peer sends
    MaxFrames       \* bound on their number

ASSUME SizesAssumption ==
    /\ Base \in Nat \ {0, 1} /\ HeaderSize \in Nat \ {0} /\ BufferSize \in Nat \ {0}
    /\ Weight \in [0 .. HeaderSize -> Nat] /\ Weight[0] = 1
    /\ \A i \in 1 .. HeaderSize : Weight[i] = Base * Weight[i - 1]
    /\ MaxPayload \in 0 .. Weight[HeaderSize] - 1 /\ MaxFrames \in Nat

Bytes == 0 .. Base - 1

ASSUME FramesAssumption == Frames \subseteq [type : Bytes, payload : Seq(Bytes)]

VARIABLES
    sent,           \* frames the peer has written, in order
    wire,           \* bytes in the pipe
    reader,         \* "receiving", "feeding" (inside Feed) or "dispatching" a frame
    data,           \* what Feed has yet to read: ptr + pos up to ptr + len
    state,          \* m_state
    header,         \* m_headerBuf up to m_headerPos
    payloadLen, frameType,
    payload,        \* m_payload up to m_payloadPos
    pending,        \* m_pending
    delivered,      \* frames given to DispatchFrame, in order
    ends,           \* ghost: how many bytes the peer had written after each frame
    taken           \* ghost: how many bytes have left the pipe

decoderVars == <<state, header, payloadLen, frameType, payload, pending>>
ghostVars == <<ends, taken>>
vars == <<sent, wire, reader, data, decoderVars, delivered, ghostVars>>

-----------------------------------------------------------------------------
(* Encoding.                                                               *)

Digits(n) == [i \in 1 .. HeaderSize |-> (n \div Weight[i - 1]) % Base]

\* The digits put together again.
Number(digits) ==
    LET Sum[i \in 0 .. HeaderSize] ==
            IF i = 0 THEN 0 ELSE Sum[i - 1] + digits[i] * Weight[i - 1]
    IN Sum[HeaderSize]

\* A length that does not fit the header: Lua and Ruby keep its low digits and write
\* the whole payload.  Python and JavaScript raise and write nothing: no Send.
WriteFrame(f) == Digits(Len(f.payload)) \o <<f.type>> \o f.payload

Send(f) ==
    /\ Len(sent) < MaxFrames
    /\ sent' = Append(sent, f)
    /\ wire' = wire \o WriteFrame(f)
    /\ ends' = Append(ends, taken + Len(wire'))
    /\ UNCHANGED <<reader, data, decoderVars, delivered, taken>>

-----------------------------------------------------------------------------
(* Decoding.                                                               *)

Smaller(m, n) == IF m < n THEN m ELSE n

ResetState ==
    /\ state' = "READ_HEADER"
    /\ header' = <<>> /\ payloadLen' = 0 /\ payload' = <<>>

\* Variant: what follows a frame in its chunk is forgotten.
SavePendingNothing(rest) == pending' = <<>>

SavePending(rest) == pending' = rest

Feed(chunk) ==
    IF pending = <<>> /\ chunk = <<>>
    THEN reader' = "receiving" /\ data' = <<>>
    ELSE reader' = "feeding" /\ data' = pending \o chunk

ReceiveData ==
    /\ reader = "receiving" /\ wire # <<>>
    /\ \E n \in 1 .. Smaller(BufferSize, Len(wire)) :
          /\ Feed(SubSeq(wire, 1, n))
          /\ wire' = SubSeq(wire, n + 1, Len(wire))
          /\ taken' = taken + n
    /\ UNCHANGED <<sent, decoderVars, delivered, ends>>

\* Feed returns nullopt: ReaderLoop receives again.
ReturnNothing == reader' = "receiving" /\ data' = <<>> /\ UNCHANGED delivered

ReturnFrame(type, content, rest) ==
    /\ ResetState /\ SavePending(rest)
    /\ delivered' = Append(delivered, [type |-> type, payload |-> content])
    /\ reader' = "dispatching" /\ data' = <<>>

\* One round of Feed's loop per state; take is what the round copies.
ReadHeader ==
    /\ reader = "feeding" /\ state = "READ_HEADER" /\ data # <<>>
    /\ LET take == Smaller(HeaderSize - Len(header), Len(data))
           read == header \o SubSeq(data, 1, take)
           rest == SubSeq(data, take + 1, Len(data))
       IN  \/ /\ Len(read) < HeaderSize
              /\ header' = read /\ data' = rest
              /\ UNCHANGED <<reader, state, payloadLen, payload, pending, delivered>>
           \/ /\ Len(read) = HeaderSize /\ Number(read) > MaxPayload
              /\ ResetState /\ pending' = <<>>
              /\ ReturnNothing
           \/ /\ Len(read) = HeaderSize /\ Number(read) <= MaxPayload
              /\ header' = read /\ payloadLen' = Number(read)
              /\ state' = "READ_TYPE" /\ data' = rest
              /\ UNCHANGED <<reader, payload, pending, delivered>>
    /\ UNCHANGED <<sent, wire, frameType, ghostVars>>

ReadType ==
    /\ reader = "feeding" /\ state = "READ_TYPE" /\ data # <<>>
    /\ frameType' = Head(data)
    /\ \/ payloadLen = 0 /\ ReturnFrame(frameType', <<>>, Tail(data))
       \/ /\ payloadLen > 0
          /\ payload' = <<>>
          /\ state' = "READ_PAYLOAD" /\ data' = Tail(data)
          /\ UNCHANGED <<reader, header, payloadLen, pending, delivered>>
    /\ UNCHANGED <<sent, wire, ghostVars>>

ReadPayload ==
    /\ reader = "feeding" /\ state = "READ_PAYLOAD" /\ data # <<>>
    /\ LET take == Smaller(payloadLen - Len(payload), Len(data))
           read == payload \o SubSeq(data, 1, take)
           rest == SubSeq(data, take + 1, Len(data))
       IN  \/ Len(read) = payloadLen /\ ReturnFrame(frameType, read, rest)
           \/ /\ Len(read) < payloadLen
              /\ payload' = read /\ data' = rest
              /\ UNCHANGED <<reader, state, header, payloadLen, pending, delivered>>
    /\ UNCHANGED <<sent, wire, frameType, ghostVars>>

EndOfData ==
    /\ reader = "feeding" /\ data = <<>>
    /\ pending' = <<>>
    /\ ReturnNothing
    /\ UNCHANGED <<sent, wire, state, header, payloadLen, frameType, payload, ghostVars>>

DispatchFrame ==
    /\ reader = "dispatching"
    /\ Feed(<<>>)
    /\ UNCHANGED <<sent, wire, decoderVars, delivered, ghostVars>>

-----------------------------------------------------------------------------
Init ==
    /\ sent = <<>> /\ wire = <<>> /\ delivered = <<>> /\ ends = <<>> /\ taken = 0
    /\ reader = "receiving" /\ data = <<>>
    /\ state = "READ_HEADER" /\ header = <<>> /\ payloadLen = 0
    /\ frameType = 0 /\ payload = <<>> /\ pending = <<>>

Next ==
    \/ \E f \in Frames : Send(f)
    \/ ReceiveData \/ ReadHeader \/ ReadType \/ ReadPayload \/ EndOfData
    \/ DispatchFrame

Spec == Init /\ [][Next]_vars

-----------------------------------------------------------------------------
\* No copy runs over the header's bytes or the payload's length.
TypeOK ==
    /\ sent \in Seq(Frames) /\ wire \in Seq(Bytes)
    /\ reader \in {"receiving", "feeding", "dispatching"} /\ data \in Seq(Bytes)
    /\ state \in {"READ_HEADER", "READ_TYPE", "READ_PAYLOAD"}
    /\ header \in Seq(Bytes) /\ Len(header) <= HeaderSize
    /\ payloadLen \in 0 .. MaxPayload /\ frameType \in Bytes
    /\ payload \in Seq(Bytes) /\ Len(payload) <= payloadLen
    /\ pending \in Seq(Bytes)
    /\ delivered \in Seq([type : Bytes, payload : Seq(Bytes)])
    /\ ends \in Seq(Nat) /\ taken \in Nat

\* The first k frames are not too large.
Sound(k) == \A i \in 1 .. k : Len(sent[i].payload) <= MaxPayload

(* However the pipe cuts the stream, when the reader turns to it again     *)
(* every frame that came out whole has been dispatched, in order and       *)
(* unchanged, and nothing else has, until a frame above kMaxPayload comes  *)
(* by: no frame waits in m_pending for bytes of the next one, where an     *)
(* Execute would wait for its result until the timeout (Feed, SavePending, *)
(* ReaderLoop).                                                            *)
FramesArriveWhole ==
    reader = "receiving" =>
        /\ \A k \in 1 .. Len(sent) : Sound(k) /\ ends[k] <= taken =>
              Len(delivered) >= k /\ delivered[k] = sent[k]
        /\ Sound(Len(sent)) => \A k \in 1 .. Len(delivered) :
              k <= Len(sent) /\ ends[k] <= taken
=============================================================================
