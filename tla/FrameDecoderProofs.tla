------------------------- MODULE FrameDecoderProofs -------------------------
(***************************************************************************)
(* However a pipe cuts the stream, the decoder delivers the frames that    *)
(* were sent: for any base, header, limit, frames and chunks.              *)
(*                                                                         *)
(* FramesArriveWhole looks at the moments where the reader is back at the  *)
(* pipe.  In between, DecodeInv: the decoder is in step, so that what it   *)
(* has copied is the part of one frame up to its position in the stream    *)
(* (Progress), or a frame above the limit was sent and all before it are   *)
(* delivered (OutOfStep).  That the length comes out of the header as it   *)
(* went in (HeaderRoundTrip) is an induction over the digits, carried by   *)
(* the library's theorem on minimal elements of well-founded relations.    *)
(***************************************************************************)
EXTENDS FrameDecoder, SequenceTheorems, WellFoundedInduction, TLAPS

\* Where frame k + 1 starts in the stream of the frames that end at `e'.
Begin(e, k) == IF k = 0 THEN 0 ELSE e[k]
Start(k) == Begin(ends, k)

\* In the stream of the frames s, q follows the first `from' bytes.
Follows(q, from, s, e) ==
    \A p \in 1 .. Len(q), i \in 1 .. Len(s) : \A j \in 1 .. Len(WriteFrame(s[i])) :
        from + p = Begin(e, i - 1) + j => q[p] = WriteFrame(s[i])[j]
Carries(q, from) == Follows(q, from, sent, ends)
Code(i) == WriteFrame(sent[i])

StreamInv ==
    /\ Len(ends) = Len(sent)
    /\ \A i \in 1 .. Len(sent) : ends[i] = Start(i - 1) + Len(Code(i))
    /\ \A i, j \in 0 .. Len(sent) : i <= j => Start(i) <= Start(j)
    /\ taken + Len(wire) = Start(Len(sent))
    /\ Carries(wire, taken)

\* What has left the pipe and not been decoded, and where it starts.
Hand == IF reader = "feeding" THEN data ELSE IF reader = "dispatching" THEN pending ELSE <<>>
Position == taken - Len(Hand)

Count == Len(delivered)
Current == sent[Count + 1]
CurrentIsSound == Count < Len(sent) /\ Len(Current.payload) <= MaxPayload

\* How far the decoder is in the frame it reads.
InHeader ==
    /\ state = "READ_HEADER" /\ Len(header) < HeaderSize
    /\ Position = Start(Count) + Len(header)
    /\ Count < Len(sent) => \A p \in 1 .. Len(header) : header[p] = Code(Count + 1)[p]

InType ==
    /\ state = "READ_TYPE" /\ CurrentIsSound
    /\ Position = Start(Count) + HeaderSize
    /\ payloadLen = Len(Current.payload)

InPayload ==
    /\ state = "READ_PAYLOAD" /\ CurrentIsSound
    /\ Position = Start(Count) + HeaderSize + 1 + Len(payload)
    /\ payloadLen = Len(Current.payload) /\ Len(payload) < payloadLen
    /\ frameType = Current.type
    /\ \A p \in 1 .. Len(payload) : payload[p] = Current.payload[p]

Progress == Carries(Hand, Position) /\ (InHeader \/ InType \/ InPayload)

InStep ==
    /\ Count <= Len(sent) /\ Sound(Count)
    /\ \A i \in 1 .. Count : delivered[i] = sent[i]
    /\ Progress

OutOfStep ==
    \E k \in 0 .. Len(sent) - 1 :
        /\ Sound(k) /\ Len(sent[k + 1].payload) > MaxPayload
        /\ Count >= k /\ \A i \in 1 .. k : delivered[i] = sent[i]

DecodeInv == InStep \/ OutOfStep

\* Between two frames nothing of the last payload is left, and who dispatches
\* or receives has read everything it was given.
RestInv ==
    /\ state # "READ_PAYLOAD" => payload = <<>>
    /\ reader = "receiving" => pending = <<>>
    /\ reader = "dispatching" => state = "READ_HEADER" /\ header = <<>>

IInv == TypeOK /\ RestInv /\ StreamInv /\ DecodeInv

-----------------------------------------------------------------------------
(* The header.                                                             *)

Less == {ss \in Nat \X Nat : ss[1] < ss[2]}

\* Induction up to n, by the smallest number outside of T.
LEMMA UpTo ==
    ASSUME NEW n \in Nat, NEW T, 0 \in T, \A i \in 0 .. n - 1 : i \in T => i + 1 \in T
    PROVE  0 .. n \subseteq T
  <1> DEFINE Rest == {i \in 0 .. n : i \notin T}
  <1>1. SUFFICES ASSUME Rest # {} PROVE FALSE
    OBVIOUS
  <1>2. IsWellFoundedOn(Less, Nat)
    BY NatLessThanWellFounded DEF OpToRel, Less
  <1>3. Rest \subseteq Nat
    OBVIOUS
  <1>4. PICK x \in Rest : \A y \in Rest : <<y, x>> \notin Less
    BY <1>1, <1>2, <1>3, WFMin
  <1>5. x \in 1 .. n /\ x - 1 \in 0 .. n - 1 /\ x - 1 < x /\ (x - 1) + 1 = x
    OBVIOUS
  <1>6. <<x - 1, x>> \in Less
    <2>1. x - 1 \in Nat /\ x \in Nat /\ x - 1 < x
      BY <1>5
    <2> DEFINE y == x - 1
    <2> HIDE DEF y
    <2>2. y \in Nat /\ x \in Nat /\ y < x => <<y, x>> \in Less
      BY DEF Less
    <2> QED BY <2>1, <2>2 DEF y
  <1>7. x - 1 \notin Rest
    BY <1>4, <1>6
  <1> QED BY <1>5, <1>7

\* A remainder is known by its range.
LEMMA RemainderIs ==
    ASSUME NEW n \in Nat, NEW v \in Nat \ {0}, NEW c \in Nat, NEW s \in 0 .. v - 1,
           n = c * v + s
    PROVE  n % v = s
  <1> DEFINE q == n \div v
             r == n % v
  <1>1. q \in Nat /\ r \in 0 .. v - 1 /\ n = q * v + r
    OBVIOUS
  <1> HIDE DEF q, r
  <1>2. CASE q = c
    BY <1>1, <1>2 DEF r
  <1>3. CASE q < c
    <2>1. c * v >= (q + 1) * v
      BY <1>1, <1>3
    <2>2. (q + 1) * v = q * v + v
      BY <1>1
    <2> QED BY <1>1, <2>1, <2>2
  <1>4. CASE q > c
    <2>1. q * v >= (c + 1) * v
      BY <1>1, <1>4
    <2>2. (c + 1) * v = c * v + v
      BY <1>1
    <2> QED BY <1>1, <2>1, <2>2
  <1> QED BY <1>1, <1>2, <1>3, <1>4

\* Dividing by a product is dividing twice, and the remainder adds the digit.
LEMMA DigitStep ==
    ASSUME NEW n \in Nat, NEW w \in Nat \ {0}, NEW b \in Nat \ {0}
    PROVE  n % (b * w) = (n % w) + ((n \div w) % b) * w
  <1> DEFINE q == n \div w
             r == n % w
             d == q % b
             c == q \div b
  <1>1. q \in Nat /\ r \in 0 .. w - 1 /\ n = q * w + r
    OBVIOUS
  <1>2. d \in 0 .. b - 1 /\ c \in Nat /\ q = c * b + d
    BY <1>1
  <1>3. b * w \in Nat \ {0}
    OBVIOUS
  <1> HIDE DEF q, r, d, c
  <1>4. d * w + r \in 0 .. b * w - 1
    <2>1. d * w \in Nat /\ (d + 1) * w = d * w + w
      BY <1>2
    <2>2. (d + 1) * w <= b * w
      BY <1>2
    <2> QED BY <1>1, <1>3, <2>1, <2>2
  <1>5. n = c * (b * w) + (d * w + r)
    <2>1. q * w = (c * b) * w + d * w
      BY <1>2
    <2>2. (c * b) * w = c * (b * w)
      BY <1>2
    <2> QED BY <1>1, <1>2, <2>1, <2>2
  <1>6. n % (b * w) = d * w + r
    BY <1>2, <1>3, <1>4, <1>5, RemainderIs
  <1> QED BY <1>1, <1>2, <1>6 DEF q, r, d

\* Every weight is positive.
LEMMA WeightsPositive == \A i \in 0 .. HeaderSize : Weight[i] \in Nat \ {0}
  <1> DEFINE T == {i \in 0 .. HeaderSize : Weight[i] \in Nat \ {0}}
  <1>1. HeaderSize \in Nat /\ Base \in Nat \ {0}
    BY SizesAssumption
  <1>2. 0 \in T
    BY SizesAssumption, <1>1
  <1>3. ASSUME NEW i \in 0 .. HeaderSize - 1, i \in T
        PROVE  i + 1 \in T
    <2>1. i + 1 \in 1 .. HeaderSize /\ (i + 1) - 1 = i
      BY <1>1
    <2>2. Weight[i + 1] = Base * Weight[i]
      BY <2>1, SizesAssumption
    <2>3. Base * Weight[i] \in Nat \ {0}
      BY <1>1, <1>3
    <2> QED BY <2>1, <2>2, <2>3
  <1>4. 0 .. HeaderSize \subseteq T
    BY <1>1, <1>2, <1>3, UpTo
  <1> QED BY <1>4

\* s has the value of the first i digits.
Sums(digits, s) ==
    \A i \in 0 .. HeaderSize :
        s[i] = IF i = 0 THEN 0 ELSE s[i - 1] + digits[i] * Weight[i - 1]

\* Number is the last of the sums.
LEMMA NumberIs ==
    ASSUME NEW digits, NEW s \in [0 .. HeaderSize -> Nat], Sums(digits, s)
    PROVE  Number(digits) = s[HeaderSize]
  <1> DEFINE Sum == CHOOSE g : g = [i \in 0 .. HeaderSize |->
                        IF i = 0 THEN 0 ELSE g[i - 1] + digits[i] * Weight[i - 1]]
  <1>1. s = [i \in 0 .. HeaderSize |-> IF i = 0 THEN 0 ELSE s[i - 1] + digits[i] * Weight[i - 1]]
    BY DEF Sums
  <1>2. Sum = [i \in 0 .. HeaderSize |->
                  IF i = 0 THEN 0 ELSE Sum[i - 1] + digits[i] * Weight[i - 1]]
    BY <1>1
  <1>3. Number(digits) = Sum[HeaderSize]
    BY DEF Number
  <1> HIDE DEF Sum
  <1> DEFINE T == {i \in 0 .. HeaderSize : Sum[i] = s[i]}
  <1>4. HeaderSize \in Nat
    BY SizesAssumption
  <1>5. 0 \in T
    BY <1>2, <1>4 DEF Sums
  <1>6. ASSUME NEW i \in 0 .. HeaderSize - 1, i \in T
        PROVE  i + 1 \in T
    <2>1. i + 1 \in 0 .. HeaderSize /\ i + 1 # 0 /\ (i + 1) - 1 = i
      BY <1>4
    <2>2. Sum[i + 1] = Sum[i] + digits[i + 1] * Weight[i]
      BY <1>2, <2>1
    <2>3. s[i + 1] = s[i] + digits[i + 1] * Weight[i]
      BY <2>1 DEF Sums
    <2> QED BY <1>6, <2>1, <2>2, <2>3
  <1>7. 0 .. HeaderSize \subseteq T
    BY <1>4, <1>5, <1>6, UpTo
  <1>8. HeaderSize \in T
    BY <1>4, <1>7
  <1> QED BY <1>3, <1>8

\* The bytes of a header always make a number.
LEMMA NumberType ==
    ASSUME NEW digits \in Seq(Bytes), Len(digits) = HeaderSize
    PROVE  Number(digits) \in Nat
  <1> DEFINE W(i) == digits[i] * Weight[i - 1]
             Partial(n, s) == /\ s \in [0 .. n -> Nat] /\ s[0] = 0
                              /\ \A i \in 1 .. n : s[i] = s[i - 1] + W(i)
             T == {n \in 0 .. HeaderSize : \E s : Partial(n, s)}
  <1>1. HeaderSize \in Nat
    BY SizesAssumption
  <1>2. \A i \in 1 .. HeaderSize : W(i) \in Nat
    <2> SUFFICES ASSUME NEW i \in 1 .. HeaderSize PROVE W(i) \in Nat
      OBVIOUS
    <2>1. digits[i] \in Bytes /\ Base \in Nat
      BY SizesAssumption, ElementOfSeq
    <2>a. digits[i] \in Nat
      BY <2>1 DEF Bytes
    <2>2. i - 1 \in 0 .. HeaderSize
      BY <1>1
    <2>3. Weight[i - 1] \in Nat
      BY <2>2, WeightsPositive
    <2> QED BY <2>a, <2>3
  <1> HIDE DEF W
  <1>3. 0 \in T
    <2> DEFINE z == [i \in 0 .. 0 |-> 0]
    <2>1. z \in [0 .. 0 -> Nat] /\ z[0] = 0 /\ 1 .. 0 = {}
      OBVIOUS
    <2> HIDE DEF z
    <2>2. Partial(0, z)
      BY <2>1
    <2>3. \E s : Partial(0, s)
      BY <2>2
    <2> HIDE DEF Partial
    <2> QED BY <1>1, <2>3
  <1>4. ASSUME NEW n \in 0 .. HeaderSize - 1, n \in T
        PROVE  n + 1 \in T
    <2>1. PICK s : Partial(n, s)
      BY <1>4
    <2> DEFINE t == [i \in 0 .. n + 1 |-> IF i = n + 1 THEN s[n] + W(n + 1) ELSE s[i]]
    <2>2. n + 1 \in 1 .. HeaderSize /\ n + 1 \in 0 .. HeaderSize /\ n \in Nat
      BY <1>1
    <2>3. t \in [0 .. n + 1 -> Nat]
      BY <1>2, <2>1, <2>2
    <2>4. t[0] = 0
      BY <2>1, <2>2
    <2>5. \A i \in 1 .. n + 1 : t[i] = t[i - 1] + W(i)
      <3> SUFFICES ASSUME NEW i \in 1 .. n + 1 PROVE t[i] = t[i - 1] + W(i)
        OBVIOUS
      <3>1. i - 1 \in 0 .. n + 1 /\ i - 1 # n + 1 /\ i \in 0 .. n + 1
        BY <2>2
      <3>2. t[i - 1] = s[i - 1]
        BY <3>1
      <3>3. CASE i = n + 1
        BY <3>1, <3>2, <3>3, <2>2
      <3>4. CASE i # n + 1
        <4>1. i \in 1 .. n /\ t[i] = s[i]
          BY <3>1, <3>4, <2>2
        <4> QED BY <4>1, <3>2, <2>1
      <3> QED BY <3>3, <3>4
    <2> HIDE DEF t
    <2>6. Partial(n + 1, t)
      BY <2>3, <2>4, <2>5
    <2> QED BY <2>2, <2>6
  <1>5. HeaderSize \in T
    <2> HIDE DEF T
    <2>1. 0 .. HeaderSize \subseteq T
      BY <1>1, <1>3, <1>4, UpTo
    <2> QED BY <1>1, <2>1
  <1>6. PICK s : Partial(HeaderSize, s)
    BY <1>5
  <1>7. Sums(digits, s)
    <2> SUFFICES ASSUME NEW i \in 0 .. HeaderSize
                 PROVE  s[i] = IF i = 0 THEN 0 ELSE s[i - 1] + digits[i] * Weight[i - 1]
      BY DEF Sums
    <2>1. CASE i = 0
      BY <1>6, <2>1
    <2>2. CASE i # 0
      <3>1. i \in 1 .. HeaderSize
        BY <2>2, <1>1
      <3> QED BY <3>1, <2>2, <1>6 DEF W
    <2> QED BY <2>1, <2>2
  <1> QED BY <1>1, <1>6, <1>7, NumberIs

\* The length that is put into a header is the one that is read from it.
LEMMA HeaderRoundTrip ==
    ASSUME NEW n \in 0 .. MaxPayload
    PROVE  /\ Digits(n) \in Seq(Bytes) /\ Len(Digits(n)) = HeaderSize
           /\ Number(Digits(n)) = n
  <1> DEFINE s == [i \in 0 .. HeaderSize |-> n % Weight[i]]
  <1>1. HeaderSize \in Nat /\ Base \in Nat \ {0} /\ n \in Nat /\ Weight[0] = 1
    BY SizesAssumption
  <1>2. ASSUME NEW i \in 1 .. HeaderSize
        PROVE  /\ i - 1 \in 0 .. HeaderSize /\ i \in 0 .. HeaderSize
               /\ Weight[i - 1] \in Nat \ {0} /\ Weight[i] = Base * Weight[i - 1]
    BY <1>1, WeightsPositive, SizesAssumption
  <1>3. \A i \in 1 .. HeaderSize : (n \div Weight[i - 1]) % Base \in Bytes
    <2> SUFFICES ASSUME NEW i \in 1 .. HeaderSize
                 PROVE  (n \div Weight[i - 1]) % Base \in Bytes
      OBVIOUS
    <2>1. PICK w \in Nat \ {0} : w = Weight[i - 1]
      BY <1>2
    <2>2. n \div w \in Nat
      BY <1>1, <2>1
    <2>3. (n \div w) % Base \in 0 .. Base - 1
      BY <1>1, <2>2
    <2> QED BY <2>1, <2>3 DEF Bytes
  <1>4. Digits(n) \in Seq(Bytes) /\ Len(Digits(n)) = HeaderSize
    <2>1. Digits(n) \in [1 .. HeaderSize -> Bytes]
      BY <1>3 DEF Digits
    <2> QED BY <1>1, <2>1
  <1>5. s \in [0 .. HeaderSize -> Nat]
    BY <1>1, WeightsPositive
  <1>6. Sums(Digits(n), s)
    <2> SUFFICES ASSUME NEW i \in 0 .. HeaderSize
                 PROVE  s[i] = IF i = 0 THEN 0 ELSE s[i - 1] + Digits(n)[i] * Weight[i - 1]
      BY DEF Sums
    <2>1. CASE i = 0
      BY <1>1, <2>1
    <2>2. CASE i # 0
      <3>1. i \in 1 .. HeaderSize
        BY <1>1, <2>2
      <3>2. s[i] = n % Weight[i] /\ s[i - 1] = n % Weight[i - 1]
        BY <1>2, <3>1
      <3>3. Digits(n)[i] = (n \div Weight[i - 1]) % Base
        BY <3>1 DEF Digits
      <3>4. n % Weight[i] = (n % Weight[i - 1]) + ((n \div Weight[i - 1]) % Base) * Weight[i - 1]
        <4>1. PICK w \in Nat \ {0} : w = Weight[i - 1]
          BY <1>2, <3>1
        <4>2. n % (Base * w) = (n % w) + ((n \div w) % Base) * w
          BY <1>1, DigitStep
        <4> QED BY <1>2, <3>1, <4>1, <4>2
      <3> QED BY <2>2, <3>2, <3>3, <3>4
    <2> QED BY <2>1, <2>2
  <1>7. s[HeaderSize] = n
    <2>1. n < Weight[HeaderSize] /\ Weight[HeaderSize] \in Nat \ {0}
      BY <1>1, WeightsPositive, SizesAssumption
    <2> QED BY <1>1, <2>1
  <1> QED BY <1>4, <1>5, <1>6, <1>7, NumberIs

-----------------------------------------------------------------------------
(* Types.                                                                  *)

\* The sizes are numbers.
LEMMA Sizes ==
    /\ HeaderSize \in Nat \ {0} /\ MaxPayload \in Nat /\ BufferSize \in Nat \ {0}
    /\ Weight[HeaderSize] \in Nat \ {0} /\ MaxPayload < Weight[HeaderSize]
    /\ 0 \in Bytes
  <1>1. HeaderSize \in Nat \ {0} /\ BufferSize \in Nat \ {0} /\ Base \in Nat \ {0, 1}
    BY SizesAssumption
  <1>2. Weight[HeaderSize] \in Nat \ {0}
    BY <1>1, WeightsPositive
  <1>3. MaxPayload \in Nat /\ MaxPayload < Weight[HeaderSize]
    BY <1>2, SizesAssumption
  <1> QED BY <1>1, <1>2, <1>3 DEF Bytes

\* What one round copies and what it leaves.
LEMMA Cut ==
    ASSUME NEW q \in Seq(Bytes), NEW t \in 0 .. Len(q)
    PROVE  /\ SubSeq(q, 1, t) \in Seq(Bytes) /\ Len(SubSeq(q, 1, t)) = t
           /\ \A i \in 1 .. t : SubSeq(q, 1, t)[i] = q[i]
           /\ SubSeq(q, t + 1, Len(q)) \in Seq(Bytes)
           /\ Len(SubSeq(q, t + 1, Len(q))) = Len(q) - t
           /\ \A i \in 1 .. Len(q) - t : SubSeq(q, t + 1, Len(q))[i] = q[t + i]
  <1>1. Len(q) \in Nat /\ t \in Int /\ t + 1 \in Int /\ 1 \in Int
    BY LenProperties
  <1>2. \A i \in 1 .. Len(q) : q[i] \in Bytes
    BY ElementOfSeq
  <1>3. /\ SubSeq(q, 1, t) \in Seq(Bytes)
        /\ Len(SubSeq(q, 1, t)) = IF 1 <= t THEN t - 1 + 1 ELSE 0
        /\ \A i \in 1 .. t - 1 + 1 : SubSeq(q, 1, t)[i] = q[1 + i - 1]
    <2>1. \A i \in 1 .. t : q[i] \in Bytes
      BY <1>1, <1>2
    <2> QED BY <1>1, <2>1, SubSeqProperties
  <1>4. /\ SubSeq(q, t + 1, Len(q)) \in Seq(Bytes)
        /\ Len(SubSeq(q, t + 1, Len(q))) = IF t + 1 <= Len(q) THEN Len(q) - (t + 1) + 1 ELSE 0
        /\ \A i \in 1 .. Len(q) - (t + 1) + 1 :
              SubSeq(q, t + 1, Len(q))[i] = q[t + 1 + i - 1]
    <2>1. \A i \in t + 1 .. Len(q) : q[i] \in Bytes
      BY <1>1, <1>2
    <2> QED BY <1>1, <2>1, SubSeqProperties
  <1>5. \A i \in Int : t + 1 + i - 1 = t + i /\ 1 + i - 1 = i
    BY <1>1
  <1>6. t - 1 + 1 = t /\ Len(q) - (t + 1) + 1 = Len(q) - t
    BY <1>1
  <1>7. \A i \in 1 .. t : SubSeq(q, 1, t)[i] = q[i]
    BY <1>3, <1>5, <1>6
  <1>8. \A i \in 1 .. Len(q) - t : SubSeq(q, t + 1, Len(q))[i] = q[t + i]
    BY <1>4, <1>5, <1>6
  <1>9. Len(SubSeq(q, 1, t)) = t /\ Len(SubSeq(q, t + 1, Len(q))) = Len(q) - t
    BY <1>1, <1>3, <1>4
  <1> QED BY <1>3, <1>4, <1>7, <1>8, <1>9

\* What has been copied and what a round adds to it.
LEMMA Copied ==
    ASSUME NEW had \in Seq(Bytes), NEW q \in Seq(Bytes), NEW t \in 0 .. Len(q)
    PROVE  /\ had \o SubSeq(q, 1, t) \in Seq(Bytes)
           /\ Len(had \o SubSeq(q, 1, t)) = Len(had) + t
           /\ \A i \in 1 .. Len(had) + t : (had \o SubSeq(q, 1, t))[i] =
                  IF i <= Len(had) THEN had[i] ELSE q[i - Len(had)]
  <1>1. /\ SubSeq(q, 1, t) \in Seq(Bytes) /\ Len(SubSeq(q, 1, t)) = t
        /\ \A i \in 1 .. t : SubSeq(q, 1, t)[i] = q[i]
    BY Cut
  <1> DEFINE c == SubSeq(q, 1, t)
  <1> HIDE DEF c
  <1>2. /\ had \o c \in Seq(Bytes) /\ Len(had \o c) = Len(had) + Len(c)
        /\ \A i \in 1 .. Len(had) + Len(c) : (had \o c)[i] =
                  IF i <= Len(had) THEN had[i] ELSE c[i - Len(had)]
    BY <1>1, ConcatProperties DEF c
  <1>3. Len(had) \in Nat /\ Len(c) = t /\ t \in Nat
    BY <1>1, LenProperties DEF c
  <1>4. \A i \in 1 .. Len(had) + t : ~(i <= Len(had)) => i - Len(had) \in 1 .. t
    BY <1>3
  <1>5. \A i \in 1 .. t : c[i] = q[i]
    BY <1>1 DEF c
  <1>6. \A i \in 1 .. Len(had) + t : (had \o c)[i] =
                  IF i <= Len(had) THEN had[i] ELSE q[i - Len(had)]
    BY <1>2, <1>3, <1>4, <1>5
  <1> QED BY <1>2, <1>3, <1>6 DEF c

\* A frame on the wire: the header, the type, and the payload.
LEMMA CodeOf ==
    ASSUME NEW f \in Frames
    PROVE  /\ WriteFrame(f) \in Seq(Bytes) /\ Len(WriteFrame(f)) > HeaderSize
           /\ Len(f.payload) <= MaxPayload =>
                 /\ Len(WriteFrame(f)) = HeaderSize + 1 + Len(f.payload)
                 /\ \A p \in 1 .. HeaderSize : WriteFrame(f)[p] = Digits(Len(f.payload))[p]
                 /\ WriteFrame(f)[HeaderSize + 1] = f.type
                 /\ \A p \in 1 .. Len(f.payload) :
                       WriteFrame(f)[HeaderSize + 1 + p] = f.payload[p]
  <1> DEFINE n == Len(f.payload)
             b == f.payload
  <1>1. f.type \in Bytes /\ f.payload \in Seq(Bytes)
    BY FramesAssumption
  <1>2. n \in Nat
    BY <1>1, LenProperties
  <1>3. HeaderSize \in Nat \ {0}
    BY SizesAssumption
  <1>4. b \in Seq(Bytes) /\ Len(b) = n
    BY <1>1
  <1>5. Digits(n) \in Seq(Bytes) /\ Len(Digits(n)) = HeaderSize
    <2>1. \A i \in 1 .. HeaderSize : (n \div Weight[i - 1]) % Base \in Bytes
      <3> SUFFICES ASSUME NEW i \in 1 .. HeaderSize
                   PROVE  (n \div Weight[i - 1]) % Base \in Bytes
        OBVIOUS
      <3>1. i - 1 \in 0 .. HeaderSize
        BY <1>3
      <3>2. PICK v \in Nat \ {0} : v = Weight[i - 1]
        BY <3>1, WeightsPositive
      <3>3. n \div v \in Nat
        <4> HIDE DEF n
        <4> QED BY <1>2, <3>2
      <3>4. (n \div v) % Base \in 0 .. Base - 1
        <4>1. Base \in Nat \ {0}
          BY SizesAssumption
        <4> DEFINE d == n \div v
        <4>2. d \in Nat
          BY <3>3
        <4> HIDE DEF d
        <4>3. d % Base \in 0 .. Base - 1
          BY <4>1, <4>2
        <4> QED BY <4>3 DEF d
      <3> QED BY <3>2, <3>4 DEF Bytes
    <2>2. Digits(n) \in [1 .. HeaderSize -> Bytes]
      BY <2>1 DEF Digits
    <2> HIDE DEF n
    <2> QED BY <1>3, <2>2
  <1> DEFINE h == Digits(n)
             ht == h \o <<f.type>>
  <1>6. WriteFrame(f) = ht \o b
    BY DEF WriteFrame
  <1> HIDE DEF n, b, h
  <1>7. /\ ht \in Seq(Bytes) /\ Len(ht) = HeaderSize + 1
        /\ \A p \in 1 .. HeaderSize : ht[p] = h[p]
        /\ ht[HeaderSize + 1] = f.type
    <2>1. <<f.type>> \in Seq(Bytes) /\ Len(<<f.type>>) = 1 /\ <<f.type>>[1] = f.type
      BY <1>1
    <2> DEFINE one == <<f.type>>
    <2>2. h \in Seq(Bytes) /\ Len(h) = HeaderSize
      BY <1>5 DEF h
    <2> HIDE DEF one
    <2>3. /\ h \o one \in Seq(Bytes) /\ Len(h \o one) = Len(h) + Len(one)
          /\ \A i \in 1 .. Len(h) + Len(one) : (h \o one)[i] =
                 IF i <= Len(h) THEN h[i] ELSE one[i - Len(h)]
      BY <2>1, <2>2, ConcatProperties DEF one
    <2>4. Len(one) = 1 /\ one[1] = f.type
      BY <2>1 DEF one
    <2> QED BY <1>3, <2>2, <2>3, <2>4 DEF one
  <1> HIDE DEF ht
  <1>8. /\ ht \o b \in Seq(Bytes) /\ Len(ht \o b) = Len(ht) + Len(b)
        /\ \A i \in 1 .. Len(ht) + Len(b) : (ht \o b)[i] =
               IF i <= Len(ht) THEN ht[i] ELSE b[i - Len(ht)]
    BY <1>4, <1>7, ConcatProperties
  <1>9. Len(ht \o b) = HeaderSize + 1 + n /\ n \in Nat
    BY <1>2, <1>4, <1>7, <1>8
  <1>10. \A p \in 1 .. HeaderSize + 1 : (ht \o b)[p] = ht[p]
    BY <1>2, <1>3, <1>4, <1>7, <1>8
  <1>11. \A p \in 1 .. n : (ht \o b)[HeaderSize + 1 + p] = f.payload[p]
    <2> SUFFICES ASSUME NEW p \in 1 .. n PROVE (ht \o b)[HeaderSize + 1 + p] = f.payload[p]
      OBVIOUS
    <2>1. /\ HeaderSize + 1 + p \in 1 .. Len(ht) + Len(b) /\ ~(HeaderSize + 1 + p <= Len(ht))
          /\ HeaderSize + 1 + p - Len(ht) = p
      BY <1>3, <1>4, <1>7, <1>9
    <2>2. PICK i \in 1 .. Len(ht) + Len(b) : i = HeaderSize + 1 + p
      BY <2>1
    <2>3. ~(i <= Len(ht)) /\ i - Len(ht) = p
      BY <1>3, <1>7, <1>9, <2>2
    <2>4. (ht \o b)[i] = b[p]
      BY <1>8, <2>3
    <2> QED BY <2>2, <2>4 DEF b
  <1>12. HeaderSize + 1 + n > HeaderSize /\ HeaderSize + 1 \in 1 .. HeaderSize + 1
         /\ \A p \in 1 .. HeaderSize : p \in 1 .. HeaderSize + 1
    BY <1>3, <1>9
  <1> QED BY <1>6, <1>7, <1>8, <1>9, <1>10, <1>11, <1>12 DEF h, n

\* The smaller of two numbers.
LEMMA SmallerIs ==
    ASSUME NEW m \in Nat, NEW n \in Nat
    PROVE  /\ Smaller(m, n) \in 0 .. m /\ Smaller(m, n) \in 0 .. n
           /\ Smaller(m, n) = m \/ Smaller(m, n) = n
  BY DEF Smaller

\* What a round copies into the header.
LEMMA HeaderCopy ==
    ASSUME TypeOK
    PROVE  LET t == Smaller(HeaderSize - Len(header), Len(data))
           IN /\ t \in 0 .. Len(data) /\ t + Len(header) <= HeaderSize
              /\ t = Len(data) \/ t + Len(header) = HeaderSize
              /\ header \o SubSeq(data, 1, t) \in Seq(Bytes)
              /\ Len(header \o SubSeq(data, 1, t)) = Len(header) + t
  <1> DEFINE t == Smaller(HeaderSize - Len(header), Len(data))
  <1>1. /\ header \in Seq(Bytes) /\ data \in Seq(Bytes) /\ Len(header) \in 0 .. HeaderSize
        /\ HeaderSize \in Nat /\ Len(data) \in Nat
    BY Sizes, LenProperties DEF TypeOK
  <1>2. HeaderSize - Len(header) \in Nat
    BY <1>1
  <1>3. /\ t \in 0 .. (HeaderSize - Len(header)) /\ t \in 0 .. Len(data)
        /\ t = HeaderSize - Len(header) \/ t = Len(data)
    BY <1>1, <1>2, SmallerIs
  <1> HIDE DEF t
  <1>4. t + Len(header) <= HeaderSize /\ (t = Len(data) \/ t + Len(header) = HeaderSize)
    BY <1>1, <1>3
  <1>5. header \o SubSeq(data, 1, t) \in Seq(Bytes)
        /\ Len(header \o SubSeq(data, 1, t)) = Len(header) + t
    BY <1>1, <1>3, Copied
  <1> QED BY <1>3, <1>4, <1>5 DEF t

\* What a round copies into the payload.
LEMMA PayloadCopy ==
    ASSUME TypeOK
    PROVE  LET t == Smaller(payloadLen - Len(payload), Len(data))
           IN /\ t \in 0 .. Len(data) /\ t + Len(payload) <= payloadLen
              /\ t = Len(data) \/ t + Len(payload) = payloadLen
              /\ payload \o SubSeq(data, 1, t) \in Seq(Bytes)
              /\ Len(payload \o SubSeq(data, 1, t)) = Len(payload) + t
  <1> DEFINE t == Smaller(payloadLen - Len(payload), Len(data))
  <1>1. /\ payload \in Seq(Bytes) /\ data \in Seq(Bytes) /\ Len(payload) \in 0 .. payloadLen
        /\ payloadLen \in Nat /\ Len(data) \in Nat
    BY Sizes, LenProperties DEF TypeOK
  <1>2. payloadLen - Len(payload) \in Nat
    BY <1>1
  <1>3. /\ t \in 0 .. (payloadLen - Len(payload)) /\ t \in 0 .. Len(data)
        /\ t = payloadLen - Len(payload) \/ t = Len(data)
    BY <1>1, <1>2, SmallerIs
  <1> HIDE DEF t
  <1>4. t + Len(payload) <= payloadLen /\ (t = Len(data) \/ t + Len(payload) = payloadLen)
    BY <1>1, <1>3
  <1>5. payload \o SubSeq(data, 1, t) \in Seq(Bytes)
        /\ Len(payload \o SubSeq(data, 1, t)) = Len(payload) + t
    BY <1>1, <1>3, Copied
  <1> QED BY <1>3, <1>4, <1>5 DEF t

TypeInv == TypeOK /\ RestInv

\* The parts of the type invariant a step may touch.
LEMMA InitTypes == Init => TypeInv
  BY Sizes DEF Init, TypeInv, TypeOK, RestInv

\* A frame that is returned leaves the decoder ready for the next header.
LEMMA ReturnTypes ==
    ASSUME TypeInv, NEW type \in Bytes, NEW content \in Seq(Bytes), NEW rest \in Seq(Bytes),
           ReturnFrame(type, content, rest), frameType' \in Bytes,
           UNCHANGED <<sent, wire, ghostVars>>
    PROVE  TypeInv'
  <1>1. [type |-> type, payload |-> content] \in [type : Bytes, payload : Seq(Bytes)]
    OBVIOUS
  <1>2. delivered' \in Seq([type : Bytes, payload : Seq(Bytes)])
    BY <1>1, AppendProperties DEF TypeInv, TypeOK, ReturnFrame
  <1>3. <<>> \in Seq(Bytes) /\ Len(<<>>) = 0 /\ HeaderSize \in Nat /\ MaxPayload \in Nat
    BY Sizes, EmptySeq
  <1> QED BY <1>2, <1>3 DEF TypeInv, TypeOK, RestInv, ReturnFrame, ResetState, SavePending,
                      ghostVars

\* A header that is read: to be continued, too large, or accepted.
LEMMA ReadHeaderTypes == TypeInv /\ ReadHeader => TypeInv'
  <1> SUFFICES ASSUME TypeInv, ReadHeader PROVE TypeInv'
    OBVIOUS
  <1> DEFINE t == Smaller(HeaderSize - Len(header), Len(data))
             read == header \o SubSeq(data, 1, t)
             rest == SubSeq(data, t + 1, Len(data))
  <1>1. /\ t \in 0 .. Len(data) /\ t + Len(header) <= HeaderSize
        /\ read \in Seq(Bytes) /\ Len(read) = Len(header) + t
    BY HeaderCopy DEF TypeInv
  <1>2. data \in Seq(Bytes) /\ header \in Seq(Bytes) /\ Len(header) \in Nat
    BY LenProperties DEF TypeInv, TypeOK
  <1>3. rest \in Seq(Bytes)
    BY <1>1, <1>2, Cut
  <1>4. Len(read) <= HeaderSize
    BY <1>1, <1>2, Sizes
  <1>5. Len(read) = HeaderSize => Number(read) \in Nat
    BY <1>1, NumberType
  <1>6. /\ reader = "feeding" /\ state = "READ_HEADER"
        /\ UNCHANGED <<sent, wire, frameType, ghostVars>>
        /\ \/ /\ Len(read) < HeaderSize
              /\ header' = read /\ data' = rest
              /\ UNCHANGED <<reader, state, payloadLen, payload, pending, delivered>>
           \/ /\ ResetState /\ pending' = <<>> /\ ReturnNothing
           \/ /\ Len(read) = HeaderSize /\ Number(read) <= MaxPayload
              /\ header' = read /\ payloadLen' = Number(read)
              /\ state' = "READ_TYPE" /\ data' = rest
              /\ UNCHANGED <<reader, payload, pending, delivered>>
    BY DEF ReadHeader
  <1> HIDE DEF t, read, rest
  <1>7. <<>> \in Seq(Bytes) /\ Len(<<>>) = 0 /\ HeaderSize \in Nat /\ MaxPayload \in Nat
    BY Sizes, EmptySeq
  <1>8. CASE /\ Len(read) < HeaderSize
             /\ header' = read /\ data' = rest
             /\ UNCHANGED <<reader, state, payloadLen, payload, pending, delivered>>
    BY <1>1, <1>3, <1>4, <1>6, <1>8 DEF TypeInv, TypeOK, RestInv, ghostVars
  <1>9. CASE ResetState /\ pending' = <<>> /\ ReturnNothing
    BY <1>6, <1>7, <1>9 DEF TypeInv, TypeOK, RestInv, ghostVars, ResetState, ReturnNothing
  <1>10. CASE /\ Len(read) = HeaderSize /\ Number(read) <= MaxPayload
              /\ header' = read /\ payloadLen' = Number(read)
              /\ state' = "READ_TYPE" /\ data' = rest
              /\ UNCHANGED <<reader, payload, pending, delivered>>
    <2>1. payloadLen' \in 0 .. MaxPayload /\ payload = <<>> /\ Len(payload') <= payloadLen'
      BY <1>5, <1>6, <1>7, <1>10 DEF TypeInv, RestInv
    <2> QED BY <1>1, <1>3, <1>4, <1>6, <1>10, <2>1 DEF TypeInv, TypeOK, RestInv, ghostVars
  <1> QED BY <1>6, <1>8, <1>9, <1>10

\* Every step keeps the types.
LEMMA NextTypes == TypeInv /\ [Next]_vars => TypeInv'
  <1> SUFFICES ASSUME TypeInv, [Next]_vars PROVE TypeInv'
    OBVIOUS
  <1>0. <<>> \in Seq(Bytes) /\ Len(<<>>) = 0 /\ HeaderSize \in Nat /\ MaxPayload \in Nat
    BY Sizes, EmptySeq
  <1>1. CASE \E f \in Frames : Send(f)
    <2>1. PICK f \in Frames : Send(f)
      BY <1>1
    <2>2. WriteFrame(f) \in Seq(Bytes)
      BY CodeOf
    <2>3. wire' \in Seq(Bytes) /\ Len(wire') \in Nat
      BY <2>1, <2>2, ConcatProperties, LenProperties DEF Send, TypeInv, TypeOK
    <2>4. ends' \in Seq(Nat)
      BY <2>1, <2>3, AppendProperties DEF Send, TypeInv, TypeOK
    <2>5. sent' \in Seq(Frames)
      BY <2>1, AppendProperties DEF Send, TypeInv, TypeOK
    <2> QED BY <2>1, <2>3, <2>4, <2>5 DEF Send, TypeInv, TypeOK, RestInv, decoderVars
  <1>2. CASE ReceiveData
    <2>1. PICK n \in 1 .. Smaller(BufferSize, Len(wire)) :
             /\ Feed(SubSeq(wire, 1, n))
             /\ wire' = SubSeq(wire, n + 1, Len(wire)) /\ taken' = taken + n
      BY <1>2 DEF ReceiveData
    <2>2. wire \in Seq(Bytes) /\ Len(wire) \in Nat
      BY LenProperties DEF TypeInv, TypeOK
    <2>3. n \in 1 .. Len(wire) /\ n \in 0 .. Len(wire) /\ n \in Nat
      <3>1. BufferSize \in Nat
        BY Sizes
      <3>2. Smaller(BufferSize, Len(wire)) \in 0 .. Len(wire)
        BY <2>2, <3>1, SmallerIs
      <3> QED BY <2>2, <3>2
    <2>4. SubSeq(wire, 1, n) \in Seq(Bytes) /\ wire' \in Seq(Bytes)
      BY <2>1, <2>2, <2>3, Cut
    <2>5. pending \o SubSeq(wire, 1, n) \in Seq(Bytes)
      BY <2>4, ConcatProperties DEF TypeInv, TypeOK
    <2>6. reader' \in {"receiving", "feeding"} /\ data' \in Seq(Bytes) /\ reader = "receiving"
      BY <1>0, <1>2, <2>1, <2>5 DEF Feed, ReceiveData
    <2>7. taken' \in Nat
      BY <2>1, <2>3 DEF TypeInv, TypeOK
    <2> QED BY <1>2, <2>4, <2>6, <2>7 DEF ReceiveData, TypeInv, TypeOK, RestInv, decoderVars
  <1>3. CASE ReadHeader
    BY <1>3, ReadHeaderTypes
  <1>4. CASE ReadType
    <2>1. data # <<>> /\ data \in Seq(Bytes)
      BY <1>4 DEF ReadType, TypeInv, TypeOK
    <2>2. frameType' \in Bytes /\ Tail(data) \in Seq(Bytes)
      BY <1>4, <2>1, HeadTailProperties DEF ReadType
    <2>3. CASE ReturnFrame(frameType', <<>>, Tail(data))
      <3>1. UNCHANGED <<sent, wire, ghostVars>>
        BY <1>4 DEF ReadType
      <3> QED BY <1>0, <2>2, <2>3, <3>1, ReturnTypes
    <2>4. CASE ~ReturnFrame(frameType', <<>>, Tail(data))
      <3>1. payload' = <<>> /\ payloadLen' = payloadLen
        BY <1>4, <2>4 DEF ReadType
      <3> QED BY <1>0, <1>4, <2>2, <2>4, <3>1 DEF ReadType, TypeInv, TypeOK, RestInv, ghostVars
    <2> QED BY <2>3, <2>4
  <1>5. CASE ReadPayload
    <2> DEFINE t == Smaller(payloadLen - Len(payload), Len(data))
               read == payload \o SubSeq(data, 1, t)
               rest == SubSeq(data, t + 1, Len(data))
    <2>1. /\ t \in 0 .. Len(data) /\ t + Len(payload) <= payloadLen
          /\ read \in Seq(Bytes) /\ Len(read) = Len(payload) + t
      BY PayloadCopy DEF TypeInv
    <2>2. /\ data \in Seq(Bytes) /\ Len(payload) \in Nat /\ payloadLen \in Nat
      BY <1>0, LenProperties DEF TypeInv, TypeOK
    <2>3. rest \in Seq(Bytes)
      BY <2>1, <2>2, Cut
    <2>4. Len(read) <= payloadLen
      BY <2>1, <2>2
    <2>5. /\ reader = "feeding" /\ state = "READ_PAYLOAD"
          /\ UNCHANGED <<sent, wire, frameType, ghostVars>>
          /\ \/ ReturnFrame(frameType, read, rest)
             \/ /\ payload' = read /\ data' = rest
                /\ UNCHANGED <<reader, state, header, payloadLen, pending, delivered>>
      BY <1>5 DEF ReadPayload
    <2> HIDE DEF t, read, rest
    <2>6. CASE ReturnFrame(frameType, read, rest)
      <3>1. frameType \in Bytes /\ frameType' \in Bytes
        BY <2>5 DEF TypeInv, TypeOK
      <3> QED BY <2>1, <2>3, <2>5, <2>6, <3>1, ReturnTypes
    <2>7. CASE /\ payload' = read /\ data' = rest
               /\ UNCHANGED <<reader, state, header, payloadLen, pending, delivered>>
      BY <2>1, <2>3, <2>4, <2>5, <2>7 DEF TypeInv, TypeOK, RestInv, ghostVars
    <2> QED BY <2>5, <2>6, <2>7
  <1>6. CASE EndOfData
    BY <1>0, <1>6 DEF EndOfData, ReturnNothing, TypeInv, TypeOK, RestInv, ghostVars
  <1>7. CASE DispatchFrame
    <2>1. pending \o <<>> \in Seq(Bytes)
      BY <1>0, ConcatProperties DEF TypeInv, TypeOK
    <2>2. /\ reader' \in {"receiving", "feeding"} /\ data' \in Seq(Bytes)
          /\ reader' = "receiving" => pending = <<>>
      BY <1>0, <1>7, <2>1 DEF DispatchFrame, Feed
    <2> QED BY <1>7, <2>2 DEF DispatchFrame, TypeInv, TypeOK, RestInv, decoderVars, ghostVars
  <1>8. CASE UNCHANGED vars
    BY <1>8 DEF vars, decoderVars, ghostVars, TypeInv, TypeOK, RestInv
  <1> QED BY <1>1, <1>2, <1>3, <1>4, <1>5, <1>6, <1>7, <1>8 DEF Next

-----------------------------------------------------------------------------
(* The stream.                                                             *)

\* Frames end at numbers.
LEMMA StartType ==
    ASSUME TypeOK, Len(ends) = Len(sent), NEW k \in 0 .. Len(sent)
    PROVE  Start(k) \in Nat
  <1>1. ends \in Seq(Nat)
    BY DEF TypeOK
  <1>2. CASE k = 0
    BY <1>2 DEF Start, Begin
  <1>3. CASE k # 0
    <2>1. Len(sent) \in Nat
      BY <1>1, LenProperties
    <2>2. k \in 1 .. Len(ends)
      BY <1>3, <2>1
    <2> QED BY <1>1, <1>3, <2>2, ElementOfSeq DEF Start, Begin
  <1> QED BY <1>2, <1>3

\* A part of what follows follows.
LEMMA CutFollows ==
    ASSUME NEW q \in Seq(Bytes), NEW t \in 0 .. Len(q), NEW from \in Nat, NEW s, NEW e,
           Follows(q, from, s, e)
    PROVE  /\ Follows(SubSeq(q, 1, t), from, s, e)
           /\ Follows(SubSeq(q, t + 1, Len(q)), from + t, s, e)
  <1> DEFINE a == SubSeq(q, 1, t)
             b == SubSeq(q, t + 1, Len(q))
  <1>1. Len(q) \in Nat /\ t \in Nat /\ t <= Len(q)
    BY LenProperties
  <1>2. /\ Len(a) = t /\ \A p \in 1 .. t : a[p] = q[p]
        /\ Len(b) = Len(q) - t /\ \A p \in 1 .. Len(q) - t : b[p] = q[t + p]
    BY Cut
  <1> HIDE DEF a, b
  <1>3. Follows(a, from, s, e)
    <2>1. \A p \in 1 .. Len(a) : p \in 1 .. Len(q) /\ a[p] = q[p]
      BY <1>1, <1>2
    <2> QED BY <2>1 DEF Follows
  <1>4. Follows(b, from + t, s, e)
    <2> SUFFICES ASSUME NEW p \in 1 .. Len(b), NEW i \in 1 .. Len(s),
                        NEW j \in 1 .. Len(WriteFrame(s[i])),
                        (from + t) + p = Begin(e, i - 1) + j
                 PROVE  b[p] = WriteFrame(s[i])[j]
      BY DEF Follows
    <2>1. t + p \in 1 .. Len(q) /\ from + (t + p) = (from + t) + p /\ b[p] = q[t + p]
      BY <1>1, <1>2
    <2> QED BY <2>1 DEF Follows
  <1> QED BY <1>3, <1>4 DEF a, b

\* A byte of the frame that is being read.
LEMMA ByteOf ==
    ASSUME NEW q, NEW s, NEW e, NEW from, NEW i \in 1 .. Len(s), NEW p \in 1 .. Len(q),
           NEW o \in Nat, Begin(e, i - 1) \in Nat,
           Follows(q, from, s, e), from = Begin(e, i - 1) + o, Len(q) \in Nat,
           o + p <= Len(WriteFrame(s[i])), Len(WriteFrame(s[i])) \in Nat
    PROVE  q[p] = WriteFrame(s[i])[o + p]
  <1>1. o + p \in 1 .. Len(WriteFrame(s[i]))
    OBVIOUS
  <1>2. from + p = Begin(e, i - 1) + (o + p)
    OBVIOUS
  <1> QED BY <1>1, <1>2 DEF Follows

\* A frame that is sent comes after everything, and nothing before it changes.
LEMMA SendFollows ==
    ASSUME TypeOK, StreamInv, NEW f \in Frames, Send(f), NEW q \in Seq(Bytes), NEW from \in Nat,
           from + Len(q) <= taken, Carries(q, from)
    PROVE  Follows(q, from, sent', ends')
  <1>1. /\ sent \in Seq(Frames) /\ ends \in Seq(Nat) /\ Len(sent) \in Nat /\ taken \in Nat
        /\ Len(wire) \in Nat /\ Len(q) \in Nat /\ Len(ends) = Len(sent)
    BY LenProperties DEF TypeOK, StreamInv
  <1>2. /\ Len(sent') = Len(sent) + 1 /\ \A i \in 1 .. Len(sent) : sent'[i] = sent[i]
    BY <1>1, AppendProperties DEF Send
  <1>3. ends' = Append(ends, taken + Len(wire')) /\ taken + Len(wire') \in Nat
    <2>1. WriteFrame(f) \in Seq(Bytes) /\ wire \in Seq(Bytes)
      BY CodeOf DEF TypeOK
    <2>2. Len(wire') \in Nat
      BY <2>1, ConcatProperties, LenProperties DEF Send
    <2> QED BY <1>1, <2>2 DEF Send
  <1>4. \A i \in 1 .. Len(sent) : ends'[i] = ends[i]
    BY <1>1, <1>3, AppendProperties
  <1> SUFFICES ASSUME NEW p \in 1 .. Len(q), NEW i \in 1 .. Len(sent'),
                      NEW j \in 1 .. Len(WriteFrame(sent'[i])),
                      from + p = Begin(ends', i - 1) + j
               PROVE  q[p] = WriteFrame(sent'[i])[j]
    BY DEF Follows
  <1>5. CASE i \in 1 .. Len(sent)
    <2>1. sent'[i] = sent[i] /\ Begin(ends', i - 1) = Begin(ends, i - 1)
      BY <1>1, <1>2, <1>4, <1>5 DEF Begin
    <2> QED BY <1>5, <2>1 DEF Carries, Follows
  <1>6. CASE i = Len(sent) + 1
    <2>1. Begin(ends', i - 1) = Start(Len(sent))
      BY <1>1, <1>4, <1>6 DEF Begin, Start
    <2>2. Start(Len(sent)) = taken + Len(wire)
      BY DEF StreamInv
    <2>3. WriteFrame(sent'[i]) \in Seq(Bytes)
      <3>1. sent'[i] = f
        BY <1>1, <1>6, AppendProperties DEF Send
      <3> QED BY <3>1, CodeOf
    <2>4. j >= 1 /\ j \in Nat
      BY <2>3, LenProperties
    <2>5. from + p <= taken
      BY <1>1
    <2> QED BY <1>1, <2>1, <2>2, <2>4, <2>5
  <1>7. i \in 1 .. Len(sent) + 1
    BY <1>2
  <1> QED BY <1>1, <1>5, <1>6, <1>7

\* Sending extends the stream.
LEMMA SendStream ==
    ASSUME TypeOK, StreamInv, NEW f \in Frames, Send(f)
    PROVE  StreamInv'
  <1> DEFINE c == WriteFrame(f)
             n == Len(sent)
  <1>1. /\ sent \in Seq(Frames) /\ ends \in Seq(Nat) /\ wire \in Seq(Bytes) /\ c \in Seq(Bytes)
        /\ n \in Nat /\ taken \in Nat /\ Len(wire) \in Nat /\ Len(c) \in Nat
        /\ Len(ends) = n
    BY CodeOf, LenProperties DEF TypeOK, StreamInv
  <1>2. /\ Len(sent') = n + 1 /\ sent'[n + 1] = f
        /\ \A i \in 1 .. n : sent'[i] = sent[i]
    BY <1>1, AppendProperties DEF Send
  <1>3. wire' = wire \o c /\ taken' = taken /\ ends' = Append(ends, taken + Len(wire'))
    BY DEF Send
  <1> HIDE DEF c
  <1>4. /\ Len(wire') = Len(wire) + Len(c)
        /\ \A p \in 1 .. Len(wire) + Len(c) : wire'[p] =
              IF p <= Len(wire) THEN wire[p] ELSE c[p - Len(wire)]
    BY <1>1, <1>3, ConcatProperties
  <1>5. taken + Len(wire') \in Nat
    BY <1>1, <1>4
  <1>6. /\ Len(ends') = n + 1 /\ ends'[n + 1] = taken + Len(wire')
        /\ \A i \in 1 .. n : ends'[i] = ends[i]
    BY <1>1, <1>3, <1>5, AppendProperties
  <1> HIDE DEF n
  <1>7. \A k \in 0 .. n : Begin(ends', k) = Begin(ends, k) /\ Begin(ends, k) \in Nat
    <2>1. \A k \in 0 .. n : k # 0 => k \in 1 .. n
      BY <1>1
    <2>2. \A k \in 1 .. n : ends[k] \in Nat
      BY <1>1, ElementOfSeq
    <2> QED BY <1>1, <1>6, <2>1, <2>2 DEF Begin
  <1>8. Begin(ends, n) = taken + Len(wire)
    BY DEF StreamInv, Start, n
  <1>9. Begin(ends', n + 1) = taken + Len(wire) + Len(c)
    BY <1>1, <1>4, <1>6 DEF Begin
  <1>10. \A i \in 1 .. n : /\ i - 1 \in 0 .. n
                           /\ ends[i] = Begin(ends, i - 1) + Len(WriteFrame(sent[i]))
    BY <1>1 DEF StreamInv, Start, Code, n
  <1>11. \A i \in 1 .. n + 1 : ends'[i] = Begin(ends', i - 1) + Len(WriteFrame(sent'[i]))
    <2> SUFFICES ASSUME NEW i \in 1 .. n + 1
                 PROVE  ends'[i] = Begin(ends', i - 1) + Len(WriteFrame(sent'[i]))
      OBVIOUS
    <2>1. CASE i \in 1 .. n
      BY <1>2, <1>6, <1>7, <1>10, <2>1
    <2>2. CASE i = n + 1
      <3>1. i - 1 = n /\ n \in 0 .. n /\ WriteFrame(sent'[i]) = c
        BY <1>1, <1>2, <2>2 DEF c
      <3> QED BY <1>1, <1>4, <1>6, <1>7, <1>8, <2>2, <3>1
    <2> QED BY <1>1, <2>1, <2>2
  <1>12. \A i, j \in 0 .. n : i <= j => Begin(ends, i) <= Begin(ends, j)
    BY DEF StreamInv, Start, n
  <1>13. \A i, j \in 0 .. n + 1 : i <= j => Begin(ends', i) <= Begin(ends', j)
    <2> SUFFICES ASSUME NEW i \in 0 .. n + 1, NEW j \in 0 .. n + 1, i <= j
                 PROVE  Begin(ends', i) <= Begin(ends', j)
      OBVIOUS
    <2>1. CASE j \in 0 .. n
      <3>1. i \in 0 .. n
        BY <1>1, <2>1
      <3> QED BY <1>7, <1>12, <2>1, <3>1
    <2>2. CASE j = n + 1 /\ i \in 0 .. n
      <3>1. Begin(ends', i) <= Begin(ends, n) /\ Begin(ends', i) \in Nat
        BY <1>1, <1>7, <1>12, <2>2
      <3> QED BY <1>1, <1>8, <1>9, <2>2, <3>1
    <2>3. CASE j = n + 1 /\ i = n + 1
      BY <1>1, <1>9, <2>3
    <2> QED BY <1>1, <2>1, <2>2, <2>3
  <1>14. Follows(wire', taken', sent', ends')
    <2> SUFFICES ASSUME NEW p \in 1 .. Len(wire'), NEW i \in 1 .. n + 1,
                        NEW j \in 1 .. Len(WriteFrame(sent'[i])),
                        taken + p = Begin(ends', i - 1) + j
                 PROVE  wire'[p] = WriteFrame(sent'[i])[j]
      BY <1>2, <1>3 DEF Follows
    <2>1. CASE i \in 1 .. n
      <3>1. /\ sent'[i] = sent[i] /\ Begin(ends', i - 1) = Begin(ends, i - 1)
            /\ Begin(ends, i - 1) \in Nat /\ Len(WriteFrame(sent[i])) \in Nat
        <4>1. WriteFrame(sent[i]) \in Seq(Bytes)
          BY <1>1, <2>1, ElementOfSeq, CodeOf DEF n
        <4> QED BY <1>2, <1>7, <1>10, <2>1, <4>1, LenProperties
      <3>2. ends[i] <= Begin(ends, n) /\ ends[i] = Begin(ends, i)
        <4>1. i \in 0 .. n /\ n \in 0 .. n /\ i <= n /\ i # 0
          BY <1>1, <2>1
        <4> QED BY <1>12, <4>1 DEF Begin
      <3>3. taken + p <= taken + Len(wire)
        BY <1>1, <1>8, <1>10, <2>1, <3>1, <3>2
      <3>4. p \in 1 .. Len(wire) /\ wire'[p] = wire[p]
        BY <1>1, <1>4, <3>3
      <3>5. Follows(wire, taken, sent, ends)
        BY DEF StreamInv, Carries
      <3>6. i \in 1 .. Len(sent)
        BY <2>1 DEF n
      <3> QED BY <3>1, <3>4, <3>5, <3>6 DEF Follows
    <2>2. CASE i = n + 1
      <3>1. i - 1 = n /\ n \in 0 .. n /\ WriteFrame(sent'[i]) = c
        BY <1>1, <1>2, <2>2 DEF c
      <3>2. taken + p = taken + Len(wire) + j /\ j \in 1 .. Len(c)
        BY <1>7, <1>8, <3>1
      <3>3. p \in 1 .. Len(wire) + Len(c) /\ p = Len(wire) + j
        <4>1. p \in 1 .. Len(wire) + Len(c) /\ j \in Nat /\ p \in Nat
          BY <1>1, <1>4, <3>2
        <4>2. taken \in Nat /\ Len(wire) \in Nat /\ taken + p = taken + Len(wire) + j
          BY <1>1, <3>2
        <4>3. p = Len(wire) + j
          BY <4>1, <4>2
        <4> QED BY <4>1, <4>3
      <3>4. ~(p <= Len(wire)) /\ p - Len(wire) = j
        BY <1>1, <3>2, <3>3
      <3> QED BY <1>4, <3>1, <3>3, <3>4
    <2> QED BY <1>1, <2>1, <2>2
  <1>15. taken' + Len(wire') = Begin(ends', n + 1)
    BY <1>1, <1>3, <1>4, <1>9
  <1> QED BY <1>2, <1>6, <1>11, <1>13, <1>14, <1>15 DEF StreamInv, Start, Carries, Code

\* Taking a chunk from the pipe moves the position, not the stream.
LEMMA ReceiveStream ==
    ASSUME TypeInv, StreamInv, ReceiveData
    PROVE  /\ StreamInv'
           /\ UNCHANGED <<sent, ends, delivered>>
           /\ Hand = <<>> /\ Hand' \in Seq(Bytes)
           /\ taken' = taken + Len(Hand') /\ Carries(Hand', taken)
  <1>1. PICK n \in 1 .. Smaller(BufferSize, Len(wire)) :
           /\ Feed(SubSeq(wire, 1, n))
           /\ wire' = SubSeq(wire, n + 1, Len(wire)) /\ taken' = taken + n
    BY DEF ReceiveData
  <1>2. /\ wire \in Seq(Bytes) /\ Len(wire) \in Nat /\ taken \in Nat
        /\ BufferSize \in Nat
    BY Sizes, LenProperties DEF TypeInv, TypeOK
  <1>3. Smaller(BufferSize, Len(wire)) \in 0 .. Len(wire)
    BY <1>2, SmallerIs
  <1>4. n \in 0 .. Len(wire) /\ n >= 1
    BY <1>2, <1>3
  <1> DEFINE a == SubSeq(wire, 1, n)
  <1>5. /\ a \in Seq(Bytes) /\ Len(a) = n
        /\ wire' \in Seq(Bytes) /\ Len(wire') = Len(wire) - n
    BY <1>1, <1>2, <1>4, Cut
  <1>6. UNCHANGED <<sent, ends, delivered>> /\ reader = "receiving" /\ pending = <<>>
    BY DEF ReceiveData, TypeInv, RestInv
  <1>7. Follows(a, taken, sent, ends) /\ Follows(wire', taken', sent, ends)
    <2>1. Follows(wire, taken, sent, ends)
      BY DEF StreamInv, Carries
    <2> QED BY <1>1, <1>2, <1>4, <2>1, CutFollows
  <1>8. taken' + Len(wire') = taken + Len(wire)
    <2>1. \A x, y, z \in Nat : (x + z) + (y - z) = x + y
      OBVIOUS
    <2>2. n \in Nat
      BY <1>2, <1>4
    <2>3. taken' + Len(wire') = (taken + n) + (Len(wire) - n)
      BY <1>1, <1>5
    <2> QED BY <1>2, <2>1, <2>2, <2>3
  <1>9. StreamInv'
    BY <1>6, <1>7, <1>8 DEF StreamInv, Carries, Start, Begin, Code
  <1>10. reader' = "feeding" /\ data' = a
    <2>1. a # <<>>
      BY <1>4, <1>5, EmptySeq
    <2>2. pending \o a = a
      BY <1>5, <1>6, ConcatEmptySeq
    <2> QED BY <1>1, <1>6, <2>1, <2>2 DEF Feed
  <1> HIDE DEF a
  <1>11. Hand = <<>> /\ Hand' = a
    BY <1>6, <1>10 DEF Hand
  <1>12. Carries(Hand', taken)
    BY <1>7, <1>11 DEF Carries
  <1> QED BY <1>1, <1>5, <1>6, <1>9, <1>11, <1>12

-----------------------------------------------------------------------------
(* Out of step.                                                            *)

\* The frames sent and the frames delivered are only added to.
LEMMA LogsGrow ==
    ASSUME TypeInv, [Next]_vars
    PROVE  /\ Len(sent) \in Nat /\ Len(sent') \in Nat /\ Len(sent) <= Len(sent')
           /\ \A i \in 1 .. Len(sent) : sent'[i] = sent[i]
           /\ Count \in Nat /\ Count' \in Nat /\ Count <= Count'
           /\ \A i \in 1 .. Count : delivered'[i] = delivered[i]
  <1> DEFINE D == [type : Bytes, payload : Seq(Bytes)]
  <1>1. /\ sent \in Seq(Frames) /\ delivered \in Seq(D)
        /\ sent' \in Seq(Frames) /\ delivered' \in Seq(D)
    BY NextTypes DEF TypeInv, TypeOK
  <1>2. sent' = sent \/ \E f \in Frames : sent' = Append(sent, f)
    BY DEF Next, Send, ReceiveData, ReadHeader, ReadType, ReadPayload, EndOfData,
           DispatchFrame, vars
  <1>3. delivered' = delivered \/ \E x : delivered' = Append(delivered, x)
    <2>1. CASE ReadHeader
      BY <2>1 DEF ReadHeader, ReturnNothing
    <2>2. CASE ReadType
      BY <2>2 DEF ReadType, ReturnFrame
    <2>3. CASE ReadPayload
      BY <2>3 DEF ReadPayload, ReturnFrame
    <2>4. CASE EndOfData \/ DispatchFrame \/ ReceiveData \/ UNCHANGED vars
               \/ \E f \in Frames : Send(f)
      BY <2>4 DEF EndOfData, ReturnNothing, DispatchFrame, ReceiveData, Send, vars
    <2> QED BY <2>1, <2>2, <2>3, <2>4 DEF Next
  <1>4. ASSUME NEW S, NEW q \in Seq(S), NEW r \in Seq(S), r = q \/ \E x : r = Append(q, x)
        PROVE  /\ Len(q) \in Nat /\ Len(r) \in Nat /\ Len(q) <= Len(r)
               /\ \A i \in 1 .. Len(q) : r[i] = q[i]
    <2>1. CASE r = q
      BY <1>4, <2>1, LenProperties
    <2>2. CASE \E x : r = Append(q, x)
      BY <1>4, <2>2
    <2> QED BY <1>4, <2>1, <2>2
  <1> HIDE DEF D
  <1>5. /\ Len(sent) \in Nat /\ Len(sent') \in Nat /\ Len(sent) <= Len(sent')
        /\ \A i \in 1 .. Len(sent) : sent'[i] = sent[i]
    BY <1>1, <1>2, <1>4
  <1>6. /\ Len(delivered) \in Nat /\ Len(delivered') \in Nat /\ Len(delivered) <= Len(delivered')
        /\ \A i \in 1 .. Len(delivered) : delivered'[i] = delivered[i]
    BY <1>1, <1>3, <1>4
  <1> QED BY <1>5, <1>6 DEF Count

\* What was delivered before a frame above the limit stays.
LEMMA OutOfStepStays ==
    ASSUME TypeInv, [Next]_vars, OutOfStep
    PROVE  OutOfStep'
  <1>1. PICK k \in 0 .. Len(sent) - 1 :
           /\ Sound(k) /\ Len(sent[k + 1].payload) > MaxPayload
           /\ Count >= k /\ \A i \in 1 .. k : delivered[i] = sent[i]
    BY DEF OutOfStep
  <1>2. /\ Len(sent) \in Nat /\ Len(sent') \in Nat /\ Len(sent) <= Len(sent')
        /\ \A i \in 1 .. Len(sent) : sent'[i] = sent[i]
        /\ Count \in Nat /\ Count' \in Nat /\ Count <= Count'
        /\ \A i \in 1 .. Count : delivered'[i] = delivered[i]
    BY LogsGrow
  <1>3. k \in Nat /\ k \in 0 .. Len(sent') - 1 /\ k + 1 \in 1 .. Len(sent) /\ Count' >= k
    BY <1>1, <1>2
  <1>4. \A i \in 1 .. k : i \in 1 .. Len(sent) /\ i \in 1 .. Count
    BY <1>1, <1>2, <1>3
  <1>5. Sound(k)'
    BY <1>1, <1>2, <1>4 DEF Sound
  <1>6. Len(sent'[k + 1].payload) > MaxPayload
    BY <1>1, <1>2, <1>3
  <1>7. \A i \in 1 .. k : delivered'[i] = sent'[i]
    BY <1>1, <1>2, <1>4
  <1> QED BY <1>3, <1>5, <1>6, <1>7 DEF OutOfStep

-----------------------------------------------------------------------------
(* In step.                                                                *)

\* Where the decoder stands.
LEMMA Standing ==
    ASSUME TypeInv, StreamInv, InStep
    PROVE  /\ Count \in Nat /\ Len(sent) \in Nat /\ Count <= Len(sent)
           /\ Start(Count) \in Nat /\ Start(Len(sent)) \in Nat /\ taken \in Nat
           /\ taken <= Start(Len(sent))
           /\ Hand \in Seq(Bytes) /\ Len(Hand) \in Nat
           /\ Position \in Nat /\ Position + Len(Hand) = taken
  <1>1. /\ Count \in Nat /\ Len(sent) \in Nat /\ taken \in Nat /\ Len(wire) \in Nat
        /\ Len(header) \in Nat /\ Len(payload) \in Nat /\ HeaderSize \in Nat
    BY Sizes, LenProperties DEF TypeInv, TypeOK, Count
  <1>2. Count <= Len(sent) /\ Len(ends) = Len(sent) /\ taken + Len(wire) = Start(Len(sent))
    BY DEF InStep, StreamInv
  <1>3. Start(Count) \in Nat /\ Start(Len(sent)) \in Nat
    BY <1>1, <1>2, StartType DEF TypeInv
  <1>4. Hand \in Seq(Bytes)
    BY EmptySeq DEF TypeInv, TypeOK, Hand
  <1>5. Len(Hand) \in Nat
    BY <1>4, LenProperties
  <1>6. Position \in Nat
    <2>1. CASE InHeader
      BY <1>1, <1>3, <2>1 DEF InHeader
    <2>2. CASE InType
      BY <1>1, <1>3, <2>2 DEF InType
    <2>3. CASE InPayload
      BY <1>1, <1>3, <2>3 DEF InPayload
    <2> QED BY <2>1, <2>2, <2>3 DEF InStep, Progress
  <1>7. Position + Len(Hand) = taken
    BY <1>1, <1>5 DEF Position
  <1>8. taken <= Start(Len(sent))
    BY <1>1, <1>2, <1>3
  <1> QED BY <1>1, <1>2, <1>3, <1>4, <1>5, <1>6, <1>7, <1>8

\* The frame being read, if it has been sent.
LEMMA CurrentFrame ==
    ASSUME TypeInv, StreamInv, InStep, Count < Len(sent)
    PROVE  /\ Count + 1 \in 1 .. Len(sent) /\ (Count + 1) - 1 = Count
           /\ Current \in Frames /\ Current.type \in Bytes
           /\ Current.payload \in Seq(Bytes) /\ Len(Current.payload) \in Nat
           /\ Code(Count + 1) = WriteFrame(Current) /\ Len(Code(Count + 1)) \in Nat
           /\ ~CurrentIsSound => OutOfStep
  <1>1. Count \in Nat /\ Len(sent) \in Nat
    BY Standing
  <1>2. Count + 1 \in 1 .. Len(sent) /\ (Count + 1) - 1 = Count
    BY <1>1
  <1>3. Current \in Frames
    BY <1>2, ElementOfSeq DEF TypeInv, TypeOK, Current
  <1>4. Current.type \in Bytes /\ Current.payload \in Seq(Bytes)
    BY <1>3, FramesAssumption
  <1>5. Len(Current.payload) \in Nat
    BY <1>4, LenProperties
  <1>6. Code(Count + 1) = WriteFrame(Current)
    BY DEF Code, Current
  <1>7. Len(Code(Count + 1)) \in Nat
    BY <1>3, <1>6, CodeOf, LenProperties
  <1>8. ASSUME ~CurrentIsSound PROVE OutOfStep
    <2>1. Len(Current.payload) > MaxPayload
      BY <1>5, <1>8, Sizes DEF CurrentIsSound
    <2>2. Count \in 0 .. Len(sent) - 1 /\ Count >= Count
      BY <1>1
    <2>3. Sound(Count) /\ \A i \in 1 .. Count : delivered[i] = sent[i]
      BY DEF InStep
    <2> QED BY <2>1, <2>2, <2>3 DEF OutOfStep, Current
  <1> QED BY <1>2, <1>3, <1>4, <1>5, <1>6, <1>7, <1>8

\* The bytes at hand are those of the frame being read, from where it is.
LEMMA HandIs ==
    ASSUME TypeInv, StreamInv, InStep, Count < Len(sent),
           NEW o \in Nat, Position = Start(Count) + o,
           NEW p \in 1 .. Len(Hand), o + p <= Len(Code(Count + 1))
    PROVE  Hand[p] = Code(Count + 1)[o + p]
  <1>1. /\ Count + 1 \in 1 .. Len(sent) /\ (Count + 1) - 1 = Count
        /\ Len(Code(Count + 1)) \in Nat
    BY CurrentFrame
  <1>2. /\ Begin(ends, (Count + 1) - 1) \in Nat /\ Len(Hand) \in Nat
        /\ Position = Begin(ends, (Count + 1) - 1) + o
    BY <1>1, Standing DEF Start
  <1>3. Follows(Hand, Position, sent, ends)
    BY DEF InStep, Progress, Carries
  <1> QED BY <1>1, <1>2, <1>3, ByteOf DEF Code

\* Only the decoder moves.
LEMMA StillInStep ==
    ASSUME InStep, UNCHANGED <<sent, delivered>>, Progress'
    PROVE  InStep'
  BY DEF InStep, Sound, Count

\* What a round leaves follows from the new position.
LEMMA RestFollows ==
    ASSUME TypeInv, StreamInv, InStep, NEW t \in 0 .. Len(Hand),
           Hand' = SubSeq(Hand, t + 1, Len(Hand)), UNCHANGED <<sent, ghostVars>>
    PROVE  Position' = Position + t /\ Carries(Hand, Position)'
  <1>1. Hand \in Seq(Bytes) /\ Len(Hand) \in Nat /\ Position \in Nat /\ Position + Len(Hand) = taken
    BY Standing
  <1>2. Len(Hand') = Len(Hand) - t
    BY <1>1, Cut
  <1>3. taken' = taken /\ taken \in Nat /\ sent' = sent /\ ends' = ends
    BY Standing DEF ghostVars
  <1>4. Position' = Position + t
    <2>1. Position' = taken' - Len(Hand') /\ Position = taken - Len(Hand)
      BY DEF Position
    <2>2. \A x, y, z \in Nat : x - (y - z) = (x - y) + z
      OBVIOUS
    <2>3. t \in Nat
      BY <1>1
    <2>4. Position' = taken - (Len(Hand) - t)
      BY <1>2, <1>3, <2>1
    <2>5. taken - (Len(Hand) - t) = (taken - Len(Hand)) + t
      BY <1>1, <1>3, <2>2, <2>3
    <2> QED BY <2>1, <2>4, <2>5
  <1>5. Follows(Hand', Position + t, sent, ends)
    BY <1>1, CutFollows DEF InStep, Progress, Carries
  <1> QED BY <1>3, <1>4, <1>5 DEF Carries

\* What does not move the decoder keeps it in step.
LEMMA NothingRead ==
    ASSUME InStep, UNCHANGED <<sent, ends, delivered>>,
           UNCHANGED <<state, header, payloadLen, frameType, payload>>,
           Position' = Position, Carries(Hand, Position)'
    PROVE  InStep'
  <1>1. /\ UNCHANGED Count /\ UNCHANGED Start(Count) /\ UNCHANGED Current
        /\ UNCHANGED CurrentIsSound /\ UNCHANGED Code(Count + 1)
    BY DEF Count, Start, Current, CurrentIsSound, Code
  <1>2. CASE InHeader
    <2>1. InHeader'
      BY <1>1, <1>2 DEF InHeader
    <2> QED BY <2>1, StillInStep DEF Progress
  <1>3. CASE InType
    <2>1. InType'
      BY <1>1, <1>3 DEF InType
    <2> QED BY <2>1, StillInStep DEF Progress
  <1>4. CASE InPayload
    <2>1. InPayload'
      BY <1>1, <1>4 DEF InPayload
    <2> QED BY <2>1, StillInStep DEF Progress
  <1> QED BY <1>2, <1>3, <1>4 DEF InStep, Progress

\* A chunk starts at the position.
LEMMA ReceiveKeeps ==
    ASSUME TypeInv, StreamInv, InStep, ReceiveData
    PROVE  InStep'
  <1>1. /\ UNCHANGED <<sent, ends, delivered>> /\ Hand = <<>> /\ Hand' \in Seq(Bytes)
        /\ taken' = taken + Len(Hand') /\ Carries(Hand', taken)
    BY ReceiveStream
  <1>2. taken \in Nat /\ Len(Hand') \in Nat /\ Len(Hand) = 0
    BY <1>1, Standing, LenProperties, EmptySeq
  <1>3. Position = taken
    BY <1>2 DEF Position
  <1>4. Position' = taken
    <2>1. Position' = taken' - Len(Hand')
      BY DEF Position
    <2> QED BY <1>1, <1>2, <2>1
  <1>5. Carries(Hand, Position)'
    BY <1>1, <1>4 DEF Carries
  <1>6. UNCHANGED <<state, header, payloadLen, frameType, payload>>
    BY DEF ReceiveData, decoderVars
  <1> QED BY <1>1, <1>3, <1>4, <1>5, <1>6, NothingRead

\* The end of a chunk, and the return from DispatchFrame, leave what is at hand.
LEMMA SameHand ==
    ASSUME InStep, UNCHANGED <<Hand, sent, delivered, ghostVars>>,
           UNCHANGED <<state, header, payloadLen, frameType, payload>>
    PROVE  InStep'
  <1>1. Position' = Position
    BY DEF Position, ghostVars
  <1>2. Carries(Hand, Position)'
    BY <1>1 DEF InStep, Progress, Carries, ghostVars
  <1> QED BY <1>1, <1>2, NothingRead DEF ghostVars

LEMMA EndKeeps ==
    ASSUME InStep, EndOfData
    PROVE  InStep'
  <1>1. Hand = <<>> /\ Hand' = <<>>
    BY DEF EndOfData, ReturnNothing, Hand
  <1> QED BY <1>1, SameHand DEF EndOfData, ReturnNothing

LEMMA DispatchKeeps ==
    ASSUME TypeInv, InStep, DispatchFrame
    PROVE  InStep'
  <1>1. pending \in Seq(Bytes) /\ reader = "dispatching"
    BY DEF DispatchFrame, TypeInv, TypeOK
  <1>2. pending \o <<>> = pending
    BY <1>1, ConcatEmptySeq
  <1>3. Hand = pending
    BY <1>1 DEF Hand
  <1>4. Hand' = pending
    BY <1>2 DEF DispatchFrame, Feed, Hand
  <1> QED BY <1>3, <1>4, SameHand DEF DispatchFrame, decoderVars

\* A frame that is sent is none that is being read, unless its header is next.
LEMMA SendKeeps ==
    ASSUME TypeInv, StreamInv, InStep, NEW f \in Frames, Send(f)
    PROVE  InStep'
  <1>1. /\ Count \in Nat /\ Len(sent) \in Nat /\ Count <= Len(sent) /\ taken \in Nat
        /\ Start(Count) \in Nat /\ taken <= Start(Len(sent))
        /\ Hand \in Seq(Bytes) /\ Len(Hand) \in Nat
        /\ Position \in Nat /\ Position + Len(Hand) = taken
    BY Standing
  <1>2. /\ sent \in Seq(Frames) /\ ends \in Seq(Nat) /\ Len(ends) = Len(sent)
        /\ Len(header) \in Nat
    BY LenProperties DEF TypeInv, TypeOK, StreamInv
  <1>3. /\ Len(sent') = Len(sent) + 1 /\ \A i \in 1 .. Len(sent) : sent'[i] = sent[i]
    BY <1>2, AppendProperties DEF Send
  <1>4. UNCHANGED <<Hand, delivered, taken>>
        /\ UNCHANGED <<state, header, payloadLen, frameType, payload>>
    BY DEF Send, Hand, decoderVars
  <1>5. \A i \in 1 .. Len(sent) : ends'[i] = ends[i]
    <2>1. wire \in Seq(Bytes) /\ WriteFrame(f) \in Seq(Bytes)
      BY CodeOf DEF TypeInv, TypeOK
    <2>2. Len(wire') \in Nat
      BY <2>1, ConcatProperties, LenProperties DEF Send
    <2>3. ends' = Append(ends, taken + Len(wire')) /\ taken + Len(wire') \in Nat
      BY <1>1, <2>2 DEF Send
    <2> QED BY <1>2, <2>3, AppendProperties
  <1>6. Position' = Position /\ Count' = Count
    BY <1>4 DEF Position, Count
  <1>7. Start(Count)' = Start(Count)
    BY <1>1, <1>5, <1>6 DEF Start, Begin
  <1>8. Carries(Hand, Position)'
    <2>1. Follows(Hand, Position, sent', ends')
      BY <1>1, SendFollows DEF InStep, Progress, TypeInv
    <2> QED BY <1>4, <1>6, <2>1 DEF Carries
  <1>9. ASSUME Count < Len(sent)
        PROVE  sent'[Count' + 1] = sent[Count + 1] /\ Count' < Len(sent')
    <2>1. Count + 1 \in 1 .. Len(sent)
      BY <1>1, <1>9
    <2> QED BY <1>1, <1>3, <1>6, <1>9, <2>1
  <1>10. ASSUME InHeader PROVE InHeader'
    <2>1. \A p \in 1 .. Len(header) : header[p] = WriteFrame(sent'[Count' + 1])[p]
      <3>1. CASE Count < Len(sent)
        <4>1. \A p \in 1 .. Len(header) : header[p] = WriteFrame(sent[Count + 1])[p]
          BY <1>10, <3>1 DEF InHeader, Code
        <4> QED BY <1>9, <3>1, <4>1
      <3>2. CASE Count = Len(sent)
        <4>1. Position = Start(Count) + Len(header) /\ Position <= Start(Count)
          BY <1>1, <1>10, <3>2 DEF InHeader
        <4>2. Len(header) = 0
          BY <1>1, <1>2, <4>1
        <4> QED BY <4>2
      <3> QED BY <1>1, <3>1, <3>2
    <2>2. state = "READ_HEADER" /\ Len(header) < HeaderSize /\ Position = Start(Count) + Len(header)
      BY <1>10 DEF InHeader
    <2> QED BY <1>4, <1>6, <1>7, <2>1, <2>2 DEF InHeader, Code
  <1>11. ASSUME CurrentIsSound PROVE (InType \/ InPayload) => (InType \/ InPayload)'
    <2>1. Current' = Current
      BY <1>9, <1>11 DEF CurrentIsSound, Current
    <2>2. CurrentIsSound'
      BY <1>9, <1>11, <2>1 DEF CurrentIsSound
    <2>3. CASE InType
      BY <1>4, <1>6, <1>7, <2>1, <2>2, <2>3 DEF InType
    <2>4. CASE InPayload
      BY <1>4, <1>6, <1>7, <2>1, <2>2, <2>4 DEF InPayload
    <2> QED BY <2>3, <2>4
  <1>12. CurrentIsSound \/ InHeader
    BY DEF InStep, Progress, InType, InPayload
  <1>13. Progress'
    <2>1. CASE InHeader
      BY <1>8, <1>10, <2>1 DEF Progress
    <2>2. CASE ~InHeader
      BY <1>8, <1>11, <1>12, <2>2 DEF InStep, Progress
    <2> QED BY <2>1, <2>2
  <1>14. Count' <= Len(sent')
    BY <1>1, <1>3, <1>6
  <1>15. \A i \in 1 .. Count : i \in 1 .. Len(sent)
    BY <1>1
  <1>16. Sound(Count)' /\ \A i \in 1 .. Count' : delivered'[i] = sent'[i]
    BY <1>3, <1>4, <1>6, <1>15 DEF InStep, Sound
  <1> QED BY <1>13, <1>14, <1>16 DEF InStep

\* Bytes at hand belong to a frame that was sent.
LEMMA BytesAtHand ==
    ASSUME TypeInv, StreamInv, InStep, Hand # <<>>
    PROVE  Count < Len(sent)
  <1>1. /\ Count \in Nat /\ Len(sent) \in Nat /\ Count <= Len(sent)
        /\ Start(Count) \in Nat /\ Start(Len(sent)) \in Nat /\ taken \in Nat
        /\ taken <= Start(Len(sent)) /\ Len(Hand) \in Nat
        /\ Position \in Nat /\ Position + Len(Hand) = taken
    BY Standing
  <1>2. Len(Hand) >= 1
    <2>1. Hand \in Seq(Bytes)
      BY Standing
    <2>2. Len(Hand) # 0
      BY <2>1, EmptySeq
    <2> QED BY <1>1, <2>2
  <1>3. Start(Count) <= Position
    <2>1. Len(header) \in Nat /\ Len(payload) \in Nat /\ HeaderSize \in Nat
      BY Sizes, LenProperties DEF TypeInv, TypeOK
    <2>2. CASE InHeader
      BY <1>1, <2>1, <2>2 DEF InHeader
    <2>3. CASE InType
      BY <1>1, <2>1, <2>3 DEF InType
    <2>4. CASE InPayload
      BY <1>1, <2>1, <2>4 DEF InPayload
    <2> QED BY <2>2, <2>3, <2>4 DEF InStep, Progress
  <1>4. Start(Count) < Start(Len(sent))
    BY <1>1, <1>2, <1>3
  <1> QED BY <1>1, <1>4

\* What a round copies continues what it had copied of the frame.
LEMMA CopyContinues ==
    ASSUME TypeInv, StreamInv, InStep, Count < Len(sent),
           NEW b \in Nat, NEW had \in Seq(Bytes), NEW t \in 0 .. Len(Hand),
           Position = Start(Count) + b + Len(had),
           b + Len(had) + t <= Len(Code(Count + 1)),
           \A p \in 1 .. Len(had) : had[p] = Code(Count + 1)[b + p]
    PROVE  \A p \in 1 .. Len(had) + t :
               (had \o SubSeq(Hand, 1, t))[p] = Code(Count + 1)[b + p]
  <1>1. Hand \in Seq(Bytes) /\ Len(Hand) \in Nat /\ Len(had) \in Nat /\ Start(Count) \in Nat
    BY Standing, LenProperties
  <1>2. \A p \in 1 .. Len(had) + t : (had \o SubSeq(Hand, 1, t))[p] =
            IF p <= Len(had) THEN had[p] ELSE Hand[p - Len(had)]
    BY <1>1, Copied
  <1>3. Len(Code(Count + 1)) \in Nat
    BY CurrentFrame
  <1> SUFFICES ASSUME NEW p \in 1 .. Len(had) + t
               PROVE  (had \o SubSeq(Hand, 1, t))[p] = Code(Count + 1)[b + p]
    OBVIOUS
  <1>4. CASE p <= Len(had)
    BY <1>1, <1>2, <1>4
  <1>5. CASE ~(p <= Len(had))
    <2> DEFINE o == b + Len(had)
               r == p - Len(had)
    <2>1. o \in Nat /\ Position = Start(Count) + o
      BY <1>1
    <2>2. r \in 1 .. Len(Hand) /\ o + r = b + p /\ o + r <= Len(Code(Count + 1))
      BY <1>1, <1>3, <1>5
    <2> HIDE DEF o, r
    <2>3. Hand[r] = Code(Count + 1)[o + r]
      BY <2>1, <2>2, HandIs
    <2>4. (had \o SubSeq(Hand, 1, t))[p] = Hand[r]
      BY <1>2, <1>5 DEF r
    <2> QED BY <2>2, <2>3, <2>4
  <1> QED BY <1>4, <1>5

\* A frame that is read whole is delivered, and the next one starts.
LEMMA FrameOut ==
    ASSUME TypeInv, StreamInv, InStep, CurrentIsSound, NEW rest, NEW t \in 0 .. Len(Hand),
           NEW content, content = Current.payload, ReturnFrame(Current.type, content, rest),
           rest = SubSeq(Hand, t + 1, Len(Hand)), UNCHANGED <<sent, ghostVars>>,
           Position + t = Start(Count) + HeaderSize + 1 + Len(Current.payload)
    PROVE  InStep'
  <1>1. /\ Count \in Nat /\ Len(sent) \in Nat /\ Count < Len(sent) /\ HeaderSize \in Nat \ {0}
    BY Standing, Sizes DEF CurrentIsSound
  <1>2. /\ Count + 1 \in 1 .. Len(sent) /\ (Count + 1) - 1 = Count
        /\ Current \in Frames /\ Code(Count + 1) = WriteFrame(Current)
        /\ Len(Current.payload) \in Nat /\ Len(Current.payload) <= MaxPayload
    BY <1>1, CurrentFrame DEF CurrentIsSound
  <1>3. Len(Code(Count + 1)) = HeaderSize + 1 + Len(Current.payload)
    BY <1>2, CodeOf
  <1>4. Current = [type |-> Current.type, payload |-> content]
    <2>1. Current \in [type : Bytes, payload : Seq(Bytes)]
      BY <1>2, FramesAssumption
    <2> QED BY <2>1
  <1>5. delivered' = Append(delivered, Current)
    BY <1>4 DEF ReturnFrame
  <1>6. /\ Count' = Count + 1 /\ delivered'[Count + 1] = Current
        /\ \A i \in 1 .. Count : delivered'[i] = delivered[i]
    <2>1. /\ delivered \in Seq([type : Bytes, payload : Seq(Bytes)])
          /\ Current \in [type : Bytes, payload : Seq(Bytes)]
      BY <1>2, FramesAssumption DEF TypeInv, TypeOK
    <2> QED BY <1>5, <2>1, AppendProperties DEF Count
  <1>7. Hand' = rest
    BY DEF ReturnFrame, SavePending, Hand
  <1>8. Position' = Position + t /\ Carries(Hand, Position)'
    BY <1>7, RestFollows
  <1>9. Start(Count)' = Position + t
    <2>1. ends[Count + 1] = Start(Count) + Len(Code(Count + 1))
      BY <1>2 DEF StreamInv
    <2>2. Start(Count)' = ends[Count + 1]
      BY <1>1, <1>6 DEF Start, Begin, ghostVars
    <2>3. Start(Count) \in Nat
      BY Standing
    <2>4. PICK l \in Nat : l = Len(Current.payload)
      BY <1>2
    <2>5. Start(Count) + (HeaderSize + 1 + l) = Start(Count) + HeaderSize + 1 + l
      BY <1>1, <2>3
    <2>6. ends[Count + 1] = Start(Count) + (HeaderSize + 1 + l)
      BY <1>3, <2>1, <2>4
    <2> QED BY <2>2, <2>4, <2>5, <2>6
  <1>10. InHeader'
    <2>1. state' = "READ_HEADER" /\ header' = <<>>
      BY DEF ReturnFrame, ResetState
    <2>2. Position \in Nat /\ t \in Nat /\ Len(<<>>) = 0
      <3>1. Position \in Nat /\ Len(Hand) \in Nat
        BY Standing
      <3> QED BY <3>1
    <2>3. Position' \in Nat
      BY <1>8, <2>2
    <2> QED BY <1>1, <1>8, <1>9, <2>1, <2>2, <2>3 DEF InHeader
  <1>11. Sound(Count)' /\ Count' <= Len(sent') /\ \A i \in 1 .. Count' : delivered'[i] = sent'[i]
    <2>1. \A i \in 1 .. Count + 1 : i \in 1 .. Count \/ i = Count + 1
      BY <1>1
    <2>2. Sound(Count) /\ \A i \in 1 .. Count : delivered[i] = sent[i]
      BY DEF InStep
    <2>3. sent' = sent /\ sent[Count + 1] = Current
      BY DEF Current
    <2>4. \A i \in 1 .. Count + 1 : Len(sent[i].payload) <= MaxPayload
      BY <1>2, <2>1, <2>2, <2>3 DEF Sound
    <2>5. \A i \in 1 .. Count + 1 : delivered'[i] = sent[i]
      BY <1>6, <2>1, <2>2, <2>3
    <2> QED BY <1>1, <1>6, <2>3, <2>4, <2>5 DEF Sound
  <1> QED BY <1>8, <1>10, <1>11 DEF InStep, Progress

\* The header of the frame, and then its length.
LEMMA HeaderKeeps ==
    ASSUME TypeInv, StreamInv, InStep, ReadHeader
    PROVE  InStep' \/ OutOfStep
  <1> DEFINE t == Smaller(HeaderSize - Len(header), Len(data))
             read == header \o SubSeq(data, 1, t)
             rest == SubSeq(data, t + 1, Len(data))
             L == Len(Current.payload)
  <1>1. /\ t \in 0 .. Len(data) /\ t + Len(header) <= HeaderSize
        /\ t = Len(data) \/ t + Len(header) = HeaderSize
        /\ read \in Seq(Bytes) /\ Len(read) = Len(header) + t
    BY HeaderCopy DEF TypeInv
  <1>2. /\ header \in Seq(Bytes) /\ Len(header) \in Nat /\ Len(data) \in Nat
        /\ HeaderSize \in Nat /\ Start(Count) \in Nat
    BY Sizes, Standing, LenProperties DEF TypeInv, TypeOK
  <1>3. reader = "feeding" /\ state = "READ_HEADER" /\ data # <<>> /\ Hand = data
        /\ UNCHANGED <<sent, wire, frameType, ghostVars>>
    BY DEF ReadHeader, Hand
  <1>4. InHeader
    BY <1>3 DEF InStep, Progress, InType, InPayload
  <1>5. Count < Len(sent)
    BY <1>3, BytesAtHand
  <1>6. CASE ~CurrentIsSound
    BY <1>5, <1>6, CurrentFrame
  <1>7. CASE CurrentIsSound
    <2>1. /\ Current \in Frames /\ Code(Count + 1) = WriteFrame(Current)
          /\ L \in 0 .. MaxPayload
      BY <1>5, <1>7, CurrentFrame, Sizes DEF CurrentIsSound
    <2>2. /\ Len(Code(Count + 1)) > HeaderSize /\ Len(Code(Count + 1)) \in Nat
          /\ \A p \in 1 .. HeaderSize : Code(Count + 1)[p] = Digits(L)[p]
      BY <1>5, <2>1, CodeOf, CurrentFrame
    <2> HIDE DEF t, L
    <2>3. \A p \in 1 .. Len(header) + t : read[p] = Code(Count + 1)[p]
      <3>1. /\ Position = Start(Count) + 0 + Len(header)
            /\ \A p \in 1 .. Len(header) : header[p] = Code(Count + 1)[0 + p]
        <4>1. /\ Position = Start(Count) + Len(header)
              /\ \A p \in 1 .. Len(header) : header[p] = Code(Count + 1)[p]
          BY <1>4, <1>5 DEF InHeader
        <4>2. \A p \in 1 .. Len(header) : 0 + p = p
          BY <1>2
        <4> QED BY <1>2, <4>1, <4>2
      <3>2. 0 + Len(header) + t <= Len(Code(Count + 1))
        BY <1>1, <1>2, <2>2
      <3>3. \A p \in 1 .. Len(header) + t : read[p] = Code(Count + 1)[0 + p]
        BY <1>1, <1>2, <1>3, <1>5, <3>1, <3>2, CopyContinues
      <3>4. \A p \in 1 .. Len(header) + t : 0 + p = p
        BY <1>1, <1>2
      <3> QED BY <3>3, <3>4
    <2>4. ASSUME Len(read) = HeaderSize PROVE Number(read) = L
      <3>1. /\ Digits(L) \in Seq(Bytes) /\ Len(Digits(L)) = HeaderSize
            /\ Number(Digits(L)) = L
        BY <2>1, HeaderRoundTrip
      <3>2. \A p \in 1 .. Len(read) : read[p] = Digits(L)[p]
        BY <1>1, <2>2, <2>3, <2>4
      <3> HIDE DEF read
      <3>3. read = Digits(L)
        BY <1>1, <2>4, <3>1, <3>2, SeqEqual
      <3> QED BY <3>1, <3>3
    <2>5. \/ /\ Len(read) < HeaderSize
             /\ header' = read /\ data' = rest
             /\ UNCHANGED <<reader, state, payloadLen, payload, pending, delivered>>
          \/ Len(read) = HeaderSize /\ Number(read) > MaxPayload
          \/ /\ Len(read) = HeaderSize /\ Number(read) <= MaxPayload
             /\ header' = read /\ payloadLen' = Number(read)
             /\ state' = "READ_TYPE" /\ data' = rest
             /\ UNCHANGED <<reader, payload, pending, delivered>>
      BY DEF ReadHeader, t
    <2> HIDE DEF read
    <2>6. ASSUME data' = rest, reader' = reader
          PROVE  Position' = Position + t /\ Carries(Hand, Position)'
      <3>1. Hand' = SubSeq(Hand, t + 1, Len(Hand))
        BY <1>3, <2>6 DEF Hand
      <3> QED BY <1>1, <1>3, <3>1, RestFollows
    <2>7. Position = Start(Count) + Len(header)
      BY <1>4 DEF InHeader
    <2>8. ASSUME UNCHANGED delivered
          PROVE  /\ UNCHANGED Count /\ UNCHANGED Start(Count) /\ UNCHANGED Current
                 /\ UNCHANGED CurrentIsSound
      BY <1>3, <2>8 DEF Count, Start, Current, CurrentIsSound, ghostVars
    <2>9. CASE /\ Len(read) < HeaderSize
               /\ header' = read /\ data' = rest
               /\ UNCHANGED <<reader, state, payloadLen, payload, pending, delivered>>
      <3>1. Position' = Start(Count) + Len(read)
        BY <1>1, <1>2, <2>6, <2>7, <2>9
      <3>2. \A p \in 1 .. Len(read) : read[p] = WriteFrame(sent[Count + 1])[p]
        BY <1>1, <2>3 DEF Code
      <3>3. InHeader'
        BY <1>3, <2>8, <2>9, <3>1, <3>2 DEF InHeader, Code
      <3>4. Progress'
        BY <2>6, <2>9, <3>3 DEF Progress
      <3> QED BY <1>3, <2>9, <3>4, StillInStep
    <2>10. CASE Len(read) = HeaderSize /\ Number(read) > MaxPayload
      BY <2>1, <2>4, <2>10, Sizes
    <2>11. CASE /\ Len(read) = HeaderSize /\ Number(read) <= MaxPayload
                /\ header' = read /\ payloadLen' = Number(read)
                /\ state' = "READ_TYPE" /\ data' = rest
                /\ UNCHANGED <<reader, payload, pending, delivered>>
      <3>1. Position' = Start(Count) + HeaderSize
        <4>1. Position' = Start(Count) + Len(read)
          BY <1>1, <1>2, <2>6, <2>7, <2>11
        <4> QED BY <2>11, <4>1
      <3>2. payloadLen' = L /\ L' = L
        BY <2>4, <2>8, <2>11 DEF L
      <3>3. InType'
        BY <1>7, <2>8, <2>11, <3>1, <3>2 DEF InType, L
      <3>4. Progress'
        BY <2>6, <2>11, <3>3 DEF Progress
      <3> QED BY <1>3, <2>11, <3>4, StillInStep
    <2> QED BY <2>5, <2>9, <2>10, <2>11
  <1> QED BY <1>6, <1>7

\* The byte after the header, with which an empty frame is complete.
LEMMA TypeKeeps ==
    ASSUME TypeInv, StreamInv, InStep, ReadType
    PROVE  InStep'
  <1> DEFINE L == Len(Current.payload)
  <1>1. reader = "feeding" /\ state = "READ_TYPE" /\ data # <<>> /\ Hand = data
        /\ UNCHANGED <<sent, wire, ghostVars>> /\ frameType' = Head(data)
    BY DEF ReadType, Hand
  <1>2. InType
    BY <1>1 DEF InStep, Progress, InHeader, InPayload
  <1>3. CurrentIsSound /\ Count < Len(sent) /\ Position = Start(Count) + HeaderSize
        /\ payloadLen = L
    BY <1>2 DEF InType, CurrentIsSound
  <1>4. /\ Current \in Frames /\ Current.type \in Bytes /\ Current.payload \in Seq(Bytes)
        /\ Code(Count + 1) = WriteFrame(Current) /\ L \in Nat /\ L <= MaxPayload
    BY <1>3, CurrentFrame DEF CurrentIsSound
  <1>5. /\ Len(Code(Count + 1)) = HeaderSize + 1 + L
        /\ Code(Count + 1)[HeaderSize + 1] = Current.type
    BY <1>4, CodeOf
  <1>6. HeaderSize \in Nat /\ data \in Seq(Bytes) /\ Len(data) \in Nat /\ Len(data) # 0
        /\ Start(Count) \in Nat
    BY <1>1, Sizes, Standing, LenProperties, EmptySeq DEF TypeInv, TypeOK
  <1> HIDE DEF L
  <1>7. 1 \in 1 .. Len(Hand) /\ 1 \in 0 .. Len(Hand) /\ HeaderSize + 1 <= Len(Code(Count + 1))
    BY <1>1, <1>4, <1>5, <1>6
  <1>8. Hand[1] = Current.type
    BY <1>3, <1>5, <1>6, <1>7, HandIs
  <1>9. frameType' = Current.type
    BY <1>1, <1>6, <1>8
  <1>10. Tail(data) = SubSeq(Hand, 1 + 1, Len(Hand))
    <2> DEFINE r == SubSeq(data, 1 + 1, Len(data))
    <2>1. 1 \in 0 .. Len(data)
      BY <1>6
    <2>2. /\ r \in Seq(Bytes) /\ Len(r) = Len(data) - 1
          /\ \A i \in 1 .. Len(data) - 1 : r[i] = data[1 + i]
      BY <1>6, <2>1, Cut
    <2>3. /\ Tail(data) \in Seq(Bytes) /\ Len(Tail(data)) = Len(data) - 1
          /\ \A i \in 1 .. Len(Tail(data)) : Tail(data)[i] = data[i + 1]
      BY <1>1, <1>6, HeadTailProperties
    <2>4. \A i \in 1 .. Len(data) - 1 : 1 + i = i + 1
      BY <1>6
    <2> HIDE DEF r
    <2>5. Tail(data) = r
      BY <2>2, <2>3, <2>4, SeqEqual
    <2> QED BY <1>1, <2>5 DEF r
  <1>11. CASE payloadLen = 0 /\ ReturnFrame(frameType', <<>>, Tail(data))
    <2>1. Current.payload = <<>> /\ L = 0
      BY <1>3, <1>4, <1>11, EmptySeq DEF L
    <2>2. Position + 1 = Start(Count) + HeaderSize + 1 + L
      BY <1>3, <1>6, <2>1
    <2>3. ReturnFrame(Current.type, <<>>, Tail(data)) /\ UNCHANGED <<sent, ghostVars>>
      BY <1>1, <1>9, <1>11
    <2> QED BY <1>3, <1>7, <1>10, <2>1, <2>2, <2>3, FrameOut DEF L
  <1>12. CASE /\ payloadLen > 0
              /\ payload' = <<>>
              /\ state' = "READ_PAYLOAD" /\ data' = Tail(data)
              /\ UNCHANGED <<reader, header, payloadLen, pending, delivered>>
    <2>1. Hand' = SubSeq(Hand, 1 + 1, Len(Hand))
      BY <1>1, <1>10, <1>12 DEF Hand
    <2>2. Position' = Position + 1 /\ Carries(Hand, Position)'
      BY <1>1, <1>7, <2>1, RestFollows
    <2>3. UNCHANGED Count /\ UNCHANGED Start(Count) /\ UNCHANGED Current /\ UNCHANGED CurrentIsSound
      BY <1>1, <1>12 DEF Count, Start, Current, CurrentIsSound, ghostVars
    <2>4. Len(<<>>) = 0 /\ Position' = Start(Count) + HeaderSize + 1 + Len(<<>>)
      BY <1>3, <1>6, <2>2
    <2>5. payloadLen = Len(Current.payload) /\ Len(<<>>) < payloadLen
      BY <1>3, <1>12, <2>4 DEF L
    <2>6. InPayload'
      BY <1>3, <1>9, <1>12, <2>3, <2>4, <2>5 DEF InPayload
    <2> QED BY <1>1, <1>12, <2>2, <2>6, StillInStep DEF Progress
  <1> QED BY <1>11, <1>12 DEF ReadType

\* The payload, which may come in parts.
LEMMA PayloadKeeps ==
    ASSUME TypeInv, StreamInv, InStep, ReadPayload
    PROVE  InStep'
  <1> DEFINE t == Smaller(payloadLen - Len(payload), Len(data))
             read == payload \o SubSeq(data, 1, t)
             rest == SubSeq(data, t + 1, Len(data))
             b == HeaderSize + 1
  <1>1. /\ t \in 0 .. Len(data) /\ t + Len(payload) <= payloadLen
        /\ read \in Seq(Bytes) /\ Len(read) = Len(payload) + t
    BY PayloadCopy DEF TypeInv
  <1>2. /\ payload \in Seq(Bytes) /\ Len(payload) \in Nat /\ Len(data) \in Nat
        /\ b \in Nat /\ HeaderSize \in Nat /\ Start(Count) \in Nat
    BY Sizes, Standing, LenProperties DEF TypeInv, TypeOK
  <1>3. reader = "feeding" /\ state = "READ_PAYLOAD" /\ Hand = data
        /\ UNCHANGED <<sent, wire, frameType, ghostVars>>
    BY DEF ReadPayload, Hand
  <1>4. InPayload
    BY <1>3 DEF InStep, Progress, InHeader, InType
  <1>5. /\ CurrentIsSound /\ Count < Len(sent) /\ payloadLen = Len(Current.payload)
        /\ frameType = Current.type /\ Position = Start(Count) + b + Len(payload)
        /\ \A p \in 1 .. Len(payload) : payload[p] = Current.payload[p]
    <2>1. Position = Start(Count) + HeaderSize + 1 + Len(payload)
      BY <1>4 DEF InPayload
    <2>2. Position = Start(Count) + b + Len(payload)
      BY <1>2, <2>1
    <2> QED BY <1>4, <2>2 DEF InPayload, CurrentIsSound
  <1>6. /\ Current \in Frames /\ Current.payload \in Seq(Bytes)
        /\ Code(Count + 1) = WriteFrame(Current)
        /\ Len(Current.payload) \in Nat /\ Len(Current.payload) <= MaxPayload
    BY <1>5, CurrentFrame DEF CurrentIsSound
  <1>7. /\ Len(Code(Count + 1)) = b + Len(Current.payload)
        /\ \A p \in 1 .. Len(Current.payload) : Code(Count + 1)[b + p] = Current.payload[p]
    BY <1>6, CodeOf
  <1> HIDE DEF b, t
  <1>8. \A p \in 1 .. Len(read) : p \in 1 .. Len(Current.payload) /\ read[p] = Current.payload[p]
    <2>1. \A p \in 1 .. Len(payload) + t : p \in 1 .. Len(Current.payload)
      BY <1>1, <1>2, <1>5, <1>6
    <2>2. \A p \in 1 .. Len(payload) : payload[p] = Code(Count + 1)[b + p]
      <3>1. \A p \in 1 .. Len(payload) : p \in 1 .. Len(payload) + t
        BY <1>1, <1>2
      <3> QED BY <1>5, <1>7, <2>1, <3>1
    <2>3. b + Len(payload) + t <= Len(Code(Count + 1))
      BY <1>1, <1>2, <1>5, <1>6, <1>7
    <2>4. \A p \in 1 .. Len(payload) + t : read[p] = Code(Count + 1)[b + p]
      BY <1>1, <1>2, <1>3, <1>5, <2>2, <2>3, CopyContinues
    <2> HIDE DEF read
    <2> QED BY <1>1, <1>7, <2>1, <2>4
  <1>9. \/ Len(read) = payloadLen /\ ReturnFrame(frameType, read, rest)
        \/ /\ Len(read) < payloadLen
           /\ payload' = read /\ data' = rest
           /\ UNCHANGED <<reader, state, header, payloadLen, pending, delivered>>
    BY DEF ReadPayload, t
  <1> HIDE DEF read
  <1>10. CASE Len(read) = payloadLen /\ ReturnFrame(frameType, read, rest)
    <2>1. read = Current.payload
      BY <1>1, <1>5, <1>6, <1>8, <1>10, SeqEqual
    <2>2. Position + t = Start(Count) + HeaderSize + 1 + Len(Current.payload)
      <3>1. PICK l \in Nat : l = Len(Current.payload)
        BY <1>6
      <3>2. l = Len(payload) + t /\ t \in Nat
        BY <1>1, <1>2, <1>5, <1>10, <3>1
      <3>3. Position + t = Start(Count) + HeaderSize + 1 + l
        BY <1>2, <1>5, <3>2 DEF b
      <3> QED BY <3>1, <3>3
    <2>3. t \in 0 .. Len(Hand) /\ rest = SubSeq(Hand, t + 1, Len(Hand))
          /\ UNCHANGED <<sent, ghostVars>> /\ ReturnFrame(Current.type, read, rest)
      BY <1>1, <1>3, <1>5, <1>10
    <2> HIDE DEF rest
    <2> QED BY <1>5, <2>1, <2>2, <2>3, FrameOut
  <1>11. CASE /\ Len(read) < payloadLen
              /\ payload' = read /\ data' = rest
              /\ UNCHANGED <<reader, state, header, payloadLen, pending, delivered>>
    <2>1. Hand' = SubSeq(Hand, t + 1, Len(Hand))
      BY <1>3, <1>11 DEF Hand
    <2>2. Position' = Position + t /\ Carries(Hand, Position)'
      BY <1>1, <1>3, <2>1, RestFollows
    <2>3. UNCHANGED Count /\ UNCHANGED Start(Count) /\ UNCHANGED Current /\ UNCHANGED CurrentIsSound
      BY <1>3, <1>11 DEF Count, Start, Current, CurrentIsSound, ghostVars
    <2>4. Position' = Start(Count) + HeaderSize + 1 + Len(read)
      <3>1. t \in Nat
        BY <1>1, <1>2
      <3>2. PICK l \in Nat : l = Len(payload)
        BY <1>2
      <3>3. (Start(Count) + b + l) + t = Start(Count) + HeaderSize + 1 + (l + t)
        BY <1>2, <3>1, <3>2 DEF b
      <3> QED BY <1>1, <1>5, <2>2, <3>2, <3>3
    <2>5. InPayload'
      BY <1>3, <1>5, <1>8, <1>11, <2>3, <2>4 DEF InPayload
    <2> QED BY <1>3, <1>11, <2>2, <2>5, StillInStep DEF Progress
  <1> QED BY <1>9, <1>10, <1>11

-----------------------------------------------------------------------------
(* The invariant.                                                          *)

\* The stream stays in order.
LEMMA NextStream ==
    ASSUME TypeInv, StreamInv, [Next]_vars
    PROVE  StreamInv'
  <1>1. CASE \E f \in Frames : Send(f)
    BY <1>1, SendStream DEF TypeInv
  <1>2. CASE ReceiveData
    BY <1>2, ReceiveStream
  <1>3. CASE UNCHANGED <<sent, wire, ghostVars>>
    BY <1>3 DEF StreamInv, Carries, Follows, Start, Begin, Code, ghostVars
  <1>4. ReadHeader \/ ReadType \/ ReadPayload \/ EndOfData \/ DispatchFrame \/ UNCHANGED vars
           => UNCHANGED <<sent, wire, ghostVars>>
    BY DEF ReadHeader, ReadType, ReadPayload, EndOfData, DispatchFrame, vars
  <1> QED BY <1>1, <1>2, <1>3, <1>4 DEF Next

\* The decoder stays in step until a frame above the limit comes by.
LEMMA NextDecode ==
    ASSUME TypeInv, StreamInv, DecodeInv, [Next]_vars
    PROVE  DecodeInv'
  <1>1. CASE OutOfStep
    BY <1>1, OutOfStepStays DEF DecodeInv
  <1>2. CASE InStep
    <2>1. CASE \E f \in Frames : Send(f)
      BY <1>2, <2>1, SendKeeps DEF DecodeInv
    <2>2. CASE ReceiveData
      BY <1>2, <2>2, ReceiveKeeps DEF DecodeInv
    <2>3. CASE ReadHeader
      BY <1>2, <2>3, HeaderKeeps, OutOfStepStays DEF DecodeInv
    <2>4. CASE ReadType
      BY <1>2, <2>4, TypeKeeps DEF DecodeInv
    <2>5. CASE ReadPayload
      BY <1>2, <2>5, PayloadKeeps DEF DecodeInv
    <2>6. CASE EndOfData
      BY <1>2, <2>6, EndKeeps DEF DecodeInv
    <2>7. CASE DispatchFrame
      BY <1>2, <2>7, DispatchKeeps DEF DecodeInv
    <2>8. CASE UNCHANGED vars
      <3>1. UNCHANGED Hand
        BY <2>8 DEF vars, decoderVars, Hand
      <3> QED BY <1>2, <2>8, <3>1, SameHand DEF vars, decoderVars, DecodeInv
    <2> QED BY <2>1, <2>2, <2>3, <2>4, <2>5, <2>6, <2>7, <2>8 DEF Next
  <1> QED BY <1>1, <1>2 DEF DecodeInv

\* At first nothing has been sent.
LEMMA InitInv == Init => StreamInv /\ DecodeInv
  <1> SUFFICES ASSUME Init PROVE StreamInv /\ DecodeInv
    OBVIOUS
  <1>1. Len(<<>>) = 0 /\ HeaderSize \in Nat \ {0}
    BY Sizes
  <1>2. sent = <<>> /\ ends = <<>> /\ wire = <<>> /\ taken = 0 /\ delivered = <<>>
        /\ header = <<>> /\ state = "READ_HEADER" /\ reader = "receiving"
    BY DEF Init
  <1>3. Start(0) = 0
    BY DEF Start, Begin
  <1>4. StreamInv
    <2>1. Carries(wire, taken)
      BY <1>1, <1>2 DEF Carries, Follows
    <2>2. \A i \in 0 .. Len(sent) : i = 0
      BY <1>1, <1>2
    <2>3. \A i, j \in 0 .. Len(sent) : i <= j => Start(i) <= Start(j)
      BY <1>3, <2>2
    <2>4. \A i \in 1 .. Len(sent) : ends[i] = Start(i - 1) + Len(Code(i))
      BY <1>1, <1>2
    <2> QED BY <1>1, <1>2, <1>3, <2>1, <2>3, <2>4 DEF StreamInv
  <1>5. Hand = <<>> /\ Count = 0
    BY <1>1, <1>2 DEF Hand, Count
  <1>6. Position = 0
    <2>1. Len(Hand) = 0
      BY <1>1, <1>5
    <2> QED BY <1>2, <2>1 DEF Position
  <1>7. InHeader
    BY <1>1, <1>2, <1>3, <1>5, <1>6 DEF InHeader
  <1>8. Carries(Hand, Position)
    BY <1>1, <1>5 DEF Carries, Follows
  <1>9. InStep
    BY <1>1, <1>2, <1>5, <1>7, <1>8 DEF InStep, Progress, Sound
  <1> QED BY <1>4, <1>9 DEF DecodeInv

\* What the invariant says of a reader that is back at the pipe.
LEMMA WholeFrames == IInv => FramesArriveWhole
  <1> SUFFICES ASSUME IInv, reader = "receiving"
               PROVE  /\ \A k \in 1 .. Len(sent) : Sound(k) /\ ends[k] <= taken =>
                            Len(delivered) >= k /\ delivered[k] = sent[k]
                      /\ Sound(Len(sent)) => \A k \in 1 .. Len(delivered) :
                            k <= Len(sent) /\ ends[k] <= taken
    BY DEF FramesArriveWhole
  <1>0. TypeInv /\ StreamInv /\ DecodeInv
    BY DEF IInv, TypeInv
  <1>1. /\ Len(sent) \in Nat /\ Len(delivered) \in Nat /\ Count = Len(delivered)
        /\ Len(header) \in Nat /\ HeaderSize \in Nat /\ MaxPayload \in Nat
    BY <1>0, Sizes, LenProperties DEF TypeInv, TypeOK, Count
  <1>2. \A k \in 1 .. Len(sent) : ends[k] = Start(k) /\ k \in 0 .. Len(sent) /\ Start(k) \in Nat
    BY <1>0, <1>1, StartType DEF Start, Begin, StreamInv, TypeInv
  <1>3. \A k \in 1 .. Len(sent) : Len(sent[k].payload) \in Nat
    <2> SUFFICES ASSUME NEW k \in 1 .. Len(sent) PROVE Len(sent[k].payload) \in Nat
      OBVIOUS
    <2>1. sent[k] \in Frames
      BY <1>0, ElementOfSeq DEF TypeInv, TypeOK
    <2> QED BY <2>1, FramesAssumption, LenProperties
  <1>4. CASE InStep
    <2>1. /\ Start(Count) \in Nat /\ taken \in Nat /\ Position + Len(Hand) = taken
          /\ Position \in Nat /\ Count <= Len(sent)
      BY <1>0, <1>4, Standing
    <2>2. Len(Hand) = 0
      BY DEF Hand
    <2>3. Position = taken
      BY <2>1, <2>2
    <2>4. ASSUME NEW k \in 1 .. Len(sent), ends[k] <= taken
          PROVE  k <= Count
      <3> SUFFICES ASSUME ~(k <= Count) PROVE FALSE
        OBVIOUS
      <3>1. Count + 1 \in 0 .. Len(sent) /\ Count + 1 <= k /\ k \in 0 .. Len(sent)
            /\ Count + 1 \in 1 .. Len(sent) /\ (Count + 1) - 1 = Count /\ Count < Len(sent)
        BY <1>1
      <3>2. Start(Count + 1) <= ends[k] /\ ends[k] \in Nat /\ Start(Count + 1) \in Nat
        BY <1>0, <1>2, <3>1 DEF StreamInv
      <3>3. Start(Count + 1) = Start(Count) + Len(Code(Count + 1))
        BY <1>0, <1>2, <3>1 DEF StreamInv
      <3>4. taken < Start(Count) + Len(Code(Count + 1))
        <4>1. /\ Current \in Frames /\ Code(Count + 1) = WriteFrame(Current)
              /\ Len(Code(Count + 1)) \in Nat
          BY <1>0, <1>4, <3>1, CurrentFrame
        <4>2. Len(Code(Count + 1)) > HeaderSize
          BY <4>1, CodeOf
        <4>3. CASE InHeader
          BY <1>1, <2>1, <2>3, <4>1, <4>2, <4>3 DEF InHeader
        <4>4. CASE InType
          BY <1>1, <2>1, <2>3, <4>1, <4>2, <4>4 DEF InType
        <4>5. CASE InPayload
          <5>1. /\ taken = Start(Count) + HeaderSize + 1 + Len(payload)
                /\ Len(payload) < Len(Current.payload)
                /\ Len(Current.payload) <= MaxPayload
            BY <2>3, <4>5 DEF InPayload, CurrentIsSound
          <5>2. Len(Code(Count + 1)) = HeaderSize + 1 + Len(Current.payload)
            BY <4>1, <5>1, CodeOf
          <5>3. PICK l \in Nat : l = Len(Current.payload)
            BY <1>3, <3>1 DEF Current
          <5>4. PICK h \in Nat : h = Len(payload)
            BY <1>0, LenProperties DEF TypeInv, TypeOK
          <5>5. h < l => Start(Count) + HeaderSize + 1 + h < Start(Count) + (HeaderSize + 1 + l)
            <6>1. \A x, y, u, v \in Nat : u < v => x + y + 1 + u < x + (y + 1 + v)
              OBVIOUS
            <6> QED BY <1>1, <2>1, <5>3, <5>4, <6>1
          <5> QED BY <5>1, <5>2, <5>3, <5>4, <5>5
        <4> QED BY <1>4, <4>3, <4>4, <4>5 DEF InStep, Progress
      <3>5. taken < Start(Count + 1)
        BY <3>3, <3>4
      <3> QED BY <2>1, <2>4, <3>2, <3>5
    <2>5. \A k \in 1 .. Len(sent) : ends[k] <= taken =>
              Len(delivered) >= k /\ delivered[k] = sent[k]
      <3> SUFFICES ASSUME NEW k \in 1 .. Len(sent), ends[k] <= taken
                   PROVE  Len(delivered) >= k /\ delivered[k] = sent[k]
        OBVIOUS
      <3>1. k <= Count /\ k \in 1 .. Count
        BY <1>1, <2>4
      <3> QED BY <1>1, <1>4, <3>1 DEF InStep
    <2>6. Start(Count) <= taken
      <3>1. Len(payload) \in Nat
        BY <1>0, LenProperties DEF TypeInv, TypeOK
      <3>2. CASE InHeader
        BY <1>1, <2>1, <2>3, <3>2 DEF InHeader
      <3>3. CASE InType
        BY <1>1, <2>1, <2>3, <3>3 DEF InType
      <3>4. CASE InPayload
        BY <1>1, <2>1, <2>3, <3>1, <3>4 DEF InPayload
      <3> QED BY <1>4, <3>2, <3>3, <3>4 DEF InStep, Progress
    <2>7. ASSUME NEW k \in 1 .. Len(delivered)
          PROVE  k <= Len(sent) /\ ends[k] <= taken
      <3>1. k \in 1 .. Len(sent) /\ k \in 0 .. Len(sent) /\ k <= Count /\ Count \in 0 .. Len(sent)
        BY <1>1, <2>1
      <3>2. ends[k] <= Start(Count) /\ ends[k] \in Nat
        BY <1>0, <1>2, <3>1 DEF StreamInv
      <3> QED BY <1>1, <2>1, <2>6, <3>1, <3>2
    <2> QED BY <2>5, <2>7
  <1>5. CASE OutOfStep
    <2>1. PICK m \in 0 .. Len(sent) - 1 :
             /\ Len(sent[m + 1].payload) > MaxPayload
             /\ Count >= m /\ \A i \in 1 .. m : delivered[i] = sent[i]
      BY <1>5 DEF OutOfStep
    <2>2. m \in Nat /\ m + 1 \in 1 .. Len(sent) /\ m + 1 <= Len(sent)
      BY <1>1
    <2>3. ASSUME NEW k \in 1 .. Len(sent), Sound(k)
          PROVE  k <= m
      <3> SUFFICES ASSUME ~(k <= m) PROVE FALSE
        OBVIOUS
      <3>1. m + 1 \in 1 .. k
        BY <1>1, <2>2
      <3>2. Len(sent[m + 1].payload) <= MaxPayload
        BY <2>3, <3>1 DEF Sound
      <3> QED BY <1>1, <1>3, <2>1, <2>2, <3>2
    <2>4. ~Sound(Len(sent))
      <3>1. Len(sent) \in 1 .. Len(sent) /\ ~(Len(sent) <= m)
        BY <1>1, <2>2
      <3> QED BY <2>3, <3>1
    <2>5. ASSUME NEW k \in 1 .. Len(sent), Sound(k)
          PROVE  Len(delivered) >= k /\ delivered[k] = sent[k]
      <3>1. k \in 1 .. m /\ k <= Count
        BY <1>1, <2>1, <2>2, <2>3, <2>5
      <3> QED BY <1>1, <2>1, <3>1
    <2> QED BY <2>4, <2>5
  <1> QED BY <1>0, <1>4, <1>5 DEF DecodeInv

\* The decoder's buffers have their types, and no copy overruns the header or
\* the payload that m_payload was resized for.
THEOREM TypeCorrect == Spec => []TypeOK
  <1>1. TypeInv => TypeOK
    BY DEF TypeInv
  <1> QED BY <1>1, InitTypes, NextTypes, PTL DEF Spec

\* The invariant holds of every state.
LEMMA Inductive == Spec => []IInv
  <1> DEFINE I == TypeInv /\ StreamInv /\ DecodeInv
  <1>1. Init => I
    BY InitTypes, InitInv
  <1>2. I /\ [Next]_vars => I'
    BY NextTypes, NextStream, NextDecode
  <1>3. I => IInv
    BY DEF IInv, TypeInv
  <1> QED BY <1>1, <1>2, <1>3, PTL DEF Spec

\* Whatever chunks ReceiveData returns, whenever ReaderLoop is back at the pipe
\* every frame that arrived whole has been dispatched in order and unchanged,
\* and nothing else, until a frame above kMaxPayload comes by.
THEOREM FramesComeOutWhole == Spec => []FramesArriveWhole
  BY Inductive, WholeFrames, PTL
=============================================================================
