------------------------- MODULE PacketStreamProofs -------------------------
(***************************************************************************)
(* Proofs about PacketStream for every payload size limit, set of          *)
(* registered types, checksum, transmissions and chunk size.               *)
(***************************************************************************)
EXTENDS PacketStream, SequenceTheorems, WellFoundedInduction, TLAPS

-----------------------------------------------------------------------------
(* Facts about createPacket and the frame layout (VescFraming).             *)

\* Byte string s is the part of t that begins behind the first d bytes.
Within(s, t, d) ==
    /\ s \in Seq(Byte) /\ t \in Seq(Byte) /\ d \in Nat
    /\ Len(s) + d <= Len(t)
    /\ \A k \in 1..Len(s) : t[k + d] = s[k]

(* The size fields are natural numbers wherever there are enough bytes.     *)
LEMMA SizesAreNat ==
    ASSUME NEW s \in Seq(Byte), NEW i \in 1..Len(s),
           Available(s, i) >= VESC_MIN_FRAME_SIZE
    PROVE  /\ PayloadSize(s, i) \in Nat
           /\ HeaderSize(s, i) \in {2, 3}
           /\ FrameSize(s, i) = HeaderSize(s, i) + PayloadSize(s, i) + 3
           /\ FrameSize(s, i) \in Nat
           /\ FrameSize(s, i) >= VESC_MIN_FRAME_SIZE
<1>1. \A k \in 1..Len(s) : s[k] \in Byte
      OBVIOUS
<1>2. i + 1 \in 1..Len(s) /\ i + 2 \in 1..Len(s)
      BY DEF Available, VESC_MIN_FRAME_SIZE
<1>3. s[i + 1] \in 0..255 /\ s[i + 2] \in 0..255
      BY <1>1, <1>2 DEF Byte
<1>4. PayloadSize(s, i) \in Nat
  <2>1. \A x, y \in 0..255 : x \in Nat /\ 256 * x + y \in Nat
        OBVIOUS
  <2>2. s[i + 1] \in Nat /\ 256 * s[i + 1] + s[i + 2] \in Nat
        BY <1>3, <2>1
  <2> QED BY <2>2, Zenon DEF PayloadSize
<1>5. HeaderSize(s, i) \in {2, 3}
      BY DEF HeaderSize
<1> QED BY <1>4, <1>5 DEF FrameSize, VESC_MIN_FRAME_SIZE

(* The header of a frame reads the same in the longer string.               *)
LEMMA HeaderWithin ==
    ASSUME NEW s, NEW t, NEW d, Within(s, t, d), NEW i \in 1..Len(s)
    PROVE  /\ i + d \in 1..Len(t)
           /\ IsSof(s, i) <=> IsSof(t, i + d)
           /\ Available(s, i) >= VESC_MIN_FRAME_SIZE =>
                 /\ HeaderSize(t, i + d) = HeaderSize(s, i)
                 /\ PayloadSize(t, i + d) = PayloadSize(s, i)
                 /\ FrameSize(t, i + d) = FrameSize(s, i)
           /\ Available(t, i + d) >= Available(s, i)
<1>1. t[i + d] = s[i] /\ i + d \in 1..Len(t)
      BY DEF Within
<1>2. Available(t, i + d) >= Available(s, i)
      BY DEF Within, Available
<1>3. ASSUME Available(s, i) >= VESC_MIN_FRAME_SIZE
      PROVE  t[i + 1 + d] = s[i + 1] /\ t[i + 2 + d] = s[i + 2]
      BY <1>3 DEF Within, Available, VESC_MIN_FRAME_SIZE
<1>4. i + d + 1 = i + 1 + d /\ i + d + 2 = i + 2 + d
      BY DEF Within
<1> QED BY <1>1, <1>2, <1>3, <1>4 DEF IsSof, HeaderSize, PayloadSize, FrameSize

(* A complete frame reads the same in the longer string.                    *)
LEMMA FrameWithin ==
    ASSUME NEW s, NEW t, NEW d, Within(s, t, d), NEW i \in 1..Len(s),
           Available(s, i) >= VESC_MIN_FRAME_SIZE,
           Available(s, i) >= FrameSize(s, i)
    PROVE  /\ IsFrame(s, i) <=> IsFrame(t, i + d)
           /\ IsPacket(s, i) <=> IsPacket(t, i + d)
<1> DEFINE h == HeaderSize(s, i)
           p == PayloadSize(s, i)
           e == EofAt(s, i)
           g == EofAt(t, i + d)
<1>1. h \in {2, 3} /\ p \in Nat /\ FrameSize(s, i) = h + p + 3
      BY SizesAreNat DEF Within
<1>2. /\ HeaderSize(t, i + d) = h
      /\ PayloadSize(t, i + d) = p
      /\ FrameSize(t, i + d) = h + p + 3
      /\ IsSof(s, i) <=> IsSof(t, i + d)
      /\ Available(t, i + d) >= Available(s, i)
      BY <1>1, HeaderWithin
<1>3. e \in Int /\ e = i + h + p + 2 /\ e <= Len(s) /\ g = e + d
  <2>1. Len(s) \in Nat /\ d \in Nat
        BY DEF Within
  <2>2. e = i + (h + p + 3) - 1 /\ g = i + d + (h + p + 3) - 1
        BY <1>1, <1>2, Zenon DEF EofAt
  <2>3. Len(s) - i + 1 >= h + p + 3
        BY <1>1, Zenon DEF Available
  <2> HIDE DEF h, p, e, g
  <2> QED BY <1>1, <2>1, <2>2, <2>3
<1> HIDE DEF h, p, e, g
<1>4. \A k \in 1..Len(s) : t[k + d] = s[k]
      BY DEF Within
<1>5. t[g] = s[e] /\ t[g - 1] = s[e - 1] /\ t[g - 2] = s[e - 2]
  <2>1. e \in 1..Len(s) /\ e - 1 \in 1..Len(s) /\ e - 2 \in 1..Len(s)
        BY <1>1, <1>3
  <2>2. d \in Nat /\ g = e + d /\ g - 1 = (e - 1) + d /\ g - 2 = (e - 2) + d
        BY <1>3 DEF Within
  <2> QED BY <1>4, <2>1, <2>2
<1>6. StoredCrc(t, i + d) = StoredCrc(s, i)
  <2>1. StoredCrc(s, i) = 256 * s[e - 2] + s[e - 1]
        BY DEF StoredCrc, e
  <2>2. StoredCrc(t, i + d) = 256 * t[g - 2] + t[g - 1]
        BY DEF StoredCrc, g
  <2> QED BY <1>5, <2>1, <2>2
<1>7. Payload(t, i + d) = Payload(s, i)
  <2>1. \A k \in 1..p : t[i + d + h + k - 1] = s[i + h + k - 1]
    <3> TAKE k \in 1..p
    <3>1. i + h + k - 1 \in 1..Len(s)
          BY <1>1, <1>3
    <3>2. i + d + h + k - 1 = (i + h + k - 1) + d
      <4>1. d \in Nat BY DEF Within
      <4> QED BY <1>1, <4>1
    <3> QED BY <3>1, <3>2, <1>4
  <2>2. Payload(t, i + d) = [k \in 1..p |-> t[i + d + h + k - 1]]
        BY <1>2, Zenon DEF Payload
  <2>3. Payload(s, i) = [k \in 1..p |-> s[i + h + k - 1]]
        BY DEF Payload, h, p
  <2> QED BY <2>1, <2>2, <2>3
<1>8. p > 0 => t[i + d + h] = s[i + h]
  <2> SUFFICES ASSUME p > 0 PROVE t[i + d + h] = s[i + h]
      OBVIOUS
  <2>1. d \in Nat
        BY DEF Within
  <2>2. i + h \in 1..Len(s)
        BY <1>1, <1>3
  <2>3. i + d + h = (i + h) + d
        BY <1>1, <2>1
  <2> QED BY <2>2, <2>3, <1>4
<1>9. IsFrame(s, i) <=> IsFrame(t, i + d)
  <2>1. Available(t, i + d) >= VESC_MIN_FRAME_SIZE /\ Available(t, i + d) >= h + p + 3
        BY <1>1, <1>2, <1>3 DEF Available, Within, VESC_MIN_FRAME_SIZE, e
  <2> QED BY <2>1, <1>1, <1>2, <1>5, <1>6, <1>7 DEF IsFrame, h, p, e, g
<1> QED BY <1>2, <1>8, <1>9 DEF IsPacket, h, p

(* A packet stays one, and junk stays junk, when more bytes arrive behind   *)
(* it: createPacket never takes back an answer.                             *)
LEMMA OutcomeWithin ==
    ASSUME NEW s, NEW t, NEW d, Within(s, t, d), NEW i \in 1..Len(s)
    PROVE  /\ IsPacket(s, i) =>
                 IsPacket(t, i + d) /\ FrameSize(t, i + d) = FrameSize(s, i)
           /\ Junk(s, i) => Junk(t, i + d)
<1>1. ASSUME IsPacket(s, i)
      PROVE  IsPacket(t, i + d) /\ FrameSize(t, i + d) = FrameSize(s, i)
      BY <1>1, FrameWithin, HeaderWithin DEF IsPacket, IsFrame
<1>2. ASSUME Junk(s, i) PROVE Junk(t, i + d)
  <2>1. CASE ~IsSof(s, i)
        BY <2>1, HeaderWithin DEF Junk
  <2>2. CASE IsSof(s, i) /\ ~IsPacket(s, i) /\ BytesNeeded(s, i) <= 0
    <3>1. Available(s, i) \in Int /\ Available(t, i + d) \in Int
      <4>1. Len(s) \in Nat /\ Len(t) \in Nat /\ i \in Int /\ d \in Nat
            BY LenProperties DEF Within
      <4> QED BY <4>1 DEF Available
    <3>2. Available(s, i) >= VESC_MIN_FRAME_SIZE
      <4>1. CASE Available(s, i) < VESC_MIN_FRAME_SIZE
            BY <4>1, <2>2, <3>1 DEF BytesNeeded, VESC_MIN_FRAME_SIZE
      <4> QED BY <4>1, <3>1 DEF VESC_MIN_FRAME_SIZE
    <3>3. /\ Available(t, i + d) >= VESC_MIN_FRAME_SIZE
          /\ PayloadSize(t, i + d) = PayloadSize(s, i)
          /\ FrameSize(t, i + d) = FrameSize(s, i)
          BY <3>1, <3>2, HeaderWithin DEF VESC_MIN_FRAME_SIZE
    <3>4. PayloadSize(s, i) \in Nat /\ FrameSize(s, i) \in Nat
          BY <3>2, SizesAreNat DEF Within
    <3>5. CASE PayloadSize(s, i) <= VESC_MAX_PAYLOAD_SIZE
      <4>1. Available(s, i) >= FrameSize(s, i)
            BY <2>2, <3>1, <3>2, <3>4, <3>5 DEF BytesNeeded, VESC_MIN_FRAME_SIZE
      <4>2. ~IsPacket(t, i + d)
            BY <4>1, <3>2, <2>2, FrameWithin
      <4>3. Available(t, i + d) >= FrameSize(t, i + d)
        <5>1. Available(t, i + d) >= Available(s, i)
              BY HeaderWithin
        <5> QED BY <5>1, <4>1, <3>1, <3>3, <3>4
      <4>4. BytesNeeded(t, i + d) = 0
            BY <4>3, <3>1, <3>3, <3>4 DEF BytesNeeded, VESC_MIN_FRAME_SIZE
      <4> QED BY <4>2, <4>4 DEF Junk, Incomplete
    <3>6. CASE ~(PayloadSize(s, i) <= VESC_MAX_PAYLOAD_SIZE)
      <4>1. BytesNeeded(t, i + d) = 0
            BY <3>1, <3>3, <3>4, <3>6 DEF BytesNeeded, VESC_MIN_FRAME_SIZE
      <4>2. ~IsPacket(t, i + d)
            BY <3>3, <3>4, <3>6 DEF IsPacket, IsFrame
      <4> QED BY <4>1, <4>2 DEF Junk, Incomplete
    <3> QED BY <3>5, <3>6
  <2>3. BytesNeeded(s, i) \in Int
    <3>1. Available(s, i) \in Int
      <4>1. Len(s) \in Nat /\ i \in Int
            BY LenProperties DEF Within
      <4> QED BY <4>1 DEF Available
    <3>2. CASE Available(s, i) < VESC_MIN_FRAME_SIZE
          BY <3>1, <3>2 DEF BytesNeeded, VESC_MIN_FRAME_SIZE
    <3>3. CASE Available(s, i) >= VESC_MIN_FRAME_SIZE
          BY <3>1, <3>3, SizesAreNat DEF Within, BytesNeeded, VESC_MIN_FRAME_SIZE
    <3> QED BY <3>1, <3>2, <3>3 DEF VESC_MIN_FRAME_SIZE
  <2> QED BY <1>2, <2>1, <2>2, <2>3 DEF Junk, Incomplete
<1> QED BY <1>1, <1>2

(* The number of bytes needed depends on the bytes from i to the end only.  *)
LEMMA NeededWithin ==
    ASSUME NEW s, NEW t, NEW d, Within(s, t, d), NEW i \in 1..Len(s),
           Len(s) + d = Len(t)
    PROVE  BytesNeeded(t, i + d) = BytesNeeded(s, i)
<1>1. Available(s, i) \in Int /\ Available(t, i + d) = Available(s, i)
  <2>1. Len(s) \in Nat /\ Len(t) \in Nat /\ i \in Int /\ d \in Nat
        BY LenProperties DEF Within
  <2> QED BY <2>1 DEF Available
<1>2. CASE Available(s, i) < VESC_MIN_FRAME_SIZE
      BY <1>1, <1>2 DEF BytesNeeded
<1>3. CASE Available(s, i) >= VESC_MIN_FRAME_SIZE
  <2>1. /\ IsSof(s, i) <=> IsSof(t, i + d)
        /\ PayloadSize(t, i + d) = PayloadSize(s, i)
        /\ FrameSize(t, i + d) = FrameSize(s, i)
        BY <1>3, HeaderWithin
  <2> QED BY <1>1, <2>1 DEF BytesNeeded
<1> QED BY <1>1, <1>2, <1>3 DEF VESC_MIN_FRAME_SIZE

(* An incomplete frame has fewer bytes than the largest frame.              *)
LEMMA IncompleteIsShort ==
    ASSUME NEW s \in Seq(Byte), NEW i \in 1..Len(s), Incomplete(s, i)
    PROVE  Available(s, i) < VESC_MAX_FRAME_SIZE
<1>1. Available(s, i) \in Nat /\ VESC_MAX_PAYLOAD_SIZE \in 1..1024
      BY FramingAssumption DEF Available
<1>2. CASE Available(s, i) < VESC_MIN_FRAME_SIZE
      BY <1>1, <1>2 DEF VESC_MIN_FRAME_SIZE, VESC_MAX_FRAME_SIZE
<1>3. CASE Available(s, i) >= VESC_MIN_FRAME_SIZE
  <2>1. /\ PayloadSize(s, i) <= VESC_MAX_PAYLOAD_SIZE
        /\ Available(s, i) < FrameSize(s, i)
    <3>1. BytesNeeded(s, i) > 0
          BY DEF Incomplete
    <3>2. ~(Available(s, i) < VESC_MIN_FRAME_SIZE)
          BY <1>1, <1>3 DEF VESC_MIN_FRAME_SIZE
    <3> QED BY <3>1, <3>2 DEF BytesNeeded
  <2>2. /\ PayloadSize(s, i) \in Nat
        /\ HeaderSize(s, i) \in {2, 3}
        /\ FrameSize(s, i) = HeaderSize(s, i) + PayloadSize(s, i) + 3
        BY <1>3, SizesAreNat
  <2> QED BY <1>1, <2>1, <2>2 DEF VESC_MAX_FRAME_SIZE
<1> QED BY <1>1, <1>2, <1>3 DEF VESC_MIN_FRAME_SIZE

(* Where there is junk there is no packet.                                  *)
LEMMA JunkIsNoPacket ==
    ASSUME NEW s, NEW i, Junk(s, i) PROVE ~IsPacket(s, i)
BY DEF Junk, IsPacket, IsFrame

-----------------------------------------------------------------------------
(* The inductive invariant.                                                 *)

\* The bytes the search has examined but not settled hold no packet.
ExaminedIsJunk == \A q \in iter_begin .. iter - 1 : Junk(buffer_, q)

\* What the search has left behind for good.
LeftBehind ==
    \A q \in 1 .. Position(iter) - 1 :
        \/ Junk(received, q)
        \/ \E k \in 1..Len(delivered) : Covers(delivered[k], q)

Idle == pc = "receive" => iter = 1

IInv ==
    /\ TypeOK
    /\ Idle
    /\ BufferIsTail
    /\ EveryByteAccounted
    /\ ResidueBounded
    /\ ExaminedIsJunk
    /\ LeftBehind
    /\ DeliveredInOrder

-----------------------------------------------------------------------------
(* The initial states satisfy the inductive invariant.                      *)
LEMMA InitIInv == Init => IInv
<1> SUFFICES ASSUME Init PROVE IInv
    OBVIOUS
<1> USE DEF Init
<1>1. TypeOK /\ Idle
      BY PacketStreamAssumption DEF TypeOK, Idle
<1>2. Position(1) = 1 /\ Position(iter) = 1 /\ Position(iter_begin) = 1
      BY DEF Position
<1>3. BufferIsTail /\ ResidueBounded
      BY <1>2 DEF BufferIsTail, ResidueBounded
<1>5. EveryByteAccounted
  <2>1. received \o line = <<>>
    <3>1. <<>> \in Seq(Byte)
          OBVIOUS
    <3> QED BY <3>1, ConcatEmptySeq
  <2> QED BY <1>2, <1>3, <2>1 DEF EveryByteAccounted
<1>4. ExaminedIsJunk /\ LeftBehind /\ DeliveredInOrder
      BY <1>2 DEF ExaminedIsJunk, LeftBehind, DeliveredInOrder
<1> QED BY <1>1, <1>3, <1>4, <1>5 DEF IInv

(* buffer_ lies at the end of received.                                     *)
LEMMA BufferWithin ==
    ASSUME TypeOK, BufferIsTail
    PROVE  /\ Within(buffer_, received, Len(received) - Len(buffer_))
           /\ \A i \in Int : Position(i) = i + (Len(received) - Len(buffer_))
           /\ \A i \in Int : Position(i) \in Int
<1>1. Len(received) \in Nat /\ Len(buffer_) \in Nat
      BY DEF TypeOK
<1>2. \A i \in Int : Position(i) = i + (Len(received) - Len(buffer_))
      BY <1>1 DEF Position
<1>3. \A k \in 1..Len(buffer_) :
          received[k + (Len(received) - Len(buffer_))] = buffer_[k]
  <2> TAKE k \in 1..Len(buffer_)
  <2>1. Position(k) = k + (Len(received) - Len(buffer_))
        BY <1>1, <1>2
  <2>2. buffer_[k] = received[Position(k)]
        BY DEF BufferIsTail
  <2> QED BY <2>1, <2>2
<1> QED BY <1>1, <1>2, <1>3 DEF Within, TypeOK, BufferIsTail

(* The records of delivered.                                                *)
LEMMA DeliveredTypes ==
    ASSUME TypeOK, NEW k \in 1..Len(delivered)
    PROVE  delivered[k].at \in Nat \ {0} /\ delivered[k].size \in Nat
<1> DEFINE D == [at : Nat \ {0}, size : Nat]
<1>1. delivered \in Seq(D)
      BY DEF TypeOK
<1> HIDE DEF D
<1>2. delivered[k] \in D
      BY <1>1
<1> QED BY <1>2 DEF D

(* The VESC writing to the line disturbs nothing.                           *)
LEMMA SendIInv ==
    ASSUME IInv, NEW bytes \in Transmissions, Send(bytes)
    PROVE  IInv'
<1>1. UNCHANGED <<pc, buffer_, iter, iter_begin, received, delivered,
                  accepted, reported>>
      BY DEF Send
<1>2. line' \in Seq(Byte) /\ sent' \in 0..MaxSent
      BY PacketStreamAssumption, ConcatProperties DEF Send, IInv, TypeOK
<1>8. /\ line \in Seq(Byte) /\ received \in Seq(Byte) /\ transmitted \in Seq(Byte)
      /\ bytes \in Seq(Byte) /\ line' = line \o bytes
      /\ transmitted' = transmitted \o bytes /\ transmitted = received \o line
      BY PacketStreamAssumption DEF Send, IInv, TypeOK, EveryByteAccounted
<1>9. transmitted' \in Seq(Byte) /\ transmitted' = received' \o line'
  <2>1. (received \o line) \o bytes = received \o (line \o bytes)
        BY <1>8, ConcatAssociative
  <2>2. transmitted \o bytes \in Seq(Byte)
        BY <1>8, ConcatProperties
  <2> QED BY <1>1, <1>8, <2>1, <2>2
<1>3. TypeOK'
      BY <1>1, <1>2, <1>9 DEF IInv, TypeOK
<1>4. Position(iter)' = Position(iter) /\ Position(iter_begin)' = Position(iter_begin)
      BY <1>1 DEF Position
<1>5. BufferIsTail' /\ Idle'
      BY <1>1 DEF IInv, BufferIsTail, Position, Idle
<1>6. EveryByteAccounted' /\ ResidueBounded' /\ ExaminedIsJunk'
      BY <1>1, <1>4, <1>5, <1>9
         DEF IInv, EveryByteAccounted, ResidueBounded, ExaminedIsJunk
<1>7. LeftBehind' /\ DeliveredInOrder'
      BY <1>1, <1>4 DEF IInv, LeftBehind, DeliveredInOrder
<1> QED BY <1>3, <1>5, <1>6, <1>7 DEF IInv

-----------------------------------------------------------------------------
(* The first n bytes of a string, and the rest, are the string.             *)
LEMMA CutAndJoin ==
    ASSUME NEW s \in Seq(Byte), NEW n \in 1..Len(s)
    PROVE  s = SubSeq(s, 1, n) \o SubSeq(s, n + 1, Len(s))
<1> DEFINE a == SubSeq(s, 1, n)
           b == SubSeq(s, n + 1, Len(s))
<1>1. Len(s) \in Nat /\ n \in Nat /\ \A k \in 1..Len(s) : s[k] \in Byte
      BY LenProperties
<1>2. /\ a \in Seq(Byte) /\ Len(a) = n
      /\ \A k \in 1..n : a[k] = s[k]
      BY <1>1, SubSeqProperties
<1>3. /\ b \in Seq(Byte) /\ Len(b) = Len(s) - n
      /\ \A k \in 1..Len(s) - n : b[k] = s[n + 1 + k - 1]
  <2>1. n + 1 \in Nat /\ \A k \in n + 1..Len(s) : s[k] \in Byte
        BY <1>1
  <2>2. /\ b \in Seq(Byte)
        /\ Len(b) = IF n + 1 <= Len(s) THEN Len(s) - (n + 1) + 1 ELSE 0
        /\ \A k \in 1..Len(s) - (n + 1) + 1 : b[k] = s[n + 1 + k - 1]
        BY <1>1, <2>1, SubSeqProperties
  <2>3. /\ Len(s) - (n + 1) + 1 = Len(s) - n
        /\ (IF n + 1 <= Len(s) THEN Len(s) - (n + 1) + 1 ELSE 0) = Len(s) - n
        BY <1>1
  <2> QED BY <2>2, <2>3
<1> HIDE DEF a, b
<1>4. /\ a \o b \in Seq(Byte) /\ Len(a \o b) = n + (Len(s) - n)
      /\ \A k \in 1..n + (Len(s) - n) :
             (a \o b)[k] = IF k <= n THEN a[k] ELSE b[k - n]
  <2>1. a \in Seq(Byte) /\ b \in Seq(Byte)
        BY <1>2, <1>3
  <2>2. /\ a \o b \in Seq(Byte) /\ Len(a \o b) = Len(a) + Len(b)
        /\ \A k \in 1..Len(a) + Len(b) :
               (a \o b)[k] = IF k <= Len(a) THEN a[k] ELSE b[k - Len(a)]
        BY <2>1, ConcatProperties
  <2>3. Len(a) = n /\ Len(b) = Len(s) - n
        BY <1>2, <1>3
  <2> QED BY <2>2, <2>3
<1>5. ASSUME NEW k \in 1..Len(s) PROVE s[k] = (a \o b)[k]
  <2>1. k \in 1..n + (Len(s) - n)
        BY <1>1
  <2>2. CASE k <= n
        BY <1>1, <1>2, <1>4, <2>1, <2>2
  <2>3. CASE ~(k <= n)
    <3>1. k - n \in 1..Len(s) - n /\ n + 1 + (k - n) - 1 = k
          BY <1>1, <2>3
    <3>2. b[k - n] = s[n + 1 + (k - n) - 1]
          BY <1>3, <3>1
    <3> QED BY <1>4, <2>1, <2>3, <3>1, <3>2
  <2> QED BY <2>2, <2>3
<1>6. Len(a \o b) = Len(s)
      BY <1>1, <1>4
<1>7. s = a \o b
      BY <1>4, <1>5, <1>6, SeqEqual
<1> QED BY <1>7 DEF a, b

(* What receive() does to the byte strings.                                 *)
LEMMA ReceiveStrings ==
    ASSUME IInv, NEW n \in 1..ReceiveSize, n <= Len(line), Receive(n)
    PROVE  /\ line' \in Seq(Byte)
           /\ buffer_' \in Seq(Byte) /\ Len(buffer_') = Len(buffer_) + n
           /\ received' \in Seq(Byte) /\ Len(received') = Len(received) + n
           /\ Within(received, received', 0)
           /\ received' \o line' = received \o line
           /\ BufferIsTail'
           /\ \A i : Position(i)' = Position(i)
<1> DEFINE new == SubSeq(line, 1, n)
<1>1. line \in Seq(Byte) /\ buffer_ \in Seq(Byte) /\ received \in Seq(Byte)
      BY DEF IInv, TypeOK
<1>2. Len(line) \in Nat /\ Len(buffer_) \in Nat /\ Len(received) \in Nat /\ n \in Nat
      BY <1>1, PacketStreamAssumption
<1>3. \A k \in 1..Len(line) : line[k] \in Byte
      BY <1>1
<1>4. new \in Seq(Byte) /\ Len(new) = n
      BY <1>2, <1>3, SubSeqProperties
<1>5. line' \in Seq(Byte)
      BY <1>2, <1>3, SubSeqProperties DEF Receive
<1>12. line = new \o line'
      BY <1>1, <1>2, <1>3, CutAndJoin DEF Receive
<1> HIDE DEF new
<1>6. buffer_' = buffer_ \o new /\ received' = received \o new
      BY DEF Receive, new
<1>13. received' \o line' = received \o line
  <2>2. received \in Seq(Byte) /\ new \in Seq(Byte)
        BY <1>1, <1>4
  <2>3. \A rest \in Seq(Byte) :
            (received \o new) \o rest = received \o (new \o rest)
        BY <2>2, ConcatAssociative
  <2>1. (received \o new) \o line' = received \o (new \o line')
        BY <1>5, <2>3
  <2> QED BY <1>6, <1>12, <2>1
<1>7. /\ buffer_' \in Seq(Byte) /\ Len(buffer_') = Len(buffer_) + n
      /\ \A k \in 1..Len(buffer_) + n : buffer_'[k] =
             IF k <= Len(buffer_) THEN buffer_[k] ELSE new[k - Len(buffer_)]
      BY <1>1, <1>4, <1>6, ConcatProperties
<1>8. /\ received' \in Seq(Byte) /\ Len(received') = Len(received) + n
      /\ \A k \in 1..Len(received) + n : received'[k] =
             IF k <= Len(received) THEN received[k] ELSE new[k - Len(received)]
      BY <1>1, <1>4, <1>6, ConcatProperties
<1>9. Within(received, received', 0)
      BY <1>1, <1>2, <1>8 DEF Within
<1>10. \A i : Position(i)' = Position(i)
  <2>1. Len(received') - Len(buffer_') = Len(received) - Len(buffer_)
        BY <1>2, <1>7, <1>8
  <2> QED BY <2>1 DEF Position
<1>11. BufferIsTail'
  <2> DEFINE d == Len(received) - Len(buffer_)
  <2>1. d \in Nat
        BY <1>2 DEF IInv, BufferIsTail
  <2>2. \A k \in Int : Position(k)' = d + k
        BY <1>10 DEF Position
  <2>3. \A k \in 1..Len(buffer_) : received[d + k] = buffer_[k]
        BY DEF IInv, BufferIsTail, Position
  <2> HIDE DEF d
  <2>4. ASSUME NEW k \in 1..Len(buffer_) + n PROVE buffer_'[k] = received'[d + k]
    <3>1. d = Len(received) - Len(buffer_)
          BY DEF d
    <3>2. d + k \in 1..Len(received) + n /\ k \in 1..Len(buffer_) + n
          BY <1>2, <2>1, <3>1
    <3>3. CASE k <= Len(buffer_)
      <4>1. d + k <= Len(received) /\ k \in 1..Len(buffer_)
            BY <1>2, <3>1, <3>3
      <4> QED BY <4>1, <3>2, <2>3, <1>7, <1>8
    <3>4. CASE k > Len(buffer_)
      <4>1. ~(d + k <= Len(received)) /\ ~(k <= Len(buffer_))
            BY <1>2, <3>1, <3>4
      <4>2. d + k - Len(received) = k - Len(buffer_)
            BY <1>2, <3>1
      <4>3. buffer_'[k] = new[k - Len(buffer_)]
            BY <4>1, <3>2, <1>7
      <4>4. \A m \in 1..Len(received) + n : ~(m <= Len(received)) =>
                received'[m] = new[m - Len(received)]
            BY <1>8
      <4>5. received'[d + k] = new[d + k - Len(received)]
            BY <1>2, <2>1, <3>2, <4>1, <4>4
      <4> QED BY <4>2, <4>3, <4>5
    <3> QED BY <1>2, <3>3, <3>4
  <2>5. Len(buffer_') <= Len(received')
        BY <1>2, <1>7, <1>8, <2>1 DEF d
  <2>6. \A k \in 1..Len(buffer_') : buffer_'[k] = received'[Position(k)']
        BY <1>2, <1>7, <2>2, <2>4
  <2> QED BY <2>5, <2>6 DEF BufferIsTail
<1> QED BY <1>5, <1>7, <1>8, <1>9, <1>10, <1>11, <1>13

(* What was said about the received bytes stays true when more arrive.      *)
LEMMA ReceiveIInv ==
    ASSUME IInv, NEW n \in 1..ReceiveSize, n <= Len(line), Receive(n)
    PROVE  IInv'
<1>1. /\ line' \in Seq(Byte)
      /\ buffer_' \in Seq(Byte) /\ Len(buffer_') = Len(buffer_) + n
      /\ received' \in Seq(Byte) /\ Len(received') = Len(received) + n
      /\ Within(received, received', 0)
      /\ received' \o line' = received \o line
      /\ BufferIsTail'
      /\ \A i : Position(i)' = Position(i)
      BY ReceiveStrings
<1>2. /\ iter = 1 /\ iter_begin = 1 /\ iter' = 1 /\ iter_begin' = 1
      /\ pc' = "search"
      /\ UNCHANGED <<sent, transmitted, delivered, accepted, reported>>
      BY DEF Receive, IInv, Idle, TypeOK
<1>3. TypeOK'
      BY <1>1, <1>2 DEF IInv, TypeOK
<1>4. Position(iter)' = Position(iter) /\ Position(iter_begin)' = Position(iter_begin)
      BY <1>1, <1>2 DEF Position
<1>5. EveryByteAccounted' /\ ResidueBounded' /\ ExaminedIsJunk' /\ Idle'
      BY <1>1, <1>2, <1>4 DEF IInv, EveryByteAccounted, ResidueBounded,
                              ExaminedIsJunk, Idle
<1>6. Position(iter) \in Int /\ Position(iter) <= Len(received) + 1
      BY BufferWithin, <1>2 DEF IInv, TypeOK, Position
<1>7. \A q \in 1..Len(received) :
          /\ Junk(received, q) => Junk(received', q)
          /\ IsPacket(received, q) => /\ IsPacket(received', q)
                                      /\ FrameSize(received', q) = FrameSize(received, q)
  <2> TAKE q \in 1..Len(received)
  <2>1. q + 0 = q
        OBVIOUS
  <2> QED BY <1>1, <2>1, OutcomeWithin
<1>8. LeftBehind'
      BY <1>2, <1>4, <1>6, <1>7 DEF IInv, LeftBehind
<1>9. DeliveredInOrder'
  <2>1. \A k \in 1..Len(delivered) : delivered[k].at \in 1..Len(received)
    <3> TAKE k \in 1..Len(delivered)
    <3>1. IsPacket(received, delivered[k].at)
          BY DEF IInv, DeliveredInOrder
    <3>2. delivered[k].at \in Nat \ {0}
          BY DeliveredTypes DEF IInv
    <3>3. Available(received, delivered[k].at) >= 5
          BY <3>1 DEF IsPacket, IsFrame, VESC_MIN_FRAME_SIZE
    <3>4. Len(received) \in Nat
          BY DEF IInv, TypeOK
    <3> QED BY <3>2, <3>3, <3>4 DEF Available
  <2> QED BY <2>1, <1>2, <1>4, <1>7 DEF IInv, DeliveredInOrder
<1> QED BY <1>1, <1>3, <1>5, <1>8, <1>9 DEF IInv

-----------------------------------------------------------------------------
(* A packet at iter fits into buffer_, and lies at Position(iter).          *)
LEMMA PacketAtIter ==
    ASSUME IInv, iter <= Len(buffer_), IsPacket(buffer_, iter)
    PROVE  /\ FrameSize(buffer_, iter) \in Nat \ {0}
           /\ iter + FrameSize(buffer_, iter) \in 1..Len(buffer_) + 1
           /\ IsPacket(received, Position(iter))
           /\ FrameSize(received, Position(iter)) = FrameSize(buffer_, iter)
<1>1. buffer_ \in Seq(Byte) /\ Len(buffer_) \in Nat /\ iter \in 1..Len(buffer_)
      BY DEF IInv, TypeOK
<1>2. /\ Available(buffer_, iter) >= VESC_MIN_FRAME_SIZE
      /\ Available(buffer_, iter) >= FrameSize(buffer_, iter)
      BY DEF IsPacket, IsFrame
<1>3. /\ FrameSize(buffer_, iter) \in Nat
      /\ FrameSize(buffer_, iter) >= VESC_MIN_FRAME_SIZE
      BY <1>1, <1>2, SizesAreNat
<1>4. Within(buffer_, received, Len(received) - Len(buffer_))
      /\ Position(iter) = iter + (Len(received) - Len(buffer_))
      BY <1>1, BufferWithin DEF IInv
<1>5. /\ IsPacket(received, Position(iter))
      /\ FrameSize(received, Position(iter)) = FrameSize(buffer_, iter)
      BY <1>1, <1>4, OutcomeWithin
<1> QED BY <1>1, <1>2, <1>3, <1>5 DEF Available, VESC_MIN_FRAME_SIZE

(* Delivering a packet settles the bytes before it and its own.             *)
LEMMA DeliverIInv == IInv /\ DeliverPacket => IInv'
<1> SUFFICES ASSUME IInv, DeliverPacket PROVE IInv'
    OBVIOUS
<1> DEFINE size == FrameSize(buffer_, iter)
           packet == [at |-> Position(iter), size |-> size]
<1>1. /\ size \in Nat \ {0} /\ iter + size \in 1..Len(buffer_) + 1
      /\ IsPacket(received, Position(iter))
      /\ FrameSize(received, Position(iter)) = size
      BY PacketAtIter DEF DeliverPacket
<1>2. /\ pc = "search"
      /\ reported' = reported + (iter - iter_begin)
      /\ delivered' = Append(delivered, packet)
      /\ accepted' = accepted + size
      /\ iter' = iter + size /\ iter_begin' = iter + size
      /\ UNCHANGED <<line, sent, pc, buffer_, transmitted, received>>
      BY DEF DeliverPacket
<1> HIDE DEF size
<1>3. /\ Len(buffer_) \in Nat /\ Len(received) \in Nat
      /\ Len(buffer_) <= Len(received)
      /\ iter \in 1..Len(buffer_) + 1 /\ iter_begin \in 1..iter
      /\ accepted \in Nat /\ reported \in Nat
      BY DEF IInv, TypeOK, BufferIsTail
<1>4. /\ Position(iter) \in Nat \ {0}
      /\ Position(iter) = Position(iter_begin) + (iter - iter_begin)
      /\ Position(iter_begin) \in Nat \ {0}
      /\ Position(iter)' = Position(iter) + size
      /\ Position(iter_begin)' = Position(iter) + size
      BY <1>1, <1>2, <1>3 DEF Position
<1>5. /\ delivered \in Seq([at : Nat \ {0}, size : Nat])
      /\ packet \in [at : Nat \ {0}, size : Nat]
      BY <1>1, <1>4 DEF IInv, TypeOK
<1>6. /\ delivered' \in Seq([at : Nat \ {0}, size : Nat])
      /\ Len(delivered) \in Nat
      /\ Len(delivered') = Len(delivered) + 1
      /\ \A k \in 1..Len(delivered) : delivered'[k] = delivered[k]
      /\ delivered'[Len(delivered) + 1] = packet
      BY <1>2, <1>5, AppendProperties
<1>7. TypeOK'
      BY <1>1, <1>2, <1>3, <1>6 DEF IInv, TypeOK
<1>8. BufferIsTail' /\ Idle' /\ ResidueBounded'
      BY <1>2 DEF IInv, BufferIsTail, Position, Idle, ResidueBounded
<1>9. EveryByteAccounted'
  <2>1. accepted + reported = Position(iter_begin) - 1
        BY DEF IInv, EveryByteAccounted
  <2>2. (accepted + size) + (reported + (iter - iter_begin)) =
            (Position(iter) + size) - 1
        BY <2>1, <1>1, <1>3, <1>4
  <2>3. transmitted' = received' \o line'
        BY <1>2 DEF IInv, EveryByteAccounted
  <2> QED BY <2>2, <2>3, <1>2, <1>4, <1>8 DEF EveryByteAccounted
<1>10. ExaminedIsJunk'
  <2>1. iter + size \in Int
        BY <1>1
  <2> QED BY <1>2, <2>1 DEF ExaminedIsJunk
<1>11. LeftBehind'
  <2> SUFFICES ASSUME NEW q \in 1 .. Position(iter)' - 1
               PROVE  \/ Junk(received, q)
                      \/ \E k \in 1..Len(delivered') : Covers(delivered'[k], q)
      BY <1>2 DEF LeftBehind
  <2>1. CASE q < Position(iter)
    <3>1. q \in 1 .. Position(iter) - 1
          BY <2>1, <1>1, <1>4
    <3>2. CASE Junk(received, q)
          BY <3>2
    <3>3. CASE \E k \in 1..Len(delivered) : Covers(delivered[k], q)
      <4>1. PICK k \in 1..Len(delivered) : Covers(delivered[k], q)
            BY <3>3
      <4> QED BY <4>1, <1>6
    <3> QED BY <3>1, <3>2, <3>3 DEF IInv, LeftBehind
  <2>2. CASE q >= Position(iter)
    <3>1. packet.at = Position(iter) /\ packet.size = size
          OBVIOUS
    <3>2. Covers(packet, q)
          BY <2>2, <3>1, <1>1, <1>4 DEF Covers
    <3> QED BY <3>2, <1>6
  <2> QED BY <2>1, <2>2, <1>1, <1>4
<1>12. DeliveredInOrder'
  <2> SUFFICES ASSUME NEW k \in 1..Len(delivered')
               PROVE  /\ IsPacket(received, delivered'[k].at)
                      /\ delivered'[k].size = FrameSize(received, delivered'[k].at)
                      /\ delivered'[k].at + delivered'[k].size <=
                            IF k < Len(delivered') THEN delivered'[k + 1].at
                                                   ELSE Position(iter_begin)'
      BY <1>2 DEF DeliveredInOrder
  <2>1. packet.at = Position(iter) /\ packet.size = size
        OBVIOUS
  <2> HIDE DEF packet
  <2>2. CASE k = Len(delivered) + 1
        BY <2>1, <2>2, <1>1, <1>4, <1>6
  <2>3. CASE k \in 1..Len(delivered)
    <3>1. delivered'[k] = delivered[k]
          BY <2>3, <1>6
    <3>2. /\ IsPacket(received, delivered[k].at)
          /\ delivered[k].size = FrameSize(received, delivered[k].at)
          /\ delivered[k].at + delivered[k].size <=
                IF k < Len(delivered) THEN delivered[k + 1].at
                                      ELSE Position(iter_begin)
          BY <2>3 DEF IInv, DeliveredInOrder
    <3>3. delivered[k].at \in Nat /\ delivered[k].size \in Nat
          BY <2>3, DeliveredTypes DEF IInv
    <3>4. k < Len(delivered')
          BY <2>3, <1>6
    <3>5. CASE k < Len(delivered)
      <4>1. k + 1 \in 1..Len(delivered)
            BY <2>3, <3>5, <1>6
      <4>2. delivered'[k + 1] = delivered[k + 1]
            BY <4>1, <1>6
      <4> QED BY <4>2, <3>1, <3>2, <3>4, <3>5
    <3>6. CASE k = Len(delivered)
      <4>1. delivered'[k + 1].at = Position(iter)
            BY <3>6, <2>1, <1>6
      <4>2. delivered[k].at + delivered[k].size <= Position(iter_begin)
            BY <3>2, <3>6, <1>6
      <4>3. delivered[k].at + delivered[k].size <= Position(iter)
            BY <4>2, <3>3, <1>3, <1>4
      <4> QED BY <4>1, <4>3, <3>1, <3>2, <3>4
    <3> QED BY <2>3, <3>5, <3>6, <1>6
  <2> QED BY <2>2, <2>3, <1>6
<1> QED BY <1>7, <1>8, <1>9, <1>10, <1>11, <1>12 DEF IInv

(* A byte is skipped only where no packet begins, now or later.             *)
LEMMA SkipIInv == IInv /\ SkipByte => IInv'
<1> SUFFICES ASSUME IInv, SkipByte PROVE IInv'
    OBVIOUS
<1>1. /\ pc = "search" /\ iter <= Len(buffer_) /\ Junk(buffer_, iter)
      /\ iter' = iter + 1
      /\ UNCHANGED <<line, sent, pc, buffer_, iter_begin, transmitted, received,
                     delivered, accepted, reported>>
      BY DEF SkipByte
<1>2. /\ Len(buffer_) \in Nat /\ Len(received) \in Nat
      /\ Len(buffer_) <= Len(received)
      /\ iter \in 1..Len(buffer_) /\ iter_begin \in 1..iter
      BY <1>1 DEF IInv, TypeOK, BufferIsTail
<1>3. /\ Position(iter) \in Nat \ {0}
      /\ Position(iter)' = Position(iter) + 1
      /\ Position(iter_begin)' = Position(iter_begin)
      BY <1>1, <1>2 DEF Position
<1>4. TypeOK'
      BY <1>1, <1>2 DEF IInv, TypeOK
<1>5. BufferIsTail' /\ Idle' /\ ResidueBounded' /\ EveryByteAccounted'
      BY <1>1, <1>3 DEF IInv, BufferIsTail, Position, Idle, ResidueBounded,
                        EveryByteAccounted
<1>6. ExaminedIsJunk'
  <2>1. \A q \in iter_begin .. (iter + 1) - 1 : q \in iter_begin .. iter - 1 \/ q = iter
        BY <1>2
  <2> QED BY <2>1, <1>1 DEF IInv, ExaminedIsJunk
<1>7. Junk(received, Position(iter))
  <2>1. Within(buffer_, received, Len(received) - Len(buffer_))
        /\ Position(iter) = iter + (Len(received) - Len(buffer_))
        BY <1>2, BufferWithin DEF IInv
  <2> QED BY <2>1, <1>1, <1>2, OutcomeWithin
<1>8. LeftBehind'
  <2>1. \A q \in 1 .. (Position(iter) + 1) - 1 :
            q \in 1 .. Position(iter) - 1 \/ q = Position(iter)
        BY <1>3
  <2> QED BY <2>1, <1>1, <1>3, <1>7 DEF IInv, LeftBehind
<1>9. DeliveredInOrder'
      BY <1>1, <1>3 DEF IInv, DeliveredInOrder
<1> QED BY <1>4, <1>5, <1>6, <1>8, <1>9 DEF IInv

-----------------------------------------------------------------------------
(* What the erase at the end of a search does to buffer_.                   *)
LEMMA EraseStrings ==
    ASSUME IInv, EndSearch
    PROVE  /\ buffer_' \in Seq(Byte)
           /\ Len(buffer_') = Len(buffer_) - iter + 1
           /\ Within(buffer_', buffer_, iter - 1)
           /\ BufferIsTail'
           /\ Position(iter)' = Position(iter)
           /\ Position(iter_begin)' = Position(iter)
<1>1. /\ buffer_ \in Seq(Byte) /\ received \in Seq(Byte)
      /\ Len(buffer_) \in Nat /\ Len(received) \in Nat
      /\ Len(buffer_) <= Len(received)
      /\ iter \in 1..Len(buffer_) + 1
      BY DEF IInv, TypeOK, BufferIsTail
<1>2. /\ buffer_' = SubSeq(buffer_, iter, Len(buffer_))
      /\ received' = received /\ iter' = 1 /\ iter_begin' = 1
      BY DEF EndSearch
<1>3. \A k \in iter..Len(buffer_) : buffer_[k] \in Byte
      BY <1>1
<1>4. /\ buffer_' \in Seq(Byte)
      /\ Len(buffer_') = IF iter <= Len(buffer_) THEN Len(buffer_) - iter + 1 ELSE 0
      /\ \A k \in 1..Len(buffer_) - iter + 1 : buffer_'[k] = buffer_[iter + k - 1]
      BY <1>1, <1>2, <1>3, SubSeqProperties
<1>5. Len(buffer_') = Len(buffer_) - iter + 1
      BY <1>1, <1>4
<1>6. Within(buffer_', buffer_, iter - 1)
  <2>1. \A k \in 1..Len(buffer_') : buffer_[k + (iter - 1)] = buffer_'[k]
    <3> TAKE k \in 1..Len(buffer_')
    <3>1. k \in 1..Len(buffer_) - iter + 1 /\ k + (iter - 1) = iter + k - 1
          BY <1>1, <1>5
    <3> QED BY <3>1, <1>4
  <2> QED BY <2>1, <1>1, <1>4, <1>5 DEF Within
<1>7. \A k \in Int : Position(k)' = Position(k + (iter - 1))
      BY <1>1, <1>2, <1>5 DEF Position
<1>8. BufferIsTail'
  <2>1. ASSUME NEW k \in 1..Len(buffer_') PROVE buffer_'[k] = received[Position(k)']
    <3>1. k + (iter - 1) \in 1..Len(buffer_) /\ k \in Int
          BY <1>1, <1>5
    <3>2. buffer_[k + (iter - 1)] = received[Position(k + (iter - 1))]
          BY <3>1 DEF IInv, BufferIsTail
    <3>3. buffer_[k + (iter - 1)] = buffer_'[k]
          BY <1>6 DEF Within
    <3> QED BY <3>1, <3>2, <3>3, <1>7
  <2>2. Len(buffer_') <= Len(received)
        BY <1>1, <1>5
  <2> QED BY <2>1, <2>2, <1>2 DEF BufferIsTail, Position
<1>9. Position(iter)' = Position(iter) /\ Position(iter_begin)' = Position(iter)
      BY <1>1, <1>2, <1>5 DEF Position
<1> QED BY <1>4, <1>5, <1>6, <1>8, <1>9

(* The end of a search keeps the beginning of at most one frame.            *)
LEMMA EndIInv == IInv /\ EndSearch => IInv'
<1> SUFFICES ASSUME IInv, EndSearch PROVE IInv'
    OBVIOUS
<1>1. /\ buffer_' \in Seq(Byte)
      /\ Len(buffer_') = Len(buffer_) - iter + 1
      /\ Within(buffer_', buffer_, iter - 1)
      /\ BufferIsTail'
      /\ Position(iter)' = Position(iter)
      /\ Position(iter_begin)' = Position(iter)
      BY EraseStrings
<1>2. /\ reported' = reported + (iter - iter_begin)
      /\ iter' = 1 /\ iter_begin' = 1 /\ pc' = "receive"
      /\ UNCHANGED <<line, sent, transmitted, received, delivered, accepted>>
      /\ \/ iter = Len(buffer_) + 1
         \/ iter <= Len(buffer_) /\ IsSof(buffer_, iter) /\ Incomplete(buffer_, iter)
      BY DEF EndSearch
<1>3. /\ Len(buffer_) \in Nat /\ Len(received) \in Nat
      /\ iter \in 1..Len(buffer_) + 1 /\ iter_begin \in 1..iter
      /\ accepted \in Nat /\ reported \in Nat
      BY DEF IInv, TypeOK
<1>4. /\ Position(iter_begin) \in Int
      /\ Position(iter) = Position(iter_begin) + (iter - iter_begin)
      BY <1>3 DEF Position
<1>5. TypeOK' /\ Idle'
      BY <1>1, <1>2, <1>3 DEF IInv, TypeOK, Idle
<1>6. EveryByteAccounted'
  <2>1. accepted + reported = Position(iter_begin) - 1
        BY DEF IInv, EveryByteAccounted
  <2>2. accepted + (reported + (iter - iter_begin)) = Position(iter) - 1
        BY <2>1, <1>3, <1>4
  <2>3. transmitted' = received' \o line'
        BY <1>2 DEF IInv, EveryByteAccounted
  <2> QED BY <2>2, <2>3, <1>1, <1>2 DEF EveryByteAccounted
<1>7. ResidueBounded'
  <2>1. CASE iter = Len(buffer_) + 1
    <3>1. Len(buffer_') = 0
          BY <2>1, <1>1, <1>3
    <3>2. buffer_' = <<>>
          BY <3>1, <1>1
    <3> QED BY <3>2 DEF ResidueBounded
  <2>2. CASE iter <= Len(buffer_) /\ IsSof(buffer_, iter) /\ Incomplete(buffer_, iter)
    <3>1. 1 \in 1..Len(buffer_') /\ 1 + (iter - 1) = iter
          /\ Len(buffer_') + (iter - 1) = Len(buffer_)
          BY <2>2, <1>1, <1>3
    <3>2. IsSof(buffer_', 1)
          BY <3>1, <2>2, <1>1, HeaderWithin
    <3>3. BytesNeeded(buffer_', 1) = BytesNeeded(buffer_, iter)
          BY <3>1, <1>1, NeededWithin
    <3>4. Incomplete(buffer_', 1)
          BY <3>3, <2>2 DEF Incomplete
    <3>5. Available(buffer_', 1) < VESC_MAX_FRAME_SIZE
          BY <3>1, <3>4, <1>1, IncompleteIsShort
    <3>6. Available(buffer_', 1) = Len(buffer_')
          BY <1>1, <1>3 DEF Available
    <3> QED BY <3>2, <3>4, <3>5, <3>6 DEF ResidueBounded
  <2> QED BY <2>1, <2>2, <1>2
<1>8. ExaminedIsJunk'
      BY <1>2 DEF ExaminedIsJunk
<1>9. LeftBehind'
      BY <1>1, <1>2 DEF IInv, LeftBehind
<1>10. DeliveredInOrder'
  <2> SUFFICES ASSUME NEW k \in 1..Len(delivered)
               PROVE  /\ IsPacket(received, delivered[k].at)
                      /\ delivered[k].size = FrameSize(received, delivered[k].at)
                      /\ delivered[k].at + delivered[k].size <=
                            IF k < Len(delivered) THEN delivered[k + 1].at
                                                  ELSE Position(iter)
      BY <1>1, <1>2 DEF DeliveredInOrder
  <2>1. delivered[k].at \in Nat /\ delivered[k].size \in Nat
        BY DeliveredTypes DEF IInv
  <2>2. Position(iter_begin) <= Position(iter)
        BY <1>3, <1>4
  <2> QED BY <2>1, <2>2, <1>3, <1>4 DEF IInv, DeliveredInOrder
<1> QED BY <1>1, <1>5, <1>6, <1>7, <1>8, <1>9, <1>10 DEF IInv

(* Every step keeps the inductive invariant.                                *)
LEMMA NextIInv == IInv /\ [Next]_vars => IInv'
<1> SUFFICES ASSUME IInv, [Next]_vars PROVE IInv'
    OBVIOUS
<1>1. ASSUME NEW bytes \in Transmissions, Send(bytes) PROVE IInv'
      BY <1>1, SendIInv
<1>2. ASSUME NEW n \in 1..ReceiveSize, n <= Len(line), Receive(n) PROVE IInv'
      BY <1>2, ReceiveIInv
<1>3. CASE UNCHANGED vars
      BY <1>3 DEF vars, IInv, TypeOK, Idle, BufferIsTail, EveryByteAccounted,
         ResidueBounded, ExaminedIsJunk, LeftBehind, DeliveredInOrder, Position
<1> QED BY <1>1, <1>2, <1>3, DeliverIInv, SkipIInv, EndIInv
        DEF Next, Thread, ReceiveSome

(* The invariant holds for ever.                                            *)
LEMMA Invariance == Spec => []IInv
BY InitIInv, NextIInv, PTL DEF Spec

-----------------------------------------------------------------------------
(* Every variable keeps its type: in particular the search never moves iter *)
(* behind the end of buffer_.                                               *)
THEOREM TypeCorrect == Spec => []TypeOK
<1>1. IInv => TypeOK BY DEF IInv
<1> QED BY <1>1, Invariance, PTL

(* What was put on the line is what the thread read, in order, followed by  *)
(* what is still on the line; buffer_ is the end of what it read, and every *)
(* byte read before the place of the search is accounted for exactly once:  *)
(* as part of a packet given to packet_handler_, or in a count given to     *)
(* error_handler_.                                                          *)
THEOREM Conservation == Spec => []EveryByteAccounted
<1>1. IInv => EveryByteAccounted BY DEF IInv
<1> QED BY <1>1, Invariance, PTL

(* Between two searches buffer_ holds less than one frame of maximal size,  *)
(* whatever arrives on the line.                                            *)
THEOREM BoundedResidue == Spec => []ResidueBounded
<1>1. IInv => ResidueBounded BY DEF IInv
<1> QED BY <1>1, Invariance, PTL

(* Out of sync or not, the search never passes over a packet it could have  *)
(* delivered.                                                               *)
THEOREM NothingSkipped == Spec => []NoPacketSkipped
<1>1. IInv => NoPacketSkipped
  <2> SUFFICES ASSUME IInv, NEW q \in 1 .. Position(iter) - 1, IsPacket(received, q)
               PROVE  \E k \in 1..Len(delivered) : Covers(delivered[k], q)
      BY DEF NoPacketSkipped
  <2>1. ~Junk(received, q)
        BY JunkIsNoPacket
  <2> QED BY <2>1 DEF IInv, LeftBehind
<1> QED BY <1>1, Invariance, PTL

(* The handler is given packets of the stream only, in order and disjoint.  *)
THEOREM InOrder == Spec => []DeliveredInOrder
<1>1. IInv => DeliveredInOrder BY DEF IInv
<1> QED BY <1>1, Invariance, PTL

-----------------------------------------------------------------------------
(* FrameStream reads the same frames in the stream.                         *)
LEMMA SameFraming ==
    ASSUME NEW s, NEW i
    PROVE  /\ Frames!IsPacket(s, i) <=> IsPacket(s, i)
           /\ Frames!Junk(s, i) <=> Junk(s, i)
           /\ Frames!FrameSize(s, i) = FrameSize(s, i)
<1> USE DEF VESC_MIN_FRAME_SIZE, Frames!VESC_MIN_FRAME_SIZE,
            VESC_SOF_VAL_SMALL_FRAME, Frames!VESC_SOF_VAL_SMALL_FRAME,
            VESC_SOF_VAL_LARGE_FRAME, Frames!VESC_SOF_VAL_LARGE_FRAME,
            VESC_EOF_VAL, Frames!VESC_EOF_VAL
<1>1. Frames!HeaderSize(s, i) = HeaderSize(s, i)
      BY DEF HeaderSize, Frames!HeaderSize
<1>2. Frames!PayloadSize(s, i) = PayloadSize(s, i)
      BY DEF PayloadSize, Frames!PayloadSize
<1>3. Frames!FrameSize(s, i) = FrameSize(s, i)
      BY <1>1, <1>2 DEF FrameSize, Frames!FrameSize
<1>4. Frames!Payload(s, i) = Payload(s, i)
      BY <1>1, <1>2, Zenon DEF Payload, Frames!Payload
<1>5. Frames!StoredCrc(s, i) = StoredCrc(s, i)
      BY <1>3, Zenon DEF StoredCrc, Frames!StoredCrc, EofAt, Frames!EofAt
<1>6. /\ Frames!IsSof(s, i) <=> IsSof(s, i)
      /\ Frames!Available(s, i) = Available(s, i)
      /\ Frames!EofAt(s, i) = EofAt(s, i)
      BY <1>3 DEF IsSof, Frames!IsSof, Available, Frames!Available,
                  EofAt, Frames!EofAt
<1>7. Frames!IsFrame(s, i) <=> IsFrame(s, i)
      BY <1>2, <1>3, <1>4, <1>5, <1>6 DEF IsFrame, Frames!IsFrame
<1>8. Frames!IsPacket(s, i) <=> IsPacket(s, i)
      BY <1>1, <1>2, <1>7 DEF IsPacket, Frames!IsPacket
<1>9. Frames!BytesNeeded(s, i) = BytesNeeded(s, i)
      BY <1>2, <1>3, <1>6 DEF BytesNeeded, Frames!BytesNeeded
<1> QED BY <1>3, <1>6, <1>8, <1>9 DEF Junk, Frames!Junk, Incomplete,
                                      Frames!Incomplete

(* What the search has examined is junk of the stream.                      *)
LEMMA ExaminedStream ==
    ASSUME IInv
    PROVE  /\ Position(iter_begin) \in Nat \ {0}
           /\ Position(iter) \in Nat
           /\ Position(iter_begin) <= Position(iter)
           /\ Position(iter) <= Len(received) + 1
           /\ Len(received) \in Nat
           /\ \A q \in Position(iter_begin) .. Position(iter) - 1 :
                  Frames!Junk(received, q)
<1> DEFINE d == Len(received) - Len(buffer_)
<1>1. /\ Len(buffer_) \in Nat /\ Len(received) \in Nat /\ d \in Nat
      /\ iter \in 1..Len(buffer_) + 1 /\ iter_begin \in 1..iter
      BY DEF IInv, TypeOK, BufferIsTail
<1>2. /\ Within(buffer_, received, d)
      /\ Position(iter) = iter + d
      /\ Position(iter_begin) = iter_begin + d
      BY <1>1, BufferWithin DEF IInv
<1>3. d = Len(received) - Len(buffer_)
      OBVIOUS
<1> HIDE DEF d
<1>4. ASSUME NEW q \in Position(iter_begin) .. Position(iter) - 1
      PROVE  Frames!Junk(received, q)
  <2>1. /\ q - d \in iter_begin .. iter - 1
        /\ q - d \in 1..Len(buffer_)
        /\ (q - d) + d = q
        BY <1>1, <1>2
  <2>2. Junk(buffer_, q - d)
        BY <2>1 DEF IInv, ExaminedIsJunk
  <2>3. Junk(received, (q - d) + d)
        BY <2>1, <2>2, <1>2, OutcomeWithin
  <2> QED BY <2>1, <2>3, SameFraming
<1> QED BY <1>1, <1>2, <1>3, <1>4

(* Every step of the receive path is a step of the abstract stream of       *)
(* frames, or changes nothing there.                                        *)
LEMMA NextFrames ==
    IInv /\ [Next]_vars => [Frames!Next]_(Frames!vars)
<1> SUFFICES ASSUME IInv, [Next]_vars
             PROVE  Frames!Next \/ UNCHANGED Frames!vars
    OBVIOUS
<1> DEFINE same == UNCHANGED Frames!vars
<1>1. ASSUME NEW bytes \in Transmissions, Send(bytes) PROVE same
      BY <1>1 DEF Send, Frames!vars, Position
<1>2. ASSUME NEW n \in 1..ReceiveSize, n <= Len(line), Receive(n)
      PROVE  Frames!Arrive
  <2>1. /\ Len(received') = Len(received) + n
        /\ Within(received, received', 0)
        /\ \A i : Position(i)' = Position(i)
        BY <1>2, ReceiveStrings
  <2>2. iter_begin' = iter_begin /\ UNCHANGED <<delivered, reported>>
        BY <1>2 DEF Receive, IInv, Idle, TypeOK
  <2>3. Position(iter_begin)' = Position(iter_begin)
        BY <2>1, <2>2 DEF Position
  <2>4. n \in Nat /\ n > 0 /\ Len(received) \in Nat
        BY PacketStreamAssumption DEF IInv, TypeOK
  <2>5. \A k \in 1..Len(received) : received'[k] = received[k]
        BY <2>1 DEF Within
  <2> QED BY <2>1, <2>2, <2>3, <2>4, <2>5 DEF Frames!Arrive
<1>3. CASE DeliverPacket
  <2> DEFINE p == Position(iter)
  <2>1. /\ FrameSize(buffer_, iter) \in Nat \ {0}
        /\ IsPacket(received, p)
        /\ FrameSize(received, p) = FrameSize(buffer_, iter)
        BY <1>3, PacketAtIter DEF DeliverPacket
  <2>2. /\ reported' = reported + (iter - iter_begin)
        /\ delivered' = Append(delivered, [at |-> p, size |-> FrameSize(buffer_, iter)])
        /\ iter_begin' = iter + FrameSize(buffer_, iter)
        /\ UNCHANGED <<buffer_, received>>
        /\ iter <= Len(buffer_)
        BY <1>3 DEF DeliverPacket
  <2>3. /\ Len(buffer_) \in Nat /\ Len(received) \in Nat
        /\ iter \in Nat /\ iter_begin \in Nat
        BY DEF IInv, TypeOK
  <2>4. /\ Position(iter_begin)' - 1 = p - 1 + FrameSize(received, p)
        /\ iter - iter_begin = p - 1 - (Position(iter_begin) - 1)
        /\ p \in (Position(iter_begin) - 1) + 1 .. Len(received)
        BY <2>1, <2>2, <2>3, ExaminedStream DEF Position
  <2>5. Frames!JunkUpTo(p - 1)
    <3>1. \A q \in (Position(iter_begin) - 1) + 1 .. p - 1 :
              q \in Position(iter_begin) .. Position(iter) - 1
          BY ExaminedStream
    <3> QED BY <3>1, ExaminedStream DEF Frames!JunkUpTo
  <2> HIDE DEF p
  <2>6. Frames!Deliver(p)
        BY <2>1, <2>2, <2>4, <2>5, SameFraming DEF Frames!Deliver
  <2> QED BY <2>4, <2>6 DEF Frames!Next
<1>4. CASE SkipByte
      BY <1>4 DEF SkipByte, Frames!vars, Position
<1>5. CASE EndSearch
  <2> DEFINE p == Position(iter) - 1
  <2>1. /\ Position(iter_begin)' = Position(iter)
        /\ reported' = reported + (iter - iter_begin)
        /\ UNCHANGED <<received, delivered>>
        BY <1>5, EraseStrings DEF EndSearch
  <2>2. /\ Len(buffer_) \in Nat /\ Len(received) \in Nat
        /\ iter \in Nat /\ iter_begin \in Nat /\ reported \in Nat
        BY DEF IInv, TypeOK
  <2>3. iter - iter_begin = p - (Position(iter_begin) - 1)
        BY <2>2 DEF Position
  <2>4. CASE iter = iter_begin
    <3>1. reported' = reported /\ Position(iter_begin)' = Position(iter_begin)
          BY <2>1, <2>2, <2>4
    <3> QED BY <3>1, <2>1 DEF Frames!vars
  <2>5. CASE iter # iter_begin
    <3>1. p \in (Position(iter_begin) - 1) + 1 .. Len(received)
      <4>1. Position(iter_begin) # Position(iter)
            BY <2>2, <2>5 DEF Position
      <4> QED BY <4>1, ExaminedStream
    <3>2. Frames!JunkUpTo(p)
      <4>1. \A q \in (Position(iter_begin) - 1) + 1 .. p :
                q \in Position(iter_begin) .. Position(iter) - 1
            BY ExaminedStream
      <4> QED BY <4>1, ExaminedStream DEF Frames!JunkUpTo
    <3>3. Position(iter_begin)' - 1 = p
          BY <2>1
    <3> HIDE DEF p
    <3>4. Frames!Discard(p)
          BY <2>1, <2>3, <3>2, <3>3 DEF Frames!Discard
    <3> QED BY <3>1, <3>4 DEF Frames!Next
  <2> QED BY <2>4, <2>5
<1>6. CASE UNCHANGED vars
      BY <1>6 DEF vars, Frames!vars, Position
<1> QED BY <1>1, <1>2, <1>3, <1>4, <1>5, <1>6
        DEF Next, Thread, ReceiveSome, Frames!Next

(* The receive path implements the abstract stream of frames.               *)
THEOREM Implementation == Spec => ImplementsFrameStream
<1>1. Init => Frames!Init
      BY DEF Init, Frames!Init, Position
<1> QED BY <1>1, NextFrames, Invariance, PTL
        DEF Spec, ImplementsFrameStream, Frames!Spec

-----------------------------------------------------------------------------
(* What a single search over a whole string finds: PacketsFrom is a         *)
(* recursive function, and the function it chooses exists for every string. *)

(* A set that holds 0, and n + 1 with every n, holds every natural number:  *)
(* there is no least one it lacks.                                          *)
LEMMA Induction ==
    ASSUME NEW S, 0 \in S, \A n \in Nat : n \in S => n + 1 \in S
    PROVE  Nat \subseteq S
<1> DEFINE T == Nat \ S
           R == OpToRel(<, Nat)
<1> SUFFICES ASSUME T # {} PROVE FALSE
    OBVIOUS
<1>1. PICK x \in T : \A y \in T : <<y, x>> \notin R
  <2>1. IsWellFoundedOn(R, Nat)
        BY NatLessThanWellFounded
  <2>2. T \subseteq Nat
        OBVIOUS
  <2> HIDE DEF T, R
  <2> QED BY <2>1, <2>2, WFMin
<1>2. x \in Nat /\ x \notin S /\ x # 0
      OBVIOUS
<1>3. x - 1 \in Nat /\ x - 1 < x /\ (x - 1) + 1 = x
      BY <1>2
<1>4. x - 1 \in S
  <2> SUFFICES ASSUME x - 1 \in T PROVE FALSE
      BY <1>3
  <2>1. <<x - 1, x>> \in R
        BY <1>2, <1>3 DEF OpToRel
  <2> QED BY <1>1, <2>1
<1> QED BY <1>2, <1>3, <1>4

\* A packet in the stream, as delivered records it.
Place == [at : Nat \ {0}, size : Nat]

(* What a search over s finds at index j, given what it finds behind it.    *)
Found(g, s, j) ==
    IF j > Len(s) THEN <<>>
    ELSE IF Junk(s, j) THEN g[j + 1]
    ELSE IF Incomplete(s, j) THEN <<>>
    ELSE <<[at |-> j, size |-> FrameSize(s, j)]>> \o g[j + FrameSize(s, j)]

(* g has the findings from each index from a on.                            *)
IsSearch(g, s, a) ==
    /\ g \in [a..Len(s) + 1 -> Seq(Place)]
    /\ \A j \in a..Len(s) + 1 : g[j] = Found(g, s, j)

(* A packet lies in the string, is neither junk nor incomplete, and is what *)
(* is left when neither is the case.                                        *)
LEMMA PacketInString ==
    ASSUME NEW s \in Seq(Byte), NEW j \in 1..Len(s)
    PROVE  /\ ~Junk(s, j) /\ ~Incomplete(s, j) => IsPacket(s, j)
           /\ IsPacket(s, j) =>
                 /\ ~Junk(s, j) /\ ~Incomplete(s, j)
                 /\ FrameSize(s, j) \in Nat
                 /\ j + FrameSize(s, j) \in j + 1..Len(s) + 1
<1>1. ~Junk(s, j) /\ ~Incomplete(s, j) => IsPacket(s, j)
      BY DEF Junk
<1>2. ASSUME IsPacket(s, j)
      PROVE  /\ ~Incomplete(s, j)
             /\ FrameSize(s, j) \in Nat
             /\ j + FrameSize(s, j) \in j + 1..Len(s) + 1
  <2>1. /\ Available(s, j) >= VESC_MIN_FRAME_SIZE
        /\ PayloadSize(s, j) <= VESC_MAX_PAYLOAD_SIZE
        /\ Available(s, j) >= FrameSize(s, j)
        BY <1>2 DEF IsPacket, IsFrame
  <2>2. FrameSize(s, j) \in Nat /\ FrameSize(s, j) >= VESC_MIN_FRAME_SIZE
        BY <2>1, SizesAreNat
  <2>3. Len(s) \in Nat /\ Available(s, j) = Len(s) - j + 1
        BY LenProperties DEF Available
  <2>4. BytesNeeded(s, j) = 0
        BY <2>1, <2>2, <2>3 DEF BytesNeeded, VESC_MIN_FRAME_SIZE
  <2>5. j + FrameSize(s, j) \in j + 1..Len(s) + 1
        BY <2>1, <2>2, <2>3 DEF VESC_MIN_FRAME_SIZE
  <2> QED BY <2>2, <2>4, <2>5 DEF Incomplete
<1> QED BY <1>1, <1>2, JunkIsNoPacket

(* What is found from a on is a sequence of packets.                        *)
LEMMA FoundIsSequence ==
    ASSUME NEW s \in Seq(Byte), NEW a \in 1..Len(s), NEW g,
           \A j \in a + 1..Len(s) + 1 : g[j] \in Seq(Place)
    PROVE  Found(g, s, a) \in Seq(Place)
<1>1. Len(s) \in Nat
      BY LenProperties
<1>2. CASE Junk(s, a)
  <2>1. a + 1 \in a + 1..Len(s) + 1
        BY <1>1
  <2> QED BY <1>1, <1>2, <2>1 DEF Found
<1>3. CASE ~Junk(s, a) /\ ~Incomplete(s, a)
  <2> DEFINE x == [at |-> a, size |-> FrameSize(s, a)]
             rest == g[a + FrameSize(s, a)]
  <2>1. FrameSize(s, a) \in Nat /\ a + FrameSize(s, a) \in a + 1..Len(s) + 1
        BY <1>3, PacketInString
  <2>2. x \in Place
        BY <2>1 DEF Place
  <2>3. rest \in Seq(Place)
        BY <1>1, <2>1
  <2>4. ~(a > Len(s))
        BY <1>1
  <2>5. Found(g, s, a) = <<x>> \o rest
        BY <1>3, <2>4 DEF Found
  <2> HIDE DEF x, rest
  <2>6. <<x>> \in Seq(Place)
        BY <2>2
  <2> QED BY <2>3, <2>5, <2>6, ConcatProperties
<1>4. CASE ~Junk(s, a) /\ Incomplete(s, a)
  <2>1. <<>> \in Seq(Place)
        OBVIOUS
  <2> QED BY <1>1, <1>4, <2>1 DEF Found
<1> QED BY <1>2, <1>3, <1>4
(* A search from a + 1 extends to one from a.                               *)
LEMMA SearchExtends ==
    ASSUME NEW s \in Seq(Byte), NEW a \in 1..Len(s), NEW g, IsSearch(g, s, a + 1)
    PROVE  \E h : IsSearch(h, s, a)
<1> DEFINE n == Len(s)
           h == [j \in a..n + 1 |-> IF j = a THEN Found(g, s, a) ELSE g[j]]
<1>1. n \in Nat /\ a \in Int /\ 1 <= a /\ a <= n
      BY LenProperties
<1>2. g \in [a + 1..n + 1 -> Seq(Place)] /\ \A j \in a + 1..n + 1 : g[j] = Found(g, s, j)
      BY DEF IsSearch
<1>3. Found(g, s, a) \in Seq(Place)
  <2>1. \A j \in a + 1..Len(s) + 1 : g[j] \in Seq(Place)
        BY <1>2
  <2> HIDE DEF n
  <2> QED BY <2>1, FoundIsSequence
<1>4. \A j \in 1..n : ~Junk(s, j) /\ ~Incomplete(s, j) =>
          FrameSize(s, j) \in Nat /\ j + FrameSize(s, j) \in j + 1..n + 1
      BY PacketInString
<1> HIDE DEF n
<1>5. /\ a \in a..n + 1
      /\ \A j \in a + 1..n + 1 : j \in a..n + 1 /\ j # a
      /\ \A j \in a..n + 1 : j # a => j \in a + 1..n + 1
      BY <1>1
<1>6. h[a] = Found(g, s, a) /\ \A j \in a + 1..n + 1 : h[j] = g[j]
      BY <1>5
<1>7. h \in [a..n + 1 -> Seq(Place)]
  <2>1. \A j \in a..n + 1 : (IF j = a THEN Found(g, s, a) ELSE g[j]) \in Seq(Place)
        BY <1>2, <1>3, <1>5
  <2> QED BY <2>1
<1> HIDE DEF h
<1>8. ASSUME NEW j \in a..n + 1 PROVE Found(h, s, j) = Found(g, s, j)
  <2>1. CASE j > n
        BY <2>1 DEF Found, n
  <2>2. CASE ~(j > n)
    <3>1. j \in 1..n /\ j + 1 \in a + 1..n + 1
          BY <1>1, <2>2
    <3>2. ~Junk(s, j) /\ ~Incomplete(s, j) => j + FrameSize(s, j) \in a + 1..n + 1
      <4>1. ~Junk(s, j) /\ ~Incomplete(s, j) =>
                FrameSize(s, j) \in Nat /\ j + FrameSize(s, j) \in j + 1..n + 1
            BY <1>4, <3>1
      <4>2. \A k \in Nat : j + k \in j + 1..n + 1 => j + k \in a + 1..n + 1
        <5>1. j \in Int /\ a <= j
              BY <1>1
        <5> QED BY <1>1, <5>1
      <4> QED BY <4>1, <4>2
    <3>3. h[j + 1] = g[j + 1]
          BY <1>6, <3>1
    <3>4. ~Junk(s, j) /\ ~Incomplete(s, j) =>
              h[j + FrameSize(s, j)] = g[j + FrameSize(s, j)]
          BY <1>6, <3>2
    <3> QED BY <3>3, <3>4 DEF Found
  <2> QED BY <2>1, <2>2
<1>9. \A j \in a..n + 1 : h[j] = Found(h, s, j)
      BY <1>2, <1>5, <1>6, <1>8
<1> QED BY <1>7, <1>9 DEF IsSearch, n

(* There is a search over every string.                                     *)
LEMMA SearchExists ==
    ASSUME NEW s \in Seq(Byte)
    PROVE  \E g : IsSearch(g, s, 1)
<1> DEFINE n == Len(s)
           S == {k \in Nat : k <= n => \E g : IsSearch(g, s, (n + 1) - k)}
<1>1. n \in Nat
      BY LenProperties
<1>2. 0 \in S
  <2> DEFINE g == [j \in n + 1..n + 1 |-> <<>>]
  <2>1. IsSearch(g, s, n + 1)
    <3>1. <<>> \in Seq(Place)
          OBVIOUS
    <3>2. g \in [n + 1..n + 1 -> Seq(Place)]
          BY <3>1
    <3>3. \A j \in n + 1..n + 1 : j > n /\ g[j] = <<>>
          BY <1>1
    <3> HIDE DEF g
    <3> QED BY <3>2, <3>3 DEF IsSearch, Found
  <2>2. (n + 1) - 0 = n + 1
        BY <1>1
  <2> HIDE DEF g, n
  <2> QED BY <2>1, <2>2
<1>3. \A k \in Nat : k \in S => k + 1 \in S
  <2> SUFFICES ASSUME NEW k \in Nat, k \in S, k + 1 <= n
               PROVE  \E h : IsSearch(h, s, (n + 1) - (k + 1))
      OBVIOUS
  <2>1. /\ n - k \in 1..n /\ (n + 1) - (k + 1) = n - k
        /\ (n + 1) - k = (n - k) + 1 /\ k <= n
        BY <1>1
  <2>2. PICK g : IsSearch(g, s, (n - k) + 1)
        BY <2>1
  <2> QED BY <2>1, <2>2, SearchExtends
<1>4. n \in S
  <2> HIDE DEF S
  <2> QED BY <1>1, <1>2, <1>3, Induction
<1>5. (n + 1) - n = 1
      BY <1>1
<1> QED BY <1>1, <1>4, <1>5

(* What PacketsFrom finds, one index at a time.                             *)
LEMMA Unfold ==
    ASSUME NEW s \in Seq(Byte), NEW i \in 1..Len(s) + 1
    PROVE  /\ PacketsFrom(s, i) \in Seq(Place)
           /\ i > Len(s) => PacketsFrom(s, i) = <<>>
           /\ i <= Len(s) =>
                 /\ Junk(s, i) => PacketsFrom(s, i) = PacketsFrom(s, i + 1)
                 /\ ~Junk(s, i) /\ Incomplete(s, i) => PacketsFrom(s, i) = <<>>
                 /\ IsPacket(s, i) =>
                       PacketsFrom(s, i) = <<[at |-> i, size |-> FrameSize(s, i)]>>
                                             \o PacketsFrom(s, i + FrameSize(s, i))
<1> DEFINE n == Len(s)
           body(g) ==
               [j \in 1..Len(s) + 1 |->
                    IF j > Len(s) THEN <<>>
                    ELSE IF Junk(s, j) THEN g[j + 1]
                    ELSE IF Incomplete(s, j) THEN <<>>
                    ELSE <<[at |-> j, size |-> FrameSize(s, j)]>>
                            \o g[j + FrameSize(s, j)]]
           F == CHOOSE g : g = body(g)
<1>1. n \in Nat
      BY LenProperties
<1>2. F = body(F)
  <2>1. PICK g : IsSearch(g, s, 1)
        BY SearchExists
  <2>2. g = body(g)
    <3>1. \A j \in 1..Len(s) + 1 : g[j] = body(g)[j]
          BY <2>1 DEF IsSearch, Found
    <3>2. g \in [1..Len(s) + 1 -> Seq(Place)]
          BY <2>1 DEF IsSearch
    <3> QED BY <3>1, <3>2
  <2> HIDE DEF body
  <2> QED BY <2>2
<1>3. \A j \in 1..Len(s) + 1 : PacketsFrom(s, j) = F[j]
      BY Zenon DEF PacketsFrom
<1> HIDE DEF F
<1>4. \A j \in 1..Len(s) + 1 : F[j] = Found(F, s, j)
  <2>1. \A j \in 1..Len(s) + 1 : body(F)[j] = Found(F, s, j)
        BY DEF Found
  <2> HIDE DEF body
  <2> QED BY <1>2, <2>1
<1> HIDE DEF body
<1>5. \A j \in 1..n + 1 : F[j] \in Seq(Place)
  <2> DEFINE S == {k \in Nat : k <= n => \A j \in (n + 1) - k..n + 1 : F[j] \in Seq(Place)}
  <2>1. 0 \in S
    <3>1. \A j \in (n + 1) - 0..n + 1 : j \in 1..n + 1 /\ j > n
          BY <1>1
    <3>2. <<>> \in Seq(Place)
          OBVIOUS
    <3> QED BY <1>4, <3>1, <3>2 DEF Found
  <2>2. \A k \in Nat : k \in S => k + 1 \in S
    <3> SUFFICES ASSUME NEW k \in Nat, k \in S, k + 1 <= n,
                        NEW j \in (n + 1) - (k + 1)..n + 1
                 PROVE  F[j] \in Seq(Place)
      <4>1. \A k \in Nat : k + 1 \in Nat
            OBVIOUS
      <4> HIDE DEF n
      <4> QED BY <4>1
    <3>1. /\ \A m \in (n - k) + 1..n + 1 : m \in (n + 1) - k..n + 1
          /\ n - k \in 1..n /\ k <= n
          /\ j = n - k \/ j \in (n + 1) - k..n + 1
          BY <1>1
    <3>2. \A m \in (n + 1) - k..n + 1 : F[m] \in Seq(Place)
          BY <3>1
    <3>3. Found(F, s, n - k) \in Seq(Place)
      <4>1. \A m \in (n - k) + 1..n + 1 : F[m] \in Seq(Place)
            BY <3>1, <3>2
      <4> QED BY <3>1, <4>1, FoundIsSequence
    <3>4. n - k \in 1..Len(s) + 1
          BY <1>1, <3>1
    <3> QED BY <1>4, <3>1, <3>2, <3>3, <3>4
  <2>3. n \in S
    <3> HIDE DEF S
    <3> QED BY <1>1, <2>1, <2>2, Induction
  <2>4. (n + 1) - n = 1
        BY <1>1
  <2> QED BY <1>1, <2>3, <2>4
<1>6. F[i] = Found(F, s, i)
      BY <1>4
<1>7. CASE i > Len(s)
      BY <1>3, <1>5, <1>6, <1>7, <1>1 DEF Found
<1>8. CASE ~(i > Len(s))
  <2>1. i \in 1..Len(s) /\ i + 1 \in 1..Len(s) + 1
        BY <1>1, <1>8
  <2>2. IsPacket(s, i) => /\ ~Junk(s, i) /\ ~Incomplete(s, i)
                          /\ i + FrameSize(s, i) \in 1..Len(s) + 1
    <3>1. IsPacket(s, i) => /\ ~Junk(s, i) /\ ~Incomplete(s, i)
                            /\ i + FrameSize(s, i) \in i + 1..Len(s) + 1
          BY <2>1, PacketInString
    <3>2. i + 1..Len(s) + 1 \subseteq 1..Len(s) + 1
          BY <1>1
    <3> QED BY <3>1, <3>2
  <2> QED BY <1>3, <1>5, <1>6, <1>8, <2>1, <2>2 DEF Found
<1> QED BY <1>7, <1>8

(* More bytes behind a string leave it as it is.                            *)
LEMMA LongerString ==
    ASSUME NEW s \in Seq(Byte), NEW t \in Seq(Byte)
    PROVE  /\ s \o t \in Seq(Byte)
           /\ Len(s \o t) = Len(s) + Len(t)
           /\ Within(s, s \o t, 0)
<1>1. /\ s \o t \in Seq(Byte) /\ Len(s \o t) = Len(s) + Len(t)
      /\ \A k \in 1..Len(s) + Len(t) : (s \o t)[k] =
             IF k <= Len(s) THEN s[k] ELSE t[k - Len(s)]
      BY ConcatProperties
<1>2. Len(s) \in Nat /\ Len(t) \in Nat
      BY LenProperties
<1> QED BY <1>1, <1>2 DEF Within

-----------------------------------------------------------------------------
\* Whatever is received from now on, a single search over all of it finds what
\* has been delivered, and then what it finds from the place of the search on.
SearchSoFar ==
    \A t \in Seq(Byte) :
        PacketsFrom(received \o t, 1) =
            delivered \o PacketsFrom(received \o t, Position(iter))

(* Before anything is received.                                             *)
LEMMA InitSearchSoFar == Init => SearchSoFar
<1> SUFFICES ASSUME Init, NEW t \in Seq(Byte)
             PROVE  PacketsFrom(received \o t, 1) =
                        delivered \o PacketsFrom(received \o t, Position(iter))
    BY DEF SearchSoFar
<1>1. received = <<>> /\ delivered = <<>> /\ Position(iter) = 1
      BY DEF Init, Position
<1>2. received \in Seq(Byte)
      BY <1>1
<1>3. received \o t \in Seq(Byte) /\ Len(received \o t) \in Nat
      BY <1>2, LongerString, LenProperties
<1>4. PacketsFrom(received \o t, 1) \in Seq(Place)
  <2>1. 1 \in 1..Len(received \o t) + 1
        BY <1>3
  <2> QED BY <1>3, <2>1, Unfold
<1> QED BY <1>1, <1>4, ConcatEmptySeq

(* Where the search is, in a longer string.                                 *)
LEMMA SearchPlace ==
    ASSUME IInv, NEW t \in Seq(Byte)
    PROVE  /\ received \in Seq(Byte) /\ received \o t \in Seq(Byte)
           /\ Within(received, received \o t, 0)
           /\ delivered \in Seq(Place)
           /\ Position(iter) \in 1..Len(received \o t) + 1
           /\ iter <= Len(buffer_) => /\ Position(iter) \in 1..Len(received)
                                      /\ Position(iter) \in 1..Len(received \o t)
<1>1. /\ received \in Seq(Byte) /\ delivered \in Seq(Place)
      /\ Len(received) \in Nat /\ Len(buffer_) \in Nat /\ Len(t) \in Nat
      /\ Len(buffer_) <= Len(received) /\ iter \in 1..Len(buffer_) + 1
      BY LenProperties DEF IInv, TypeOK, BufferIsTail, Place
<1>2. /\ received \o t \in Seq(Byte) /\ Len(received \o t) = Len(received) + Len(t)
      /\ Within(received, received \o t, 0)
      BY <1>1, LongerString
<1>3. Position(iter) \in 1..(Len(received) + Len(t)) + 1
      BY <1>1 DEF Position
<1>4. iter <= Len(buffer_) => /\ Position(iter) \in 1..Len(received)
                              /\ Position(iter) \in 1..Len(received) + Len(t)
      BY <1>1 DEF Position
<1> QED BY <1>1, <1>2, <1>3, <1>4

(* Arriving bytes are among those the invariant speaks of already.          *)
LEMMA ReceiveSearchSoFar ==
    ASSUME IInv, SearchSoFar, NEW n \in 1..ReceiveSize, n <= Len(line), Receive(n)
    PROVE  SearchSoFar'
<1> DEFINE new == SubSeq(line, 1, n)
<1>1. new \in Seq(Byte)
  <2>1. line \in Seq(Byte) /\ Len(line) \in Nat /\ n \in Nat
        BY PacketStreamAssumption, LenProperties DEF IInv, TypeOK
  <2>2. \A k \in 1..n : line[k] \in Byte
        BY <2>1
  <2> QED BY <2>1, <2>2, SubSeqProperties
<1>2. received' = received \o new /\ delivered' = delivered
      BY DEF Receive
<1>3. Position(iter)' = Position(iter)
      BY ReceiveStrings DEF Receive, IInv, Idle
<1> HIDE DEF new
<1>4. ASSUME NEW t \in Seq(Byte)
      PROVE  PacketsFrom(received' \o t, 1) =
                 delivered' \o PacketsFrom(received' \o t, Position(iter)')
  <2>1. new \o t \in Seq(Byte)
        BY <1>1, LongerString
  <2>2. (received \o new) \o t = received \o (new \o t)
    <3>1. received \in Seq(Byte)
          BY DEF IInv, TypeOK
    <3> QED BY <1>1, <3>1, ConcatAssociative
  <2>3. PacketsFrom(received \o (new \o t), 1) =
            delivered \o PacketsFrom(received \o (new \o t), Position(iter))
        BY <2>1 DEF SearchSoFar
  <2> QED BY <1>2, <1>3, <2>2, <2>3
<1> QED BY <1>4 DEF SearchSoFar

(* A delivered packet is the next one a single search finds.                *)
LEMMA DeliverSearchSoFar ==
    ASSUME IInv, SearchSoFar, DeliverPacket
    PROVE  SearchSoFar'
<1> DEFINE p == Position(iter)
           size == FrameSize(buffer_, iter)
           x == [at |-> p, size |-> size]
<1>1. /\ size \in Nat \ {0} /\ iter + size \in 1..Len(buffer_) + 1
      /\ IsPacket(received, p) /\ FrameSize(received, p) = size
      BY PacketAtIter DEF DeliverPacket
<1>2. /\ iter <= Len(buffer_) /\ received' = received
      /\ delivered' = Append(delivered, x)
      BY DEF DeliverPacket
<1>3. Position(iter)' = p + size
  <2>1. iter' = iter + size /\ buffer_' = buffer_
        BY DEF DeliverPacket
  <2>2. Len(buffer_) \in Nat /\ Len(received) \in Nat /\ iter \in Nat
        BY DEF IInv, TypeOK
  <2> QED BY <1>1, <1>2, <2>1, <2>2 DEF Position
<1>4. ASSUME NEW t \in Seq(Byte)
      PROVE  PacketsFrom(received \o t, 1) =
                 delivered' \o PacketsFrom(received \o t, p + size)
  <2> DEFINE u == received \o t
             rest == PacketsFrom(u, p + size)
  <2>1. /\ received \in Seq(Byte) /\ u \in Seq(Byte) /\ Within(received, u, 0)
        /\ delivered \in Seq(Place)
        /\ p \in 1..Len(received) /\ p \in 1..Len(u)
        BY <1>2, SearchPlace
  <2>2. PacketsFrom(u, 1) = delivered \o PacketsFrom(u, p)
        BY DEF SearchSoFar
  <2>3. IsPacket(u, p) /\ FrameSize(u, p) = size
    <3>1. p + 0 = p
          BY <2>1
    <3> HIDE DEF p, u, size
    <3>2. IsPacket(received, p) =>
              IsPacket(u, p + 0) /\ FrameSize(u, p + 0) = FrameSize(received, p)
          BY <2>1, OutcomeWithin
    <3> QED BY <1>1, <3>1, <3>2
  <2> HIDE DEF u, p, size
  <2>4. p \in 1..Len(u) + 1 /\ p <= Len(u) /\ p + size \in 1..Len(u) + 1
    <3>1. Len(u) \in Nat
          BY <2>1, LenProperties
    <3>2. p + size \in p + 1..Len(u) + 1
          BY <2>1, <2>3, PacketInString
    <3> QED BY <2>1, <3>1, <3>2
  <2>5. PacketsFrom(u, p) = <<x>> \o rest
        BY <2>1, <2>3, <2>4, Unfold
  <2>6. rest \in Seq(Place)
        BY <2>1, <2>4, Unfold
  <2>7. x \in Place
        BY <1>1, <2>1 DEF Place
  <2> HIDE DEF x, rest
  <2>8. <<x>> \in Seq(Place) /\ Append(delivered, x) = delivered \o <<x>>
        BY <2>1, <2>7, AppendIsConcat
  <2>9. (delivered \o <<x>>) \o rest = delivered \o (<<x>> \o rest)
        BY <2>1, <2>6, <2>8, ConcatAssociative
  <2> QED BY <1>2, <2>2, <2>5, <2>8, <2>9 DEF rest, u
<1> QED BY <1>2, <1>3, <1>4 DEF SearchSoFar

(* Neither search finds anything at a byte that is skipped.                 *)
LEMMA SkipSearchSoFar ==
    ASSUME IInv, SearchSoFar, SkipByte
    PROVE  SearchSoFar'
<1> DEFINE p == Position(iter)
<1>1. /\ iter <= Len(buffer_) /\ Junk(buffer_, iter)
      /\ UNCHANGED <<buffer_, received, delivered>> /\ iter' = iter + 1
      BY DEF SkipByte
<1>2. Len(buffer_) \in Nat /\ Len(received) \in Nat /\ iter \in 1..Len(buffer_)
      BY <1>1 DEF IInv, TypeOK
<1>3. Position(iter)' = p + 1
      BY <1>1, <1>2 DEF Position
<1>4. Junk(received, p)
      BY <1>1, <1>2, BufferWithin, OutcomeWithin DEF IInv
<1>5. ASSUME NEW t \in Seq(Byte)
      PROVE  PacketsFrom(received \o t, p) = PacketsFrom(received \o t, p + 1)
  <2> DEFINE u == received \o t
  <2>1. /\ u \in Seq(Byte) /\ Within(received, u, 0)
        /\ p \in 1..Len(received) /\ p \in 1..Len(u)
        BY <1>1, SearchPlace
  <2>2. p + 0 = p /\ p \in 1..Len(u) + 1 /\ p <= Len(u)
        BY <2>1, LenProperties
  <2> HIDE DEF u, p
  <2>3. Junk(u, p)
        BY <1>4, <2>1, <2>2, OutcomeWithin
  <2> QED BY <2>1, <2>2, <2>3, Unfold DEF u
<1> QED BY <1>1, <1>3, <1>5 DEF SearchSoFar

(* Every step keeps the two searches together.                              *)
LEMMA NextSearchSoFar == IInv /\ SearchSoFar /\ [Next]_vars => SearchSoFar'
<1> SUFFICES ASSUME IInv, SearchSoFar, [Next]_vars PROVE SearchSoFar'
    OBVIOUS
<1>1. ASSUME NEW bytes \in Transmissions, Send(bytes) PROVE SearchSoFar'
      BY <1>1 DEF Send, SearchSoFar, Position
<1>2. ASSUME NEW n \in 1..ReceiveSize, n <= Len(line), Receive(n) PROVE SearchSoFar'
      BY <1>2, ReceiveSearchSoFar
<1>3. CASE EndSearch
  <2>1. Position(iter)' = Position(iter) /\ UNCHANGED <<received, delivered>>
        BY <1>3, EraseStrings DEF EndSearch
  <2> QED BY <2>1 DEF SearchSoFar
<1>4. CASE UNCHANGED vars
      BY <1>4 DEF vars, SearchSoFar, Position
<1> QED BY <1>1, <1>2, <1>3, <1>4, DeliverSearchSoFar, SkipSearchSoFar
        DEF Next, Thread, ReceiveSome

(* A search that stopped finds nothing more in what has been received.      *)
LEMMA NothingLeft ==
    ASSUME IInv, SearchSoFar, pc = "receive"
    PROVE  delivered = PacketsFrom(received, 1)
<1> DEFINE p == Position(iter)
<1>1. /\ received \in Seq(Byte) /\ delivered \in Seq(Place) /\ iter = 1
      /\ Len(received) \in Nat /\ Len(buffer_) \in Nat
      /\ Len(buffer_) <= Len(received) /\ buffer_ \in Seq(Byte)
      BY DEF IInv, TypeOK, BufferIsTail, Idle, Place
<1>2. <<>> \in Seq(Byte) /\ received \o <<>> = received
      BY <1>1, ConcatEmptySeq
<1>3. PacketsFrom(received, 1) = delivered \o PacketsFrom(received, p)
      BY <1>2 DEF SearchSoFar
<1>4. p \in 1..Len(received) + 1
      BY <1>1 DEF Position
<1>5. PacketsFrom(received, p) = <<>>
  <2>1. CASE buffer_ = <<>>
    <3>1. p > Len(received)
          BY <1>1, <2>1 DEF Position
    <3> QED BY <1>1, <1>4, <3>1, Unfold
  <2>2. CASE buffer_ # <<>> /\ IsSof(buffer_, 1) /\ Incomplete(buffer_, 1)
    <3> DEFINE d == Len(received) - Len(buffer_)
    <3>1. 1 \in 1..Len(buffer_)
          BY <1>1, <2>2
    <3>2. Within(buffer_, received, d) /\ p = 1 + d
          BY <1>1, BufferWithin DEF IInv
    <3>3. Len(buffer_) + d = Len(received) /\ p <= Len(received)
          BY <1>1, <3>1, <3>2
    <3> HIDE DEF d, p
    <3>4. IsSof(received, p)
          BY <2>2, <3>1, <3>2, HeaderWithin
    <3>5. BytesNeeded(received, p) = BytesNeeded(buffer_, 1)
          BY <3>1, <3>2, <3>3, NeededWithin
    <3>6. Incomplete(received, p) /\ ~Junk(received, p)
          BY <2>2, <3>4, <3>5 DEF Incomplete, Junk
    <3> QED BY <1>1, <1>4, <3>3, <3>6, Unfold
  <2> QED BY <2>1, <2>2 DEF IInv, ResidueBounded
<1> QED BY <1>1, <1>3, <1>5, ConcatEmptySeq

(* However receive() cut the stream into chunks, packet_handler_ is given   *)
(* the packets a single search over all the bytes would find.               *)
THEOREM ChunksDoNotMatter == Spec => []ChunkIndependent
<1>1. Init => SearchSoFar
      BY InitSearchSoFar
<1>2. IInv /\ SearchSoFar /\ [Next]_vars => SearchSoFar'
      BY NextSearchSoFar
<1>3. IInv /\ SearchSoFar => ChunkIndependent
      BY NothingLeft DEF ChunkIndependent
<1> QED BY <1>1, <1>2, <1>3, Invariance, PTL DEF Spec

-----------------------------------------------------------------------------
(* Why LineDrained needs no more than fairness: what the receive thread does *)
(* always comes nearer to its end, and a search has always a next step.      *)

\* A step of the thread takes bytes off the line, or takes the search further
\* through the same bytes, or ends it.
ComesNearer ==
    \/ Len(line') < Len(line)
    \/ /\ line' = line /\ pc = "search"
       /\ \/ pc' = "receive"
          \/ buffer_' = buffer_ /\ iter < iter' /\ iter' <= Len(buffer_) + 1

(* A read shortens the line; a search moves iter forward and never behind    *)
(* the end of buffer_, so it takes at most Len(buffer_) + 1 steps.           *)
THEOREM SearchMovesForward == Spec => [][Thread => ComesNearer]_vars
<1>1. IInv /\ [Next]_vars => [Thread => ComesNearer]_vars
  <2> SUFFICES ASSUME IInv, Thread PROVE ComesNearer
      OBVIOUS
  <2>1. /\ line \in Seq(Byte) /\ Len(line) \in Nat
        /\ buffer_ \in Seq(Byte) /\ Len(buffer_) \in Nat
        /\ iter \in 1..Len(buffer_) + 1
        BY LenProperties DEF IInv, TypeOK
  <2>2. ASSUME NEW n \in 1..ReceiveSize, n <= Len(line), Receive(n)
        PROVE  Len(line') < Len(line)
    <3>1. n \in Nat /\ n >= 1
          BY PacketStreamAssumption
    <3>2. \A k \in n + 1..Len(line) : line[k] \in Byte
          BY <2>1, <3>1
    <3>3. line' = SubSeq(line, n + 1, Len(line))
          BY <2>2 DEF Receive
    <3>4. Len(line') = IF n + 1 <= Len(line) THEN Len(line) - (n + 1) + 1 ELSE 0
          BY <2>1, <3>1, <3>2, <3>3, SubSeqProperties
    <3> QED BY <2>1, <2>2, <3>1, <3>4
  <2>3. ASSUME DeliverPacket PROVE ComesNearer
    <3>1. /\ FrameSize(buffer_, iter) \in Nat \ {0}
          /\ iter + FrameSize(buffer_, iter) \in 1..Len(buffer_) + 1
          BY <2>3, PacketAtIter DEF DeliverPacket
    <3>2. /\ pc = "search" /\ line' = line /\ buffer_' = buffer_
          /\ iter' = iter + FrameSize(buffer_, iter)
          BY <2>3 DEF DeliverPacket
    <3> QED BY <2>1, <3>1, <3>2 DEF ComesNearer
  <2>4. ASSUME SkipByte PROVE ComesNearer
        BY <2>1, <2>4 DEF SkipByte, ComesNearer
  <2>5. ASSUME EndSearch PROVE ComesNearer
        BY <2>5 DEF EndSearch, ComesNearer
  <2> QED BY <2>2, <2>3, <2>4, <2>5 DEF Thread, ReceiveSome, ComesNearer
<1> QED BY <1>1, Invariance, PTL DEF Spec

\* The search is at the end of buffer_, or createPacket gives it one answer.
OneStep ==
    \/ iter = Len(buffer_) + 1
    \/ /\ iter <= Len(buffer_)
       /\ \/ IsPacket(buffer_, iter)
          \/ Junk(buffer_, iter)
          \/ IsSof(buffer_, iter) /\ Incomplete(buffer_, iter)
       /\ ~(IsPacket(buffer_, iter) /\ Junk(buffer_, iter))
       /\ ~(IsPacket(buffer_, iter) /\ Incomplete(buffer_, iter))
       /\ ~(Junk(buffer_, iter) /\ IsSof(buffer_, iter) /\ Incomplete(buffer_, iter))

(* Wherever a search is, createPacket gives one of the answers the loop acts *)
(* on, and only one: a packet to deliver, a byte to skip or an end.          *)
THEOREM SearchHasOneStep == Spec => [](pc = "search" => OneStep)
<1>1. IInv => OneStep
  <2> SUFFICES ASSUME IInv PROVE OneStep
      OBVIOUS
  <2>1. buffer_ \in Seq(Byte) /\ Len(buffer_) \in Nat /\ iter \in 1..Len(buffer_) + 1
        BY LenProperties DEF IInv, TypeOK
  <2>2. CASE iter \in 1..Len(buffer_)
        BY <2>1, <2>2, PacketInString DEF OneStep, Junk
  <2> QED BY <2>1, <2>2 DEF OneStep
<1> QED BY <1>1, Invariance, PTL
=============================================================================
