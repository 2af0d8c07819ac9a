---------------------------- MODULE PacketStream ----------------------------
(***************************************************************************)
(* The receive path of one VescInterface: packet_creation_thread           *)
(* (vesc_interface.cpp) turning the bytes of the serial line into packets. *)
(* The VESC writes byte strings to the line; the thread reads a chunk of   *)
(* any length, appends it to buffer_ and searches buffer_ from its start,  *)
(* one step of the search loop per action.                                 *)
(*                                                                         *)
(* transmitted, received, delivered and accepted are history: every byte   *)
(* put on the line, every byte the thread read, the places of received at  *)
(* which packet_handler_ was given a packet, and the bytes of those        *)
(* packets.  reported adds up the byte counts the thread passed to         *)
(* error_handler_.                                                         *)
(***************************************************************************)
EXTENDS VescFraming

CONSTANTS
    Transmissions,  \* byte strings the VESC, or noise, puts on the line
    MaxSent,        \* bound on the number of transmissions
    ReceiveSize     \* size of temp_buffer, 2048 in the code

ASSUME PacketStreamAssumption ==
    /\ Transmissions \subseteq Seq(Byte)
    /\ MaxSent \in Nat
    /\ ReceiveSize \in Nat \ {0}

VARIABLES
    line,        \* bytes on the line, not yet received
    sent,        \* number of transmissions so far
    pc,          \* "receive" (blocked in receive) or "search"
    buffer_,
    iter,
    iter_begin,
    transmitted,
    received,
    delivered,   \* sequence of [at |-> index of received, size |-> bytes]
    accepted,
    reported

vars == <<line, sent, pc, buffer_, iter, iter_begin, transmitted,
          received, delivered, accepted, reported>>

-----------------------------------------------------------------------------

Init ==
    /\ line = <<>>
    /\ sent = 0
    /\ pc = "receive"
    /\ buffer_ = <<>>
    /\ iter = 1
    /\ iter_begin = 1
    /\ transmitted = <<>>
    /\ received = <<>>
    /\ delivered = <<>>
    /\ accepted = 0
    /\ reported = 0

\* Index of received that index i of buffer_ holds.
Position(i) == Len(received) - Len(buffer_) + i

-----------------------------------------------------------------------------
\* External: the VESC firmware, or a disturbance, puts bytes on the line.
Send(bytes) ==
    /\ sent < MaxSent
    /\ line' = line \o bytes
    /\ transmitted' = transmitted \o bytes
    /\ sent' = sent + 1
    /\ UNCHANGED <<pc, buffer_, iter, iter_begin,
                   received, delivered, accepted, reported>>

\* receive() returns the first n bytes of the line; the search restarts at the
\* beginning of buffer_.
Receive(n) ==
    /\ pc = "receive"
    /\ buffer_' = buffer_ \o SubSeq(line, 1, n)
    /\ received' = received \o SubSeq(line, 1, n)
    /\ line' = SubSeq(line, n + 1, Len(line))
    /\ iter' = 1
    /\ iter_begin' = 1
    /\ pc' = "search"
    /\ UNCHANGED <<sent, transmitted, delivered, accepted, reported>>

\* Mutation of DeliverPacket: the bytes before the packet are not reported.
DeliverUnreported ==
    /\ pc = "search"
    /\ iter <= Len(buffer_)
    /\ IsPacket(buffer_, iter)
    /\ delivered' = Append(delivered, [at |-> Position(iter),
                                       size |-> FrameSize(buffer_, iter)])
    /\ accepted' = accepted + FrameSize(buffer_, iter)
    /\ iter' = iter + FrameSize(buffer_, iter)
    /\ iter_begin' = iter'
    /\ UNCHANGED <<line, sent, pc, buffer_, transmitted, received, reported>>

\* A packet begins at iter: skipped bytes are reported, the handler is called.
DeliverPacket ==
    /\ pc = "search"
    /\ iter <= Len(buffer_)
    /\ IsPacket(buffer_, iter)
    /\ reported' = reported + (iter - iter_begin)
    /\ delivered' = Append(delivered, [at |-> Position(iter),
                                       size |-> FrameSize(buffer_, iter)])
    /\ accepted' = accepted + FrameSize(buffer_, iter)
    /\ iter' = iter + FrameSize(buffer_, iter)
    /\ iter_begin' = iter'
    /\ UNCHANGED <<line, sent, pc, buffer_, transmitted, received>>

\* Mutations of SkipByte: an incomplete frame is passed over; the search stays
\* where it is; the whole of a frame that is not a packet is passed over.
SkipTo(i) ==
    /\ pc = "search"
    /\ iter <= Len(buffer_)
    /\ iter' = i
    /\ UNCHANGED <<line, sent, pc, buffer_, iter_begin, transmitted,
                   received, delivered, accepted, reported>>
SkipIncomplete == SkipTo(iter + 1) /\ ~IsPacket(buffer_, iter)
SkipNothing == SkipTo(iter) /\ Junk(buffer_, iter)
SkipFrame ==
    /\ pc = "search" /\ iter <= Len(buffer_)
    /\ Junk(buffer_, iter)
    /\ SkipTo(IF IsSof(buffer_, iter) /\ FrameSize(buffer_, iter) <= Available(buffer_, iter)
              THEN iter + FrameSize(buffer_, iter) ELSE iter + 1)

\* No frame begins at iter, or one that is not a packet: iter++.
SkipByte ==
    /\ pc = "search"
    /\ iter <= Len(buffer_)
    /\ Junk(buffer_, iter)
    /\ iter' = iter + 1
    /\ UNCHANGED <<line, sent, pc, buffer_, iter_begin, transmitted,
                   received, delivered, accepted, reported>>

\* Mutations of EndSearch: erase only what is settled; erase everything.
EndKeeping(rest) ==
    /\ pc = "search"
    /\ \/ iter = Len(buffer_) + 1
       \/ /\ iter <= Len(buffer_)
          /\ IsSof(buffer_, iter)
          /\ Incomplete(buffer_, iter)
    /\ reported' = reported + (iter - iter_begin)
    /\ buffer_' = rest
    /\ iter' = 1
    /\ iter_begin' = 1
    /\ pc' = "receive"
    /\ UNCHANGED <<line, sent, transmitted, received, delivered, accepted>>
EndKeepingExamined == EndKeeping(SubSeq(buffer_, iter_begin, Len(buffer_)))
EndKeepingNothing == EndKeeping(<<>>)

\* The loop ends at end() or at a frame that needs more bytes: the bytes from
\* iter_begin are reported, and everything before iter is erased.
EndSearch ==
    /\ pc = "search"
    /\ \/ iter = Len(buffer_) + 1
       \/ /\ iter <= Len(buffer_)
          /\ IsSof(buffer_, iter)
          /\ Incomplete(buffer_, iter)
    /\ reported' = reported + (iter - iter_begin)
    /\ buffer_' = SubSeq(buffer_, iter, Len(buffer_))
    /\ iter' = 1
    /\ iter_begin' = 1
    /\ pc' = "receive"
    /\ UNCHANGED <<line, sent, transmitted, received, delivered, accepted>>

ReceiveSome ==
    \E n \in 1..ReceiveSize : n <= Len(line) /\ Receive(n)

Thread == ReceiveSome \/ DeliverPacket \/ SkipByte \/ EndSearch

Next == (\E bytes \in Transmissions : Send(bytes)) \/ Thread

Spec == Init /\ [][Next]_vars

\* The thread runs until disconnect(), and receive() returns once bytes are
\* there: no step of it is put off for ever.
FairSpec == Spec /\ WF_vars(Thread)
-----------------------------------------------------------------------------
\* Types, and how iter and iter_begin lie in buffer_.
TypeOK ==
    /\ line \in Seq(Byte)
    /\ sent \in 0..MaxSent
    /\ pc \in {"receive", "search"}
    /\ buffer_ \in Seq(Byte)
    /\ iter \in 1..Len(buffer_) + 1
    /\ iter_begin \in 1..iter
    /\ transmitted \in Seq(Byte)
    /\ received \in Seq(Byte)
    /\ delivered \in Seq([at : Nat \ {0}, size : Nat])
    /\ accepted \in Nat
    /\ reported \in Nat

\* buffer_ is the end of what was received: the erase at the end of a search
\* and the insert after receive() neither lose, repeat nor move a byte.
BufferIsTail ==
    /\ Len(buffer_) <= Len(received)
    /\ \A k \in 1..Len(buffer_) : buffer_[k] = received[Position(k)]

\* Conservation, in order: what was put on the line is what the thread read
\* followed by what is still on the line, and buffer_ is the end of what it
\* read; every byte read before iter_begin is part of exactly one delivered
\* packet, or was counted exactly once in an out-of-sync report.
EveryByteAccounted ==
    /\ transmitted = received \o line
    /\ BufferIsTail
    /\ accepted + reported = Position(iter_begin) - 1

\* Between two searches buffer_ holds nothing, or the beginning of a single
\* frame that is still incomplete: it cannot grow without bound, and a false
\* start of frame delays later packets by less than one maximal frame.
ResidueBounded ==
    pc = "receive" =>
        \/ buffer_ = <<>>
        \/ /\ IsSof(buffer_, 1)
           /\ Incomplete(buffer_, 1)
           /\ Len(buffer_) < VESC_MAX_FRAME_SIZE

Covers(d, q) == d.at <= q /\ q < d.at + d.size

\* Resynchronisation never jumps over a packet: every packet in the received
\* bytes that the search has passed was delivered, or began inside one that was.
NoPacketSkipped ==
    \A q \in 1..Position(iter) - 1 :
        IsPacket(received, q) =>
            \E k \in 1..Len(delivered) : Covers(delivered[k], q)

\* What packet_handler_ sees are packets of the stream, in the order of the
\* stream, that do not overlap: no byte is delivered twice.
DeliveredInOrder ==
    \A k \in 1..Len(delivered) :
        /\ IsPacket(received, delivered[k].at)
        /\ delivered[k].size = FrameSize(received, delivered[k].at)
        /\ delivered[k].at + delivered[k].size <=
              IF k < Len(delivered) THEN delivered[k + 1].at
                                    ELSE Position(iter_begin)

\* The packets that a single search over the whole of s finds from index i on.
PacketsFrom(s, i) ==
    LET found[j \in 1..Len(s) + 1] ==
            IF j > Len(s) THEN <<>>
            ELSE IF Junk(s, j) THEN found[j + 1]
            ELSE IF Incomplete(s, j) THEN <<>>
            ELSE <<[at |-> j, size |-> FrameSize(s, j)]>> \o found[j + FrameSize(s, j)]
    IN  found[i]

\* The packets delivered depend on the bytes received only, never on the chunks
\* in which receive() returned them.
ChunkIndependent ==
    pc = "receive" => delivered = PacketsFrom(received, 1)

\* The receive path implements the abstract stream of frames: bytes from
\* iter_begin to iter have been examined but are not settled yet.
Frames == INSTANCE FrameStream WITH
    stream <- received,
    settled <- Position(iter_begin) - 1,
    discarded <- reported

ImplementsFrameStream == Frames!Spec

\* Every search ends and every transmitted byte is read: the thread comes back
\* to receive() with nothing left on the line.
LineDrained == sent = MaxSent ~> (pc = "receive" /\ line = <<>>)
=============================================================================
