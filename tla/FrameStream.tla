---------------------------- MODULE FrameStream ----------------------------
(***************************************************************************)
(* What the receive path of VescInterface promises its handlers, whatever  *)
(* the chunks in which the bytes arrive (abstract specification).  The     *)
(* bytes of the stream are settled strictly in order: a settled byte is    *)
(* part of a delivered packet or it was reported as discarded, and nothing *)
(* is passed over that is, or could still become, a packet.                *)
(***************************************************************************)
EXTENDS VescFraming

VARIABLES
    stream,     \* the bytes received so far
    settled,    \* how many of them are settled
    delivered,  \* the packets given to packet_handler_
    discarded   \* how many bytes were reported to error_handler_

vars == <<stream, settled, delivered, discarded>>

Init ==
    /\ stream = <<>>
    /\ settled = 0
    /\ delivered = <<>>
    /\ discarded = 0

\* No packet begins at the unsettled bytes up to index p, whatever follows.
JunkUpTo(p) == \A q \in settled + 1 .. p : Junk(stream, q)

\* More bytes arrive at the end of the stream.
Arrive ==
    /\ Len(stream') > Len(stream)
    /\ \A k \in 1..Len(stream) : stream'[k] = stream[k]
    /\ UNCHANGED <<settled, delivered, discarded>>

\* The packet at index p is delivered, the bytes before it are discarded.
Deliver(p) ==
    /\ JunkUpTo(p - 1)
    /\ IsPacket(stream, p)
    /\ delivered' = Append(delivered, [at |-> p, size |-> FrameSize(stream, p)])
    /\ discarded' = discarded + (p - 1 - settled)
    /\ settled' = p - 1 + FrameSize(stream, p)
    /\ UNCHANGED stream

\* The bytes up to index p are discarded.
Discard(p) ==
    /\ JunkUpTo(p)
    /\ discarded' = discarded + (p - settled)
    /\ settled' = p
    /\ UNCHANGED <<stream, delivered>>

Next ==
    \/ Arrive
    \/ \E p \in settled + 1 .. Len(stream) : Deliver(p) \/ Discard(p)

Spec == Init /\ [][Next]_vars
=============================================================================
