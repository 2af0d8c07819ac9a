---------------------------- MODULE VescFraming ----------------------------
(***************************************************************************)
(* The wire format of the VESC: VescFrame (vesc_packet.hpp/.cpp) and the   *)
(* recogniser VescPacketFactory::createPacket (vesc_packet_factory.cpp).   *)
(*                                                                         *)
(*   small frame:  02 | size        | payload | crc hi | crc lo | 03       *)
(*   large frame:  03 | size hi, lo | payload | crc hi | crc lo | 03       *)
(*                                                                         *)
(* A buffer is a sequence of bytes and an iterator into it an index, 1 for *)
(* begin() and Len(buf) + 1 for end().                                     *)
(***************************************************************************)
EXTENDS Integers, Sequences

CONSTANTS
    VESC_MAX_PAYLOAD_SIZE,  \* 1024 in the code
    PacketTypes,            \* payload ids with a registered constructor
    Crc(_)                  \* the checksum of a payload

Byte == 0..255

ASSUME FramingAssumption ==
    /\ VESC_MAX_PAYLOAD_SIZE \in 1..1024
    /\ PacketTypes \subseteq Byte

VESC_MIN_FRAME_SIZE == 5
VESC_MAX_FRAME_SIZE == 6 + VESC_MAX_PAYLOAD_SIZE
VESC_SOF_VAL_SMALL_FRAME == 2
VESC_SOF_VAL_LARGE_FRAME == 3
VESC_EOF_VAL == 3

-----------------------------------------------------------------------------
(* The fields of the frame that begins at index i.                          *)

IsSof(buf, i) == buf[i] \in {VESC_SOF_VAL_SMALL_FRAME, VESC_SOF_VAL_LARGE_FRAME}

Available(buf, i) == Len(buf) - i + 1

HeaderSize(buf, i) == IF buf[i] = VESC_SOF_VAL_SMALL_FRAME THEN 2 ELSE 3

PayloadSize(buf, i) ==
    IF buf[i] = VESC_SOF_VAL_SMALL_FRAME
    THEN buf[i + 1]
    ELSE 256 * buf[i + 1] + buf[i + 2]

FrameSize(buf, i) == HeaderSize(buf, i) + PayloadSize(buf, i) + 3

Payload(buf, i) ==
    [k \in 1..PayloadSize(buf, i) |-> buf[i + HeaderSize(buf, i) + k - 1]]

\* The last index of the frame, where its end-of-frame character belongs.
EofAt(buf, i) == i + FrameSize(buf, i) - 1

StoredCrc(buf, i) == 256 * buf[EofAt(buf, i) - 2] + buf[EofAt(buf, i) - 1]

-----------------------------------------------------------------------------
(* createPacket(begin = i, end) has three outcomes: it needs more bytes, it *)
(* returns a packet, or there is no packet at i.                            *)

\* The value createPacket leaves in *num_bytes_needed.
BytesNeeded(buf, i) ==
    IF Available(buf, i) < VESC_MIN_FRAME_SIZE
    THEN VESC_MIN_FRAME_SIZE - Available(buf, i)
    ELSE IF IsSof(buf, i)
            /\ PayloadSize(buf, i) <= VESC_MAX_PAYLOAD_SIZE
            /\ Available(buf, i) < FrameSize(buf, i)
         THEN FrameSize(buf, i) - Available(buf, i)
         ELSE 0

Incomplete(buf, i) == BytesNeeded(buf, i) > 0

\* Every check of the frame itself passes.
IsFrame(buf, i) ==
    /\ Available(buf, i) >= VESC_MIN_FRAME_SIZE
    /\ IsSof(buf, i)
    /\ PayloadSize(buf, i) <= VESC_MAX_PAYLOAD_SIZE
    /\ Available(buf, i) >= FrameSize(buf, i)
    /\ buf[EofAt(buf, i)] = VESC_EOF_VAL
    /\ StoredCrc(buf, i) = Crc(Payload(buf, i))

\* The frame also has a payload of a registered type: a packet is returned.
IsPacket(buf, i) ==
    /\ IsFrame(buf, i)
    /\ PayloadSize(buf, i) > 0
    /\ buf[i + HeaderSize(buf, i)] \in PacketTypes

\* The search loop of packet_creation_thread moves past index i by one byte.
Junk(buf, i) ==
    \/ ~IsSof(buf, i)
    \/ ~IsPacket(buf, i) /\ ~Incomplete(buf, i)

-----------------------------------------------------------------------------
\* The frame VescFrame(int payload_size) lays out around a payload, with the
\* checksum every Set* and Request* constructor writes behind it.
Frame(payload) ==
    (IF Len(payload) < 256
     THEN <<VESC_SOF_VAL_SMALL_FRAME, Len(payload)>>
     ELSE <<VESC_SOF_VAL_LARGE_FRAME, Len(payload) \div 256, Len(payload) % 256>>)
    \o payload
    \o <<Crc(payload) \div 256, Crc(payload) % 256, VESC_EOF_VAL>>
=============================================================================
