--------------------------- MODULE MCPacketStream ---------------------------
(***************************************************************************)
(* TLC instances of PacketStream.                                          *)
(***************************************************************************)
EXTENDS PacketStream, SequencesExt

\* A stand-in for CRC-16: it tells apart the payloads used here and has a
\* nonzero high and low byte.
MCCrc(payload) == (777 + FoldSeq(LAMBDA b, sum : b + 3 * sum, 0, payload)) % 65536

WithEof(frame, b) == [frame EXCEPT ![Len(frame)] = b]
WithCrc(frame, b) == [frame EXCEPT ![Len(frame) - 1] = b]
LargeFrame(payload) ==
    <<VESC_SOF_VAL_LARGE_FRAME, 0>> \o Tail(Frame(payload))

Values == Frame(<<4, 2>>)       \* its payload holds a false start of frame
FWVersion == LargeFrame(<<0>>)  \* a small payload in a large frame
Unregistered == Frame(<<9>>)

\* Frames, damaged frames and noise.
LineNoise == {
    Values,
    FWVersion,
    Frame(<<0, 3, 3>>),
    Unregistered,
    Frame(<<>>),                    \* no payload
    WithCrc(Frame(<<4>>), 0),       \* checksum does not match
    WithEof(Frame(<<0>>), 7),       \* no end-of-frame character
    <<2, 2, 4>>,                    \* the start of a frame, the rest lost
    <<3, 1, 0, 0, 3>>,              \* payload size out of range
    <<7>>}                          \* not a start of frame
=============================================================================
