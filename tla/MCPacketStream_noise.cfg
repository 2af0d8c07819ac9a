SPECIFICATION FairSpec
CONSTANTS
    VESC_MAX_PAYLOAD_SIZE = 4
    PacketTypes = {0, 4}
    Crc <- MCCrc
    Transmissions <- LineNoise
    MaxSent = 3
    ReceiveSize = 24
INVARIANTS
    EveryByteAccounted
    ResidueBounded
    NoPacketSkipped
    ChunkIndependent
PROPERTIES
    ImplementsFrameStream
    LineDrained
CHECK_DEADLOCK FALSE
