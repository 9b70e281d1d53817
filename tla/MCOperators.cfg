\* Chunks: the empty one, one name, both wildcards.  The clock runs beyond
\* what the latency can hold.  The shortest UDP packets have 11 bytes.
CONSTANTS
    Chunks = {"", "a", "+", "#"}
    MaxTopicLen = 4
    MaxMaskLen = 3
    MaxTopicDepth = 2
    MaxText = 3
    MaxTime = 40
    Thousand = 3
    W32 = 8
    W64 = 64
    MAX_TOPIC_LENGTH = 6
    MAX_PUB_SIZE = 5
    UDP_FRAME_SIZE = 12
    SealSize = 1
SPECIFICATION Spec
INVARIANTS
    PreparedIsCanonical
    MaskMatchesMeaning
    MaskRoundTripKeepsMeaning
    CommandsReadBack
    MessagesReadBack
    PacketsReadBack
    LatencyIsTrue
CHECK_DEADLOCK FALSE
