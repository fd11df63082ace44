SPECIFICATION FairSpec
CONSTANTS
    Streams = {s1, s2}
    Nobody = Nobody
    MaxSegments = 2
    QueueSize = 1
INVARIANTS TranscriptIsWhole
PROPERTIES StreamsFinish
CHECK_DEADLOCK FALSE
