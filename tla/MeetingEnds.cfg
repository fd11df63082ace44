SPECIFICATION Spec
CONSTANTS
    Streams = {s1, s2}
    Nobody = Nobody
    MaxSegments = 3
    QueueSize = 1
INVARIANT FinishedMeansHeard
CHECK_DEADLOCK FALSE
