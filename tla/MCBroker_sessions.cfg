CONSTANTS
    s1 = s1
    s2 = s2
    d1 = d1
    d2 = d2
    u1 = u1
    u2 = u2
    None = None
    Sessions = {s1, s2}
    Streams = {d1}
    Listeners = {}
    Acl <- MCAcl
    Digest <- MCDigest
    PubTopics <- MCPubTopics
    SubRequests <- MCSubRequests
    MaxTopicDepth = 2
    QueueSize = 1
    MaxPub = 1
    MaxBeat = 1
SPECIFICATION FairSpec
INVARIANTS
    TypeOK
    NoTaskLeak
    PassedMeansQueued
PROPERTIES
    PublishersReturn
    EndedSessionsReaped
CHECK_DEADLOCK FALSE
