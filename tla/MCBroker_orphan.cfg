CONSTANTS
    s1 = s1
    s2 = s2
    d1 = d1
    d2 = d2
    u1 = u1
    u2 = u2
    None = None
    Sessions = {s1}
    Streams = {d1}
    Listeners = {u1}
    Acl <- ListenerAcl
    Digest <- MCDigest
    PubTopics <- MCPubTopics
    SubRequests <- MCSubRequests
    MaxTopicDepth = 2
    QueueSize = 1
    MaxPub = 2
    MaxBeat = 2
SPECIFICATION FairSpec
PROPERTY DroppedStreamsEnd
CHECK_DEADLOCK FALSE
