\* Two processes share a partition of two messages: every mix of good, rejected
\* and malformed values, three faults, a SIGTERM, a crash and a rebalance.
CONSTANTS
    Event = {e1, e2}
    Unindexable = {e2}
    Malformed = Malformed
    Partition = {p1}
    TopicLength = 2
    Consumer = {c1, c2}
    DLQPartitions = 1
    MaxFaults = 3
    MaxTerms = 1
    MaxCrashes = 1
    MaxRebalances = 1
SPECIFICATION FairSpec
INVARIANTS TypeOK CommittedIsHandled OneDocumentPerEvent
PROPERTIES EveryMessageHandled
CHECK_DEADLOCK FALSE
