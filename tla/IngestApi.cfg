\* Two requests of every kind, of one stream or two, under three faults, a client
\* that leaves, a crash and a SIGTERM, in any combination.
CONSTANTS
    Event = {e1, e2}
    Stream = {s1, s2}
    Tenant = {t1}
    Partition = {p1}
    PartitionOf <- OnePartition
    RequestKind = {"valid", "unauthenticated", "malformed", "incomplete"}
    MaxFaults = 3
    MaxGone = 1
    MaxCrashes = 1
    MaxShutdowns = 1
SPECIFICATION FairSpec
INVARIANTS TypeOK StoreComesFirst KafkaNeverFailsRequest SequentialRequestsStayInOrder NothingDropped
PROPERTIES RequestsEnd
CHECK_DEADLOCK FALSE
