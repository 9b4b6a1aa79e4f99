\* Two valid requests of one stream, nothing fails.
CONSTANTS
    Event = {e1, e2}
    Stream = {s1}
    Tenant = {t1}
    Partition = {p1}
    PartitionOf <- OnePartition
    RequestKind = {"valid"}
    MaxFaults = 0
    MaxGone = 0
    MaxCrashes = 0
    MaxShutdowns = 0
SPECIFICATION Spec
INVARIANTS StreamOrderInTopic
CHECK_DEADLOCK FALSE
