\* One message, no failure, one SIGTERM.
CONSTANTS
    Event = {e1}
    Unindexable = {}
    Malformed = Malformed
    Partition = {p1}
    TopicLength = 1
    Consumer = {c1}
    DLQPartitions = 1
    MaxFaults = 0
    MaxTerms = 1
    MaxCrashes = 0
    MaxRebalances = 0
SPECIFICATION Spec
INVARIANTS FailureReachesDLQ
CHECK_DEADLOCK FALSE
