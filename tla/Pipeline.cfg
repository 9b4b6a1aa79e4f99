\* One process of each service comes up beside kafka-init; one call fails, one
\* process crashes and one gets SIGTERM, each at any moment.
CONSTANTS
    e1 = e1
    e2 = e2
    Event = {e1, e2}
    PrefixOf <- Prefixes
    Ingester = {i1}
    Consumer = {c1}
    Replayer = {r1}
    Blank = ""
    Topic = {"events.v1", "events.v1.dlq", "events.order.v1"}
    MainTopic = "events.v1"
    RawRoutes <- Routes
    DLQTopic = ""
    SuffixedTopic = "events.v1.dlq"
    TopicPartitions = 6
    InitPartitions = 6
    BrokerDefault = 3
    MaxTopicAttempts = 2
    MaxIndexAttempts = 2
    MaxFaults = 1
    MaxTerms = 1
    MaxCrashes = 1
SPECIFICATION FairSpec
INVARIANTS TypeOK ReadyIsProvisioned NothingAutoCreated PublishTargetExists
PROPERTIES OnlySchemaRaceEndsProcess ImplementsReadModel EventuallyServes 
CHECK_DEADLOCK FALSE
