\* Routes are configured and nothing fails.
CONSTANTS
    e1 = e1
    e2 = e2
    Event = {e1, e2}
    PrefixOf <- Prefixes
    Ingester = {i1}
    Consumer = {c1}
    Replayer = {}
    Blank = ""
    Topic = {"events.v1", "events.v1.dlq", "events.order.v1"}
    MainTopic = "events.v1"
    RawRoutes <- Routes
    DLQTopic = ""
    SuffixedTopic = "events.v1.dlq"
    TopicPartitions = 6
    InitPartitions = 6
    BrokerDefault = 3
    MaxTopicAttempts = 2
    MaxIndexAttempts = 2
    MaxFaults = 0
    MaxTerms = 0
    MaxCrashes = 0
SPECIFICATION FairSpec
PROPERTIES RoutingNeedsNoConsumerChange
CHECK_DEADLOCK FALSE
