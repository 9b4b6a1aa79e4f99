-------------------------------- MODULE Pipeline ------------------------------
(***************************************************************************)
(* The processes of the platform together: how ingest-api, consumer-service*)
(* and replay-service come up, on their own, side by side and with the     *)
(* kafka-init container, on infrastructure that may not be ready; and how  *)
(* an event then travels from a request through PostgreSQL and the topic   *)
(* its resolver names to the index.                                        *)
(*                                                                         *)
(*   NewEventStore   connect, ping, look for the table and create it; one  *)
(*                   attempt, and the loser of a race gets an error        *)
(*   EnsureTopics    read the topics, create what is missing; retried      *)
(*   NewIndexer      check the index, create what is missing; retried      *)
(*   main            an error of any of them ends the process, which is    *)
(*                   started again                                         *)
(*                                                                         *)
(* Requests and messages are coarse steps here; IngestApi and              *)
(* ConsumerService have their details.                                     *)
(***************************************************************************)
EXTENDS Naturals, Sequences, FiniteSets

CONSTANTS Ingester, Consumer, Replayer,  \* the processes of each service
          Event,
          PrefixOf,         \* an event's stream_id up to ":", or Blank
          Blank,            \* the empty string
          Topic,            \* names of topics
          MainTopic,        \* KAFKA_TOPIC
          RawRoutes,        \* KAFKA_TOPIC_ROUTES, split at "," and ":"
          DLQTopic,         \* KAFKA_DLQ_TOPIC
          SuffixedTopic,    \* KAFKA_TOPIC followed by ".dlq"
          TopicPartitions,  \* KAFKA_TOPIC_PARTITIONS
          InitPartitions,   \* the partitions kafka-init asks for
          BrokerDefault,    \* num.partitions of the broker
          MaxTopicAttempts, MaxIndexAttempts,
          MaxFaults,        \* bound on failed calls
          MaxTerms,         \* bound on SIGTERMs
          MaxCrashes        \* bound on crashes

Process == Ingester \cup Consumer \cup Replayer

ASSUME ProcessAssumption == /\ Ingester \cap Consumer = {}
                            /\ Ingester \cap Replayer = {}
                            /\ Consumer \cap Replayer = {}

(* EnsureTopics and NewIndexer both retry: a lost race is tried again.     *)
ASSUME AttemptAssumption == /\ MaxTopicAttempts \in Nat /\ MaxTopicAttempts >= 2
                            /\ MaxIndexAttempts \in Nat /\ MaxIndexAttempts >= 2

ASSUME BoundAssumption == MaxFaults \in Nat /\ MaxTerms \in Nat /\ MaxCrashes \in Nat

-------------------------------------------------------------------------------
(* A pair that is not "prefix:topic" is ignored; the last one of a prefix  *)
(* is the one that counts.                                                 *)
IsRoute(pair) == Len(pair) = 2 /\ pair[1] # Blank /\ pair[2] # Blank

ParseTopicRoutes(raw) ==
    LET routes == {i \in DOMAIN raw : IsRoute(raw[i])}
        Last(k) == CHOOSE i \in routes : /\ raw[i][1] = k
                                         /\ \A j \in routes : raw[j][1] = k => j <= i
    IN  [k \in {raw[i][1] : i \in routes} |-> raw[Last(k)][2]]

TopicRoutes == ParseTopicRoutes(RawRoutes)

DLQTopicName == IF DLQTopic # Blank THEN DLQTopic ELSE SuffixedTopic

(* Both resolvers: without routes every event goes to the fallback.        *)
Resolve(e) == IF PrefixOf[e] \in DOMAIN TopicRoutes THEN TopicRoutes[PrefixOf[e]]
                                                    ELSE MainTopic

(* Mutant: Topics lists the routes and forgets the fallback.               *)
RoutedTopics == {TopicRoutes[k] : k \in DOMAIN TopicRoutes}

Topics == {MainTopic} \cup {TopicRoutes[k] : k \in DOMAIN TopicRoutes}

(* The topics a process makes sure of.                                     *)
Specs(p) == IF p \in Ingester THEN Topics \cup {DLQTopicName}
                              ELSE {MainTopic, DLQTopicName}

Partitions(t) == IF t = DLQTopicName THEN 1 ELSE TopicPartitions

ASSUME TopicAssumption == /\ Topics \cup {DLQTopicName} \subseteq Topic
                          /\ DLQTopicName \notin Topics

ASSUME PartitionAssumption == /\ TopicPartitions \in Nat \ {0}
                              /\ InitPartitions \in Nat \ {0}
                              /\ BrokerDefault \in Nat \ {0}

-------------------------------------------------------------------------------
VARIABLES pc,        \* pc[p]: where the main function of p is
          attempts,  \* attempts[p]: failed attempts of the call it is in
          toCreate,  \* toCreate[p]: the topics it did not find
          term,      \* the processes whose context SIGTERM has cancelled
          table,     \* the events table exists
          topics,    \* topics[t]: the partitions of t in Kafka; 0: no topic
          index,     \* the index: "absent", "mapped", or "dynamic", that is
                     \* created by Elasticsearch for a document
          initStep,  \* kafka-init: the command it is at; 3: ended
          stored,    \* the events in PostgreSQL
          pending,   \* <<p, e>>: p has stored e and not published it yet
          log,       \* log[t]: the events in topic t
          offset,    \* what the consumer group has committed of MainTopic
          shown,     \* the documents in the index
          refused,   \* events Elasticsearch did not take: the DLQ's business
          used       \* how much of each bound was consumed

startVars == <<pc, attempts, toCreate, term>>
infraVars == <<table, topics, index, initStep>>
eventVars == <<stored, pending, log, offset, shown, refused>>
vars == <<startVars, infraVars, eventVars, used>>

Starting == {"store", "schema", "topics", "creating", "index", "mapping"}

(* The containers of kafka-init create these, if they do not exist.        *)
InitTopic == <<MainTopic, DLQTopicName>>

Fault == /\ used.faults < MaxFaults
         /\ used' = [used EXCEPT !.faults = @ + 1]

(* A call on ctx fails because SIGTERM has cancelled it, or by a fault.    *)
CallFails(p) == \/ p \in term /\ UNCHANGED used
                \/ Fault

(* Mutant: the partitions are left to the broker (-1).                     *)
CreatedUnspecified(TS) == [t \in Topic |-> IF t \in TS /\ topics[t] = 0 THEN 0 - 1
                                                                         ELSE topics[t]]

(* Kafka creates a topic of TS that does not exist.                        *)
Created(TS) == [t \in Topic |-> IF t \in TS /\ topics[t] = 0 THEN Partitions(t)
                                                              ELSE topics[t]]

(* A broker with auto-create makes the topic a reader asks for.            *)
ReadBy(p) == [t \in Topic |-> IF p \in Consumer /\ t = MainTopic /\ topics[t] = 0
                              THEN BrokerDefault ELSE topics[t]]

Init ==
    /\ pc = [p \in Process |-> "down"]
    /\ attempts = [p \in Process |-> 0]
    /\ toCreate = [p \in Process |-> {}]
    /\ term = {}
    /\ table = FALSE
    /\ topics = [t \in Topic |-> 0]
    /\ index = "absent"
    /\ initStep = 1
    /\ stored = {}
    /\ pending = {}
    /\ log = [t \in Topic |-> <<>>]
    /\ offset = 0
    /\ shown = {}
    /\ refused = {}
    /\ used = [faults |-> 0, terms |-> 0, crashes |-> 0]

-------------------------------------------------------------------------------
(* The process ends, and with it the requests it was working on.           *)
Exit(p) ==
    /\ pc' = [pc EXCEPT ![p] = "down"]
    /\ attempts' = [attempts EXCEPT ![p] = 0]
    /\ toCreate' = [toCreate EXCEPT ![p] = {}]
    /\ term' = term \ {p}
    /\ pending' = {x \in pending : x[1] # p}

(* The call succeeded; main goes on to the next one.                       *)
GoTo(p, next) ==
    /\ pc' = [pc EXCEPT ![p] = next]
    /\ attempts' = [attempts EXCEPT ![p] = 0]
    /\ toCreate' = [toCreate EXCEPT ![p] = {}]
    /\ UNCHANGED <<term, pending>>

(* The attempt failed, but not the last: back to its beginning.            *)
Retry(p, first) ==
    /\ pc' = [pc EXCEPT ![p] = first]
    /\ attempts' = [attempts EXCEPT ![p] = @ + 1]
    /\ toCreate' = [toCreate EXCEPT ![p] = {}]
    /\ UNCHANGED <<term, pending>>

(* The process is started, the first time or again.                        *)
Start(p) ==
    /\ pc[p] = "down"
    /\ GoTo(p, IF p \in Consumer THEN "topics" ELSE "store")
    /\ UNCHANGED <<infraVars, stored, log, offset, shown, refused, used>>

(* What main calls when it has its store.                                  *)
AfterStore(p) == IF p \in Ingester THEN "topics" ELSE "ready"

(* NewEventStore: connect, ping and send the schema, which looks for the   *)
(* table first (IF NOT EXISTS).                                            *)
OpenStore(p) ==
    /\ pc[p] = "store"
    /\ GoTo(p, IF table THEN AfterStore(p) ELSE "schema")
    /\ UNCHANGED <<infraVars, stored, log, offset, shown, refused, used>>

(* PostgreSQL creates the table it has not found.  When another process    *)
(* has created it in the meantime, the statement fails with a unique       *)
(* violation in the catalog, and main ends the process.                    *)
CreateSchema(p) ==
    /\ pc[p] = "schema"
    /\ table' = TRUE
    /\ IF table THEN Exit(p) ELSE GoTo(p, AfterStore(p))
    /\ UNCHANGED <<topics, index, initStep, stored, log, offset, shown, refused, used>>

(* There is no second attempt.  The answer to the schema may be lost.      *)
OpenStoreFails(p) ==
    /\ pc[p] \in {"store", "schema"}
    /\ CallFails(p)
    /\ table' \in {table, table \/ pc[p] = "schema"}
    /\ Exit(p)
    /\ UNCHANGED <<topics, index, initStep, stored, log, offset, shown, refused>>

-------------------------------------------------------------------------------
(* Mutant: after the last attempt main logs the error and goes on.         *)
TopicsAttemptIgnored(p) ==
    IF p \in term \/ attempts[p] + 1 = MaxTopicAttempts
    THEN GoTo(p, "index")
    ELSE Retry(p, "topics")

(* EnsureTopics waits after a failed attempt, unless ctx is cancelled, and *)
(* main ends the process when it returns an error.                         *)
TopicsAttemptFails(p) ==
    IF p \in term \/ attempts[p] + 1 = MaxTopicAttempts
    THEN Exit(p)
    ELSE Retry(p, "topics")

(* Mutant: the topics that exist are not left out.                         *)
ReadNoTopics(p) ==
    /\ pc[p] = "topics"
    /\ p \notin term
    /\ pc' = [pc EXCEPT ![p] = "creating"]
    /\ toCreate' = [toCreate EXCEPT ![p] = Specs(p)]
    /\ UNCHANGED <<attempts, term, infraVars, eventVars, used>>

(* Dial and ReadPartitions: which topics do not exist yet.                 *)
ReadTopics(p) ==
    /\ pc[p] = "topics"
    /\ p \notin term
    /\ LET absent == {t \in Specs(p) : topics[t] = 0}
       IN  IF absent = {}
           THEN GoTo(p, "index")
           ELSE /\ pc' = [pc EXCEPT ![p] = "creating"]
                /\ toCreate' = [toCreate EXCEPT ![p] = absent]
                /\ UNCHANGED <<attempts, term, pending>>
    /\ UNCHANGED <<infraVars, stored, log, offset, shown, refused, used>>

ReadTopicsFails(p) ==
    /\ pc[p] = "topics"
    /\ CallFails(p)
    /\ TopicsAttemptFails(p)
    /\ UNCHANGED <<infraVars, stored, log, offset, shown, refused>>

(* The controller creates what is still missing.  For a topic another      *)
(* process has created in the meantime it answers with an error, which     *)
(* kafka-go may or may not report.                                         *)
CreateTopics(p) ==
    /\ pc[p] = "creating"
    /\ topics' = Created(toCreate[p])
    /\ \/ GoTo(p, "index")
       \/ /\ \E t \in toCreate[p] : topics[t] # 0
          /\ TopicsAttemptFails(p)
    /\ UNCHANGED <<table, index, initStep, stored, log, offset, shown, refused, used>>

(* Some of the topics may have been created.                               *)
CreateTopicsFails(p) ==
    /\ pc[p] = "creating"
    /\ CallFails(p)
    /\ \E TS \in SUBSET toCreate[p] : topics' = Created(TS)
    /\ TopicsAttemptFails(p)
    /\ UNCHANGED <<table, index, initStep, stored, log, offset, shown, refused>>

-------------------------------------------------------------------------------

(* The servers listen; the consumer's reader joins its group, and where it *)
(* has never committed an offset it begins with the first (StartOffset).   *)
Serve(p) == GoTo(p, "ready") /\ topics' = ReadBy(p) /\ UNCHANGED offset

(* Mutant: NewIndexer returns the first error.                             *)
IndexAttemptIsLast(p) == Exit(p) /\ UNCHANGED <<topics, offset>>

(* NewIndexer waits with time.Sleep: a cancelled ctx does not end it.      *)
IndexAttemptFails(p) ==
    /\ IF attempts[p] + 1 = MaxIndexAttempts THEN Exit(p) ELSE Retry(p, "index")
    /\ UNCHANGED <<topics, offset>>

CheckIndex(p) ==
    /\ pc[p] = "index"
    /\ IF index # "absent"
       THEN Serve(p)
       ELSE /\ pc' = [pc EXCEPT ![p] = "mapping"]
            /\ UNCHANGED <<attempts, toCreate, term, pending, topics, offset>>
    /\ UNCHANGED <<table, index, initStep, stored, log, shown, refused, used>>

(* An error ends the attempt; any status but 200 reads as "not there".     *)
CheckIndexFails(p) ==
    /\ pc[p] = "index"
    /\ Fault
    /\ \/ IndexAttemptFails(p)
       \/ /\ pc' = [pc EXCEPT ![p] = "mapping"]
          /\ UNCHANGED <<attempts, toCreate, term, pending, topics, offset>>
    /\ UNCHANGED <<table, index, initStep, stored, log, shown, refused>>

(* Elasticsearch refuses to create an index that exists.                   *)
CreateIndex(p) ==
    /\ pc[p] = "mapping"
    /\ IF index = "absent"
       THEN index' = "mapped" /\ Serve(p)
       ELSE UNCHANGED index /\ IndexAttemptFails(p)
    /\ UNCHANGED <<table, initStep, stored, log, shown, refused, used>>

(* The index may have been created all the same.                           *)
CreateIndexFails(p) ==
    /\ pc[p] = "mapping"
    /\ Fault
    /\ index' \in {index, IF index = "absent" THEN "mapped" ELSE index}
    /\ IndexAttemptFails(p)
    /\ UNCHANGED <<table, initStep, stored, log, shown, refused>>

-------------------------------------------------------------------------------
(* SIGTERM cancels the context main passes on.                             *)
Signal(p) ==
    /\ pc[p] # "down"
    /\ p \notin term
    /\ used.terms < MaxTerms
    /\ used' = [used EXCEPT !.terms = @ + 1]
    /\ term' = term \cup {p}
    /\ UNCHANGED <<pc, attempts, toCreate, infraVars, eventVars>>

(* A graceful end: the requests in progress are finished first.            *)
Stop(p) ==
    /\ pc[p] = "ready"
    /\ p \in term
    /\ \A x \in pending : x[1] # p
    /\ Exit(p)
    /\ UNCHANGED <<infraVars, stored, log, offset, shown, refused, used>>

(* A crash, an out-of-memory kill, or a SIGKILL after the grace period.    *)
Crash(p) ==
    /\ pc[p] # "down"
    /\ used.crashes < MaxCrashes
    /\ used' = [used EXCEPT !.crashes = @ + 1]
    /\ Exit(p)
    /\ UNCHANGED <<infraVars, stored, log, offset, shown, refused>>

(* kafka-init: kafka-topics.sh --create --if-not-exists, twice.            *)
InitCreate ==
    /\ initStep < 3
    /\ LET t == InitTopic[initStep]
       IN  topics' = [topics EXCEPT ![t] = IF @ = 0 THEN InitPartitions ELSE @]
    /\ initStep' = initStep + 1
    /\ UNCHANGED <<startVars, table, index, eventVars, used>>

(* "&&": the second command does not run when the first one has failed.    *)
InitFails ==
    /\ initStep < 3
    /\ Fault
    /\ initStep' = 3
    /\ UNCHANGED <<startVars, table, topics, index, eventVars>>

-------------------------------------------------------------------------------
(* Mutant: the event is published before it is stored.                     *)
PostPublishingFirst(p, e) ==
    /\ p \in Ingester /\ pc[p] = "ready" /\ p \notin term
    /\ e \notin stored
    /\ pending' = pending \cup {<<p, e>>}
    /\ UNCHANGED <<startVars, infraVars, stored, log, offset, shown, refused, used>>

(* A request is served up to the INSERT of its event.                      *)
Post(p, e) ==
    /\ p \in Ingester /\ pc[p] = "ready" /\ p \notin term
    /\ e \notin stored
    /\ stored' = stored \cup {e}
    /\ pending' = pending \cup {<<p, e>>}
    /\ UNCHANGED <<startVars, infraVars, log, offset, shown, refused, used>>

(* Publish writes the event to the topic the resolver names.               *)
Publish(p, e) ==
    /\ <<p, e>> \in pending
    /\ topics[Resolve(e)] # 0
    /\ log' = [log EXCEPT ![Resolve(e)] = Append(@, e)]
    /\ pending' = pending \ {<<p, e>>}
    /\ UNCHANGED <<startVars, infraVars, stored, offset, shown, refused, used>>

(* The answer is lost: the writer writes the message again.                *)
PublishAgain(p, e) ==
    /\ <<p, e>> \in pending
    /\ topics[Resolve(e)] # 0
    /\ Fault
    /\ log' = [log EXCEPT ![Resolve(e)] = Append(@, e)]
    /\ UNCHANGED <<startVars, infraVars, stored, pending, offset, shown, refused>>

(* The error of Publish is logged, and the event stays unpublished; so it  *)
(* is, without a fault, for a topic that does not exist.                   *)
PublishFails(p, e) ==
    /\ <<p, e>> \in pending
    /\ IF topics[Resolve(e)] = 0 THEN UNCHANGED used ELSE Fault
    /\ pending' = pending \ {<<p, e>>}
    /\ UNCHANGED <<startVars, infraVars, stored, log, offset, shown, refused>>

-------------------------------------------------------------------------------
(* The consumer group has another message of the one topic it reads.       *)
HasMessage(c) == c \in Consumer /\ pc[c] = "ready" /\ offset < Len(log[MainTopic])

(* Elasticsearch indexes a document, into an index of its own making when  *)
(* there is none.                                                          *)
IndexDocument(e) ==
    /\ shown' = shown \cup {e}
    /\ index' = IF index = "absent" THEN "dynamic" ELSE index

Consume(c) ==
    /\ HasMessage(c)
    /\ c \notin term
    /\ IndexDocument(log[MainTopic][offset + 1])
    /\ offset' = offset + 1
    /\ UNCHANGED <<startVars, table, topics, initStep, stored, pending, log, refused, used>>

(* Elasticsearch refuses the event: the message is handed to the DLQ and   *)
(* committed.                                                              *)
ConsumeRefused(c) ==
    /\ HasMessage(c)
    /\ c \notin term
    /\ Fault
    /\ refused' = refused \cup {log[MainTopic][offset + 1]}
    /\ offset' = offset + 1
    /\ UNCHANGED <<startVars, infraVars, stored, pending, log, shown>>

(* The process ends between the document and the commit of its offset.     *)
ConsumerFails(c) ==
    /\ HasMessage(c)
    /\ CallFails(c)
    /\ \/ IndexDocument(log[MainTopic][offset + 1])
       \/ UNCHANGED <<shown, index>>
    /\ Exit(c)
    /\ UNCHANGED <<table, topics, initStep, stored, log, offset, refused>>

-------------------------------------------------------------------------------
StartUp(p) == \/ OpenStore(p) \/ CreateSchema(p) \/ ReadTopics(p) \/ CreateTopics(p)
              \/ CheckIndex(p) \/ CreateIndex(p)

CallFailure(p) == \/ OpenStoreFails(p) \/ ReadTopicsFails(p) \/ CreateTopicsFails(p)
                  \/ CheckIndexFails(p) \/ CreateIndexFails(p)

Consuming(c) == Consume(c) \/ ConsumeRefused(c) \/ ConsumerFails(c)

Publishing(p, e) == Publish(p, e) \/ PublishAgain(p, e) \/ PublishFails(p, e)

Next == \/ \E p \in Process : \/ Start(p) \/ StartUp(p) \/ CallFailure(p)
                              \/ Signal(p) \/ Stop(p) \/ Crash(p)
                              \/ Consuming(p)
                              \/ \E e \in Event : Post(p, e) \/ Publishing(p, e)
        \/ InitCreate \/ InitFails

Spec == Init /\ [][Next]_vars

(* docker-compose starts these again ("restart: unless-stopped");          *)
(* replay-service is started by hand.                                      *)
Supervised == Ingester \cup Consumer

(* A process goes on with its start-up, a request is finished, and the     *)
(* group's messages are fetched as long as a consumer runs.  A call that   *)
(* fails on a cancelled context counts as a step of the start-up.  Clients,*)
(* faults, signals, crashes and kafka-init owe nothing.                    *)
Fairness ==
    /\ \A p \in Supervised : WF_vars(Start(p))
    /\ \A p \in Process : /\ WF_vars(StartUp(p) \/ CallFailure(p))
                          /\ WF_vars(Stop(p))
    /\ \A p \in Ingester, e \in Event : WF_vars(Publishing(p, e))
    /\ \A c \in Consumer : WF_vars(Consuming(c))

FairSpec == Spec /\ Fairness

-------------------------------------------------------------------------------
TypeOK ==
    /\ pc \in [Process -> Starting \cup {"down", "ready"}]
    /\ attempts \in [Process -> Nat]
    /\ toCreate \in [Process -> SUBSET Topic]
    /\ term \subseteq Process
    /\ table \in BOOLEAN
    /\ topics \in [Topic -> Nat]
    /\ index \in {"absent", "mapped", "dynamic"}
    /\ initStep \in 1..3
    /\ stored \subseteq Event
    /\ pending \subseteq Ingester \X Event
    /\ log \in [Topic -> Seq(Event)]
    /\ offset \in Nat
    /\ shown \subseteq Event
    /\ refused \subseteq Event
    /\ used \in [faults : Nat, terms : Nat, crashes : Nat]

(* However the processes come up and whatever fails, a process that serves *)
(* finds what it needs: the table, its topics, the index with the mapping. *)
Needs(p) == /\ p \notin Consumer => table
            /\ p \notin Replayer => /\ \A t \in Specs(p) : topics[t] # 0
                                    /\ index = "mapped"

ReadyIsProvisioned == \A p \in Process : pc[p] = "ready" => Needs(p)

(* Nothing comes into being with the defaults of the broker or with a      *)
(* mapping Elasticsearch has guessed (TopicManager exists for this).       *)
NothingAutoCreated ==
    /\ \A t \in Topic : topics[t] \in {0, Partitions(t)} \cup
                            (IF \E i \in 1..2 : InitTopic[i] = t THEN {InitPartitions} ELSE {})
    /\ index # "dynamic"

(* No event is lost for want of a topic: wherever the resolver sends an    *)
(* event that a request is about to publish, there is a topic.             *)
PublishTargetExists == \A x \in pending : topics[Resolve(x[2])] # 0

(* Processes that come up at the same time race for the table, the topics  *)
(* and the index.  The retries absorb the last two.  Where no call fails,  *)
(* nothing crashes and no signal arrives, the one thing that ends a process*)
(* in its start-up is the table another one created after it had looked:   *)
(* NewEventStore makes one attempt.  Its next start will find the table.   *)
OnlySchemaRaceEndsProcess ==
    [][\A p \in Process : pc[p] \in Starting /\ pc'[p] = "down"
            => \/ used'.faults + used'.terms + used'.crashes > 0
               \/ pc[p] = "schema" /\ table /\ table']_vars

(* The index shows only what is in PostgreSQL, which comes first.          *)
Promise == INSTANCE ReadModel
ImplementsReadModel == Promise!Spec

(* The platform comes up in whatever order its parts do, and comes back    *)
(* after every fault, signal and crash.                                    *)
EventuallyServes == <>[](\A p \in Supervised : pc[p] = "ready")

(* Every event of the topic the group reads is shown or refused in the     *)
(* end, those included that arrived before a consumer had ever come up.    *)
InTopic(e, t) == \E i \in DOMAIN log[t] : log[t][i] = e


(* What the comment of TopicResolver says: routes are an affair of main;   *)
(* neither the producer nor the consumer needs to change for them.  Then   *)
(* an event that is published becomes visible, whatever its topic.         *)
RoutingNeedsNoConsumerChange ==
    \A e \in Event : (\E t \in Topic : InTopic(e, t)) ~> (e \in shown)
===============================================================================
