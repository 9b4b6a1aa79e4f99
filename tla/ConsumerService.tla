---------------------------- MODULE ConsumerService ---------------------------
(***************************************************************************)
(* The consumer-service processes of one consumer group:                   *)
(*                                                                         *)
(*   Consumer.Run    fetch, decode, handle, commit, one message at a time  *)
(*   Service.handle  index into Elasticsearch; on an error write to the    *)
(*                   dead-letter topic; return nil in every case           *)
(*   main            SIGTERM cancels the one context every call uses; an   *)
(*                   error of Run ends the process with os.Exit(1)         *)
(*                                                                         *)
(* Kafka (group coordinator, committed offsets, the DLQ topic), the reader *)
(* of kafka-go and Elasticsearch are modelled from how this code uses them.*)
(* The events topic is what its producers left there: any sequence, with   *)
(* repeated events and with values that are not an event.                  *)
(***************************************************************************)
EXTENDS Naturals, Sequences, FiniteSets

CONSTANTS Event,            \* event UUIDs
          Unindexable,      \* events Elasticsearch rejects, every time
          Malformed,        \* a value json.Unmarshal rejects
          Partition,        \* partitions of the events topic
          TopicLength,      \* messages in each partition
          Consumer,         \* consumer-service processes
          DLQPartitions,    \* number of partitions of the DLQ topic
          MaxFaults,        \* bound on failed calls to Elasticsearch and Kafka
          MaxTerms,         \* bound on SIGTERMs
          MaxCrashes,       \* bound on crashes
          MaxRebalances     \* bound on rebalances that no exit caused

ASSUME EventAssumption == Unindexable \subseteq Event /\ Malformed \notin Event

ASSUME ConsumerAssumption == "none" \notin Consumer

ASSUME BoundAssumption ==
    /\ TopicLength \in Nat /\ DLQPartitions \in Nat \ {0}
    /\ MaxFaults \in Nat /\ MaxTerms \in Nat /\ MaxCrashes \in Nat /\ MaxRebalances \in Nat

VARIABLES topic,        \* topic[p]: the values of the partition, offset 1 first
          committed,    \* committed[p]: the group's offset: messages done with
          position,     \* position[p]: the last offset p's owner has fetched
          owner,        \* owner[p]: the consumer p is assigned to, or "none"
          pc,           \* pc[c]: where Run is; "stopped", "failed", "down"
          cur,          \* cur[c]: the message at hand, <<partition, offset>>
          term,         \* the consumers that received SIGTERM
          next,         \* next[c]: counter of the DLQ writer's balancer
          es,           \* the index: documents [doc, event]
          dlq,          \* the DLQ topic: <<DLQ partition, event>>
          skipped,      \* history: messages whose index and DLQ write failed
          used          \* how much of each bound was consumed

brokerVars == <<topic, committed, position, owner, dlq>>
vars == <<brokerVars, pc, cur, term, next, es, skipped, used>>

NoMessage == <<>>

Running == {"fetching", "indexing", "routing", "committing"}

Live == {c \in Consumer : pc[c] \in Running}

CurPartition(c) == cur[c][1]
CurOffset(c) == cur[c][2]
CurEvent(c) == topic[CurPartition(c)][CurOffset(c)]

Fault == /\ used.faults < MaxFaults
         /\ used' = [used EXCEPT !.faults = @ + 1]

(* A call fails because SIGTERM has cancelled its context, or by a fault.  *)
CallFails(c) == \/ c \in term /\ UNCHANGED used
                \/ Fault

Init ==
    /\ topic \in [Partition -> [1..TopicLength -> Event \cup {Malformed}]]
    /\ committed = [p \in Partition |-> 0]
    /\ position = [p \in Partition |-> 0]
    /\ owner = [p \in Partition |-> "none"]
    /\ pc = [c \in Consumer |-> "fetching"]
    /\ cur = [c \in Consumer |-> NoMessage]
    /\ term = {}
    /\ next = [c \in Consumer |-> 0]
    /\ es = {}
    /\ dlq = {}
    /\ skipped = {}
    /\ used = [faults |-> 0, terms |-> 0, crashes |-> 0, rebalances |-> 0]

-------------------------------------------------------------------------------
(* Mutant: the offset is committed when the message is read (ReadMessage). *)
FetchAndCommit(c, p) ==
    /\ pc[c] = "fetching"
    /\ owner[p] = c
    /\ position[p] < TopicLength
    /\ position' = [position EXCEPT ![p] = @ + 1]
    /\ committed' = [committed EXCEPT ![p] = position[p] + 1]
    /\ cur' = [cur EXCEPT ![c] = <<p, position[p] + 1>>]
    /\ pc' = [pc EXCEPT ![c] = IF topic[p][position[p] + 1] = Malformed
                               THEN "committing" ELSE "indexing"]
    /\ UNCHANGED <<topic, owner, term, next, es, dlq, skipped, used>>

(* Mutant: Run returns on a message that does not decode.                  *)
FetchOrFail(c, p) ==
    /\ pc[c] = "fetching"
    /\ owner[p] = c
    /\ position[p] < TopicLength
    /\ position' = [position EXCEPT ![p] = @ + 1]
    /\ cur' = [cur EXCEPT ![c] = <<p, position[p] + 1>>]
    /\ pc' = [pc EXCEPT ![c] = IF topic[p][position[p] + 1] = Malformed
                               THEN "failed" ELSE "indexing"]
    /\ UNCHANGED <<topic, committed, owner, term, next, es, dlq, skipped, used>>

(* FetchMessage; a value that does not decode goes straight to its commit. *)
Fetch(c, p) ==
    /\ pc[c] = "fetching"
    /\ owner[p] = c
    /\ position[p] < TopicLength
    /\ position' = [position EXCEPT ![p] = @ + 1]
    /\ cur' = [cur EXCEPT ![c] = <<p, position[p] + 1>>]
    /\ pc' = [pc EXCEPT ![c] = IF topic[p][position[p] + 1] = Malformed
                               THEN "committing" ELSE "indexing"]
    /\ UNCHANGED <<topic, committed, owner, term, next, es, dlq, skipped, used>>

(* FetchMessage fails: Run returns nil when ctx is cancelled.              *)
FetchFails(c) ==
    /\ pc[c] = "fetching"
    /\ \/ /\ c \in term
          /\ pc' = [pc EXCEPT ![c] = "stopped"]
          /\ UNCHANGED used
       \/ /\ c \notin term
          /\ pc' = [pc EXCEPT ![c] = "failed"]
          /\ Fault
    /\ UNCHANGED <<brokerVars, cur, term, next, es, skipped>>

(* Mutant: no DocumentID, Elasticsearch makes one up for each request.     *)
DocumentIDGenerated(c) == cur[c]

(* The document's id is the event's id.                                    *)
DocumentID(c) == CurEvent(c)

(* op_type=index: create the document or overwrite it.                     *)
WriteDocument(c) ==
    es' = {d \in es : d.doc # DocumentID(c)}
              \cup {[doc |-> DocumentID(c), event |-> CurEvent(c)]}

Index(c) ==
    /\ pc[c] = "indexing"
    /\ CurEvent(c) \notin Unindexable
    /\ WriteDocument(c)
    /\ pc' = [pc EXCEPT ![c] = "committing"]
    /\ UNCHANGED <<brokerVars, cur, term, next, skipped, used>>

(* Elasticsearch rejects the document, or the call fails before or after   *)
(* the document was written.                                               *)
IndexFails(c) ==
    /\ pc[c] = "indexing"
    /\ \/ CurEvent(c) \in Unindexable /\ UNCHANGED <<es, used>>
       \/ CurEvent(c) \notin Unindexable /\ CallFails(c) /\ (WriteDocument(c) \/ UNCHANGED es)
    /\ pc' = [pc EXCEPT ![c] = "routing"]
    /\ UNCHANGED <<brokerVars, cur, term, next, skipped>>

(* The DLQ writer sets a key but no Balancer: kafka-go's default deals the *)
(* messages of a writer out in turn.                                       *)
BalancedTo(c) == next[c]

(* Mutant: the balancer's counter runs past the last partition.            *)
WriteToDLQUnwrapped(c) ==
    /\ dlq' = dlq \cup {<<BalancedTo(c), CurEvent(c)>>}
    /\ next' = [next EXCEPT ![c] = @ + 1]

WriteToDLQ(c) ==
    /\ dlq' = dlq \cup {<<BalancedTo(c), CurEvent(c)>>}
    /\ next' = [next EXCEPT ![c] = (@ + 1) % DLQPartitions]

RouteToDLQ(c) ==
    /\ pc[c] = "routing"
    /\ WriteToDLQ(c)
    /\ pc' = [pc EXCEPT ![c] = "committing"]
    /\ UNCHANGED <<topic, committed, position, owner, cur, term, es, skipped, used>>

(* The second failure is logged, and the message is committed all the same.*)
RouteToDLQFails(c) ==
    /\ pc[c] = "routing"
    /\ CallFails(c)
    /\ WriteToDLQ(c) \/ UNCHANGED <<dlq, next>>
    /\ skipped' = skipped \cup {cur[c]}
    /\ pc' = [pc EXCEPT ![c] = "committing"]
    /\ UNCHANGED <<topic, committed, position, owner, cur, term, es>>

(* The group's offset becomes the one after this message, also when the    *)
(* partition has another owner by now.                                     *)
WriteOffset(c) == committed' = [committed EXCEPT ![CurPartition(c)] = CurOffset(c)]

Commit(c) ==
    /\ pc[c] = "committing"
    /\ WriteOffset(c)
    /\ pc' = [pc EXCEPT ![c] = "fetching"]
    /\ cur' = [cur EXCEPT ![c] = NoMessage]
    /\ UNCHANGED <<topic, position, owner, term, next, es, dlq, skipped, used>>

(* CommitMessages returns an error, whether the broker got the offset or   *)
(* not; Run returns it and main calls os.Exit(1).                          *)
CommitFails(c) ==
    /\ pc[c] = "committing"
    /\ CallFails(c)
    /\ WriteOffset(c) \/ UNCHANGED committed
    /\ pc' = [pc EXCEPT ![c] = "failed"]
    /\ cur' = [cur EXCEPT ![c] = NoMessage]
    /\ UNCHANGED <<topic, position, owner, term, next, es, dlq, skipped>>

-------------------------------------------------------------------------------
Terminate(c) ==
    /\ c \in Live \ term
    /\ used.terms < MaxTerms
    /\ used' = [used EXCEPT !.terms = @ + 1]
    /\ term' = term \cup {c}
    /\ UNCHANGED <<brokerVars, pc, cur, next, es, skipped>>

Crash(c) ==
    /\ c \in Live
    /\ used.crashes < MaxCrashes
    /\ used' = [used EXCEPT !.crashes = @ + 1]
    /\ pc' = [pc EXCEPT ![c] = "down"]
    /\ cur' = [cur EXCEPT ![c] = NoMessage]
    /\ UNCHANGED <<brokerVars, term, next, es, skipped>>

(* docker-compose: restart: unless-stopped; a deployment starts it anew.   *)
(* The new process is a new member of the group and owns nothing yet.      *)
Restart(c) ==
    /\ c \notin Live
    /\ pc' = [pc EXCEPT ![c] = "fetching"]
    /\ term' = term \ {c}
    /\ next' = [next EXCEPT ![c] = 0]
    /\ owner' = [p \in Partition |-> IF owner[p] = c THEN "none" ELSE owner[p]]
    /\ UNCHANGED <<topic, committed, position, dlq, cur, es, skipped, used>>

(* The coordinator assigns p to c, which starts at the committed offset.   *)
(* It has to when p's owner is gone, and may at any time (a member that    *)
(* joins, a missed heartbeat); c may be p's owner already.                 *)
Rebalance(p, c) ==
    /\ c \in Live
    /\ \/ owner[p] \notin Live /\ UNCHANGED used
       \/ /\ owner[p] \in Live
          /\ used.rebalances < MaxRebalances
          /\ used' = [used EXCEPT !.rebalances = @ + 1]
    /\ owner' = [owner EXCEPT ![p] = c]
    /\ position' = [position EXCEPT ![p] = committed[p]]
    /\ UNCHANGED <<topic, committed, dlq, pc, cur, term, next, es, skipped>>

-------------------------------------------------------------------------------
Step(c) == \/ \E p \in Partition : Fetch(c, p)
           \/ FetchFails(c)
           \/ Index(c)
           \/ IndexFails(c)
           \/ RouteToDLQ(c)
           \/ RouteToDLQFails(c)
           \/ Commit(c)
           \/ CommitFails(c)

Next == \/ \E c \in Consumer : Step(c) \/ Terminate(c) \/ Crash(c) \/ Restart(c)
        \/ \E p \in Partition, c \in Consumer : Rebalance(p, c)

Spec == Init /\ [][Next]_vars

(* A process runs on while it lives; the supervisor starts it again; the   *)
(* coordinator assigns what nobody owns.  Signals and crashes owe nothing. *)
Fairness ==
    /\ \A c \in Consumer : WF_vars(Step(c)) /\ WF_vars(Restart(c))
    /\ \A p \in Partition :
          WF_vars(owner[p] \notin Live /\ \E c \in Consumer : Rebalance(p, c))

FairSpec == Spec /\ Fairness

-------------------------------------------------------------------------------
TypeOK ==
    /\ topic \in [Partition -> [1..TopicLength -> Event \cup {Malformed}]]
    /\ committed \in [Partition -> 0..TopicLength]
    /\ position \in [Partition -> 0..TopicLength]
    /\ owner \in [Partition -> Consumer \cup {"none"}]
    /\ pc \in [Consumer -> Running \cup {"stopped", "failed", "down"}]
    /\ cur \in [Consumer -> (Partition \X (1..TopicLength)) \cup {NoMessage}]
    /\ term \subseteq Consumer
    /\ next \in [Consumer -> 0..(DLQPartitions - 1)]
    /\ dlq \subseteq (0..(DLQPartitions - 1)) \X Event
    /\ skipped \subseteq Partition \X (1..TopicLength)
    /\ es \subseteq [doc : Event, event : Event]
    /\ used \in [faults : 0..MaxFaults, terms : 0..MaxTerms,
                crashes : 0..MaxCrashes, rebalances : 0..MaxRebalances]

Indexed(e) == \E d \in es : d.event = e

DeadLettered(e) == \E entry \in dlq : entry[2] = e

(* What became of the message is known to somebody: it is no event, or its *)
(* event is in the index or in the DLQ.                                    *)
Accounted(p, o) == \/ topic[p][o] = Malformed
                   \/ Indexed(topic[p][o])
                   \/ DeadLettered(topic[p][o])

Handled(p, o) == Accounted(p, o) \/ <<p, o>> \in skipped

(* At-least-once: the group's offset never passes a message that was not   *)
(* handled, through crashes, restarts, rebalances and late commits of a    *)
(* former owner; the one exception is the double failure the code logs.    *)
CommittedIsHandled ==
    \A p \in Partition : \A o \in 1..committed[p] : Handled(p, o)

(* Redeliveries and repeated messages never give an event two documents,   *)
(* and an event Elasticsearch rejects has none.                            *)
OneDocumentPerEvent ==
    /\ \A d1, d2 \in es : d1.event = d2.event => d1 = d2
    /\ \A d \in es : d.event \notin Unindexable

(* No message blocks its partition: each is handled at last, although some *)
(* do not decode, some are rejected every time and processes come and go.  *)
EveryMessageHandled ==
    \A p \in Partition : \A o \in 1..TopicLength : <>Handled(p, o)

(* What was not indexed was routed to the DLQ before its offset passed.    *)
FailureReachesDLQ ==
    \A p \in Partition : \A o \in 1..committed[p] : Accounted(p, o)
===============================================================================
