------------------------- MODULE ConsumerServiceProofs ------------------------
(***************************************************************************)
(* ConsumerService, for every topic, group and fault budget: at-least-once *)
(* handling and one document per event.                                    *)
(***************************************************************************)
EXTENDS ConsumerService, TLAPS

Busy == {"indexing", "routing", "committing"}

-------------------------------------------------------------------------------
(* The inductive invariant.  CommittedIsHandled does not say why a commit  *)
(* may move the offset to the message at hand: because that message and    *)
(* all before it are handled.  The ones before it were when it was fetched *)
(* (PositionIsHandled), and a handled message stays handled, so that this  *)
(* holds for a consumer that has lost the partition as well.               *)
(***************************************************************************)
CurIsAMessage ==
    \A c \in Consumer : pc[c] \in Busy =>
        /\ cur[c] \in Partition \X (1..TopicLength)
        /\ pc[c] # "committing" => CurEvent(c) \in Event

EarlierIsHandled ==
    \A c \in Consumer : pc[c] \in Busy =>
        \A o \in 1..(CurOffset(c) - 1) : Handled(CurPartition(c), o)

CommittingIsHandled ==
    \A c \in Consumer : pc[c] = "committing" => Handled(CurPartition(c), CurOffset(c))

PositionIsHandled ==
    \A p \in Partition, c \in Consumer : owner[p] = c /\ c \in Live =>
        \A o \in 1..position[p] : Handled(p, o) \/ (pc[c] \in Busy /\ cur[c] = <<p, o>>)

GroupTyped ==
    /\ topic \in [Partition -> [1..TopicLength -> Event \cup {Malformed}]]
    /\ committed \in [Partition -> 0..TopicLength]
    /\ position \in [Partition -> 0..TopicLength]
    /\ owner \in [Partition -> Consumer \cup {"none"}]
    /\ pc \in [Consumer -> Running \cup {"stopped", "failed", "down"}]
    /\ cur \in [Consumer -> (Partition \X (1..TopicLength)) \cup {NoMessage}]
    /\ term \subseteq Consumer
    /\ next \in [Consumer -> 0..(DLQPartitions - 1)]
    /\ dlq \subseteq (0..(DLQPartitions - 1)) \X Event
    /\ skipped \subseteq Partition \X (1..TopicLength)

WithinBounds == used \in [faults : 0..MaxFaults, terms : 0..MaxTerms,
                          crashes : 0..MaxCrashes, rebalances : 0..MaxRebalances]

DocumentsAreKeyed ==
    \A d \in es : d.event \in Event \ Unindexable /\ d = [doc |-> d.event, event |-> d.event]

IInv == /\ GroupTyped
        /\ CurIsAMessage
        /\ EarlierIsHandled
        /\ CommittingIsHandled
        /\ PositionIsHandled
        /\ DocumentsAreKeyed
        /\ CommittedIsHandled

(* Messages are only ever added to what is handled.                        *)
Monotone == \A p, o : Handled(p, o) => Handled(p, o)'

(* The group starts with nothing fetched and nothing committed.            *)
LEMMA InitIInv == Init => IInv
<1> SUFFICES ASSUME Init PROVE IInv
  OBVIOUS
<1> USE DEF Init
<1>1. GroupTyped
  BY BoundAssumption DEF GroupTyped, Running
<1>2. CurIsAMessage /\ EarlierIsHandled /\ CommittingIsHandled
  BY DEF CurIsAMessage, EarlierIsHandled, CommittingIsHandled, Busy
<1>3. PositionIsHandled
  BY DEF PositionIsHandled
<1>4. DocumentsAreKeyed /\ CommittedIsHandled
  BY DEF DocumentsAreKeyed, CommittedIsHandled
<1>5. QED
  BY <1>1, <1>2, <1>3, <1>4 DEF IInv

(* The topic is fixed, so a message stays handled when its event stays in  *)
(* the index, in the DLQ or in skipped.                                    *)
LEMMA HandledStays ==
    ASSUME topic' = topic, dlq \subseteq dlq', skipped \subseteq skipped',
           \A d \in es : \E d2 \in es' : d2.event = d.event
    PROVE  Monotone
<1>1. \A e : Indexed(e) => Indexed(e)'
  BY DEF Indexed
<1>2. \A e : DeadLettered(e) => DeadLettered(e)'
  BY DEF DeadLettered
<1>3. \A p, o : Accounted(p, o) => Accounted(p, o)'
  BY <1>1, <1>2 DEF Accounted
<1>4. QED
  BY <1>3 DEF Monotone, Handled

(* A step that leaves the index and both topics alone handles nothing.     *)
LEMMA SameHandled ==
    ASSUME UNCHANGED <<topic, es, dlq, skipped>>
    PROVE  \A p, o : Handled(p, o)' <=> Handled(p, o)
BY DEF Handled, Accounted, Indexed, DeadLettered

(* Indexing overwrites the document of the same event only.                *)
LEMMA Overwrite ==
    ASSUME IInv, NEW c \in Consumer, WriteDocument(c),
           CurEvent(c) \in Event \ Unindexable
    PROVE  /\ \A d \in es : \E d2 \in es' : d2.event = d.event
           /\ \E d \in es' : d.event = CurEvent(c)
           /\ DocumentsAreKeyed'
<1> DEFINE new == [doc |-> CurEvent(c), event |-> CurEvent(c)]
<1>1. es' = {d \in es : d.doc # CurEvent(c)} \cup {new}
  BY DEF WriteDocument, DocumentID
<1>2. new.event = CurEvent(c) /\ new.doc = CurEvent(c)
  OBVIOUS
<1>3. \A d \in es : d.event = d.doc
  BY DEF IInv, DocumentsAreKeyed
<1>4. \A d \in es : \E d2 \in es' : d2.event = d.event
  BY <1>1, <1>2, <1>3
<1>5. \E d \in es' : d.event = CurEvent(c)
  BY <1>1, <1>2
<1>6. ASSUME NEW d \in es'
      PROVE  d.event \in Event \ Unindexable /\ d = [doc |-> d.event, event |-> d.event]
  <2>1. CASE d = new
    BY <2>1
  <2>2. CASE d \in es
    BY <2>2 DEF IInv, DocumentsAreKeyed
  <2>3. QED
    BY <1>1, <1>6, <2>1, <2>2
<1>7. DocumentsAreKeyed'
  BY <1>6 DEF DocumentsAreKeyed
<1>8. QED
  BY <1>4, <1>5, <1>7

(* A step of handle: the message stays, and it is handled when its commit  *)
(* comes next.                                                             *)
LEMMA HandleStep ==
    ASSUME IInv, NEW c \in Consumer, NEW to \in Busy,
           UNCHANGED <<topic, committed, position, owner, cur>>,
           Monotone, GroupTyped', DocumentsAreKeyed',
           pc[c] \in {"indexing", "routing"},
           pc' = [pc EXCEPT ![c] = to],
           to = "committing" => Handled(cur[c][1], cur[c][2])'
    PROVE  IInv'
<1> USE DEF IInv
<1>1. /\ \A d \in Consumer : pc'[d] = IF d = c THEN to ELSE pc[d]
      /\ \A d \in Consumer : pc'[d] \in Busy <=> pc[d] \in Busy
      /\ \A d \in Consumer : d \in Live' <=> d \in Live
  BY DEF GroupTyped, Live, Running, Busy
<1>2. \A d \in Consumer : /\ CurPartition(d)' = CurPartition(d)
                          /\ CurOffset(d)' = CurOffset(d)
                          /\ CurEvent(d)' = CurEvent(d)
  BY DEF CurPartition, CurOffset, CurEvent
<1>3. CurIsAMessage'
  BY <1>1, <1>2 DEF CurIsAMessage, Busy
<1>4. EarlierIsHandled'
  BY <1>1, <1>2 DEF EarlierIsHandled, Monotone
<1>5. CommittingIsHandled'
  BY <1>1, <1>2 DEF CommittingIsHandled, Monotone, CurPartition, CurOffset
<1>6. PositionIsHandled'
  BY <1>1 DEF PositionIsHandled, Monotone
<1>7. CommittedIsHandled'
  BY DEF CommittedIsHandled, Monotone
<1>8. QED
  BY <1>3, <1>4, <1>5, <1>6, <1>7

(* Service.handle calls Index: with or without an error the offset stays.  *)
LEMMA IndexStep ==
    ASSUME IInv, NEW c \in Consumer, Index(c) \/ IndexFails(c)
    PROVE  IInv'
<1> USE DEF IInv
<1>1. pc[c] = "indexing" /\ UNCHANGED <<brokerVars, cur, term, next, skipped>>
  BY DEF Index, IndexFails
<1>2. CurEvent(c) \in Event
  BY <1>1 DEF CurIsAMessage, Busy
<1>3. UNCHANGED <<topic, committed, position, owner, cur, dlq, term, next, skipped>>
  BY <1>1 DEF brokerVars
<1>4. CASE Index(c)
  <2>1. /\ WriteDocument(c) /\ CurEvent(c) \in Event \ Unindexable
        /\ pc' = [pc EXCEPT ![c] = "committing"]
    BY <1>2, <1>4 DEF Index
  <2>2. Monotone /\ DocumentsAreKeyed'
    BY <1>3, <2>1, Overwrite, HandledStays
  <2>3. GroupTyped'
    BY <1>3, <2>1 DEF GroupTyped, Running
  <2>4. Handled(cur[c][1], cur[c][2])'
    <3>1. \E d \in es' : d.event = topic[cur[c][1]][cur[c][2]]
      BY <2>1, Overwrite DEF CurEvent, CurPartition, CurOffset
    <3>2. QED
      BY <1>3, <3>1 DEF Handled, Accounted, Indexed
  <2>5. QED
    BY <1>1, <1>3, <2>1, <2>2, <2>3, <2>4, HandleStep DEF Busy
<1>5. CASE IndexFails(c)
  <2>1. pc' = [pc EXCEPT ![c] = "routing"]
    BY <1>5 DEF IndexFails
  <2>2. Monotone /\ DocumentsAreKeyed'
    <3>1. CASE es' = es
      BY <1>3, <3>1, HandledStays DEF DocumentsAreKeyed
    <3>2. CASE WriteDocument(c) /\ CurEvent(c) \notin Unindexable
      BY <1>2, <1>3, <3>2, Overwrite, HandledStays
    <3>3. QED
      BY <1>5, <3>1, <3>2 DEF IndexFails
  <2>3. GroupTyped'
    BY <1>3, <2>1 DEF GroupTyped, Running
  <2>4. QED
    BY <1>1, <1>3, <2>1, <2>2, <2>3, HandleStep DEF Busy
<1>6. QED
  BY <1>4, <1>5

(* routeToDLQ: the message is in the DLQ or in skipped before its commit.  *)
LEMMA RouteStep ==
    ASSUME IInv, NEW c \in Consumer, RouteToDLQ(c) \/ RouteToDLQFails(c)
    PROVE  IInv'
<1> USE DEF IInv
<1>1. /\ pc[c] = "routing" /\ pc' = [pc EXCEPT ![c] = "committing"]
      /\ UNCHANGED <<topic, committed, position, owner, cur, term, es>>
      /\ WriteToDLQ(c) \/ UNCHANGED <<dlq, next>>
      /\ \/ WriteToDLQ(c) /\ UNCHANGED skipped
         \/ skipped' = skipped \cup {cur[c]}
  BY DEF RouteToDLQ, RouteToDLQFails
<1>2. CurEvent(c) \in Event /\ cur[c] \in Partition \X (1..TopicLength)
  BY <1>1 DEF CurIsAMessage, Busy
<1>3. dlq \subseteq dlq' /\ skipped \subseteq skipped'
  BY <1>1 DEF WriteToDLQ
<1>4. Monotone
  BY <1>1, <1>3, HandledStays
<1>5. GroupTyped'
  <2>1. next[c] \in 0..(DLQPartitions - 1) /\ BalancedTo(c) = next[c]
    BY DEF GroupTyped, BalancedTo
  <2>2. (next[c] + 1) % DLQPartitions \in 0..(DLQPartitions - 1)
    BY <2>1, BoundAssumption
  <2>3. /\ next' \in [Consumer -> 0..(DLQPartitions - 1)]
        /\ dlq' \subseteq (0..(DLQPartitions - 1)) \X Event
    <3>1. CASE WriteToDLQ(c)
      BY <1>2, <2>1, <2>2, <3>1 DEF WriteToDLQ, GroupTyped
    <3>2. CASE UNCHANGED <<dlq, next>>
      BY <3>2 DEF GroupTyped
    <3>3. QED
      BY <1>1, <3>1, <3>2
  <2>4. skipped' \subseteq Partition \X (1..TopicLength)
    BY <1>1, <1>2 DEF GroupTyped
  <2>5. QED
    BY <1>1, <2>3, <2>4 DEF GroupTyped, Running
<1>6. Handled(cur[c][1], cur[c][2])'
  <2>1. cur[c] = <<cur[c][1], cur[c][2]>>
    BY <1>2
  <2>2. CASE WriteToDLQ(c)
    <3>1. <<BalancedTo(c), CurEvent(c)>> \in dlq'
      BY <2>2 DEF WriteToDLQ
    <3>2. \E entry \in dlq' : entry[2] = CurEvent(c)
      <4> DEFINE new == <<BalancedTo(c), CurEvent(c)>>
      <4>1. new[2] = CurEvent(c)
        OBVIOUS
      <4>2. QED
        BY <3>1, <4>1
    <3>3. QED
      BY <1>1, <3>2 DEF Handled, Accounted, DeadLettered, CurEvent, CurPartition, CurOffset
  <2>3. CASE skipped' = skipped \cup {cur[c]}
    BY <1>1, <2>1, <2>3 DEF Handled
  <2>4. QED
    BY <1>1, <2>2, <2>3
<1>7. DocumentsAreKeyed'
  BY <1>1 DEF DocumentsAreKeyed
<1>8. QED
  BY <1>1, <1>4, <1>5, <1>6, <1>7, HandleStep DEF Busy

(* Fetching takes the message after the position; what comes before it is  *)
(* handled, since its consumer had nothing at hand.                        *)
LEMMA FetchStep ==
    ASSUME IInv, NEW c \in Consumer, NEW p \in Partition, Fetch(c, p)
    PROVE  IInv'
<1> USE DEF IInv
<1> DEFINE at == position[p] + 1
           to == IF topic[p][at] = Malformed THEN "committing" ELSE "indexing"
<1>1. /\ pc[c] = "fetching" /\ owner[p] = c /\ at \in 1..TopicLength
      /\ UNCHANGED <<topic, committed, owner, term, next, es, dlq, skipped>>
  BY BoundAssumption DEF Fetch, GroupTyped
<1>2. /\ pc' = [pc EXCEPT ![c] = to] /\ cur' = [cur EXCEPT ![c] = <<p, at>>]
      /\ position' = [position EXCEPT ![p] = at]
  BY DEF Fetch
<1>3. /\ pc'[c] = to /\ cur'[c] = <<p, at>> /\ to \in Busy /\ pc[c] \notin Busy
      /\ \A d \in Consumer \ {c} : pc'[d] = pc[d] /\ cur'[d] = cur[d]
      /\ position'[p] = at
      /\ \A q \in Partition \ {p} : position'[q] = position[q]
  BY <1>1, <1>2 DEF GroupTyped, Busy
<1>4. \A d \in Consumer : d \in Live' <=> d \in Live
  BY <1>1, <1>3 DEF Live, Running, Busy
<1>5. \A q, o : Handled(q, o)' <=> Handled(q, o)
  BY <1>1, SameHandled
<1>6. CurPartition(c)' = p /\ CurOffset(c)' = at /\ CurEvent(c)' = topic[p][at]
  BY <1>1, <1>3 DEF CurPartition, CurOffset, CurEvent
<1>7. \A d \in Consumer \ {c} : /\ CurPartition(d)' = CurPartition(d)
                                /\ CurOffset(d)' = CurOffset(d)
                                /\ CurEvent(d)' = CurEvent(d)
  BY <1>1, <1>3 DEF CurPartition, CurOffset, CurEvent
<1>8. \A o \in 1..position[p] : Handled(p, o)
  BY <1>1, <1>3 DEF PositionIsHandled, Live, Running
<1>9. GroupTyped'
  BY <1>1, <1>2 DEF GroupTyped, Running
<1>10. CurIsAMessage'
  <2>1. topic[p] \in [1..TopicLength -> Event \cup {Malformed}]
    BY DEF GroupTyped
  <2>2. topic[p][at] \in Event \cup {Malformed}
    BY <1>1, <2>1
  <2>3. cur'[c] \in Partition \X (1..TopicLength)
    BY <1>1, <1>3
  <2>4. to # "committing" => CurEvent(c)' \in Event
    BY <1>6, <2>2
  <2>5. QED
    BY <1>3, <1>7, <2>3, <2>4 DEF CurIsAMessage
<1>11. EarlierIsHandled'
  <2>1. 1..(at - 1) = 1..position[p]
    BY DEF GroupTyped
  <2>2. QED
    BY <1>3, <1>5, <1>6, <1>7, <1>8, <2>1 DEF EarlierIsHandled
<1>12. CommittingIsHandled'
  BY <1>3, <1>5, <1>6, <1>7 DEF CommittingIsHandled, Handled, Accounted
<1>13. PositionIsHandled'
  <2> SUFFICES ASSUME NEW q \in Partition, NEW d \in Consumer, owner[q] = d, d \in Live,
                      NEW o \in 1..position'[q]
               PROVE  Handled(q, o) \/ (pc'[d] \in Busy /\ cur'[d] = <<q, o>>)
    BY <1>1, <1>4, <1>5 DEF PositionIsHandled
  <2>1. CASE q = p
    <3>1. d = c
      BY <1>1, <2>1
    <3>2. o \in 1..position[p] \/ o = at
      BY <1>1, <1>3, <2>1 DEF GroupTyped
    <3>3. QED
      BY <1>3, <1>8, <2>1, <3>1, <3>2
  <2>2. CASE q # p
    BY <1>3, <2>2 DEF PositionIsHandled
  <2>3. QED
    BY <2>1, <2>2
<1>14. DocumentsAreKeyed' /\ CommittedIsHandled'
  BY <1>1, <1>5 DEF DocumentsAreKeyed, CommittedIsHandled
<1>15. QED
  BY <1>9, <1>10, <1>11, <1>12, <1>13, <1>14

(* A consumer that has nothing at hand after the step, and what it handled *)
(* is handled: a commit, a stop, a failure, a crash, a restart.            *)
LEMMA IdleStep ==
    ASSUME IInv, NEW c \in Consumer, NEW to \in {"fetching", "stopped", "failed", "down"},
           UNCHANGED <<topic, position, es, dlq, skipped>>,
           GroupTyped', CommittedIsHandled',
           pc' = [pc EXCEPT ![c] = to],
           \A d \in Consumer \ {c} : cur'[d] = cur[d],
           \A p \in Partition, d \in Consumer : owner'[p] = d => owner[p] = d,
           \/ to # "fetching"
           \/ c \in Live /\ (pc[c] \in Busy => Handled(cur[c][1], cur[c][2]))
           \/ \A p \in Partition : owner'[p] # c
    PROVE  IInv'
<1> USE DEF IInv
<1>1. /\ pc'[c] = to /\ to \notin Busy
      /\ \A d \in Consumer \ {c} : pc'[d] = pc[d]
  BY DEF GroupTyped, Busy
<1>2. \A q, o : Handled(q, o)' <=> Handled(q, o)
  BY SameHandled
<1>3. \A d \in Consumer \ {c} : /\ CurPartition(d)' = CurPartition(d)
                                /\ CurOffset(d)' = CurOffset(d)
                                /\ CurEvent(d)' = CurEvent(d)
                                /\ d \in Live' <=> d \in Live
  BY <1>1 DEF CurPartition, CurOffset, CurEvent, Live
<1>4. CurIsAMessage'
  BY <1>1, <1>3 DEF CurIsAMessage
<1>5. EarlierIsHandled'
  BY <1>1, <1>2, <1>3 DEF EarlierIsHandled
<1>6. CommittingIsHandled'
  BY <1>1, <1>2, <1>3 DEF CommittingIsHandled, Busy
<1>7. PositionIsHandled'
  <2> SUFFICES ASSUME NEW q \in Partition, NEW d \in Consumer, owner'[q] = d, d \in Live',
                      NEW o \in 1..position[q]
               PROVE  Handled(q, o) \/ (pc'[d] \in Busy /\ cur'[d] = <<q, o>>)
    BY <1>2 DEF PositionIsHandled
  <2>1. CASE d # c
    BY <1>1, <1>3, <2>1 DEF PositionIsHandled
  <2>2. CASE d = c
    <3>1. to = "fetching"
      BY <1>1, <2>2 DEF Live, Running
    <3>2. c \in Live /\ (pc[c] \in Busy => Handled(cur[c][1], cur[c][2]))
      BY <2>2, <3>1
    <3>3. Handled(q, o) \/ (pc[c] \in Busy /\ cur[c] = <<q, o>>)
      BY <2>2, <3>2 DEF PositionIsHandled
    <3>4. QED
      BY <3>2, <3>3
  <2>3. QED
    BY <2>1, <2>2
<1>8. DocumentsAreKeyed'
  BY DEF DocumentsAreKeyed
<1>9. QED
  BY <1>4, <1>5, <1>6, <1>7, <1>8

(* What a commit makes the group's offset: a message that is handled, with *)
(* all before it.                                                          *)
LEMMA WrittenOffsetIsHandled ==
    ASSUME IInv, NEW c \in Consumer, pc[c] = "committing",
           WriteOffset(c) \/ UNCHANGED committed,
           UNCHANGED <<topic, es, dlq, skipped>>
    PROVE  /\ committed' \in [Partition -> 0..TopicLength]
           /\ CommittedIsHandled'
<1> USE DEF IInv
<1>1. cur[c] \in Partition \X (1..TopicLength)
  BY DEF CurIsAMessage, Busy
<1>2. CurPartition(c) \in Partition /\ CurOffset(c) \in 1..TopicLength
  BY <1>1 DEF CurPartition, CurOffset
<1>3. \A o \in 1..CurOffset(c) : Handled(CurPartition(c), o)
  <2>1. \A o \in 1..CurOffset(c) : o \in 1..(CurOffset(c) - 1) \/ o = CurOffset(c)
    BY <1>2
  <2>2. QED
    BY <2>1 DEF EarlierIsHandled, CommittingIsHandled, Busy
<1>4. \A q, o : Handled(q, o)' <=> Handled(q, o)
  BY SameHandled
<1>5. CASE WriteOffset(c)
  <2>1. committed' = [committed EXCEPT ![CurPartition(c)] = CurOffset(c)]
    BY <1>5 DEF WriteOffset
  <2>2. \A p \in Partition : \A o \in 1..committed'[p] : Handled(p, o)
    BY <1>2, <1>3, <2>1 DEF GroupTyped, CommittedIsHandled
  <2>3. committed' \in [Partition -> 0..TopicLength]
    BY <1>2, <2>1, BoundAssumption DEF GroupTyped
  <2>4. QED
    BY <1>4, <2>2, <2>3 DEF CommittedIsHandled
<1>6. CASE UNCHANGED committed
  BY <1>4, <1>6 DEF GroupTyped, CommittedIsHandled
<1>7. QED
  BY <1>5, <1>6

(* CommitMessages, whether Run goes on or the process fails.               *)
LEMMA CommitStep ==
    ASSUME IInv, NEW c \in Consumer, Commit(c) \/ CommitFails(c)
    PROVE  IInv'
<1> USE DEF IInv
<1>1. /\ pc[c] = "committing"
      /\ WriteOffset(c) \/ UNCHANGED committed
      /\ cur' = [cur EXCEPT ![c] = NoMessage]
      /\ UNCHANGED <<topic, position, owner, term, next, es, dlq, skipped>>
  BY DEF Commit, CommitFails
<1>2. committed' \in [Partition -> 0..TopicLength] /\ CommittedIsHandled'
  BY <1>1, WrittenOffsetIsHandled
<1>3. Handled(cur[c][1], cur[c][2]) /\ c \in Live
  BY <1>1 DEF CommittingIsHandled, CurPartition, CurOffset, Live, Running
<1>4. \A d \in Consumer \ {c} : cur'[d] = cur[d]
  BY <1>1 DEF GroupTyped
<1>5. PICK to \in {"fetching", "failed"} : pc' = [pc EXCEPT ![c] = to]
  BY DEF Commit, CommitFails
<1>6. GroupTyped'
  BY <1>1, <1>2, <1>5 DEF GroupTyped, Running
<1>7. QED
  BY <1>1, <1>2, <1>3, <1>4, <1>5, <1>6, IdleStep

(* Run returns at FetchMessage, or the process crashes.                    *)
LEMMA StopStep ==
    ASSUME IInv, NEW c \in Consumer, FetchFails(c) \/ Crash(c)
    PROVE  IInv'
<1> USE DEF IInv
<1>1. UNCHANGED <<topic, committed, position, owner, dlq, term, next, es, skipped>>
  BY DEF FetchFails, Crash, brokerVars
<1>2. PICK to \in {"stopped", "failed", "down"} : pc' = [pc EXCEPT ![c] = to]
  BY DEF FetchFails, Crash
<1>3. cur' = cur \/ cur' = [cur EXCEPT ![c] = NoMessage]
  BY DEF FetchFails, Crash
<1>4. \A d \in Consumer \ {c} : cur'[d] = cur[d]
  BY <1>3 DEF GroupTyped
<1>5. GroupTyped'
  BY <1>1, <1>2, <1>3 DEF GroupTyped, Running
<1>6. CommittedIsHandled'
  BY <1>1, SameHandled DEF CommittedIsHandled
<1>7. QED
  BY <1>1, <1>2, <1>4, <1>5, <1>6, IdleStep

(* The new process owns nothing until the coordinator says so.             *)
LEMMA RestartStep ==
    ASSUME IInv, NEW c \in Consumer, Restart(c)
    PROVE  IInv'
<1> USE DEF IInv
<1>1. /\ UNCHANGED <<topic, committed, position, dlq, cur, es, skipped>>
      /\ pc' = [pc EXCEPT ![c] = "fetching"]
      /\ owner' = [p \in Partition |-> IF owner[p] = c THEN "none" ELSE owner[p]]
      /\ term' = term \ {c} /\ next' = [next EXCEPT ![c] = 0]
  BY DEF Restart
<1>2. /\ \A p \in Partition, d \in Consumer : owner'[p] = d => owner[p] = d
      /\ \A p \in Partition : owner'[p] # c
  BY <1>1, ConsumerAssumption
<1>3. GroupTyped'
  BY <1>1, BoundAssumption DEF GroupTyped, Running
<1>4. CommittedIsHandled'
  BY <1>1, SameHandled DEF CommittedIsHandled
<1>5. QED
  BY <1>1, <1>2, <1>3, <1>4, IdleStep

(* SIGTERM only cancels a context: nothing else of the state changes.      *)
LEMMA TerminateStep ==
    ASSUME IInv, NEW c \in Consumer, Terminate(c)
    PROVE  IInv'
<1> USE DEF IInv
<1>1. /\ UNCHANGED <<topic, committed, position, owner, dlq, pc, cur, next, es, skipped>>
      /\ term' = term \cup {c}
  BY DEF Terminate, brokerVars
<1>2. \A q, o : Handled(q, o)' <=> Handled(q, o)
  BY <1>1, SameHandled
<1>3. \A d : /\ CurPartition(d)' = CurPartition(d) /\ CurOffset(d)' = CurOffset(d)
             /\ CurEvent(d)' = CurEvent(d)
  BY <1>1 DEF CurPartition, CurOffset, CurEvent
<1>4. GroupTyped'
  BY <1>1 DEF GroupTyped
<1>5. CurIsAMessage' /\ EarlierIsHandled' /\ CommittingIsHandled'
  BY <1>1, <1>2, <1>3 DEF CurIsAMessage, EarlierIsHandled, CommittingIsHandled
<1>6. PositionIsHandled' /\ DocumentsAreKeyed' /\ CommittedIsHandled'
  BY <1>1, <1>2 DEF PositionIsHandled, DocumentsAreKeyed, CommittedIsHandled, Live
<1>7. QED
  BY <1>4, <1>5, <1>6

(* The new owner starts at the committed offset, which is handled.         *)
LEMMA RebalanceStep ==
    ASSUME IInv, NEW p \in Partition, NEW c \in Consumer, Rebalance(p, c)
    PROVE  IInv'
<1> USE DEF IInv
<1>1. /\ UNCHANGED <<topic, committed, dlq, pc, cur, term, next, es, skipped>>
      /\ owner' = [owner EXCEPT ![p] = c]
      /\ position' = [position EXCEPT ![p] = committed[p]]
  BY DEF Rebalance
<1>2. \A q, o : Handled(q, o)' <=> Handled(q, o)
  BY <1>1, SameHandled
<1>3. \A d : /\ CurPartition(d)' = CurPartition(d) /\ CurOffset(d)' = CurOffset(d)
             /\ CurEvent(d)' = CurEvent(d)
  BY <1>1 DEF CurPartition, CurOffset, CurEvent
<1>4. GroupTyped'
  BY <1>1 DEF GroupTyped
<1>5. CurIsAMessage' /\ EarlierIsHandled' /\ CommittingIsHandled'
  BY <1>1, <1>2, <1>3 DEF CurIsAMessage, EarlierIsHandled, CommittingIsHandled
<1>6. PositionIsHandled'
  <2>1. \A o \in 1..position'[p] : Handled(p, o)
    BY <1>1 DEF GroupTyped, CommittedIsHandled
  <2>2. \A q \in Partition \ {p} : position'[q] = position[q] /\ owner'[q] = owner[q]
    BY <1>1 DEF GroupTyped
  <2>3. QED
    BY <1>1, <1>2, <2>1, <2>2 DEF PositionIsHandled, Live
<1>7. DocumentsAreKeyed' /\ CommittedIsHandled'
  BY <1>1, <1>2 DEF DocumentsAreKeyed, CommittedIsHandled
<1>8. QED
  BY <1>4, <1>5, <1>6, <1>7

(* A stuttering step keeps the invariant.                                  *)
LEMMA StutterStep ==
    ASSUME IInv, UNCHANGED vars
    PROVE  IInv'
<1> USE DEF IInv
<1>1. UNCHANGED <<topic, committed, position, owner, dlq, pc, cur, term, next, es, skipped>>
  BY DEF vars, brokerVars
<1>2. \A q, o : Handled(q, o)' <=> Handled(q, o)
  BY <1>1, SameHandled
<1>3. \A d : /\ CurPartition(d)' = CurPartition(d) /\ CurOffset(d)' = CurOffset(d)
             /\ CurEvent(d)' = CurEvent(d)
  BY <1>1 DEF CurPartition, CurOffset, CurEvent
<1>4. GroupTyped' /\ DocumentsAreKeyed'
  BY <1>1 DEF GroupTyped, DocumentsAreKeyed
<1>5. CurIsAMessage' /\ EarlierIsHandled' /\ CommittingIsHandled'
  BY <1>1, <1>2, <1>3 DEF CurIsAMessage, EarlierIsHandled, CommittingIsHandled
<1>6. PositionIsHandled' /\ CommittedIsHandled'
  BY <1>1, <1>2 DEF PositionIsHandled, CommittedIsHandled, Live
<1>7. QED
  BY <1>4, <1>5, <1>6

(* Every step of every consumer keeps the invariant.                       *)
LEMMA NextIInv == IInv /\ [Next]_vars => IInv'
<1> SUFFICES ASSUME IInv, [Next]_vars PROVE IInv'
  OBVIOUS
<1>1. CASE \E c \in Consumer : Step(c)
  BY <1>1, FetchStep, StopStep, IndexStep, RouteStep, CommitStep DEF Step
<1>2. CASE \E c \in Consumer : Terminate(c) \/ Crash(c) \/ Restart(c)
  BY <1>2, TerminateStep, StopStep, RestartStep
<1>3. CASE \E p \in Partition, c \in Consumer : Rebalance(p, c)
  BY <1>3, RebalanceStep
<1>4. CASE UNCHANGED vars
  BY <1>4, StutterStep
<1>5. QED
  BY <1>1, <1>2, <1>3, <1>4 DEF Next

(* The inductive invariant holds throughout every behaviour.               *)
THEOREM Invariance == Spec => []IInv
BY InitIInv, NextIInv, PTL DEF Spec

-------------------------------------------------------------------------------
(* No bound is overrun, whoever it is that fails, stops or is moved.       *)
LEMMA InitWithinBounds == Init => WithinBounds
BY BoundAssumption DEF Init, WithinBounds

LEMMA StepWithinBounds == WithinBounds /\ [Next]_vars => WithinBounds'
<1> SUFFICES ASSUME WithinBounds, [Next]_vars PROVE WithinBounds'
  OBVIOUS
<1> USE BoundAssumption DEF WithinBounds
<1>1. ASSUME UNCHANGED used \/ Fault PROVE WithinBounds'
  BY <1>1 DEF Fault
<1>2. ASSUME NEW c \in Consumer, Step(c) PROVE UNCHANGED used \/ Fault
  BY <1>2 DEF Step, Fetch, FetchFails, Index, IndexFails, RouteToDLQ, RouteToDLQFails,
              Commit, CommitFails, CallFails
<1>3. ASSUME NEW c \in Consumer, Terminate(c) PROVE WithinBounds'
  BY <1>3 DEF Terminate
<1>4. ASSUME NEW c \in Consumer, Crash(c) PROVE WithinBounds'
  BY <1>4 DEF Crash
<1>5. ASSUME NEW c \in Consumer, Restart(c) PROVE UNCHANGED used
  BY <1>5 DEF Restart
<1>6. ASSUME NEW p \in Partition, NEW c \in Consumer, Rebalance(p, c) PROVE WithinBounds'
  BY <1>6 DEF Rebalance
<1>7. CASE UNCHANGED vars
  BY <1>7 DEF vars
<1>8. QED
  BY <1>1, <1>2, <1>3, <1>4, <1>5, <1>6, <1>7 DEF Next

LEMMA TypeParts == GroupTyped /\ WithinBounds /\ DocumentsAreKeyed => TypeOK
<1>1. DocumentsAreKeyed => es \subseteq [doc : Event, event : Event]
  BY DEF DocumentsAreKeyed
<1>2. QED
  BY <1>1 DEF GroupTyped, WithinBounds, TypeOK

(* Every variable keeps its type: in particular no offset leaves its       *)
(* partition and no dead letter a partition of the DLQ topic.              *)
THEOREM TypeCorrect == Spec => []TypeOK
<1>1. IInv /\ WithinBounds => TypeOK
  BY TypeParts DEF IInv
<1>2. QED
  BY <1>1, Invariance, InitWithinBounds, StepWithinBounds, PTL DEF Spec

(* At-least-once: whatever fails, restarts or is rebalanced, the offset of *)
(* the group never passes a message that was neither indexed nor written   *)
(* to the DLQ, unless both were tried and failed.                          *)
THEOREM CommitsOnlyHandled == Spec => []CommittedIsHandled
<1>1. IInv => CommittedIsHandled
  BY DEF IInv
<1>2. QED
  BY <1>1, Invariance, PTL

(* Keying documents by the event's id makes redelivery harmless.           *)
THEOREM IndexingIsIdempotent == Spec => []OneDocumentPerEvent
<1>1. IInv => OneDocumentPerEvent
  BY DEF IInv, DocumentsAreKeyed, OneDocumentPerEvent
<1>2. QED
  BY <1>1, Invariance, PTL
===============================================================================
