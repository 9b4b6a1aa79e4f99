---------------------------- MODULE IngestApiProofs ---------------------------
(***************************************************************************)
(* IngestApi, for every set of events, streams and partitions, every       *)
(* partitioner and every bound on faults: the type invariant, that the     *)
(* store comes before Kafka and before a 201, that Kafka never fails a     *)
(* request, the order of requests that are sent one after another, and     *)
(* that nothing is dropped while nothing fails.                            *)
(*                                                                         *)
(* What is known of the store is taken from EventStoreProofs: every step   *)
(* of the process is a step of EventStore or leaves it alone.              *)
(***************************************************************************)
EXTENDS IngestApi, SequenceTheorems, TLAPS

SP == INSTANCE EventStoreProofs

-------------------------------------------------------------------------------
(* The inductive invariant.  Beside the store's own it has to be known     *)
(* how far the handler is when Append has returned, that a message in the  *)
(* writer or in Kafka is the one its event would be sent as now, that a    *)
(* 201 means that the message has left the writer, and that a version is   *)
(* computed after those of the requests answered before.                   *)
(***************************************************************************)
HandlerAt ==
    \A e \in Event :
        /\ pc[e] = "idle" => stmt[e] = "idle"
        /\ stmt[e] = "idle" => ret[e] = "none"
        /\ pc[e] = "appending" => ret[e] = "none"
        /\ pc[e] \in {"publishing", "waiting"} => ret[e] = "ok"
        /\ pc[e] # "done" <=> status[e] = 0
        /\ status[e] = 1 => e \in gone \cup late
        /\ ret[e] = "ok" => status[e] \in {0, 1, 201}
        /\ status[e] = 201 => ret[e] = "ok"

Genuine(m, p) == /\ m.id \in Event
                 /\ ret[m.id] = "ok"
                 /\ pc[m.id] # "publishing"
                 /\ m = Message(m.id)
                 /\ p = PartitionFor(m.id)

MessagesAreGenuine ==
    \A p \in Partition : /\ \A i \in DOMAIN queue[p] : Genuine(queue[p][i], p)
                         /\ \A i \in DOMAIN topic[p] : Genuine(topic[p][i], p)

AnsweredHasLeftQueue == \A e \in Event : status[e] = 201 => ~Queued(e)

AnsweredBefore == \A e \in Event : \A f \in before[e] : f # e /\ status[f] = 201

ComputedAfter ==
    \A e \in Event : \A f \in before[e] :
        /\ event[e].stream_id = event[f].stream_id
        /\ stmt[e] \in {"computed", "inserted", "committed"}
        => version[f] < version[e]

WrittenAfter ==
    \A e \in Event : \A f \in before[e] :
        event[e].stream_id = event[f].stream_id =>
            \A i \in Occurrences(f), j \in Occurrences(e) : i < j

FaultFree == used.faults = 0 /\ used.gone = 0 /\ used.crashes = 0

NothingLost ==
    /\ used.gone = 0 => gone = {}
    /\ FaultFree =>
        /\ server \in {"closing", "down"} => \A e \in Event : pc[e] \notin Active
        /\ \A e \in Event : /\ pc[e] # "dead"
                            /\ pc[e] = "waiting" => Queued(e) \/ Delivered(e)
                            /\ status[e] = 201 => Delivered(e)

IInv == /\ SP!IInv
        /\ TypeOK
        /\ HandlerAt
        /\ MessagesAreGenuine
        /\ AnsweredHasLeftQueue
        /\ AnsweredBefore
        /\ ComputedAfter
        /\ WrittenAfter
        /\ NothingLost

-------------------------------------------------------------------------------
(* IngestApi and the proofs about EventStore instantiate the same module.  *)
LEMMA SameStore ==
    /\ Store!Init = SP!Init
    /\ Store!TypeOK = SP!TypeOK
    /\ \A e : /\ Store!BeginAppend(e) = SP!BeginAppend(e)
              /\ Store!ServerStep(e) = SP!ServerStep(e)
              /\ Store!AbortStmt(e) = SP!AbortStmt(e)
              /\ Store!AppendReturns(e) = SP!AppendReturns(e)
              /\ Store!AppendFails(e) = SP!AppendFails(e)
<1>1. Store!Init = SP!Init /\ Store!TypeOK = SP!TypeOK
  BY DEF Store!Init, SP!Init, Store!TypeOK, SP!TypeOK, Store!Row, SP!Row,
         Store!DomainEvent, SP!DomainEvent
<1>2. \A e : /\ Store!BeginAppend(e) = SP!BeginAppend(e)
             /\ Store!AbortStmt(e) = SP!AbortStmt(e)
             /\ Store!AppendReturns(e) = SP!AppendReturns(e)
             /\ Store!AppendFails(e) = SP!AppendFails(e)
  BY DEF Store!BeginAppend, SP!BeginAppend, Store!AbortStmt, SP!AbortStmt,
         Store!AppendReturns, SP!AppendReturns, Store!AppendFails, SP!AppendFails
<1>3. \A e : Store!ServerStep(e) = SP!ServerStep(e)
  BY DEF Store!ServerStep, Store!ComputeVersion, Store!InsertRow,
         Store!UniqueViolation, Store!CommitRow, Store!MaxVersion, Store!Coalesce0,
         Store!Largest, Store!VersionsOf, Store!KeyTaken, Store!KeyLocked,
         Store!SameKey, Store!RowOf,
         SP!ServerStep, SP!ComputeVersion, SP!InsertRow,
         SP!UniqueViolation, SP!CommitRow, SP!MaxVersion, SP!Coalesce0,
         SP!Largest, SP!VersionsOf, SP!KeyTaken, SP!KeyLocked,
         SP!SameKey, SP!RowOf
<1>4. QED
  BY <1>1, <1>2, <1>3

(* What a step of the process does to the store.                           *)
LEMMA StoreSteps == [Next]_vars => [SP!Next]_(SP!vars)
<1> SUFFICES ASSUME [Next]_vars PROVE [SP!Next]_(SP!vars)
  OBVIOUS
<1>1. ASSUME NEW e \in Event,
             \/ StartIngest(e) \/ StoreStep(e) \/ StoreAborts(e)
             \/ AppendReturns(e) \/ AppendFails(e)
      PROVE  SP!Next
  BY <1>1, SameStore DEF SP!Next, StartIngest, StoreStep, StoreAborts, AppendReturns,
                         AppendFails
<1>2. ASSUME UNCHANGED storeVars PROVE UNCHANGED SP!vars
  BY <1>2 DEF storeVars, SP!vars
<1>3. ASSUME NEW e \in Event,
             \/ Reject(e) \/ Enqueue(e) \/ PublishRefused(e) \/ PublishReturns(e)
             \/ WriteTimeoutPasses(e) \/ Disconnect(e)
      PROVE  UNCHANGED storeVars
  BY <1>3 DEF Reject, Enqueue, PublishRefused, PublishReturns, RespondCreated,
              WriteTimeoutPasses, Disconnect
<1>4. ASSUME NEW p \in Partition, Flush(p) \/ FlushFails(p)
      PROVE  UNCHANGED storeVars
  BY <1>4 DEF Flush, FlushFails
<1>5. ASSUME Crash \/ Shutdown \/ ShutdownReturns \/ MainReturns \/ Restart
      PROVE  UNCHANGED storeVars
  BY <1>5 DEF Crash, Shutdown, ShutdownReturns, MainReturns, Restart, ProcessEnds
<1>6. CASE UNCHANGED vars
  BY <1>2, <1>6 DEF vars
<1>7. QED
  BY <1>1, <1>2, <1>3, <1>4, <1>5, <1>6 DEF Next, HandlerStep

LEMMA StoreInv == SP!IInv /\ [Next]_vars => SP!IInv'
BY StoreSteps, SP!NextIInv

LEMMA StoreTypes ==
    ASSUME SP!IInv
    PROVE  /\ event \in [Event -> [tenant_id : Tenant, stream_id : Stream, version : Nat]]
           /\ stmt \in [Event -> {"idle", "sent", "computed", "inserted", "committed", "aborted"}]
           /\ version \in [Event -> Nat]
           /\ ret \in [Event -> {"none", "ok", "error"}]
           /\ \A e \in Event : ret[e] = "ok" =>
                  stmt[e] = "committed" /\ event[e].version = version[e]
           /\ \A e \in Event : stmt[e] = "committed" => SP!RowOf(e) \in events
BY DEF SP!IInv, SP!TypeOK, SP!DomainEvent, SP!OkIsCommitted, SP!CommittedIsStored

(* What the store keeps: the streams of all events, and everything about   *)
(* an event whose Append has succeeded.                                    *)
LEMMA StoreKeeps ==
    ASSUME SP!IInv, [Next]_vars
    PROVE  \A e \in Event :
               /\ event'[e].stream_id = event[e].stream_id
               /\ event'[e].tenant_id = event[e].tenant_id
               /\ ret[e] # "none" => ret'[e] = ret[e] /\ event'[e] = event[e]
               /\ stmt[e] # "idle" => stmt'[e] # "idle"
               /\ stmt[e] = "committed" => stmt'[e] = "committed" /\ version'[e] = version[e]
<1> USE StoreTypes
<1>1. ASSUME NEW f \in Event, SP!BeginAppend(f) \/ SP!ServerStep(f) \/ SP!AbortStmt(f)
      PROVE  /\ UNCHANGED <<event, ret>>
             /\ \A e \in Event :
                  /\ stmt[e] # "idle" => stmt'[e] # "idle"
                  /\ stmt[e] = "committed" => stmt'[e] = "committed" /\ version'[e] = version[e]
  BY <1>1 DEF SP!BeginAppend, SP!ServerStep, SP!ComputeVersion, SP!InsertRow,
              SP!UniqueViolation, SP!CommitRow, SP!AbortStmt
<1>2. ASSUME NEW f \in Event, SP!AppendReturns(f) \/ SP!AppendFails(f)
      PROVE  /\ UNCHANGED <<stmt, version>>
             /\ \A e \in Event : /\ event'[e].stream_id = event[e].stream_id
                                 /\ event'[e].tenant_id = event[e].tenant_id
                                 /\ ret[e] # "none" => ret'[e] = ret[e] /\ event'[e] = event[e]
  <2>1. CASE UNCHANGED event
    BY <1>2, <2>1 DEF SP!AppendReturns, SP!AppendFails
  <2>2. CASE /\ SP!AppendReturns(f)
             /\ event' = [event EXCEPT ![f] = [@ EXCEPT !.version = version[f]]]
    BY <2>2 DEF SP!AppendReturns
  <2>3. QED
    BY <1>2, <2>1, <2>2 DEF SP!AppendReturns, SP!AppendFails
<1>3. CASE UNCHANGED SP!vars
  BY <1>3 DEF SP!vars
<1>4. QED
  BY StoreSteps, <1>1, <1>2, <1>3 DEF SP!Next

-------------------------------------------------------------------------------
(* Sequences: what Append adds, and what Tail leaves.                      *)
LEMMA AppendElements ==
    ASSUME NEW S, NEW q \in Seq(S), NEW x \in S
    PROVE  /\ Append(q, x) \in Seq(S)
           /\ DOMAIN Append(q, x) = 1..(Len(q) + 1)
           /\ \A i \in DOMAIN q : i \in DOMAIN Append(q, x) /\ Append(q, x)[i] = q[i]
           /\ Append(q, x)[Len(q) + 1] = x
           /\ \A i \in DOMAIN Append(q, x) : i \in DOMAIN q \/ i = Len(q) + 1
           /\ \A i \in DOMAIN q : i < Len(q) + 1
OBVIOUS

LEMMA TailElements ==
    ASSUME NEW S, NEW q \in Seq(S), q # <<>>
    PROVE  /\ Tail(q) \in Seq(S)
           /\ Head(q) = q[1]
           /\ 1 \in DOMAIN q
           /\ \A i \in DOMAIN Tail(q) : i + 1 \in DOMAIN q /\ Tail(q)[i] = q[i + 1]
           /\ \A i \in DOMAIN q : i = 1 \/ (i - 1 \in DOMAIN Tail(q) /\ Tail(q)[i - 1] = q[i])
OBVIOUS

(* The ways in which a step changes the writer's queues and the topic.     *)
SameKafka == UNCHANGED <<queue, topic>>

Writes(p) == /\ queue[p] # <<>>
             /\ topic' = [topic EXCEPT ![p] = Append(@, Head(queue[p]))]
             /\ queue' = [queue EXCEPT ![p] = Tail(@)] \/ UNCHANGED queue

GivesUp(p) == /\ queue[p] # <<>>
              /\ queue' = [queue EXCEPT ![p] = Tail(@)]
              /\ UNCHANGED topic

Forgets == queue' = [p \in Partition |-> <<>>] /\ UNCHANGED topic

LEMMA KafkaSteps ==
    ASSUME [Next]_vars
    PROVE  \/ SameKafka
           \/ \E e \in Event : Enqueue(e)
           \/ \E p \in Partition : Writes(p) \/ GivesUp(p)
           \/ Forgets
<1>1. ASSUME NEW e \in Event,
             \/ Reject(e) \/ StartIngest(e) \/ StoreStep(e) \/ StoreAborts(e)
             \/ AppendReturns(e) \/ AppendFails(e) \/ PublishRefused(e)
             \/ PublishReturns(e) \/ WriteTimeoutPasses(e) \/ Disconnect(e)
      PROVE  SameKafka
  BY <1>1 DEF Reject, StartIngest, StoreStep, StoreAborts, AppendReturns, AppendFails,
              PublishRefused, PublishReturns, RespondCreated, WriteTimeoutPasses, Disconnect,
              kafkaVars, SameKafka
<1>2. ASSUME NEW p \in Partition, Flush(p) \/ FlushFails(p)
      PROVE  Writes(p) \/ GivesUp(p)
  BY <1>2 DEF Flush, FlushFails, Writes, GivesUp
<1>3. ASSUME Crash \/ MainReturns PROVE Forgets
  BY <1>3 DEF Crash, MainReturns, ProcessEnds, Forgets
<1>4. ASSUME Shutdown \/ ShutdownReturns \/ Restart PROVE SameKafka
  BY <1>4 DEF Shutdown, ShutdownReturns, Restart, kafkaVars, SameKafka
<1>5. CASE UNCHANGED vars
  BY <1>5 DEF vars, kafkaVars, SameKafka
<1>6. QED
  BY <1>1, <1>2, <1>3, <1>4, <1>5 DEF Next, HandlerStep

-------------------------------------------------------------------------------
(* The type invariant: the store's part comes from EventStore, the queues  *)
(* and the topic from the steps above.                                     *)
Msg == [id : Event, stream_id : Stream, version : Nat]

KafkaTyped == /\ queue \in [Partition -> Seq(Msg)]
              /\ topic \in [Partition -> Seq(Msg)]

HandlersTyped ==
    /\ kind \in [Event -> RequestKind]
    /\ pc \in [Event -> Active \cup {"idle", "done", "dead"}]
    /\ status \in [Event -> {0, 1, 201, 400, 401, 422}]
    /\ gone \subseteq Event
    /\ late \subseteq Event
    /\ server \in {"up", "draining", "closing", "down"}
    /\ used \in [faults : 0..MaxFaults, gone : 0..MaxGone,
                crashes : 0..MaxCrashes, shutdowns : 0..MaxShutdowns]
    /\ before \in [Event -> SUBSET Event]

LEMMA TypeParts == TypeOK <=> SP!TypeOK /\ KafkaTyped /\ HandlersTyped
BY SameStore DEF TypeOK, KafkaTyped, HandlersTyped, Msg

LEMMA MessageType ==
    ASSUME SP!IInv, NEW e \in Event
    PROVE  /\ Message(e) \in Msg
           /\ PartitionFor(e) \in Partition
BY StoreTypes, PartitionAssumption DEF Message, Msg, PartitionFor

LEMMA KafkaTypes ==
    ASSUME SP!IInv, KafkaTyped, [Next]_vars
    PROVE  KafkaTyped'
<1>1. CASE SameKafka
  BY <1>1 DEF SameKafka, KafkaTyped
<1>2. ASSUME NEW e \in Event, Enqueue(e) PROVE KafkaTyped'
  BY <1>2, MessageType DEF Enqueue, KafkaTyped
<1>3. ASSUME NEW p \in Partition, Writes(p) \/ GivesUp(p) PROVE KafkaTyped'
  <2>1. queue[p] \in Seq(Msg) /\ topic[p] \in Seq(Msg) /\ queue[p] # <<>>
    BY <1>3 DEF KafkaTyped, Writes, GivesUp
  <2>2. Head(queue[p]) \in Msg /\ Tail(queue[p]) \in Seq(Msg)
    BY <2>1
  <2>3. Append(topic[p], Head(queue[p])) \in Seq(Msg)
    BY <2>1, <2>2
  <2>4. QED
    BY <1>3, <2>2, <2>3 DEF Writes, GivesUp, KafkaTyped
<1>4. CASE Forgets
  BY <1>4 DEF Forgets, KafkaTyped
<1>5. QED
  BY KafkaSteps, <1>1, <1>2, <1>3, <1>4

LEMMA HandlerTypes ==
    ASSUME HandlersTyped, [Next]_vars
    PROVE  HandlersTyped'
<1> USE BoundAssumption DEF HandlersTyped, Active
<1>1. ASSUME Fault PROVE used' \in [faults : 0..MaxFaults, gone : 0..MaxGone,
                                    crashes : 0..MaxCrashes, shutdowns : 0..MaxShutdowns]
  BY <1>1 DEF Fault
<1>2. ASSUME NEW e \in Event, CallFails(e)
      PROVE  used' \in [faults : 0..MaxFaults, gone : 0..MaxGone,
                        crashes : 0..MaxCrashes, shutdowns : 0..MaxShutdowns]
  BY <1>1, <1>2 DEF CallFails
<1>3. ASSUME NEW e \in Event, NEW code \in {201, 400, 401, 422}, Respond(e, code)
      PROVE  /\ pc' \in [Event -> Active \cup {"idle", "done", "dead"}]
             /\ status' \in [Event -> {0, 1, 201, 400, 401, 422}]
  BY <1>3 DEF Respond
<1>4. ASSUME NEW e \in Event, AfterAppend(e)
      PROVE  /\ pc' \in [Event -> Active \cup {"idle", "done", "dead"}]
             /\ status' \in [Event -> {0, 1, 201, 400, 401, 422}]
  BY <1>3, <1>4 DEF AfterAppend
<1>5. ASSUME NEW e \in Event, Reject(e) PROVE HandlersTyped'
  <2>1. kind[e] \in {"unauthenticated", "malformed", "incomplete"}
    BY <1>5, KindAssumption DEF Reject
  <2>2. (CASE kind[e] = "unauthenticated" -> 401
           [] kind[e] = "malformed"       -> 400
           [] kind[e] = "incomplete"      -> 422) \in {201, 400, 401, 422}
    BY <2>1
  <2>3. QED
    BY <1>5, <2>2 DEF Reject, Respond
<1>6. ASSUME NEW e \in Event, StartIngest(e) PROVE HandlersTyped'
  BY <1>6 DEF StartIngest
<1>7. ASSUME NEW e \in Event, StoreStep(e) \/ StoreAborts(e) PROVE HandlersTyped'
  BY <1>2, <1>7 DEF StoreStep, StoreAborts
<1>8. ASSUME NEW e \in Event, AppendReturns(e) \/ AppendFails(e) PROVE HandlersTyped'
  BY <1>2, <1>4, <1>8 DEF AppendReturns, AppendFails
<1>9. ASSUME NEW e \in Event, Enqueue(e) PROVE HandlersTyped'
  BY <1>9 DEF Enqueue
<1>10. ASSUME NEW e \in Event, PublishRefused(e) \/ PublishReturns(e) PROVE HandlersTyped'
  BY <1>2, <1>3, <1>10 DEF PublishRefused, PublishReturns, RespondCreated
<1>11. ASSUME NEW e \in Event, WriteTimeoutPasses(e) PROVE HandlersTyped'
  BY <1>1, <1>11 DEF WriteTimeoutPasses
<1>12. ASSUME NEW e \in Event, Disconnect(e) PROVE HandlersTyped'
  BY <1>12 DEF Disconnect
<1>13. ASSUME NEW p \in Partition, Flush(p) \/ FlushFails(p) PROVE HandlersTyped'
  BY <1>1, <1>13 DEF Flush, FlushFails
<1>14. CASE Crash \/ MainReturns
  BY <1>14 DEF Crash, MainReturns, ProcessEnds
<1>15. CASE Shutdown \/ ShutdownReturns \/ Restart
  BY <1>1, <1>15 DEF Shutdown, ShutdownReturns, Restart
<1>16. CASE UNCHANGED vars
  BY <1>16 DEF vars
<1>17. QED
  BY <1>5, <1>6, <1>7, <1>8, <1>9, <1>10, <1>11, <1>12, <1>13, <1>14, <1>15, <1>16
     DEF Next, HandlerStep

LEMMA TypesKept ==
    ASSUME SP!IInv, TypeOK, [Next]_vars
    PROVE  TypeOK'
<1>1. SP!TypeOK'
  BY StoreInv DEF SP!IInv
<1>2. KafkaTyped' /\ HandlersTyped'
  BY TypeParts, KafkaTypes, HandlerTypes
<1>3. TypeOK' <=> SP!TypeOK' /\ KafkaTyped' /\ HandlersTyped'
  BY TypeParts, PTL
<1>4. QED
  BY <1>1, <1>2, <1>3

-------------------------------------------------------------------------------
(* How far the handlers are.  The steps that do not return from Append     *)
(* leave ret alone.                                                        *)
LEMMA RetChanges ==
    ASSUME [Next]_vars
    PROVE  UNCHANGED ret \/ \E e \in Event : AppendReturns(e) \/ AppendFails(e)
<1> SUFFICES ASSUME ~(\E e \in Event : AppendReturns(e) \/ AppendFails(e))
             PROVE  UNCHANGED ret
  OBVIOUS
<1> USE DEF storeVars
<1>1. ASSUME NEW e \in Event, StartIngest(e) \/ StoreStep(e) \/ StoreAborts(e)
      PROVE  UNCHANGED ret
  BY <1>1 DEF StartIngest, StoreStep, StoreAborts, Store!BeginAppend, Store!ServerStep,
              Store!ComputeVersion, Store!InsertRow, Store!UniqueViolation,
              Store!CommitRow, Store!AbortStmt
<1>2. ASSUME NEW e \in Event,
             \/ Reject(e) \/ Enqueue(e) \/ PublishRefused(e) \/ PublishReturns(e)
             \/ WriteTimeoutPasses(e) \/ Disconnect(e)
      PROVE  UNCHANGED ret
  BY <1>2 DEF Reject, Enqueue, PublishRefused, PublishReturns, RespondCreated,
              WriteTimeoutPasses, Disconnect
<1>3. ASSUME NEW p \in Partition, Flush(p) \/ FlushFails(p) PROVE UNCHANGED ret
  BY <1>3 DEF Flush, FlushFails
<1>4. ASSUME Crash \/ Shutdown \/ ShutdownReturns \/ MainReturns \/ Restart
      PROVE  UNCHANGED ret
  BY <1>4 DEF Crash, Shutdown, ShutdownReturns, MainReturns, Restart, ProcessEnds
<1>5. CASE UNCHANGED vars
  BY <1>5 DEF vars
<1>6. QED
  BY <1>1, <1>2, <1>3, <1>4, <1>5 DEF Next, HandlerStep

(* Nobody comes back who has left, and no deadline is put off.             *)
LEMMA UnansweredGrow == [Next]_vars => gone \subseteq gone' /\ late \subseteq late'
<1> SUFFICES ASSUME [Next]_vars PROVE gone \subseteq gone' /\ late \subseteq late'
  OBVIOUS
<1>1. ASSUME NEW e \in Event,
             \/ Reject(e) \/ StartIngest(e) \/ StoreStep(e) \/ StoreAborts(e)
             \/ AppendReturns(e) \/ AppendFails(e) \/ Enqueue(e) \/ PublishRefused(e)
             \/ PublishReturns(e)
      PROVE  UNCHANGED <<gone, late>>
  BY <1>1 DEF Reject, StartIngest, StoreStep, StoreAborts, AppendReturns, AppendFails,
              Enqueue, PublishRefused, PublishReturns, RespondCreated
<1>2. ASSUME NEW e \in Event, WriteTimeoutPasses(e) \/ Disconnect(e)
      PROVE  gone \subseteq gone' /\ late \subseteq late'
  BY <1>2 DEF WriteTimeoutPasses, Disconnect
<1>3. ASSUME NEW p \in Partition, Flush(p) \/ FlushFails(p) PROVE UNCHANGED <<gone, late>>
  BY <1>3 DEF Flush, FlushFails
<1>4. ASSUME Crash \/ Shutdown \/ ShutdownReturns \/ MainReturns \/ Restart
      PROVE  UNCHANGED <<gone, late>>
  BY <1>4 DEF Crash, Shutdown, ShutdownReturns, MainReturns, Restart, ProcessEnds
<1>5. CASE UNCHANGED vars
  BY <1>5 DEF vars
<1>6. QED
  BY <1>1, <1>2, <1>3, <1>4, <1>5 DEF Next, HandlerStep

(* The handler ends with one of these codes, or without its client.        *)
Answers(e, codes) == /\ pc'[e] = "done"
                     /\ status'[e] \in {1} \cup codes
                     /\ status'[e] = 1 => e \in gone \cup late

(* A step takes each handler along one of these edges.                     *)
Edge(e) ==
    \/ UNCHANGED <<pc[e], status[e]>>
    \/ /\ pc[e] = "idle" /\ pc'[e] = "appending" /\ status'[e] = status[e]
    \/ /\ pc[e] = "idle" /\ Answers(e, {400, 401, 422})
    \/ /\ pc[e] = "appending" /\ ret'[e] = "ok"
       /\ pc'[e] = "publishing" /\ status'[e] = status[e]
    \/ /\ pc[e] = "appending" /\ ret'[e] = "error" /\ Answers(e, {422})
    \/ /\ pc[e] = "publishing" /\ pc'[e] = "waiting" /\ status'[e] = status[e]
    \/ /\ pc[e] = "publishing" /\ Answers(e, {201})
       /\ SameKafka
    \/ /\ pc[e] = "waiting" /\ Answers(e, {201})
       /\ status'[e] = 201 => ~Queued(e)
       /\ SameKafka
    \/ /\ pc[e] \in Active /\ pc'[e] = "dead" /\ status'[e] = status[e]

LEMMA Edges ==
    ASSUME SP!IInv, HandlersTyped, [Next]_vars
    PROVE  \A e \in Event : Edge(e)
<1> USE StoreTypes DEF HandlersTyped, Answers
<1>1. ASSUME UNCHANGED <<pc, status>> PROVE \A e \in Event : Edge(e)
  BY <1>1 DEF Edge
<1>2. ASSUME NEW f \in Event, NEW code \in {201, 400, 401, 422}, Respond(f, code)
      PROVE  /\ pc'[f] = "done"
             /\ status'[f] \in {1, code}
             /\ status'[f] = 1 => f \in gone \cup late
             /\ f \in gone => status'[f] = 1
             /\ \A e \in Event \ {f} : UNCHANGED <<pc[e], status[e]>>
  BY <1>2 DEF Respond
<1>3. ASSUME NEW f \in Event, Reject(f) PROVE \A e \in Event : Edge(e)
  <2>1. kind[f] \in {"unauthenticated", "malformed", "incomplete"}
    BY <1>3, KindAssumption DEF Reject
  <2>2. pc[f] = "idle" /\ Answers(f, {400, 401, 422})
    BY <1>3, <2>1 DEF Reject, Respond
  <2>3. \A e \in Event \ {f} : UNCHANGED <<pc[e], status[e]>>
    BY <1>3 DEF Reject, Respond
  <2>4. QED
    BY <2>2, <2>3 DEF Edge
<1>4. ASSUME NEW f \in Event, StartIngest(f) PROVE \A e \in Event : Edge(e)
  BY <1>4 DEF StartIngest, Edge
<1>5. ASSUME NEW f \in Event, AppendReturns(f) \/ AppendFails(f)
      PROVE  \A e \in Event : Edge(e)
  <2>1. pc[f] = "appending" /\ AfterAppend(f) /\ ret'[f] \in {"ok", "error"}
    BY <1>5 DEF AppendReturns, AppendFails, Store!AppendReturns, Store!AppendFails
  <2>2. CASE ret'[f] = "ok"
    BY <2>1, <2>2 DEF AfterAppend, Edge
  <2>3. CASE ret'[f] = "error"
    BY <1>2, <2>1, <2>3 DEF AfterAppend, Edge
  <2>4. QED
    BY <2>1, <2>2, <2>3
<1>6. ASSUME NEW f \in Event, Enqueue(f) PROVE \A e \in Event : Edge(e)
  BY <1>6 DEF Enqueue, Edge
<1>7. ASSUME NEW f \in Event, PublishRefused(f) PROVE \A e \in Event : Edge(e)
  <2>1. pc[f] = "publishing" /\ Respond(f, 201) /\ SameKafka
    BY <1>7 DEF PublishRefused, RespondCreated, SameKafka, kafkaVars
  <2>2. QED
    BY <1>2, <2>1 DEF Edge
<1>8. ASSUME NEW f \in Event, PublishReturns(f) PROVE \A e \in Event : Edge(e)
  <2>1. pc[f] = "waiting" /\ Respond(f, 201) /\ SameKafka /\ (f \notin gone => ~Queued(f))
    BY <1>8 DEF PublishReturns, RespondCreated, SameKafka, kafkaVars
  <2>2. QED
    BY <1>2, <2>1 DEF Edge
<1>10. CASE Crash \/ MainReturns
  BY <1>10 DEF Crash, MainReturns, ProcessEnds, Edge
<1>11. ASSUME NEW f \in Event,
              StoreStep(f) \/ StoreAborts(f) \/ WriteTimeoutPasses(f) \/ Disconnect(f)
       PROVE  UNCHANGED <<pc, status>>
  BY <1>11 DEF StoreStep, StoreAborts, WriteTimeoutPasses, Disconnect
<1>12. ASSUME NEW p \in Partition, Flush(p) \/ FlushFails(p)
       PROVE  UNCHANGED <<pc, status>>
  BY <1>12 DEF Flush, FlushFails
<1>13. ASSUME Shutdown \/ ShutdownReturns \/ Restart PROVE UNCHANGED <<pc, status>>
  BY <1>13 DEF Shutdown, ShutdownReturns, Restart
<1>14. CASE UNCHANGED vars
  BY <1>1, <1>14 DEF vars
<1>15. QED
  BY <1>1, <1>3, <1>4, <1>5, <1>6, <1>7, <1>8, <1>10, <1>11, <1>12, <1>13, <1>14
     DEF Next, HandlerStep

LEMMA RetEdges ==
    ASSUME SP!IInv, HandlersTyped, [Next]_vars
    PROVE  \A e \in Event : ret'[e] # ret[e] =>
               /\ pc[e] = "appending" /\ pc'[e] # "appending"
               /\ ret[e] = "none" /\ stmt[e] # "idle"
<1> USE StoreTypes
<1>1. ASSUME NEW f \in Event, AppendReturns(f) \/ AppendFails(f)
      PROVE  /\ pc[f] = "appending" /\ pc'[f] # "appending"
             /\ ret[f] = "none" /\ stmt[f] # "idle"
             /\ \A e \in Event \ {f} : ret'[e] = ret[e]
  BY <1>1 DEF AppendReturns, AppendFails, Store!AppendReturns, Store!AppendFails,
              AfterAppend, Respond, HandlersTyped
<1>2. QED
  BY <1>1, RetChanges

(* A request arrives: its statement is sent, and the answers given so far  *)
(* are noted.                                                              *)
Arrives(e) == /\ pc[e] = "idle" /\ pc'[e] = "appending"
              /\ stmt[e] = "idle" /\ stmt'[e] = "sent"
              /\ before'[e] = {f \in Event : status[f] = 201}

LEMMA Arrivals ==
    ASSUME SP!IInv, HandlersTyped, [Next]_vars
    PROVE  \A e \in Event :
               \/ Arrives(e)
               \/ before'[e] = before[e] /\ (stmt[e] = "idle" => stmt'[e] = "idle")
<1> USE StoreTypes DEF HandlersTyped
<1>1. ASSUME NEW f \in Event, StartIngest(f)
      PROVE  /\ Arrives(f)
             /\ \A e \in Event \ {f} : before'[e] = before[e] /\ stmt'[e] = stmt[e]
  BY <1>1 DEF StartIngest, Store!BeginAppend, Arrives
<1>2. ASSUME UNCHANGED before, UNCHANGED storeVars \/ UNCHANGED stmt
      PROVE  \A e \in Event : before'[e] = before[e] /\ stmt'[e] = stmt[e]
  BY <1>2 DEF storeVars
<1>3. ASSUME NEW f \in Event, StoreStep(f) \/ StoreAborts(f)
      PROVE  \A e \in Event : before'[e] = before[e] /\ (stmt[e] = "idle" => stmt'[e] = "idle")
  BY <1>3 DEF StoreStep, StoreAborts, Store!ServerStep, Store!ComputeVersion,
              Store!InsertRow, Store!UniqueViolation, Store!CommitRow, Store!AbortStmt
<1>4. ASSUME NEW f \in Event, AppendReturns(f) \/ AppendFails(f)
      PROVE  UNCHANGED before /\ UNCHANGED stmt
  BY <1>4 DEF AppendReturns, AppendFails, Store!AppendReturns, Store!AppendFails
<1>5. ASSUME NEW f \in Event,
             \/ Reject(f) \/ Enqueue(f) \/ PublishRefused(f) \/ PublishReturns(f)
             \/ WriteTimeoutPasses(f) \/ Disconnect(f)
      PROVE  UNCHANGED before /\ UNCHANGED storeVars
  BY <1>5 DEF Reject, Enqueue, PublishRefused, PublishReturns, RespondCreated,
              WriteTimeoutPasses, Disconnect
<1>6. ASSUME NEW p \in Partition, Flush(p) \/ FlushFails(p)
      PROVE  UNCHANGED before /\ UNCHANGED storeVars
  BY <1>6 DEF Flush, FlushFails
<1>7. ASSUME Crash \/ Shutdown \/ ShutdownReturns \/ MainReturns \/ Restart
      PROVE  UNCHANGED before /\ UNCHANGED storeVars
  BY <1>7 DEF Crash, Shutdown, ShutdownReturns, MainReturns, Restart, ProcessEnds
<1>8. CASE UNCHANGED vars
  BY <1>2, <1>8 DEF vars
<1>9. QED
  BY <1>1, <1>2, <1>3, <1>4, <1>5, <1>6, <1>7, <1>8 DEF Next, HandlerStep

LEMMA HandlerAtKept ==
    ASSUME SP!IInv, HandlersTyped, HandlerAt, [Next]_vars
    PROVE  HandlerAt'
<1> SUFFICES ASSUME NEW e \in Event
             PROVE  /\ pc'[e] = "idle" => stmt'[e] = "idle"
                    /\ stmt'[e] = "idle" => ret'[e] = "none"
                    /\ pc'[e] = "appending" => ret'[e] = "none"
                    /\ pc'[e] \in {"publishing", "waiting"} => ret'[e] = "ok"
                    /\ pc'[e] # "done" <=> status'[e] = 0
                    /\ status'[e] = 1 => e \in gone' \cup late'
                    /\ ret'[e] = "ok" => status'[e] \in {0, 1, 201}
                    /\ status'[e] = 201 => ret'[e] = "ok"
  BY DEF HandlerAt
<1> USE DEF HandlerAt, Active, Answers
<1>1. Edge(e)
  BY Edges
<1>2. ret'[e] # ret[e] => /\ pc[e] = "appending" /\ pc'[e] # "appending"
                          /\ ret[e] = "none" /\ stmt[e] # "idle"
  BY RetEdges
<1>3. Arrives(e) \/ (stmt[e] = "idle" => stmt'[e] = "idle")
  BY Arrivals
<1>4. stmt[e] # "idle" => stmt'[e] # "idle"
  BY StoreKeeps
<1>5. ret[e] \in {"none", "ok", "error"} /\ ret'[e] \in {"none", "ok", "error"}
  BY StoreTypes, StoreInv DEF SP!IInv, SP!TypeOK
<1>6. pc'[e] = "idle" => stmt'[e] = "idle"
  BY <1>1, <1>3 DEF Edge, Arrives
<1>7. stmt'[e] = "idle" => ret'[e] = "none"
  BY <1>2, <1>4
<1>8. pc'[e] = "appending" => ret'[e] = "none"
  BY <1>1, <1>2 DEF Edge
<1>9. pc'[e] \in {"publishing", "waiting"} => ret'[e] = "ok"
  BY <1>1, <1>2 DEF Edge
<1>10. pc'[e] # "done" <=> status'[e] = 0
  BY <1>1 DEF Edge
<1>10a. status'[e] = 1 => e \in gone' \cup late'
  BY <1>1, UnansweredGrow DEF Edge
<1>11. (ret'[e] = "ok" => status'[e] \in {0, 1, 201}) /\ (status'[e] = 201 => ret'[e] = "ok")
  BY <1>1, <1>2, <1>5 DEF Edge
<1>12. QED
  BY <1>6, <1>7, <1>8, <1>9, <1>10, <1>10a, <1>11

LEMMA AnsweredBeforeKept ==
    ASSUME SP!IInv, HandlersTyped, HandlerAt, AnsweredBefore, [Next]_vars
    PROVE  AnsweredBefore'
<1> SUFFICES ASSUME NEW e \in Event, NEW f \in before'[e]
             PROVE  f # e /\ status'[f] = 201
  BY DEF AnsweredBefore
<1>1. before[e] \subseteq Event
  BY DEF HandlersTyped
<1>2. f \in Event /\ f # e /\ status[f] = 201
  <2>1. CASE Arrives(e)
    BY <2>1 DEF Arrives, HandlerAt
  <2>2. CASE before'[e] = before[e]
    BY <1>1, <2>2 DEF AnsweredBefore
  <2>3. QED
    BY <2>1, <2>2, Arrivals
<1>3. pc[f] = "done" /\ Edge(f)
  BY <1>2, Edges DEF HandlerAt
<1>4. QED
  BY <1>2, <1>3 DEF Edge, Active

-------------------------------------------------------------------------------
(* What is in the queues and in the topic after a step.                    *)
LEMMA QueueContents ==
    ASSUME SP!IInv, KafkaTyped, [Next]_vars,
           NEW q \in Partition, NEW i \in DOMAIN queue'[q]
    PROVE  \/ \E j \in DOMAIN queue[q] : queue'[q][i] = queue[q][j]
           \/ \E e \in Event : /\ Enqueue(e)
                               /\ q = PartitionFor(e)
                               /\ queue'[q][i] = Message(e)
<1> USE DEF KafkaTyped
<1>1. CASE queue' = queue
  BY <1>1
<1>2. ASSUME NEW p \in Partition, queue[p] # <<>>,
             queue' = [queue EXCEPT ![p] = Tail(@)]
      PROVE  \E j \in DOMAIN queue[q] : queue'[q][i] = queue[q][j]
  <2>1. CASE p = q
    <3>1. queue'[q] = Tail(queue[q]) /\ queue[q] \in Seq(Msg)
      BY <1>2, <2>1
    <3>2. i + 1 \in DOMAIN queue[q] /\ queue'[q][i] = queue[q][i + 1]
      BY <1>2, <2>1, <3>1, TailElements
    <3>3. QED
      BY <3>2
  <2>2. CASE p # q
    BY <1>2, <2>2
  <2>3. QED
    BY <2>1, <2>2
<1>3. CASE \E p \in Partition : Writes(p) \/ GivesUp(p)
  BY <1>1, <1>2, <1>3 DEF Writes, GivesUp
<1>4. ASSUME NEW e \in Event, Enqueue(e)
      PROVE  \/ \E j \in DOMAIN queue[q] : queue'[q][i] = queue[q][j]
             \/ q = PartitionFor(e) /\ queue'[q][i] = Message(e)
  <2>1. Message(e) \in Msg /\ queue[q] \in Seq(Msg)
    BY MessageType
  <2>2. CASE q = PartitionFor(e)
    <3>1. queue'[q] = Append(queue[q], Message(e))
      BY <1>4, <2>2 DEF Enqueue
    <3>2. QED
      BY <2>1, <2>2, <3>1, AppendElements
  <2>3. CASE q # PartitionFor(e)
    BY <1>4, <2>3 DEF Enqueue
  <2>4. QED
    BY <2>2, <2>3
<1>5. CASE Forgets
  BY <1>5 DEF Forgets
<1>6. QED
  BY KafkaSteps, <1>1, <1>3, <1>4, <1>5 DEF SameKafka

LEMMA TopicContents ==
    ASSUME KafkaTyped, [Next]_vars, NEW q \in Partition
    PROVE  /\ \A i \in DOMAIN topic[q] : /\ i \in DOMAIN topic'[q]
                                         /\ topic'[q][i] = topic[q][i]
                                         /\ i < Len(topic[q]) + 1
           /\ \A i \in DOMAIN topic'[q] :
                  \/ i \in DOMAIN topic[q]
                  \/ /\ i = Len(topic[q]) + 1
                     /\ 1 \in DOMAIN queue[q]
                     /\ topic'[q][i] = queue[q][1]
<1> USE DEF KafkaTyped
<1>1. topic[q] \in Seq(Msg) /\ queue[q] \in Seq(Msg)
  OBVIOUS
<1>2. \A i \in DOMAIN topic[q] : i < Len(topic[q]) + 1
  BY <1>1
<1>3. CASE topic'[q] = topic[q]
  BY <1>2, <1>3
<1>4. CASE queue[q] # <<>> /\ topic'[q] = Append(topic[q], Head(queue[q]))
  <2>1. 1 \in DOMAIN queue[q] /\ Head(queue[q]) = queue[q][1] /\ Head(queue[q]) \in Msg
    BY <1>1, <1>4, TailElements
  <2>2. QED
    BY <1>1, <1>2, <1>4, <2>1, AppendElements
<1>5. topic'[q] = topic[q] \/ (queue[q] # <<>> /\ topic'[q] = Append(topic[q], Head(queue[q])))
  BY KafkaSteps DEF SameKafka, Enqueue, Writes, GivesUp, Forgets
<1>6. QED
  BY <1>3, <1>4, <1>5

(* A message stays what its event would be sent as: once Append has        *)
(* returned, nothing about the event changes any more.                     *)
GenuineAfter(m, p) ==
    /\ m.id \in Event
    /\ ret'[m.id] = "ok"
    /\ pc'[m.id] # "publishing"
    /\ m = [id |-> m.id, stream_id |-> event'[m.id].stream_id, version |-> event'[m.id].version]
    /\ p = PartitionOf[event'[m.id].stream_id]

LEMMA GenuineKept ==
    ASSUME SP!IInv, HandlersTyped, HandlerAt, [Next]_vars,
           NEW m, NEW p, Genuine(m, p)
    PROVE  GenuineAfter(m, p)
<1> USE DEF Genuine
<1>1. ret'[m.id] = "ok" /\ event'[m.id] = event[m.id]
  BY StoreKeeps
<1>2. pc'[m.id] # "publishing"
  BY Edges DEF Edge, Answers, HandlerAt, Active
<1>3. QED
  BY <1>1, <1>2 DEF GenuineAfter, Message, PartitionFor

LEMMA MessagesKept ==
    ASSUME SP!IInv, KafkaTyped, HandlersTyped, HandlerAt, MessagesAreGenuine, [Next]_vars
    PROVE  MessagesAreGenuine'
<1>1. \A q \in Partition : \A j \in DOMAIN queue[q] : GenuineAfter(queue[q][j], q)
  BY GenuineKept DEF MessagesAreGenuine
<1>2. \A q \in Partition : \A j \in DOMAIN topic[q] : GenuineAfter(topic[q][j], q)
  BY GenuineKept DEF MessagesAreGenuine
<1>3. ASSUME NEW q \in Partition, NEW i \in DOMAIN queue'[q]
      PROVE  GenuineAfter(queue'[q][i], q)
  <2>1. ASSUME NEW e \in Event, Enqueue(e) PROVE GenuineAfter(Message(e), PartitionFor(e))
    <3>1. pc[e] = "publishing" /\ pc'[e] = "waiting" /\ UNCHANGED <<event, ret>>
      BY <2>1 DEF Enqueue, storeVars, HandlersTyped
    <3>2. ret[e] = "ok" /\ Message(e).id = e
      BY <3>1 DEF HandlerAt, Message
    <3>3. QED
      BY <3>1, <3>2 DEF GenuineAfter, Message, PartitionFor
  <2>2. QED
    BY <1>1, <2>1, QueueContents
<1>4. ASSUME NEW q \in Partition, NEW i \in DOMAIN topic'[q]
      PROVE  GenuineAfter(topic'[q][i], q)
  BY <1>1, <1>2, TopicContents
<1>5. QED
  BY <1>3, <1>4 DEF MessagesAreGenuine, Genuine, GenuineAfter, Message, PartitionFor

LEMMA AnsweredHasLeftKept ==
    ASSUME SP!IInv, KafkaTyped, HandlersTyped, HandlerAt, MessagesAreGenuine,
           AnsweredHasLeftQueue, [Next]_vars
    PROVE  AnsweredHasLeftQueue'
<1> SUFFICES ASSUME NEW e \in Event, status'[e] = 201, NEW q \in Partition,
                    NEW i \in DOMAIN queue'[q], queue'[q][i].id = e
             PROVE  FALSE
  BY DEF AnsweredHasLeftQueue, Queued
<1>1. Edge(e)
  BY Edges
<1>2. \A p \in Partition : \A j \in DOMAIN queue[p] :
          queue[p][j].id = e => pc[e] # "publishing" /\ Queued(e)
  BY DEF MessagesAreGenuine, Genuine, Queued
<1>3. CASE status[e] = 201
  <2>1. pc[e] = "done" /\ ~Queued(e)
    BY <1>3 DEF HandlerAt, AnsweredHasLeftQueue
  <2>2. \A f \in Event : Enqueue(f) => f # e /\ Message(f).id = f
    BY <2>1 DEF Enqueue, Message
  <2>3. QED
    BY <1>2, <2>1, <2>2, QueueContents
<1>4. CASE status[e] # 201
  <2>1. SameKafka /\ (pc[e] = "publishing" \/ ~Queued(e))
    BY <1>1, <1>4 DEF Edge, Answers, HandlerAt
  <2>2. QED
    BY <1>2, <2>1 DEF SameKafka
<1>5. QED
  BY <1>3, <1>4

-------------------------------------------------------------------------------
(* Requests that are sent one after another.                               *)
Versioned == {"computed", "inserted", "committed"}

LEMMA VersionChanges ==
    ASSUME SP!IInv, [Next]_vars, NEW e \in Event, stmt'[e] \in Versioned
    PROVE  \/ stmt[e] \in Versioned /\ version'[e] = version[e]
           \/ /\ stmt[e] = "sent"
              /\ version'[e] = SP!MaxVersion(event[e].stream_id) + 1
<1> USE StoreTypes DEF Versioned
<1>1. ASSUME NEW f \in Event, SP!ComputeVersion(f)
      PROVE  \/ stmt[e] \in Versioned /\ version'[e] = version[e]
             \/ /\ stmt[e] = "sent"
                /\ version'[e] = SP!MaxVersion(event[e].stream_id) + 1
  BY <1>1 DEF SP!ComputeVersion
<1>2. ASSUME NEW f \in Event,
             \/ SP!BeginAppend(f) \/ SP!InsertRow(f) \/ SP!UniqueViolation(f)
             \/ SP!CommitRow(f) \/ SP!AbortStmt(f) \/ SP!AppendReturns(f)
             \/ SP!AppendFails(f)
      PROVE  stmt[e] \in Versioned /\ version'[e] = version[e]
  BY <1>2 DEF SP!BeginAppend, SP!InsertRow, SP!UniqueViolation, SP!CommitRow,
              SP!AbortStmt, SP!AppendReturns, SP!AppendFails
<1>3. CASE UNCHANGED SP!vars
  BY <1>3 DEF SP!vars
<1>4. QED
  BY StoreSteps, <1>1, <1>2, <1>3 DEF SP!Next, SP!ServerStep

LEMMA ComputedAfterKept ==
    ASSUME SP!IInv, HandlersTyped, HandlerAt, AnsweredBefore, ComputedAfter, [Next]_vars
    PROVE  ComputedAfter'
<1> SUFFICES ASSUME NEW e \in Event, NEW f \in before'[e],
                    event'[e].stream_id = event'[f].stream_id,
                    stmt'[e] \in Versioned
             PROVE  version'[f] < version'[e]
  BY DEF ComputedAfter, Versioned
<1>1. before'[e] = before[e]
  BY Arrivals DEF Arrives, Versioned
<1>2. f \in Event /\ f # e /\ status[f] = 201
  BY <1>1 DEF AnsweredBefore, HandlersTyped
<1>3. stmt[f] = "committed" /\ version'[f] = version[f] /\ SP!RowOf(f) \in events
  BY <1>2, StoreTypes, StoreKeeps DEF HandlerAt
<1>4. event[e].stream_id = event[f].stream_id
  BY <1>2, StoreKeeps
<1>5. CASE stmt[e] \in Versioned /\ version'[e] = version[e]
  BY <1>1, <1>3, <1>4, <1>5 DEF ComputedAfter, Versioned
<1>6. CASE version'[e] = SP!MaxVersion(event[e].stream_id) + 1
  <2> DEFINE s == event[e].stream_id
  <2>1. s \in Stream
    BY StoreTypes
  <2>2. SP!MaxVersion(s) \in Nat /\ SP!VersionsOf(s) = 1..SP!MaxVersion(s)
    BY <2>1, SP!MaxIsNat DEF SP!IInv
  <2>3. version[f] \in SP!VersionsOf(s)
    BY <1>3, <1>4 DEF SP!VersionsOf, SP!RowOf
  <2>4. QED
    BY <1>3, <1>6, <2>2, <2>3
<1>7. QED
  BY <1>5, <1>6, VersionChanges

LEMMA WrittenAfterKept ==
    ASSUME SP!IInv, KafkaTyped, HandlersTyped, HandlerAt, MessagesAreGenuine,
           AnsweredHasLeftQueue, AnsweredBefore, WrittenAfter, [Next]_vars
    PROVE  WrittenAfter'
<1> SUFFICES ASSUME NEW e \in Event, NEW f \in before'[e],
                    event'[e].stream_id = event'[f].stream_id,
                    NEW i \in Occurrences(f)', NEW j \in Occurrences(e)'
             PROVE  i < j
  BY DEF WrittenAfter
<1> DEFINE p == PartitionFor(e)
<1>1. f \in Event
  BY AnsweredBeforeKept, HandlerTypes DEF HandlersTyped
<1>2. /\ event[e].stream_id = event[f].stream_id
      /\ PartitionFor(e)' = p /\ PartitionFor(f)' = p /\ PartitionFor(f) = p
      /\ p \in Partition
  BY <1>1, StoreKeeps, MessageType DEF PartitionFor
<1>3. /\ i \in DOMAIN topic'[p] /\ topic'[p][i].id = f
      /\ j \in DOMAIN topic'[p] /\ topic'[p][j].id = e
  BY <1>2 DEF Occurrences
<1>4. ret'[e] = "ok"
  BY <1>2, <1>3, MessagesKept DEF MessagesAreGenuine, Genuine
<1>5. before'[e] = before[e]
  BY <1>4, Arrivals, HandlerAtKept DEF Arrives, HandlerAt
<1>6. status[f] = 201 /\ ~Queued(f)
  BY <1>1, <1>5 DEF AnsweredBefore, AnsweredHasLeftQueue
<1>7. i \in DOMAIN topic[p] /\ topic[p][i].id = f /\ i < Len(topic[p]) + 1
  <2>1. ~(1 \in DOMAIN queue[p] /\ queue[p][1].id = f)
    BY <1>2, <1>6 DEF Queued
  <2>2. QED
    BY <1>2, <1>3, <2>1, TopicContents
<1>8. CASE j \in DOMAIN topic[p]
  <2>1. topic[p][j].id = e
    BY <1>2, <1>3, <1>8, TopicContents
  <2>2. i \in Occurrences(f) /\ j \in Occurrences(e)
    BY <1>2, <1>7, <1>8, <2>1 DEF Occurrences
  <2>3. QED
    BY <1>2, <1>5, <2>2 DEF WrittenAfter
<1>9. CASE j = Len(topic[p]) + 1
  BY <1>7, <1>9
<1>10. QED
  BY <1>2, <1>3, <1>8, <1>9, TopicContents

-------------------------------------------------------------------------------
(* While nothing fails.  The counters only grow, so that a step into a     *)
(* fault-free state starts in one.                                         *)
LEMMA FaultsCount ==
    ASSUME HandlersTyped, [Next]_vars
    PROVE  /\ FaultFree' => FaultFree /\ ~Fault
           /\ used'.gone = 0 => used.gone = 0 /\ gone' = gone
<1> USE BoundAssumption DEF HandlersTyped, FaultFree
<1>1. /\ used.faults \in Nat /\ used.gone \in Nat /\ used.crashes \in Nat
      /\ Fault => used'.faults = used.faults + 1 /\ UNCHANGED <<used.gone, used.crashes>>
  BY DEF Fault
<1>2. ASSUME UNCHANGED gone, UNCHANGED used \/ Fault
      PROVE  /\ FaultFree' => FaultFree /\ ~Fault
             /\ used'.gone = 0 => used.gone = 0 /\ gone' = gone
  BY <1>1, <1>2
<1>3. ASSUME NEW e \in Event,
             \/ Reject(e) \/ StartIngest(e) \/ StoreStep(e) \/ StoreAborts(e)
             \/ AppendReturns(e) \/ AppendFails(e) \/ Enqueue(e) \/ PublishRefused(e)
             \/ PublishReturns(e) \/ WriteTimeoutPasses(e)
      PROVE  UNCHANGED gone /\ (UNCHANGED used \/ Fault)
  BY <1>3 DEF Reject, StartIngest, StoreStep, StoreAborts, AppendReturns, AppendFails,
              Enqueue, PublishRefused, PublishReturns, RespondCreated, WriteTimeoutPasses,
              CallFails
<1>4. ASSUME NEW p \in Partition, Flush(p) \/ FlushFails(p)
      PROVE  UNCHANGED gone /\ (UNCHANGED used \/ Fault)
  BY <1>4 DEF Flush, FlushFails
<1>5. ASSUME ShutdownReturns \/ MainReturns \/ Restart
      PROVE  UNCHANGED gone /\ (UNCHANGED used \/ Fault)
  BY <1>5 DEF ShutdownReturns, MainReturns, Restart, ProcessEnds
<1>6. ASSUME NEW e \in Event, Disconnect(e)
      PROVE  /\ FaultFree' => FaultFree /\ ~Fault
             /\ used'.gone = 0 => used.gone = 0 /\ gone' = gone
  BY <1>1, <1>6 DEF Disconnect
<1>7. ASSUME Crash
      PROVE  /\ FaultFree' => FaultFree /\ ~Fault
             /\ used'.gone = 0 => used.gone = 0 /\ gone' = gone
  BY <1>1, <1>7 DEF Crash, ProcessEnds
<1>8. ASSUME Shutdown
      PROVE  /\ FaultFree' => FaultFree /\ ~Fault
             /\ used'.gone = 0 => used.gone = 0 /\ gone' = gone
  BY <1>1, <1>8 DEF Shutdown
<1>9. CASE UNCHANGED vars
  BY <1>1, <1>9 DEF vars
<1>10. QED
  BY <1>2, <1>3, <1>4, <1>5, <1>6, <1>7, <1>8, <1>9 DEF Next, HandlerStep

LEMMA DeliveredKept ==
    ASSUME KafkaTyped, [Next]_vars, NEW e, Delivered(e)
    PROVE  Delivered(e)'
BY TopicContents DEF Delivered

QuietWhenClosing == server \in {"closing", "down"} => \A e \in Event : pc[e] \notin Active

HandlerLosesNothing(e) == /\ pc[e] # "dead"
                          /\ pc[e] = "waiting" => Queued(e) \/ Delivered(e)
                          /\ status[e] = 201 => Delivered(e)

LEMMA NothingLostKept ==
    ASSUME SP!IInv, KafkaTyped, HandlersTyped, HandlerAt, NothingLost, [Next]_vars
    PROVE  NothingLost'
<1>1. used'.gone = 0 => gone' = {}
  BY FaultsCount DEF NothingLost
<1>2. SUFFICES ASSUME FaultFree'
               PROVE  QuietWhenClosing' /\ \A e \in Event : HandlerLosesNothing(e)'
  BY <1>1 DEF NothingLost, QuietWhenClosing, HandlerLosesNothing
<1>3. FaultFree /\ ~Fault /\ gone = {} /\ gone' = {}
  BY <1>2, FaultsCount DEF NothingLost, FaultFree
<1>4. QuietWhenClosing /\ \A e \in Event : HandlerLosesNothing(e)
  BY <1>3 DEF NothingLost, QuietWhenClosing, HandlerLosesNothing
<1>5. \A e \in Event : ~CallFails(e)
  BY <1>3 DEF CallFails
<1>6. \A e : Delivered(e) => Delivered(e)'
  BY DeliveredKept
<1>7. \A e \in Event : Edge(e)
  BY Edges
<1> DEFINE Goal == QuietWhenClosing' /\ \A e \in Event : HandlerLosesNothing(e)'
<1> SUFFICES Goal
  OBVIOUS
<1> HIDE DEF Goal
<1>8. ASSUME SameKafka,
             server' \in {"closing", "down"} =>
                 server' = server \/ \A e \in Event : pc[e] \notin Active,
             \A e \in Event :
                 \/ UNCHANGED <<pc[e], status[e]>>
                 \/ pc'[e] = "done" /\ status'[e] # 201
                 \/ pc'[e] = "done" /\ Delivered(e)
                 \/ /\ pc'[e] \in {"appending", "publishing"} /\ status'[e] # 201
                    /\ server' \notin {"closing", "down"}
      PROVE  Goal
  <2>1. \A e \in Event : Queued(e)' = Queued(e)
    BY <1>8 DEF SameKafka, Queued
  <2>2. \A e \in Event : HandlerLosesNothing(e)'
    BY <1>4, <1>6, <1>8, <2>1 DEF HandlerLosesNothing
  <2>3. QuietWhenClosing'
    BY <1>4, <1>8 DEF QuietWhenClosing, Active
  <2>4. QED
    BY <2>2, <2>3 DEF Goal
<1> USE DEF SameKafka, kafkaVars, HandlersTyped
<1>9. ASSUME NEW e \in Event, Reject(e) PROVE Goal
  <2>1. kind[e] \in {"unauthenticated", "malformed", "incomplete"}
    BY <1>9, KindAssumption DEF Reject
  <2>2. QED
    BY <1>8, <1>9, <2>1 DEF Reject, Respond
<1>10. ASSUME NEW e \in Event, StartIngest(e) PROVE Goal
  <2>1. status[e] = 0
    BY <1>10 DEF StartIngest, HandlerAt
  <2>2. QED
    BY <1>8, <1>10, <2>1 DEF StartIngest
<1>11. ASSUME NEW e \in Event, StoreStep(e) \/ StoreAborts(e) \/ Disconnect(e) PROVE Goal
  BY <1>8, <1>11 DEF StoreStep, StoreAborts, Disconnect
<1>12. ASSUME NEW e \in Event, AppendReturns(e) \/ AppendFails(e) PROVE Goal
  <2>1. pc[e] = "appending" /\ status[e] = 0 /\ AfterAppend(e)
    BY <1>12 DEF AppendReturns, AppendFails, HandlerAt
  <2>2. server \notin {"closing", "down"}
    BY <1>4, <2>1 DEF QuietWhenClosing, Active
  <2>3. QED
    BY <1>8, <1>12, <2>1, <2>2 DEF AppendReturns, AppendFails, AfterAppend, Respond
<1>13. ASSUME NEW e \in Event, Enqueue(e) PROVE Goal
  <2> DEFINE p == PartitionFor(e)
  <2>1. /\ pc[e] = "publishing" /\ status[e] = 0 /\ server \notin {"closing", "down"}
        /\ p \in Partition /\ Message(e) \in Msg /\ Message(e).id = e
    BY <1>4, <1>13, MessageType DEF Enqueue, HandlerAt, QuietWhenClosing, Active, Message
  <2>2. queue[p] \in Seq(Msg) /\ queue'[p] = Append(queue[p], Message(e))
    BY <1>13, <2>1 DEF Enqueue, KafkaTyped
  <2>3. \A f \in Event : Queued(f) \/ f = e => Queued(f)'
    <3>1. Queued(e)'
      BY <2>1, <2>2, AppendElements DEF Queued
    <3>2. ASSUME NEW f \in Event, NEW q \in Partition, NEW i \in DOMAIN queue[q],
                 queue[q][i].id = f
          PROVE  Queued(f)'
      <4>1. i \in DOMAIN queue'[q] /\ queue'[q][i] = queue[q][i]
        BY <1>13, <2>1, <2>2, AppendElements DEF Enqueue, KafkaTyped
      <4>2. QED
        BY <3>2, <4>1 DEF Queued
    <3>3. QED
      BY <3>1, <3>2 DEF Queued
  <2>4. \A f \in Event : HandlerLosesNothing(f)'
    BY <1>4, <1>6, <1>13, <2>1, <2>3 DEF Enqueue, HandlerLosesNothing
  <2>5. QuietWhenClosing'
    BY <1>13, <2>1 DEF Enqueue, QuietWhenClosing
  <2>6. QED
    BY <2>4, <2>5 DEF Goal
<1>14. ASSUME NEW e \in Event, PublishRefused(e) PROVE Goal
  BY <1>4, <1>5, <1>14 DEF PublishRefused, QuietWhenClosing, Active
<1>15. ASSUME NEW e \in Event, PublishReturns(e) PROVE Goal
  <2>1. Delivered(e)
    BY <1>3, <1>4, <1>15 DEF PublishReturns, HandlerLosesNothing
  <2>2. QED
    BY <1>8, <1>15, <2>1 DEF PublishReturns, RespondCreated, Respond
<1>16. ASSUME NEW e \in Event, WriteTimeoutPasses(e) PROVE Goal
  BY <1>3, <1>16 DEF WriteTimeoutPasses
<1>17. ASSUME NEW p \in Partition, Flush(p) PROVE Goal
  <2>1. queue[p] \in Seq(Msg) /\ topic[p] \in Seq(Msg) /\ queue[p] # <<>>
    BY <1>17 DEF Flush, KafkaTyped
  <2>2. queue'[p] = Tail(queue[p]) /\ topic'[p] = Append(topic[p], queue[p][1])
    BY <1>17, <2>1, TailElements DEF Flush, KafkaTyped
  <2>3. \A f \in Event : Queued(f) => Queued(f)' \/ Delivered(f)'
    <3>1. SUFFICES ASSUME NEW f \in Event, NEW q \in Partition, NEW i \in DOMAIN queue[q],
                          queue[q][i].id = f
                   PROVE  Queued(f)' \/ Delivered(f)'
      BY DEF Queued
    <3>2. CASE q # p
      BY <1>17, <3>1, <3>2 DEF Flush, KafkaTyped, Queued
    <3>3. CASE q = p /\ i = 1
      <4>1. queue[p][1] \in Msg
        BY <2>1
      <4>2. Len(topic[p]) + 1 \in DOMAIN topic'[p] /\ topic'[p][Len(topic[p]) + 1] = queue[p][1]
        BY <2>1, <2>2, <4>1, AppendElements
      <4>3. QED
        BY <3>1, <3>3, <4>2 DEF Delivered
    <3>4. CASE q = p /\ i # 1
      <4>1. i - 1 \in DOMAIN queue'[p] /\ queue'[p][i - 1] = queue[p][i]
        BY <2>1, <2>2, <3>4, TailElements
      <4>2. QED
        BY <3>1, <3>4, <4>1 DEF Queued
    <3>5. QED
      BY <3>2, <3>3, <3>4
  <2>4. \A f \in Event : HandlerLosesNothing(f)'
    BY <1>4, <1>6, <1>17, <2>3 DEF Flush, HandlerLosesNothing
  <2>5. QuietWhenClosing'
    BY <1>4, <1>17 DEF Flush, QuietWhenClosing
  <2>6. QED
    BY <2>4, <2>5 DEF Goal
<1>18. ASSUME NEW p \in Partition, FlushFails(p) PROVE Goal
  BY <1>3, <1>18 DEF FlushFails
<1>19. CASE Crash
  BY <1>2, <1>3, <1>19 DEF Crash, FaultFree
<1>20. CASE MainReturns
  <2>1. \A e \in Event : pc'[e] = pc[e] /\ status'[e] = status[e]
    BY <1>4, <1>20 DEF MainReturns, ProcessEnds, QuietWhenClosing
  <2>2. queue' = queue /\ topic' = topic
    BY <1>20 DEF MainReturns, ProcessEnds, KafkaTyped
  <2>3. \A e \in Event : pc[e] \notin Active
    BY <1>4, <1>20 DEF MainReturns, QuietWhenClosing
  <2>4. QED
    BY <1>8, <2>1, <2>2, <2>3
<1>21. CASE Shutdown \/ Restart
  BY <1>8, <1>21 DEF Shutdown, Restart
<1>22. CASE ShutdownReturns
  BY <1>3, <1>8, <1>22 DEF ShutdownReturns
<1>23. CASE UNCHANGED vars
  BY <1>8, <1>23 DEF vars
<1>24. QED
  BY <1>9, <1>10, <1>11, <1>12, <1>13, <1>14, <1>15, <1>16, <1>17, <1>18, <1>19, <1>20,
     <1>21, <1>22, <1>23 DEF Next, HandlerStep

-------------------------------------------------------------------------------
LEMMA InitIInv == Init => IInv
<1> SUFFICES ASSUME Init PROVE IInv
  OBVIOUS
<1> USE DEF Init
<1>1. SP!IInv /\ SP!Init
  BY SameStore, SP!InitIInv
<1>2. KafkaTyped /\ HandlersTyped
  BY BoundAssumption DEF KafkaTyped, HandlersTyped, Active
<1>3. TypeOK
  BY <1>1, <1>2, TypeParts DEF SP!IInv
<1>4. HandlerAt
  <2>1. ASSUME NEW e \in Event
        PROVE  stmt[e] = "idle" /\ ret[e] = "none" /\ pc[e] = "idle" /\ status[e] = 0
    BY <1>1 DEF SP!Init
  <2> HIDE DEF Init
  <2>2. ASSUME NEW e \in Event
        PROVE  /\ stmt[e] = "idle" => ret[e] = "none"
               /\ pc[e] \notin {"appending", "publishing", "waiting"}
               /\ ret[e] # "ok" /\ status[e] \notin {1, 201}
    BY <2>1
  <2>3. QED
    BY <2>1, <2>2 DEF HandlerAt
<1>5. /\ MessagesAreGenuine /\ AnsweredHasLeftQueue /\ AnsweredBefore
      /\ ComputedAfter /\ WrittenAfter
  BY DEF MessagesAreGenuine, AnsweredHasLeftQueue, AnsweredBefore, ComputedAfter,
         WrittenAfter
<1>6. NothingLost
  BY DEF NothingLost
<1>7. QED
  BY <1>1, <1>3, <1>4, <1>5, <1>6 DEF IInv

LEMMA NextIInv == IInv /\ [Next]_vars => IInv'
<1> SUFFICES ASSUME IInv, [Next]_vars PROVE IInv'
  OBVIOUS
<1> USE DEF IInv
<1>1. KafkaTyped /\ HandlersTyped
  BY TypeParts
<1>2. SP!IInv' /\ TypeOK'
  BY StoreInv, TypesKept
<1>3. HandlerAt' /\ MessagesAreGenuine' /\ AnsweredHasLeftQueue'
  BY <1>1, HandlerAtKept, MessagesKept, AnsweredHasLeftKept
<1>4. AnsweredBefore' /\ ComputedAfter' /\ WrittenAfter'
  BY <1>1, AnsweredBeforeKept, ComputedAfterKept, WrittenAfterKept
<1>5. NothingLost'
  BY <1>1, NothingLostKept
<1>6. QED
  BY <1>2, <1>3, <1>4, <1>5

LEMMA InductiveInvariant == Spec => []IInv
<1>1. Init => IInv
  BY InitIInv
<1>2. IInv /\ [Next]_vars => IInv'
  BY NextIInv
<1>3. QED
  BY <1>1, <1>2, PTL DEF Spec

(* An event whose Append succeeded has its row, with the version the       *)
(* caller knows.                                                           *)
LEMMA OkIsStored ==
    ASSUME SP!IInv, NEW e \in Event, ret[e] = "ok"
    PROVE  Stored(Message(e))
<1>1. SP!RowOf(e) \in events /\ event[e].version = version[e]
  BY StoreTypes
<1>2. QED
  BY <1>1 DEF Stored, Message, SP!RowOf

LEMMA IInvImpliesStoreComesFirst == IInv => StoreComesFirst
<1> SUFFICES ASSUME IInv PROVE StoreComesFirst
  OBVIOUS
<1>1. \A m, p : Genuine(m, p) => Stored(m)
  BY OkIsStored DEF IInv, Genuine
<1>2. QED
  BY <1>1, OkIsStored DEF IInv, StoreComesFirst, MessagesAreGenuine, HandlerAt

LEMMA IInvImpliesSequentialOrder == IInv => SequentialRequestsStayInOrder
<1> SUFFICES ASSUME IInv, NEW e \in Event, NEW f \in before[e],
                    event[e].stream_id = event[f].stream_id
             PROVE  /\ ret[e] = "ok" => event[f].version < event[e].version
                    /\ \A i \in Occurrences(f), j \in Occurrences(e) : i < j
  BY DEF SequentialRequestsStayInOrder
<1>1. f \in Event /\ ret[f] = "ok"
  BY TypeParts DEF IInv, HandlersTyped, AnsweredBefore, HandlerAt
<1>2. ret[e] = "ok" => event[f].version < event[e].version
  BY <1>1, StoreTypes DEF IInv, ComputedAfter
<1>3. QED
  BY <1>2 DEF IInv, WrittenAfter

-------------------------------------------------------------------------------
(* The variables keep their types, whatever is started, lost or cut off.   *)
THEOREM TypeCorrect == Spec => []TypeOK
BY InductiveInvariant, PTL DEF IInv

(* Whatever is queued for Kafka or in Kafka is in the store with the same  *)
(* version, and so is every event answered with 201.                       *)
THEOREM StoreBeforeKafka == Spec => []StoreComesFirst
BY InductiveInvariant, IInvImpliesStoreComesFirst, PTL

(* Once Append has succeeded the handler ends with 201; only a client that *)
(* has left or whose WriteTimeout has passed does not get it.              *)
THEOREM KafkaIsHarmless == Spec => []KafkaNeverFailsRequest
<1>1. IInv => KafkaNeverFailsRequest
  BY DEF IInv, HandlerAt, KafkaNeverFailsRequest
<1>2. QED
  BY <1>1, InductiveInvariant, PTL

(* Requests sent one after another keep their order in the store and in    *)
(* Kafka, for any partitioner and however often a message is repeated.     *)
THEOREM SequentialOrder == Spec => []SequentialRequestsStayInOrder
BY InductiveInvariant, IInvImpliesSequentialOrder, PTL

(* While nothing fails, a 201 means that Kafka has the event, and graceful *)
(* shutdowns, any number of them, cut off no handler.                      *)
THEOREM FaultFreeDropsNothing == Spec => []NothingDropped
<1>1. IInv => NothingDropped
  BY DEF IInv, NothingLost, FaultFree, NothingDropped
<1>2. QED
  BY <1>1, InductiveInvariant, PTL

(* The process as a whole, with its handlers, crashes and shutdowns, uses  *)
(* the store as EventStore allows, and so implements the abstract log.     *)
THEOREM IngestImplementsEventLog == Spec => SP!ImplementsEventLog
<1>1. Init => SP!Init
  BY SameStore DEF Init
<1>2. [Next]_vars => [SP!Next]_(SP!vars)
  BY StoreSteps
<1>3. Spec => SP!Spec
  BY <1>1, <1>2, PTL DEF Spec, SP!Spec
<1>4. SP!Spec => SP!ImplementsEventLog
  BY SP!EventStoreImplementsEventLog
<1>5. QED
  BY <1>3, <1>4
===============================================================================
