----------------------------- MODULE PipelineProofs ---------------------------
(***************************************************************************)
(* Pipeline, for any number of processes and events, any routes and any    *)
(* budget of faults: what serves is provisioned, only the race for the     *)
(* table ends a process, and the read model follows the store.             *)
(***************************************************************************)
EXTENDS Pipeline, TLAPS

(* A process that starts up knows what the steps behind it have made sure  *)
(* of; and it stays true, because nothing in Kafka, PostgreSQL or          *)
(* Elasticsearch is ever removed.                                          *)
Known(p) ==
    /\ p \in Consumer => pc[p] \notin {"store", "schema"}
    /\ p \in Replayer => pc[p] \in {"down", "store", "schema", "ready"}
    /\ p \notin Consumer /\ pc[p] \notin {"down", "store", "schema"} => table
    /\ p \notin Replayer /\ pc[p] \in {"index", "mapping", "ready"} =>
           \A t \in Specs(p) : topics[t] # 0
    /\ pc[p] = "creating" => \A t \in Specs(p) : t \in toCreate[p] \/ topics[t] # 0
    /\ p \notin Replayer /\ pc[p] = "ready" => index = "mapped"

ProvisionInv == NothingAutoCreated /\ \A p \in Process : Known(p)

Kept == /\ table => table'
        /\ \A t \in Topic : topics[t] # 0 => topics'[t] = topics[t]
        /\ index # "absent" => index' = index

-------------------------------------------------------------------------------
LEMMA TopicFacts ==
    /\ MainTopic \in Topic /\ DLQTopicName \in Topic
    /\ \A e : Resolve(e) \in Topics
    /\ Topics \subseteq Topic
    /\ \A p : Specs(p) \subseteq Topic
    /\ \A t : Partitions(t) \in Nat \ {0}
BY TopicAssumption, PartitionAssumption DEF Topics, Resolve, Specs, Partitions

LEMMA InitTopicFacts == \A i \in 1..2 : InitTopic[i] \in {MainTopic, DLQTopicName}
BY DEF InitTopic

LEMMA InitTypeOK == Init => TypeOK
<1> SUFFICES ASSUME Init PROVE TypeOK
  OBVIOUS
<1>1. log \in [Topic -> Seq(Event)]
  BY DEF Init
<1>2. used \in [faults : Nat, terms : Nat, crashes : Nat]
  BY DEF Init
<1>3. pc \in [Process -> Starting \cup {"down", "ready"}] /\ toCreate \in [Process -> SUBSET Topic]
  BY DEF Init
<1>4. attempts \in [Process -> Nat] /\ topics \in [Topic -> Nat]
  BY DEF Init
<1>5. /\ term \subseteq Process /\ table \in BOOLEAN /\ index \in {"absent", "mapped", "dynamic"}
      /\ initStep \in 1..3 /\ offset \in Nat
  <2>1. table \in BOOLEAN
    BY Zenon DEF Init
  <2>2. term \subseteq Process /\ index \in {"absent", "mapped", "dynamic"}
    BY DEF Init
  <2>3. initStep \in 1..3 /\ offset \in Nat
    BY DEF Init
  <2>4. QED
    BY <2>1, <2>2, <2>3
<1>6. stored \subseteq Event /\ pending \subseteq Ingester \X Event /\ shown \subseteq Event /\ refused \subseteq Event
  BY DEF Init
<1>7. QED
  BY <1>1, <1>2, <1>3, <1>4, <1>5, <1>6 DEF TypeOK

(* The control of one process moves within its types.                      *)
ControlTypeOK == /\ pc \in [Process -> Starting \cup {"down", "ready"}]
                 /\ attempts \in [Process -> Nat]
                 /\ toCreate \in [Process -> SUBSET Topic]
                 /\ term \subseteq Process
                 /\ pending \subseteq Ingester \X Event

LEMMA ExitTypes == ASSUME TypeOK, NEW p \in Process, Exit(p) PROVE ControlTypeOK'
BY DEF TypeOK, Exit, ControlTypeOK

LEMMA GoToTypes ==
    ASSUME TypeOK, NEW p \in Process, NEW s \in Starting \cup {"ready"}, GoTo(p, s)
    PROVE  ControlTypeOK'
BY DEF TypeOK, GoTo, ControlTypeOK

LEMMA RetryTypes ==
    ASSUME TypeOK, NEW p \in Process, NEW s \in Starting, Retry(p, s)
    PROVE  ControlTypeOK'
BY DEF TypeOK, Retry, ControlTypeOK

LEMMA TopicsAttemptTypes ==
    ASSUME TypeOK, NEW p \in Process, TopicsAttemptFails(p) PROVE ControlTypeOK'
BY ExitTypes, RetryTypes DEF TopicsAttemptFails, Starting

LEMMA IndexAttemptTypes ==
    ASSUME TypeOK, NEW p \in Process, IndexAttemptFails(p) PROVE ControlTypeOK'
BY ExitTypes, RetryTypes DEF IndexAttemptFails, Starting

LEMMA FaultTypes ==
    ASSUME TypeOK, NEW p, CallFails(p) \/ Fault
    PROVE  used' \in [faults : Nat, terms : Nat, crashes : Nat]
BY BoundAssumption DEF TypeOK, CallFails, Fault

LEMMA TopicTypes ==
    ASSUME TypeOK
    PROVE  /\ \A TS : Created(TS) \in [Topic -> Nat]
           /\ \A p : ReadBy(p) \in [Topic -> Nat]
BY TopicFacts, PartitionAssumption DEF TypeOK, Created, ReadBy

LEMMA ServeTypes ==
    ASSUME TypeOK, NEW p \in Process, Serve(p)
    PROVE  ControlTypeOK' /\ topics' \in [Topic -> Nat] /\ offset' = offset
BY GoToTypes, TopicTypes DEF Serve

(* Every step of the platform keeps the types.                             *)
LEMMA StepTypeOK == TypeOK /\ [Next]_vars => TypeOK'
<1> SUFFICES ASSUME TypeOK, [Next]_vars PROVE TypeOK'
  OBVIOUS
<1> USE DEF infraVars, startVars, eventVars
<1>1. ASSUME NEW p \in Process, Start(p) PROVE TypeOK'
  <2>1. ControlTypeOK'
    BY <1>1, GoToTypes DEF Start, Starting
  <2>2. QED
    BY <1>1, <2>1 DEF Start, TypeOK, ControlTypeOK
<1>2. ASSUME NEW p \in Process, OpenStore(p) PROVE TypeOK'
  <2>1. ControlTypeOK'
    BY <1>2, GoToTypes DEF OpenStore, AfterStore, Starting
  <2>2. QED
    BY <1>2, <2>1 DEF OpenStore, TypeOK, ControlTypeOK
<1>2a. ASSUME NEW p \in Process, CreateSchema(p) PROVE TypeOK'
  <2>1. ControlTypeOK'
    BY <1>2a, GoToTypes, ExitTypes DEF CreateSchema, AfterStore, Starting
  <2>2. QED
    BY <1>2a, <2>1 DEF CreateSchema, TypeOK, ControlTypeOK
<1>3. ASSUME NEW p \in Process, OpenStoreFails(p) PROVE TypeOK'
  <2>1. table' \in BOOLEAN
    BY <1>3 DEF OpenStoreFails, TypeOK
  <2>2. QED
    BY <1>3, <2>1, ExitTypes, FaultTypes DEF OpenStoreFails, TypeOK, ControlTypeOK
<1>4. ASSUME NEW p \in Process, ReadTopics(p) PROVE TypeOK'
  <2>1. CASE {t \in Specs(p) : topics[t] = 0} = {}
    <3>1. ControlTypeOK'
      BY <1>4, <2>1, GoToTypes DEF ReadTopics, Starting
    <3>2. QED
      BY <1>4, <3>1 DEF ReadTopics, TypeOK, ControlTypeOK
  <2>2. CASE {t \in Specs(p) : topics[t] = 0} # {}
    <3>1. /\ pc' = [pc EXCEPT ![p] = "creating"]
          /\ toCreate' = [toCreate EXCEPT ![p] = {t \in Specs(p) : topics[t] = 0}]
          /\ UNCHANGED <<attempts, term, pending>>
      BY <1>4, <2>2 DEF ReadTopics
    <3>2. {t \in Specs(p) : topics[t] = 0} \in SUBSET Topic
      BY TopicFacts
    <3>3. ControlTypeOK'
      BY <3>1, <3>2 DEF ControlTypeOK, TypeOK, Starting
    <3>4. QED
      BY <1>4, <3>3 DEF ReadTopics, TypeOK, ControlTypeOK
  <2>3. QED
    BY <2>1, <2>2
<1>5. ASSUME NEW p \in Process, ReadTopicsFails(p) PROVE TypeOK'
  BY <1>5, TopicsAttemptTypes, FaultTypes DEF ReadTopicsFails, TypeOK, ControlTypeOK
<1>6. ASSUME NEW p \in Process, CreateTopics(p) PROVE TypeOK'
  <2>1. ControlTypeOK'
    BY <1>6, GoToTypes, TopicsAttemptTypes DEF CreateTopics, Starting
  <2>2. topics' \in [Topic -> Nat]
    BY <1>6, TopicTypes DEF CreateTopics
  <2>3. QED
    BY <1>6, <2>1, <2>2 DEF CreateTopics, TypeOK, ControlTypeOK
<1>7. ASSUME NEW p \in Process, CreateTopicsFails(p) PROVE TypeOK'
  <2>1. topics' \in [Topic -> Nat]
    BY <1>7, TopicTypes DEF CreateTopicsFails
  <2>2. QED
    BY <1>7, <2>1, TopicsAttemptTypes, FaultTypes DEF CreateTopicsFails, TypeOK, ControlTypeOK
<1>8. ASSUME NEW p \in Process, CheckIndex(p) PROVE TypeOK'
  <2>1. ControlTypeOK' /\ topics' \in [Topic -> Nat] /\ offset' = offset
    BY <1>8, ServeTypes DEF CheckIndex, TypeOK, ControlTypeOK, Starting
  <2>2. QED
    BY <1>8, <2>1 DEF CheckIndex, TypeOK, ControlTypeOK
<1>9. ASSUME NEW p \in Process, CheckIndexFails(p) PROVE TypeOK'
  <2>1. ControlTypeOK' /\ UNCHANGED <<topics, offset>>
    BY <1>9, IndexAttemptTypes DEF CheckIndexFails, TypeOK, ControlTypeOK, Starting, IndexAttemptFails
  <2>2. used' \in [faults : Nat, terms : Nat, crashes : Nat]
    BY <1>9, FaultTypes DEF CheckIndexFails
  <2>3. QED
    BY <1>9, <2>1, <2>2 DEF CheckIndexFails, TypeOK, ControlTypeOK
<1>10. ASSUME NEW p \in Process, CreateIndex(p) PROVE TypeOK'
  <2>1. ControlTypeOK' /\ topics' \in [Topic -> Nat] /\ offset' = offset
    BY <1>10, ServeTypes, IndexAttemptTypes DEF CreateIndex, IndexAttemptFails, TypeOK
  <2>2. QED
    BY <1>10, <2>1 DEF CreateIndex, TypeOK, ControlTypeOK
<1>11. ASSUME NEW p \in Process, CreateIndexFails(p) PROVE TypeOK'
  <2>1. ControlTypeOK' /\ UNCHANGED <<topics, offset>>
    BY <1>11, IndexAttemptTypes DEF CreateIndexFails, IndexAttemptFails
  <2>2. used' \in [faults : Nat, terms : Nat, crashes : Nat]
    BY <1>11, FaultTypes DEF CreateIndexFails
  <2>3. QED
    BY <1>11, <2>1, <2>2 DEF CreateIndexFails, TypeOK, ControlTypeOK
<1>12. ASSUME NEW p \in Process, Signal(p) PROVE TypeOK'
  <2>1. used' \in [faults : Nat, terms : Nat, crashes : Nat]
    BY <1>12 DEF Signal, TypeOK
  <2>2. term' \subseteq Process
    BY <1>12 DEF Signal, TypeOK
  <2>3. QED
    BY <1>12, <2>1, <2>2 DEF Signal, TypeOK
<1>13. ASSUME NEW p \in Process, Stop(p) PROVE TypeOK'
  BY <1>13, ExitTypes DEF Stop, TypeOK, ControlTypeOK
<1>14. ASSUME NEW p \in Process, Crash(p) PROVE TypeOK'
  <2>1. used' \in [faults : Nat, terms : Nat, crashes : Nat]
    <3>1. used' = [used EXCEPT !.crashes = @ + 1] /\ used \in [faults : Nat, terms : Nat, crashes : Nat]
      BY <1>14 DEF Crash, TypeOK
    <3>2. QED
      BY <3>1
  <2>2. ControlTypeOK'
    BY <1>14, ExitTypes DEF Crash
  <2>3. QED
    BY <1>14, <2>1, <2>2 DEF Crash, TypeOK, ControlTypeOK
<1>15. CASE InitCreate
  BY <1>15, InitTopicFacts, TopicFacts, PartitionAssumption DEF InitCreate, TypeOK
<1>16. CASE InitFails
  <2>1. used' \in [faults : Nat, terms : Nat, crashes : Nat]
    BY <1>16, FaultTypes DEF InitFails
  <2>2. QED
    BY <1>16, <2>1 DEF InitFails, TypeOK
<1>17. ASSUME NEW p \in Process, NEW e \in Event, Post(p, e) PROVE TypeOK'
  BY <1>17 DEF Post, TypeOK
<1>18. ASSUME NEW p \in Process, NEW e \in Event, Publishing(p, e) PROVE TypeOK'
  <2>1. log' \in [Topic -> Seq(Event)]
    <3>1. [log EXCEPT ![Resolve(e)] = Append(@, e)] \in [Topic -> Seq(Event)]
      BY TopicFacts DEF TypeOK
    <3>2. QED
      BY <1>18, <3>1 DEF Publishing, Publish, PublishAgain, PublishFails, TypeOK
  <2>2. used' \in [faults : Nat, terms : Nat, crashes : Nat]
    BY <1>18, FaultTypes DEF Publishing, Publish, PublishAgain, PublishFails, TypeOK
  <2>3. QED
    BY <1>18, <2>1, <2>2 DEF Publishing, Publish, PublishAgain, PublishFails, TypeOK
<1>19. ASSUME NEW c \in Process, Consuming(c) PROVE TypeOK'
  <2>1. HasMessage(c)
    BY <1>19 DEF Consuming, Consume, ConsumeRefused, ConsumerFails
  <2>2. log[MainTopic][offset + 1] \in Event
    BY <2>1, TopicFacts DEF HasMessage, TypeOK
  <2>3. CASE Consume(c)
    BY <2>2, <2>3 DEF Consume, IndexDocument, TypeOK
  <2>4. CASE ConsumeRefused(c)
    BY <2>2, <2>4 DEF ConsumeRefused, Fault, TypeOK
  <2>5. CASE ConsumerFails(c)
    <3>1. ControlTypeOK' /\ used' \in [faults : Nat, terms : Nat, crashes : Nat]
      BY <2>5, ExitTypes, FaultTypes DEF ConsumerFails
    <3>2. QED
      BY <2>2, <2>5, <3>1 DEF ConsumerFails, IndexDocument, TypeOK, ControlTypeOK
  <2>6. QED
    BY <1>19, <2>3, <2>4, <2>5 DEF Consuming
<1>20. CASE UNCHANGED vars
  BY <1>20 DEF vars, TypeOK
<1>21. QED
  BY <1>1, <1>2, <1>2a, <1>3, <1>4, <1>5, <1>6, <1>7, <1>8, <1>9, <1>10, <1>11, <1>12, <1>13,
     <1>14, <1>15, <1>16, <1>17, <1>18, <1>19, <1>20 DEF Next, StartUp, CallFailure

(* Every variable keeps its type.                                          *)
THEOREM TypeCorrect == Spec => []TypeOK
BY InitTypeOK, StepTypeOK, PTL DEF Spec

-------------------------------------------------------------------------------
(* What is provisioned stays, and only the process that moves has anything *)
(* new to know.                                                            *)
Moves(p) == /\ pc' = [pc EXCEPT ![p] = pc'[p]]
            /\ toCreate' = [toCreate EXCEPT ![p] = toCreate'[p]]

LEMMA ProvisionStep ==
    ASSUME TypeOK, ProvisionInv, NEW p \in Process,
           Moves(p), Kept, Known(p)', NothingAutoCreated'
    PROVE  ProvisionInv'
<1> SUFFICES ASSUME NEW q \in Process, q # p PROVE Known(q)'
  BY DEF ProvisionInv
<1>1. pc'[q] = pc[q] /\ toCreate'[q] = toCreate[q]
  BY DEF Moves, TypeOK
<1>2. Known(q)
  BY DEF ProvisionInv
<1>3. \A t \in Specs(q) : topics[t] # 0 => topics'[t] # 0
  BY TopicFacts DEF Kept
<1>4. QED
  BY <1>1, <1>2, <1>3 DEF Known, Kept

LEMMA ExitMoves ==
    ASSUME TypeOK, NEW p \in Process, Exit(p)
    PROVE  Moves(p) /\ pc'[p] = "down" /\ Known(p)'
BY DEF TypeOK, Exit, Moves, Known

LEMMA GoToMoves ==
    ASSUME TypeOK, NEW p \in Process, NEW s, GoTo(p, s)
    PROVE  Moves(p) /\ pc'[p] = s
BY DEF TypeOK, GoTo, Moves

LEMMA RetryMoves ==
    ASSUME TypeOK, NEW p \in Process, NEW s, Retry(p, s)
    PROVE  Moves(p) /\ pc'[p] = s
BY DEF TypeOK, Retry, Moves

LEMMA TopicsAttemptMoves ==
    ASSUME TypeOK, NEW p \in Process, TopicsAttemptFails(p)
    PROVE  Moves(p) /\ pc'[p] \in {"down", "topics"}
BY ExitMoves, RetryMoves DEF TopicsAttemptFails

LEMMA IndexAttemptMoves ==
    ASSUME TypeOK, NEW p \in Process, IndexAttemptFails(p)
    PROVE  Moves(p) /\ pc'[p] \in {"down", "index"}
BY ExitMoves, RetryMoves DEF IndexAttemptFails

(* Creating topics neither changes one that exists nor makes one with the  *)
(* broker's defaults.                                                      *)
LEMMA CreatedKeeps ==
    ASSUME TypeOK, NEW TS
    PROVE  \A t \in Topic : /\ topics[t] # 0 => Created(TS)[t] = topics[t]
                            /\ t \in TS => Created(TS)[t] # 0
                            /\ Created(TS)[t] \in {topics[t], Partitions(t)}
BY TopicFacts DEF TypeOK, Created

(* A consumer that reaches its reader has made sure of the topic it reads. *)
LEMMA ReaderCreatesNothing ==
    ASSUME TypeOK, ProvisionInv, NEW p \in Process, pc[p] \in {"index", "mapping"}
    PROVE  ReadBy(p) = topics
<1>1. p \in Consumer => topics[MainTopic] # 0
  BY ProcessAssumption DEF ProvisionInv, Known, Specs, Topics
<1>2. ReadBy(p) = [t \in Topic |-> topics[t]]
  BY <1>1 DEF ReadBy
<1>3. QED
  BY <1>2 DEF TypeOK

LEMMA InitProvisionInv == Init => ProvisionInv
BY DEF Init, ProvisionInv, NothingAutoCreated, Known

(* A step that leaves Kafka, the table and the index alone, and p where it *)
(* knows no more than it did.                                              *)
LEMMA QuietStep ==
    ASSUME TypeOK, ProvisionInv, NEW p \in Process, Moves(p), Known(p)',
           UNCHANGED <<table, topics, index>>
    PROVE  ProvisionInv'
<1>1. Kept
  BY DEF Kept
<1>2. NothingAutoCreated'
  BY DEF ProvisionInv, NothingAutoCreated
<1>3. QED
  BY <1>1, <1>2, ProvisionStep

LEMMA StepProvisionInv == TypeOK /\ ProvisionInv /\ [Next]_vars => ProvisionInv'
<1> SUFFICES ASSUME TypeOK, ProvisionInv, [Next]_vars PROVE ProvisionInv'
  OBVIOUS
<1> USE DEF infraVars, startVars, eventVars
<1>0. ASSUME UNCHANGED <<pc, toCreate, table, topics, index>> PROVE ProvisionInv'
  BY <1>0 DEF ProvisionInv, NothingAutoCreated, Known
<1>1. ASSUME NEW p \in Process, Start(p) PROVE ProvisionInv'
  <2>1. Moves(p) /\ pc'[p] = IF p \in Consumer THEN "topics" ELSE "store"
    BY <1>1, GoToMoves DEF Start
  <2>2. Known(p)'
    BY <2>1, ProcessAssumption DEF Known
  <2>3. QED
    BY <1>1, <2>1, <2>2, QuietStep DEF Start
<1>2. ASSUME NEW p \in Process, OpenStore(p) PROVE ProvisionInv'
  <2>1. Moves(p) /\ pc'[p] = IF table THEN AfterStore(p) ELSE "schema"
    BY <1>2, GoToMoves DEF OpenStore
  <2>2. p \notin Consumer /\ UNCHANGED <<table, topics, index>>
    BY <1>2 DEF OpenStore, ProvisionInv, Known
  <2>3. Known(p)'
    BY <2>1, <2>2, ProcessAssumption DEF Known, AfterStore, Process
  <2>4. QED
    BY <2>1, <2>2, <2>3, QuietStep
<1>2a. ASSUME NEW p \in Process, CreateSchema(p) PROVE ProvisionInv'
  <2>1. Moves(p) /\ (pc'[p] = "down" \/ pc'[p] = AfterStore(p))
    BY <1>2a, GoToMoves, ExitMoves DEF CreateSchema
  <2>2. p \notin Consumer /\ table'
    BY <1>2a DEF CreateSchema, ProvisionInv, Known
  <2>3. Known(p)'
    BY <2>1, <2>2, ProcessAssumption DEF Known, AfterStore, Process
  <2>4. Kept /\ NothingAutoCreated'
    BY <1>2a DEF CreateSchema, Kept, ProvisionInv, NothingAutoCreated
  <2>5. QED
    BY <2>1, <2>3, <2>4, ProvisionStep
<1>3. ASSUME NEW p \in Process, OpenStoreFails(p) PROVE ProvisionInv'
  <2>1. Moves(p) /\ Known(p)'
    BY <1>3, ExitMoves DEF OpenStoreFails
  <2>2. Kept /\ NothingAutoCreated'
    <3>1. table => table'
      BY <1>3 DEF OpenStoreFails
    <3>2. QED
      BY <1>3, <3>1 DEF OpenStoreFails, Kept, ProvisionInv, NothingAutoCreated
  <2>3. QED
    BY <2>1, <2>2, ProvisionStep
<1>4. ASSUME NEW p \in Process, ReadTopics(p) PROVE ProvisionInv'
  <2>1. pc[p] = "topics" /\ UNCHANGED <<table, topics, index>>
    BY <1>4 DEF ReadTopics
  <2>2. p \notin Replayer /\ (p \notin Consumer => table)
    BY <2>1 DEF ProvisionInv, Known
  <2>3. CASE {t \in Specs(p) : topics[t] = 0} = {}
    <3>1. Moves(p) /\ pc'[p] = "index"
      BY <1>4, <2>3, GoToMoves DEF ReadTopics
    <3>2. Known(p)'
      BY <2>1, <2>2, <2>3, <3>1 DEF Known
    <3>3. QED
      BY <2>1, <3>1, <3>2, QuietStep
  <2>4. CASE {t \in Specs(p) : topics[t] = 0} # {}
    <3>1. /\ pc' = [pc EXCEPT ![p] = "creating"]
          /\ toCreate' = [toCreate EXCEPT ![p] = {t \in Specs(p) : topics[t] = 0}]
      BY <1>4, <2>4 DEF ReadTopics
    <3>2. Moves(p) /\ pc'[p] = "creating" /\ toCreate'[p] = {t \in Specs(p) : topics[t] = 0}
      BY <3>1 DEF Moves, TypeOK
    <3>3. Known(p)'
      BY <2>1, <2>2, <3>2 DEF Known
    <3>4. QED
      BY <2>1, <3>2, <3>3, QuietStep
  <2>5. QED
    BY <2>3, <2>4
<1>5. ASSUME NEW p \in Process, ReadTopicsFails(p) PROVE ProvisionInv'
  <2>1. Moves(p) /\ pc'[p] \in {"down", "topics"} /\ UNCHANGED <<table, topics, index>>
    BY <1>5, TopicsAttemptMoves DEF ReadTopicsFails
  <2>2. Known(p)'
    BY <1>5, <2>1 DEF ReadTopicsFails, Known, ProvisionInv
  <2>3. QED
    BY <2>1, <2>2, QuietStep
<1>6. ASSUME NEW p \in Process, CreateTopics(p) PROVE ProvisionInv'
  <2>1. /\ pc[p] = "creating" /\ topics' = Created(toCreate[p]) /\ UNCHANGED <<table, index>>
    BY <1>6 DEF CreateTopics
  <2>2. Kept
    BY <2>1, CreatedKeeps DEF Kept
  <2>3. NothingAutoCreated'
    BY <2>1, CreatedKeeps DEF NothingAutoCreated, ProvisionInv
  <2>4. Moves(p) /\ pc'[p] \in {"index", "down", "topics"}
    BY <1>6, GoToMoves, TopicsAttemptMoves DEF CreateTopics
  <2>5. \A t \in Specs(p) : topics'[t] # 0
    BY <2>1, CreatedKeeps, TopicFacts DEF ProvisionInv, Known
  <2>6. Known(p)'
    BY <2>1, <2>4, <2>5 DEF Known, ProvisionInv
  <2>7. QED
    BY <2>2, <2>3, <2>4, <2>6, ProvisionStep
<1>7. ASSUME NEW p \in Process, CreateTopicsFails(p) PROVE ProvisionInv'
  <2>1. PICK TS \in SUBSET toCreate[p] : topics' = Created(TS)
    BY <1>7 DEF CreateTopicsFails
  <2>2. pc[p] = "creating" /\ UNCHANGED <<table, index>>
    BY <1>7 DEF CreateTopicsFails
  <2>3. Kept
    BY <2>1, <2>2, CreatedKeeps DEF Kept
  <2>4. NothingAutoCreated'
    BY <2>1, <2>2, CreatedKeeps DEF NothingAutoCreated, ProvisionInv
  <2>5. Moves(p) /\ pc'[p] \in {"down", "topics"}
    BY <1>7, TopicsAttemptMoves DEF CreateTopicsFails
  <2>6. Known(p)'
    BY <2>2, <2>5 DEF Known, ProvisionInv
  <2>7. QED
    BY <2>3, <2>4, <2>5, <2>6, ProvisionStep
<1>8. ASSUME NEW p \in Process, CheckIndex(p) PROVE ProvisionInv'
  <2>1. pc[p] = "index" /\ UNCHANGED <<table, index>>
    BY <1>8 DEF CheckIndex
  <2>2. CASE index # "absent"
    <3>1. Moves(p) /\ pc'[p] = "ready" /\ UNCHANGED topics
      BY <1>8, <2>1, <2>2, GoToMoves, ReaderCreatesNothing DEF CheckIndex, Serve
    <3>2. index = "mapped"
      BY <2>2 DEF ProvisionInv, NothingAutoCreated, TypeOK
    <3>3. Known(p)'
      BY <2>1, <3>1, <3>2 DEF Known, ProvisionInv
    <3>4. QED
      BY <2>1, <3>1, <3>3, QuietStep
  <2>3. CASE index = "absent"
    <3>1. pc' = [pc EXCEPT ![p] = "mapping"] /\ UNCHANGED <<toCreate, topics>>
      BY <1>8, <2>3 DEF CheckIndex
    <3>2. Moves(p) /\ pc'[p] = "mapping"
      BY <3>1 DEF Moves, TypeOK
    <3>3. Known(p)'
      BY <2>1, <3>1, <3>2 DEF Known, ProvisionInv
    <3>4. QED
      BY <2>1, <3>1, <3>2, <3>3, QuietStep
  <2>4. QED
    BY <2>2, <2>3
<1>9. ASSUME NEW p \in Process, CheckIndexFails(p) PROVE ProvisionInv'
  <2>1. pc[p] = "index" /\ UNCHANGED <<table, topics, index>>
    BY <1>9 DEF CheckIndexFails, IndexAttemptFails
  <2>2. Moves(p) /\ pc'[p] \in {"down", "index", "mapping"}
    <3>1. CASE IndexAttemptFails(p)
      BY <3>1, IndexAttemptMoves
    <3>2. CASE pc' = [pc EXCEPT ![p] = "mapping"] /\ UNCHANGED toCreate
      BY <3>2 DEF Moves, TypeOK
    <3>3. QED
      BY <1>9, <3>1, <3>2 DEF CheckIndexFails
  <2>3. Known(p)'
    BY <2>1, <2>2 DEF Known, ProvisionInv
  <2>4. QED
    BY <2>1, <2>2, <2>3, QuietStep
<1>10. ASSUME NEW p \in Process, CreateIndex(p) PROVE ProvisionInv'
  <2>1. pc[p] = "mapping" /\ UNCHANGED table
    BY <1>10 DEF CreateIndex
  <2>2. CASE index = "absent"
    <3>1. Moves(p) /\ pc'[p] = "ready" /\ UNCHANGED topics /\ index' = "mapped"
      BY <1>10, <2>1, <2>2, GoToMoves, ReaderCreatesNothing DEF CreateIndex, Serve
    <3>2. Kept /\ NothingAutoCreated'
      BY <2>1, <2>2, <3>1 DEF Kept, NothingAutoCreated, ProvisionInv
    <3>3. Known(p)'
      BY <2>1, <3>1 DEF Known, ProvisionInv
    <3>4. QED
      BY <3>1, <3>2, <3>3, ProvisionStep
  <2>3. CASE index # "absent"
    <3>1. Moves(p) /\ pc'[p] \in {"down", "index"} /\ UNCHANGED <<topics, index>>
      BY <1>10, <2>3, IndexAttemptMoves DEF CreateIndex, IndexAttemptFails
    <3>2. Known(p)'
      BY <2>1, <3>1 DEF Known, ProvisionInv
    <3>3. QED
      BY <2>1, <3>1, <3>2, QuietStep
  <2>4. QED
    BY <2>2, <2>3
<1>11. ASSUME NEW p \in Process, CreateIndexFails(p) PROVE ProvisionInv'
  <2>1. /\ pc[p] = "mapping" /\ UNCHANGED <<table, topics>>
        /\ index' = index \/ (index = "absent" /\ index' = "mapped")
    <3>1. index' = index \/ (index = "absent" /\ index' = "mapped")
      BY <1>11 DEF CreateIndexFails
    <3>2. QED
      BY <1>11, <3>1 DEF CreateIndexFails, IndexAttemptFails
  <2>2. Moves(p) /\ pc'[p] \in {"down", "index"}
    BY <1>11, IndexAttemptMoves DEF CreateIndexFails
  <2>3. Kept /\ NothingAutoCreated'
    BY <2>1 DEF Kept, NothingAutoCreated, ProvisionInv
  <2>4. Known(p)'
    BY <2>1, <2>2 DEF Known, ProvisionInv
  <2>5. QED
    BY <2>2, <2>3, <2>4, ProvisionStep
<1>12. ASSUME NEW p \in Process, Signal(p) PROVE ProvisionInv'
  BY <1>0, <1>12 DEF Signal
<1>13. ASSUME NEW p \in Process, Stop(p) PROVE ProvisionInv'
  BY <1>13, ExitMoves, QuietStep DEF Stop
<1>14. ASSUME NEW p \in Process, Crash(p) PROVE ProvisionInv'
  BY <1>14, ExitMoves, QuietStep DEF Crash
<1>15. CASE InitCreate
  <2>0. initStep \in 1..2
    BY <1>15 DEF InitCreate, TypeOK
  <2>1. topics' = [topics EXCEPT ![InitTopic[initStep]] = IF @ = 0 THEN InitPartitions ELSE @]
    BY <1>15 DEF InitCreate
  <2>2. PICK new \in Topic : /\ \E i \in 1..2 : InitTopic[i] = new
                            /\ topics' = [topics EXCEPT ![new] = IF @ = 0 THEN InitPartitions ELSE @]
    BY <2>0, <2>1, InitTopicFacts, TopicFacts
  <2>3. \A t \in Topic : topics'[t] # topics[t] =>
            t = new /\ topics[t] = 0 /\ topics'[t] = InitPartitions
    <3>1. ASSUME NEW t \in Topic, t # new PROVE topics'[t] = topics[t]
      BY <2>2, <3>1 DEF TypeOK
    <3>2. topics[new] # 0 => topics'[new] = topics[new]
      BY <2>2 DEF TypeOK
    <3>3. topics[new] = 0 => topics'[new] = InitPartitions
      BY <2>2 DEF TypeOK
    <3>4. QED
      BY <3>1, <3>2, <3>3
  <2>4. UNCHANGED <<pc, toCreate, table, index>>
    BY <1>15 DEF InitCreate
  <2>5. NothingAutoCreated'
    BY <2>2, <2>3, <2>4 DEF NothingAutoCreated, ProvisionInv
  <2>6. \A t \in Topic : topics[t] # 0 => topics'[t] # 0
    BY <2>3
  <2>7. ASSUME NEW q \in Process PROVE Known(q)'
    BY <2>4, <2>6, TopicFacts DEF Known, ProvisionInv
  <2>8. QED
    BY <2>5, <2>7 DEF ProvisionInv
<1>16. CASE InitFails
  BY <1>0, <1>16 DEF InitFails
<1>17. ASSUME NEW p \in Process, NEW e \in Event, Post(p, e) PROVE ProvisionInv'
  BY <1>0, <1>17 DEF Post
<1>18. ASSUME NEW p \in Process, NEW e \in Event, Publishing(p, e) PROVE ProvisionInv'
  BY <1>0, <1>18 DEF Publishing, Publish, PublishAgain, PublishFails
<1>19. ASSUME NEW c \in Process, Consuming(c) PROVE ProvisionInv'
  <2>1. c \in Consumer /\ pc[c] = "ready"
    BY <1>19 DEF Consuming, Consume, ConsumeRefused, ConsumerFails, HasMessage
  <2>2. index = "mapped"
    BY <2>1, ProcessAssumption DEF ProvisionInv, Known
  <2>3. UNCHANGED <<table, topics, index>>
    BY <1>19, <2>2 DEF Consuming, Consume, ConsumeRefused, ConsumerFails, IndexDocument
  <2>4. CASE ConsumerFails(c)
    BY <2>3, <2>4, ExitMoves, QuietStep DEF ConsumerFails
  <2>5. CASE Consume(c) \/ ConsumeRefused(c)
    BY <1>0, <2>3, <2>5 DEF Consume, ConsumeRefused
  <2>6. QED
    BY <1>19, <2>4, <2>5 DEF Consuming
<1>20. CASE UNCHANGED vars
  BY <1>0, <1>20 DEF vars
<1>21. QED
  BY <1>1, <1>2, <1>2a, <1>3, <1>4, <1>5, <1>6, <1>7, <1>8, <1>9, <1>10, <1>11, <1>12, <1>13,
     <1>14, <1>15, <1>16, <1>17, <1>18, <1>19, <1>20 DEF Next, StartUp, CallFailure

(* Whatever fails and in whatever order the processes come up: one that    *)
(* serves finds its table, its topics and the mapped index.                *)
THEOREM Provisioned == Spec => []ReadyIsProvisioned
<1>1. TypeOK /\ ProvisionInv => ReadyIsProvisioned
  BY ProcessAssumption DEF ProvisionInv, Known, ReadyIsProvisioned, Needs
<1>2. QED
  BY <1>1, InitTypeOK, StepTypeOK, InitProvisionInv, StepProvisionInv, PTL DEF Spec

(* No topic has the partitions of the broker's default, and the index no   *)
(* mapping but the one of ensureIndex.                                     *)
THEOREM NothingByDefault == Spec => []NothingAutoCreated
<1>1. ProvisionInv => NothingAutoCreated
  BY DEF ProvisionInv
<1>2. QED
  BY <1>1, InitTypeOK, StepTypeOK, InitProvisionInv, StepProvisionInv, PTL DEF Spec

-------------------------------------------------------------------------------
(* A request is in progress at a process that serves, its event is stored, *)
(* and everything downstream of PostgreSQL is stored as well.              *)
Logged == \A t \in Topic : \A i \in DOMAIN log[t] : log[t][i] \in stored

Pending == \A x \in pending : pc[x[1]] = "ready" /\ x[2] \in stored

FlowInv == Pending /\ Logged /\ shown \subseteq stored

(* No request survives a step that takes its process out of service.       *)
Drained == \A x \in pending' : x \in pending /\ pc'[x[1]] = "ready"

LEMMA ExitDrains == ASSUME TypeOK, Pending, NEW p \in Process, Exit(p) PROVE Drained
BY DEF TypeOK, Exit, Pending, Drained, Process

LEMMA IdleDrains ==
    ASSUME TypeOK, Pending, NEW p \in Process, pc[p] # "ready", Moves(p), UNCHANGED pending
    PROVE  Drained
BY DEF TypeOK, Pending, Drained, Moves, Process

LEMMA TopicsAttemptDrains ==
    ASSUME TypeOK, Pending, NEW p \in Process, pc[p] # "ready", TopicsAttemptFails(p)
    PROVE  Drained
<1>1. CASE Exit(p)
  BY <1>1, ExitDrains
<1>2. CASE Retry(p, "topics")
  BY <1>2, RetryMoves, IdleDrains DEF Retry
<1>3. QED
  BY <1>1, <1>2 DEF TopicsAttemptFails

LEMMA IndexAttemptDrains ==
    ASSUME TypeOK, Pending, NEW p \in Process, pc[p] # "ready", IndexAttemptFails(p)
    PROVE  Drained
<1>1. CASE Exit(p)
  BY <1>1, ExitDrains
<1>2. CASE Retry(p, "index")
  BY <1>2, RetryMoves, IdleDrains DEF Retry
<1>3. QED
  BY <1>1, <1>2 DEF IndexAttemptFails

LEMMA GoToDrains ==
    ASSUME TypeOK, Pending, NEW p \in Process, pc[p] # "ready", NEW s, GoTo(p, s)
    PROVE  Drained
BY GoToMoves, IdleDrains DEF GoTo

(* Starting, failing and ending touch no event.                            *)
Control(p) == \/ Start(p) \/ StartUp(p) \/ CallFailure(p)
              \/ Signal(p) \/ Stop(p) \/ Crash(p)

LEMMA ControlFlow ==
    ASSUME TypeOK, Pending, NEW p \in Process, Control(p)
    PROVE  Drained /\ UNCHANGED <<stored, log, shown>>
<1> USE DEF infraVars, startVars, eventVars
<1>1. CASE Start(p)
  BY <1>1, GoToDrains DEF Start
<1>2. CASE OpenStore(p)
  BY <1>2, GoToDrains DEF OpenStore
<1>2a. CASE CreateSchema(p)
  BY <1>2a, GoToDrains, ExitDrains DEF CreateSchema
<1>3. CASE ReadTopics(p)
  <2>1. CASE {t \in Specs(p) : topics[t] = 0} = {}
    BY <1>3, <2>1, GoToDrains DEF ReadTopics
  <2>2. CASE {t \in Specs(p) : topics[t] = 0} # {}
    <3>1. /\ pc' = [pc EXCEPT ![p] = "creating"] /\ UNCHANGED pending /\ pc[p] = "topics"
          /\ toCreate' = [toCreate EXCEPT ![p] = {t \in Specs(p) : topics[t] = 0}]
      BY <1>3, <2>2 DEF ReadTopics
    <3>2. Moves(p)
      BY <3>1 DEF Moves, TypeOK
    <3>3. QED
      BY <1>3, <3>1, <3>2, IdleDrains DEF ReadTopics
  <2>3. QED
    BY <2>1, <2>2
<1>4. CASE CreateTopics(p)
  BY <1>4, GoToDrains, TopicsAttemptDrains DEF CreateTopics
<1>5. CASE CheckIndex(p)
  <2>1. CASE index # "absent"
    BY <1>5, <2>1, GoToDrains DEF CheckIndex, Serve
  <2>2. CASE index = "absent"
    <3>1. pc' = [pc EXCEPT ![p] = "mapping"] /\ UNCHANGED <<toCreate, pending>> /\ pc[p] = "index"
      BY <1>5, <2>2 DEF CheckIndex
    <3>2. Moves(p)
      BY <3>1 DEF Moves, TypeOK
    <3>3. QED
      BY <1>5, <3>1, <3>2, IdleDrains DEF CheckIndex
  <2>3. QED
    BY <2>1, <2>2
<1>6. CASE CreateIndex(p)
  BY <1>6, GoToDrains, IndexAttemptDrains DEF CreateIndex, Serve
<1>7. CASE OpenStoreFails(p)
  BY <1>7, ExitDrains DEF OpenStoreFails
<1>8. CASE ReadTopicsFails(p)
  BY <1>8, TopicsAttemptDrains DEF ReadTopicsFails
<1>9. CASE CreateTopicsFails(p)
  BY <1>9, TopicsAttemptDrains DEF CreateTopicsFails
<1>10. CASE CheckIndexFails(p)
  <2>1. CASE IndexAttemptFails(p)
    BY <1>10, <2>1, IndexAttemptDrains DEF CheckIndexFails
  <2>2. CASE pc' = [pc EXCEPT ![p] = "mapping"] /\ UNCHANGED <<toCreate, pending>>
    <3>1. Moves(p) /\ pc[p] = "index"
      BY <1>10, <2>2 DEF Moves, TypeOK, CheckIndexFails
    <3>2. QED
      BY <1>10, <2>2, <3>1, IdleDrains DEF CheckIndexFails
  <2>3. QED
    BY <1>10, <2>1, <2>2 DEF CheckIndexFails
<1>11. CASE CreateIndexFails(p)
  BY <1>11, IndexAttemptDrains DEF CreateIndexFails
<1>12. CASE Signal(p)
  BY <1>12 DEF Signal, Drained, Pending
<1>13. CASE Stop(p)
  BY <1>13, ExitDrains DEF Stop
<1>14. CASE Crash(p)
  BY <1>14, ExitDrains DEF Crash
<1>15. QED
  BY <1>1, <1>2, <1>2a, <1>3, <1>4, <1>5, <1>6, <1>7, <1>8, <1>9, <1>10, <1>11, <1>12, <1>13, <1>14
     DEF Control, StartUp, CallFailure

LEMMA InitFlowInv == Init => FlowInv
BY DEF Init, FlowInv, Pending, Logged

(* Publishing adds to one log an event that is stored.                     *)
LEMMA AppendLogged ==
    ASSUME TypeOK, Logged, NEW e \in stored, UNCHANGED stored,
           log' = [log EXCEPT ![Resolve(e)] = Append(@, e)]
    PROVE  Logged'
<1> SUFFICES ASSUME NEW t \in Topic, NEW i \in DOMAIN log'[t] PROVE log'[t][i] \in stored
  BY DEF Logged
<1>1. CASE t # Resolve(e)
  BY <1>1, TopicFacts DEF TypeOK, Logged
<1>2. CASE t = Resolve(e)
  <2>1. log'[t] = Append(log[t], e) /\ log[t] \in Seq(Event) /\ e \in Event
    BY <1>2, TopicFacts DEF TypeOK
  <2>2. CASE i = Len(log[t]) + 1
    BY <2>1, <2>2
  <2>3. CASE i \in 1..Len(log[t])
    BY <2>1, <2>3 DEF Logged
  <2>4. QED
    BY <2>1, <2>2, <2>3
<1>3. QED
  BY <1>1, <1>2

(* The next message of the topic the group reads is an event that is stored*)
LEMMA MessageStored ==
    ASSUME TypeOK, Logged, NEW c, HasMessage(c)
    PROVE  log[MainTopic][offset + 1] \in stored
BY TopicFacts DEF TypeOK, Logged, HasMessage

(* A step of the platform keeps the flow, and is a step of the read model. *)
LEMMA StepFlow ==
    TypeOK /\ FlowInv /\ [Next]_vars => FlowInv' /\ [Promise!Next]_<<stored, shown>>
<1> SUFFICES ASSUME TypeOK, FlowInv, [Next]_vars
             PROVE  FlowInv' /\ [Promise!Next]_<<stored, shown>>
  OBVIOUS
<1> USE DEF infraVars, startVars, eventVars
<1>1. ASSUME NEW p \in Process, Control(p)
      PROVE  FlowInv' /\ UNCHANGED <<stored, shown>>
  <2>1. Drained /\ UNCHANGED <<stored, log, shown>>
    BY <1>1, ControlFlow DEF FlowInv
  <2>2. QED
    BY <2>1 DEF FlowInv, Drained, Pending, Logged
<1>2. CASE InitCreate \/ InitFails
  BY <1>2 DEF InitCreate, InitFails, FlowInv, Pending, Logged
<1>3. ASSUME NEW p \in Process, NEW e \in Event, Post(p, e)
      PROVE  FlowInv' /\ Promise!Next
  <2>1. pc[p] = "ready" /\ stored' = stored \cup {e} /\ pending' = pending \cup {<<p, e>>}
    BY <1>3 DEF Post
  <2>2. UNCHANGED <<pc, log, shown>>
    BY <1>3 DEF Post
  <2>3. FlowInv'
    BY <2>1, <2>2 DEF FlowInv, Pending, Logged
  <2>4. Promise!Store(e)
    BY <1>3 DEF Post, Promise!Store
  <2>5. QED
    BY <2>3, <2>4 DEF Promise!Next
<1>4. ASSUME NEW p \in Process, NEW e \in Event, Publishing(p, e)
      PROVE  FlowInv' /\ UNCHANGED <<stored, shown>>
  <2>1. e \in stored /\ UNCHANGED <<pc, stored, shown>> /\ pending' \subseteq pending
    BY <1>4 DEF Publishing, Publish, PublishAgain, PublishFails, FlowInv, Pending
  <2>2. log' = log \/ log' = [log EXCEPT ![Resolve(e)] = Append(@, e)]
    BY <1>4 DEF Publishing, Publish, PublishAgain, PublishFails
  <2>3. Logged'
    <3>1. CASE log' = log
      BY <2>1, <3>1 DEF FlowInv, Logged
    <3>2. CASE log' = [log EXCEPT ![Resolve(e)] = Append(@, e)]
      BY <2>1, <3>2, AppendLogged DEF FlowInv
    <3>3. QED
      BY <2>2, <3>1, <3>2
  <2>4. QED
    BY <2>1, <2>3 DEF FlowInv, Pending
<1>5. ASSUME NEW c \in Process, Consuming(c)
      PROVE  FlowInv' /\ [Promise!Next]_<<stored, shown>>
  <2>1. HasMessage(c)
    BY <1>5 DEF Consuming, Consume, ConsumeRefused, ConsumerFails
  <2> DEFINE e == log[MainTopic][offset + 1]
  <2>2. e \in stored /\ e \in Event
    BY <2>1, MessageStored DEF FlowInv, TypeOK
  <2>3. UNCHANGED <<stored, log>> /\ (shown' = shown \/ shown' = shown \cup {e})
    BY <1>5 DEF Consuming, Consume, ConsumeRefused, ConsumerFails, IndexDocument
  <2>4. Drained
    <3>1. CASE ConsumerFails(c)
      BY <3>1, ExitDrains DEF ConsumerFails, FlowInv
    <3>2. CASE Consume(c) \/ ConsumeRefused(c)
      BY <3>2 DEF Consume, ConsumeRefused, Drained, FlowInv, Pending
    <3>3. QED
      BY <1>5, <3>1, <3>2 DEF Consuming
  <2> HIDE DEF e
  <2>5. FlowInv'
    BY <2>2, <2>3, <2>4 DEF FlowInv, Pending, Drained, Logged
  <2>6. shown' # shown => Promise!Show(e)
    BY <2>2, <2>3 DEF Promise!Show
  <2>7. QED
    BY <2>2, <2>3, <2>5, <2>6 DEF Promise!Next
<1>6. CASE UNCHANGED vars
  BY <1>6 DEF vars, FlowInv, Pending, Logged
<1>7. QED
  <2>1. CASE UNCHANGED vars
    BY <1>6, <2>1 DEF vars
  <2>2. CASE Next
    BY <1>1, <1>2, <1>3, <1>4, <1>5, <2>2
       DEF Next, Control, InitCreate, InitFails
  <2>3. QED
    BY <2>1, <2>2

(* Wherever the resolver sends an event about to be published, there is a  *)
(* topic.                                                                  *)
THEOREM TargetExists == Spec => []PublishTargetExists
<1>1. TypeOK /\ ProvisionInv /\ FlowInv => PublishTargetExists
  <2> SUFFICES ASSUME TypeOK, ProvisionInv, FlowInv, NEW x \in pending
               PROVE  topics[Resolve(x[2])] # 0
    BY DEF PublishTargetExists
  <2>1. x[1] \in Ingester /\ pc[x[1]] = "ready"
    BY DEF TypeOK, FlowInv, Pending
  <2>2. x[1] \in Process /\ x[1] \notin Replayer /\ Resolve(x[2]) \in Specs(x[1])
    BY <2>1, ProcessAssumption, TopicFacts DEF Process, Specs
  <2>3. QED
    BY <2>1, <2>2 DEF ProvisionInv, Known
<1>2. QED
  BY <1>1, InitTypeOK, StepTypeOK, InitProvisionInv, StepProvisionInv, InitFlowInv, StepFlow,
     PTL DEF Spec

(* The index never shows what PostgreSQL does not have.                    *)
THEOREM ReadModelImplemented == Spec => ImplementsReadModel
<1>1. Init => Promise!Init
  BY DEF Init, Promise!Init
<1>2. QED
  BY <1>1, InitTypeOK, StepTypeOK, InitFlowInv, StepFlow, PTL
     DEF Spec, ImplementsReadModel, Promise!Spec

-------------------------------------------------------------------------------
(* As long as nothing fails, an attempt is lost only to another process,   *)
(* and what that one has made is there for the second attempt: nobody      *)
(* comes to a third.  The schema alone has no second attempt.              *)
Quiet == used.faults = 0 /\ used.terms = 0 /\ used.crashes = 0

LostOnce(p) ==
    /\ pc[p] = "topics" => \/ attempts[p] = 0
                           \/ attempts[p] = 1 /\ \A t \in Specs(p) : topics[t] # 0
    /\ pc[p] = "index" => \/ attempts[p] = 0
                          \/ attempts[p] = 1 /\ index # "absent"
    /\ pc[p] \in {"creating", "mapping"} => attempts[p] = 0

RaceInv == Quiet => term = {} /\ \A p \in Process : LostOnce(p)

(* What one step of p must do for the race to stay harmless.               *)
Raced(p) == /\ Moves(p)
            /\ attempts' = [attempts EXCEPT ![p] = attempts'[p]]
            /\ \A t \in Topic : topics[t] # 0 => topics'[t] # 0
            /\ index # "absent" => index' # "absent"
            /\ LostOnce(p)'

LosesTable(p) == pc[p] = "schema" /\ table /\ table'

Harmless == /\ term' = {} /\ \A p \in Process : LostOnce(p)'
            /\ \A p \in Process : pc[p] \in Starting /\ pc'[p] = "down" => LosesTable(p)

LEMMA RacedHarmless ==
    ASSUME TypeOK, \A q \in Process : LostOnce(q), term' = {},
           NEW p \in Process, Raced(p), pc'[p] = "down" => LosesTable(p)
    PROVE  Harmless
<1>1. ASSUME NEW q \in Process, q # p PROVE LostOnce(q)' /\ pc'[q] = pc[q]
  <2>1. pc'[q] = pc[q] /\ attempts'[q] = attempts[q]
    BY <1>1 DEF Raced, Moves, TypeOK
  <2>2. LostOnce(q)
    OBVIOUS
  <2>3. QED
    BY <2>1, <2>2, TopicFacts DEF LostOnce, Raced
<1>2. QED
  BY <1>1 DEF Harmless, Raced, Starting

LEMMA GoToAttempts ==
    ASSUME TypeOK, NEW p \in Process, NEW s, GoTo(p, s)
    PROVE  /\ attempts' = [attempts EXCEPT ![p] = attempts'[p]] /\ attempts'[p] = 0
           /\ term' = term
BY DEF TypeOK, GoTo

LEMMA RetryAttempts ==
    ASSUME TypeOK, NEW p \in Process, NEW s, Retry(p, s), attempts[p] = 0
    PROVE  /\ attempts' = [attempts EXCEPT ![p] = attempts'[p]] /\ attempts'[p] = 1
           /\ term' = term
BY DEF TypeOK, Retry

LEMMA QuietAtOnce ==
    ASSUME TypeOK, RaceInv, Quiet'
    PROVE  /\ ~Fault
           /\ UNCHANGED used => Quiet /\ term = {}
           /\ \A p : ~CallFails(p)
<1>1. ~Fault
  BY DEF TypeOK, Quiet, Fault
<1>2. UNCHANGED used => Quiet /\ term = {}
  BY DEF Quiet, RaceInv
<1>3. QED
  BY <1>1, <1>2 DEF CallFails

LEMMA QuietStepHarmless ==
    TypeOK /\ ProvisionInv /\ RaceInv /\ [Next]_vars /\ Quiet' => Harmless
<1> SUFFICES ASSUME TypeOK, ProvisionInv, RaceInv, [Next]_vars, Quiet' PROVE Harmless
  OBVIOUS
<1> USE DEF infraVars, startVars, eventVars
<1>0. ASSUME UNCHANGED <<pc, attempts, toCreate, term, used>>,
             \A t \in Topic : topics[t] # 0 => topics'[t] # 0,
             index # "absent" => index' # "absent"
      PROVE  Harmless
  <2>1. term = {} /\ \A q \in Process : LostOnce(q)
    BY <1>0, QuietAtOnce DEF RaceInv
  <2>2. QED
    BY <1>0, <2>1, TopicFacts DEF Harmless, LostOnce, Starting
<1>1. ASSUME NEW p \in Process, UNCHANGED used, term' = term, Raced(p),
             pc'[p] = "down" => LosesTable(p)
      PROVE  Harmless
  BY <1>1, QuietAtOnce, RacedHarmless DEF RaceInv
<1>2. ASSUME NEW p \in Process, UNCHANGED used PROVE LostOnce(p) /\ p \notin term
  BY <1>2, QuietAtOnce DEF RaceInv
<1>3. ASSUME NEW p \in Process, Start(p) PROVE Harmless
  <2>1. /\ pc'[p] \in {"topics", "store"} /\ Moves(p)
        /\ UNCHANGED <<topics, index, used>>
    BY <1>3, GoToMoves DEF Start
  <2>2. /\ attempts' = [attempts EXCEPT ![p] = attempts'[p]] /\ attempts'[p] = 0
        /\ term' = term
    BY <1>3, GoToAttempts DEF Start
  <2>3. QED
    BY <1>1, <2>1, <2>2 DEF Raced, LostOnce
<1>4. ASSUME NEW p \in Process, OpenStore(p) PROVE Harmless
  <2>1. /\ pc'[p] \in {"schema", "topics", "ready"} /\ Moves(p)
        /\ UNCHANGED <<topics, index, used>>
    BY <1>4, GoToMoves DEF OpenStore, AfterStore
  <2>2. /\ attempts' = [attempts EXCEPT ![p] = attempts'[p]] /\ attempts'[p] = 0
        /\ term' = term
    BY <1>4, GoToAttempts DEF OpenStore
  <2>3. QED
    BY <1>1, <2>1, <2>2 DEF Raced, LostOnce
<1>4a. ASSUME NEW p \in Process, CreateSchema(p) PROVE Harmless
  <2>1. pc[p] = "schema" /\ table' /\ UNCHANGED <<topics, index, used>>
    BY <1>4a DEF CreateSchema
  <2>2. CASE table
    <3>1. Exit(p) /\ Moves(p) /\ pc'[p] = "down"
      BY <1>4a, <2>2, ExitMoves DEF CreateSchema
    <3>2. attempts' = [attempts EXCEPT ![p] = attempts'[p]] /\ term' = term
      BY <1>2, <2>1, <3>1 DEF Exit, TypeOK
    <3>3. Raced(p)
      BY <2>1, <3>1, <3>2 DEF Raced, LostOnce
    <3>4. LosesTable(p)
      BY <2>1, <2>2 DEF LosesTable
    <3>5. QED
      BY <1>1, <2>1, <3>2, <3>3, <3>4
  <2>3. CASE ~table
    <3>1. GoTo(p, AfterStore(p)) /\ AfterStore(p) \in {"topics", "ready"}
      BY <1>4a, <2>3 DEF CreateSchema, AfterStore
    <3>2. QED
      BY <1>1, <2>1, <3>1, GoToMoves, GoToAttempts DEF Raced, LostOnce
  <2>4. QED
    BY <2>2, <2>3
<1>5. ASSUME NEW p \in Process, ReadTopics(p) PROVE Harmless
  <2>1. pc[p] = "topics" /\ UNCHANGED <<topics, index, used>>
    BY <1>5 DEF ReadTopics
  <2>2. CASE {t \in Specs(p) : topics[t] = 0} = {}
    <3>1. GoTo(p, "index")
      BY <1>5, <2>2 DEF ReadTopics
    <3>2. QED
      BY <1>1, <2>1, <3>1, GoToMoves, GoToAttempts DEF Raced, LostOnce
  <2>3. CASE {t \in Specs(p) : topics[t] = 0} # {}
    <3>1. /\ pc' = [pc EXCEPT ![p] = "creating"] /\ UNCHANGED <<attempts, term>>
          /\ toCreate' = [toCreate EXCEPT ![p] = {t \in Specs(p) : topics[t] = 0}]
      BY <1>5, <2>3 DEF ReadTopics
    <3>2. Moves(p) /\ pc'[p] = "creating" /\ attempts' = [attempts EXCEPT ![p] = attempts'[p]]
      BY <3>1 DEF Moves, TypeOK
    <3>3. attempts[p] = 0
      BY <1>2, <2>1, <2>3 DEF LostOnce
    <3>4. QED
      BY <1>1, <2>1, <3>1, <3>2, <3>3 DEF Raced, LostOnce
  <2>4. QED
    BY <2>2, <2>3
<1>6. ASSUME NEW p \in Process, CreateTopics(p) PROVE Harmless
  <2>1. /\ pc[p] = "creating" /\ topics' = Created(toCreate[p]) /\ UNCHANGED <<index, used>>
    BY <1>6 DEF CreateTopics
  <2>2. \A t \in Topic : topics[t] # 0 => topics'[t] # 0
    BY <2>1, CreatedKeeps
  <2>3. \A t \in Specs(p) : topics'[t] # 0
    BY <2>1, CreatedKeeps, TopicFacts DEF ProvisionInv, Known
  <2>4. CASE GoTo(p, "index")
    BY <1>1, <2>1, <2>2, <2>4, GoToMoves, GoToAttempts DEF Raced, LostOnce
  <2>5. CASE TopicsAttemptFails(p)
    <3>1. attempts[p] = 0 /\ p \notin term
      BY <1>2, <2>1 DEF LostOnce
    <3>2. Retry(p, "topics")
      BY <2>5, <3>1, AttemptAssumption DEF TopicsAttemptFails
    <3>3. QED
      BY <1>1, <2>1, <2>2, <2>3, <3>1, <3>2, RetryMoves, RetryAttempts DEF Raced, LostOnce
  <2>6. QED
    BY <1>6, <2>4, <2>5 DEF CreateTopics
<1>7. ASSUME NEW p \in Process, CheckIndex(p) PROVE Harmless
  <2>1. pc[p] = "index" /\ UNCHANGED <<index, used>>
    BY <1>7 DEF CheckIndex
  <2>2. CASE index # "absent"
    <3>1. GoTo(p, "ready") /\ UNCHANGED topics
      BY <1>7, <2>1, <2>2, ReaderCreatesNothing DEF CheckIndex, Serve
    <3>2. QED
      BY <1>1, <2>1, <3>1, GoToMoves, GoToAttempts DEF Raced, LostOnce
  <2>3. CASE index = "absent"
    <3>1. pc' = [pc EXCEPT ![p] = "mapping"] /\ UNCHANGED <<toCreate, topics, attempts, term>>
      BY <1>7, <2>3 DEF CheckIndex
    <3>2. Moves(p) /\ pc'[p] = "mapping" /\ attempts' = [attempts EXCEPT ![p] = attempts'[p]]
      BY <3>1 DEF Moves, TypeOK
    <3>3. attempts[p] = 0
      BY <1>2, <2>1, <2>3 DEF LostOnce
    <3>4. QED
      BY <1>1, <2>1, <3>1, <3>2, <3>3 DEF Raced, LostOnce
  <2>4. QED
    BY <2>2, <2>3
<1>8. ASSUME NEW p \in Process, CreateIndex(p) PROVE Harmless
  <2>1. pc[p] = "mapping" /\ UNCHANGED used
    BY <1>8 DEF CreateIndex
  <2>2. CASE index = "absent"
    <3>1. GoTo(p, "ready") /\ UNCHANGED topics /\ index' = "mapped"
      BY <1>8, <2>1, <2>2, ReaderCreatesNothing DEF CreateIndex, Serve
    <3>2. QED
      BY <1>1, <2>1, <3>1, GoToMoves, GoToAttempts DEF Raced, LostOnce
  <2>3. CASE index # "absent"
    <3>1. IndexAttemptFails(p) /\ UNCHANGED <<topics, index>>
      BY <1>8, <2>3 DEF CreateIndex, IndexAttemptFails
    <3>2. attempts[p] = 0
      BY <1>2, <2>1 DEF LostOnce
    <3>3. Retry(p, "index")
      BY <3>1, <3>2, AttemptAssumption DEF IndexAttemptFails
    <3>4. QED
      BY <1>1, <2>1, <2>3, <3>1, <3>2, <3>3, RetryMoves, RetryAttempts DEF Raced, LostOnce
  <2>4. QED
    BY <2>2, <2>3
<1>9. CASE InitCreate
  <2>0. initStep \in 1..2
    BY <1>9 DEF InitCreate, TypeOK
  <2>1. topics' = [topics EXCEPT ![InitTopic[initStep]] = IF @ = 0 THEN InitPartitions ELSE @]
    BY <1>9 DEF InitCreate
  <2>2. PICK new \in Topic : topics' = [topics EXCEPT ![new] = IF @ = 0 THEN InitPartitions ELSE @]
    BY <2>0, <2>1, InitTopicFacts, TopicFacts
  <2>3. ASSUME NEW t \in Topic, topics[t] # 0 PROVE topics'[t] # 0
    <3>1. CASE t # new
      BY <2>2, <2>3, <3>1 DEF TypeOK
    <3>2. CASE t = new
      BY <2>2, <2>3, <3>2 DEF TypeOK
    <3>3. QED
      BY <3>1, <3>2
  <2>4. QED
    BY <1>0, <1>9, <2>3 DEF InitCreate
<1>10. ASSUME NEW p \in Process, NEW e \in Event, Post(p, e) \/ Publishing(p, e) PROVE Harmless
  <2>1. UNCHANGED <<pc, attempts, toCreate, term, topics, index>>
    BY <1>10 DEF Post, Publishing, Publish, PublishAgain, PublishFails
  <2>2. UNCHANGED used
    BY <1>10, QuietAtOnce DEF Post, Publishing, Publish, PublishAgain, PublishFails
  <2>3. QED
    BY <1>0, <2>1, <2>2
<1>11. ASSUME NEW c \in Process, Consuming(c) PROVE Harmless
  <2>1. Consume(c)
    BY <1>11, QuietAtOnce DEF Consuming, ConsumeRefused, ConsumerFails
  <2>2. UNCHANGED <<pc, attempts, toCreate, term, topics, used>>
    BY <2>1 DEF Consume
  <2>3. index # "absent" => index' # "absent"
    BY <2>1 DEF Consume, IndexDocument
  <2>4. QED
    BY <1>0, <2>2, <2>3
<1>12. ASSUME NEW p \in Process, CallFailure(p) PROVE FALSE
  BY <1>12, QuietAtOnce
     DEF CallFailure, OpenStoreFails, ReadTopicsFails, CreateTopicsFails,
         CheckIndexFails, CreateIndexFails
<1>13. ASSUME NEW p \in Process, Signal(p) PROVE FALSE
  BY <1>13 DEF Signal, Quiet, TypeOK
<1>14. ASSUME NEW p \in Process, Stop(p) PROVE FALSE
  BY <1>14, <1>2 DEF Stop
<1>15. ASSUME NEW p \in Process, Crash(p) PROVE FALSE
  BY <1>15 DEF Crash, Quiet, TypeOK
<1>16. CASE InitFails
  BY <1>16, QuietAtOnce DEF InitFails
<1>17. CASE UNCHANGED vars
  BY <1>0, <1>17 DEF vars
<1>18. QED
  BY <1>3, <1>4, <1>4a, <1>5, <1>6, <1>7, <1>8, <1>9, <1>10, <1>11, <1>12, <1>13, <1>14,
     <1>15, <1>16, <1>17 DEF Next, StartUp

LEMMA InitRaceInv == Init => RaceInv
BY DEF Init, RaceInv, LostOnce

LEMMA StepRaceInv == TypeOK /\ ProvisionInv /\ RaceInv /\ [Next]_vars => RaceInv'
BY QuietStepHarmless DEF RaceInv, Harmless

(* However many processes come up together, none of them ends because of   *)
(* another one, except by the table created under its statement: anything  *)
(* else takes a failure, a signal or a crash.                              *)
THEOREM RacesAreAbsorbed == Spec => OnlySchemaRaceEndsProcess
<1>1. TypeOK /\ TypeOK' /\ ProvisionInv /\ RaceInv /\ [Next]_vars =>
          \A p \in Process : pc[p] \in Starting /\ pc'[p] = "down"
              => \/ used'.faults + used'.terms + used'.crashes > 0
                 \/ pc[p] = "schema" /\ table /\ table'
  <2> SUFFICES ASSUME TypeOK, TypeOK', ProvisionInv, RaceInv, [Next]_vars,
                      NEW p \in Process, pc[p] \in Starting, pc'[p] = "down",
                      ~LosesTable(p)
               PROVE  used'.faults + used'.terms + used'.crashes > 0
    BY DEF LosesTable
  <2>1. ~Quiet'
    BY QuietStepHarmless DEF Harmless
  <2>2. used'.faults \in Nat /\ used'.terms \in Nat /\ used'.crashes \in Nat
    BY DEF TypeOK
  <2>3. QED
    BY <2>1, <2>2 DEF Quiet
<1>2. QED
  BY <1>1, InitTypeOK, StepTypeOK, InitProvisionInv, StepProvisionInv, InitRaceInv, StepRaceInv,
     PTL DEF Spec, OnlySchemaRaceEndsProcess
===============================================================================
