------------------------------- MODULE IngestApi ------------------------------
(***************************************************************************)
(* The ingest-api process: HTTP handlers that run ingest.Service.Ingest    *)
(* concurrently, over the event store (EventStore) and the Kafka producer. *)
(*                                                                         *)
(*   ingest     decode, identity, required fields, event.New, store.Append *)
(*   Service    after Append: publisher.Publish, whose error is only logged*)
(*   Producer   kafka-go's synchronous Writer: a FIFO per partition that   *)
(*              one goroutine writes in order, with retries; WriteMessages *)
(*              waits for its message or for the request's context         *)
(*   main       signal handling, srv.Shutdown, the deferred Close calls    *)
(*                                                                         *)
(* A request is identified with the UUID of the event it would create.     *)
(***************************************************************************)
EXTENDS Naturals, Sequences

CONSTANTS Event, Stream, Tenant,
          Partition,    \* partitions of the events topic
          PartitionOf,  \* the Hash balancer: stream -> partition
          RequestKind,  \* the kinds of request clients send
          MaxFaults,    \* bound on failures of PostgreSQL, Kafka and the network
          MaxGone,      \* bound on clients that disconnect
          MaxCrashes,   \* bound on crashes of the process
          MaxShutdowns  \* bound on graceful shutdowns

ASSUME PartitionAssumption == PartitionOf \in [Stream -> Partition]

ASSUME KindAssumption ==
    RequestKind \subseteq {"valid", "unauthenticated", "malformed", "incomplete"}

ASSUME BoundAssumption == /\ MaxFaults \in Nat /\ MaxGone \in Nat
                          /\ MaxCrashes \in Nat /\ MaxShutdowns \in Nat

VARIABLES events, event, stmt, version, ret,   \* see EventStore
          kind,       \* kind[e]: what the client sends
          pc,         \* pc[e]: where the handler is
          status,     \* status[e]: the HTTP status the client has received;
                      \* 0: none yet, 1: never (it left, or the answer was late)
          gone,       \* requests whose client disconnected: ctx is cancelled
          late,       \* requests that have outlasted the server's WriteTimeout
          queue,      \* queue[p]: messages in the writer's memory
          topic,      \* topic[p]: the partition's log in Kafka
          server,     \* the process: "up", "draining", "closing" or "down"
          used,       \* how much of each bound was consumed
          before      \* history: the requests answered 201 before e arrived

storeVars == <<events, event, stmt, version, ret>>
kafkaVars == <<queue, topic>>
vars == <<storeVars, kafkaVars, kind, pc, status, gone, late, server, used, before>>

Store == INSTANCE EventStore

Active == {"appending", "publishing", "waiting"}

Message(e) == [id |-> e, stream_id |-> event[e].stream_id, version |-> event[e].version]

PartitionFor(e) == PartitionOf[event[e].stream_id]

Queued(e) == \E p \in Partition : \E i \in DOMAIN queue[p] : queue[p][i].id = e

Delivered(e) == \E p \in Partition : \E i \in DOMAIN topic[p] : topic[p][i].id = e

Fault == /\ used.faults < MaxFaults
         /\ used' = [used EXCEPT !.faults = @ + 1]

(* The call fails because the request's context is done, or by a fault.    *)
CallFails(e) == \/ e \in gone /\ UNCHANGED used
                \/ Fault

(* The handler writes its response; it is lost when the client is gone, or *)
(* when the server's WriteTimeout has passed.                              *)
Respond(e, code) ==
    /\ pc' = [pc EXCEPT ![e] = "done"]
    /\ status' = [status EXCEPT ![e] = IF e \in gone \cup late THEN 1 ELSE code]

-------------------------------------------------------------------------------
Init ==
    /\ Store!Init
    /\ kind \in [Event -> RequestKind]
    /\ pc = [e \in Event |-> "idle"]
    /\ status = [e \in Event |-> 0]
    /\ gone = {}
    /\ late = {}
    /\ queue = [p \in Partition |-> <<>>]
    /\ topic = [p \in Partition |-> <<>>]
    /\ server = "up"
    /\ used = [faults |-> 0, gone |-> 0, crashes |-> 0, shutdowns |-> 0]
    /\ before = [e \in Event |-> {}]

(* middleware.Auth, then the body, then Service.Ingest's own checks.       *)
Reject(e) ==
    /\ server = "up"
    /\ pc[e] = "idle"
    /\ kind[e] # "valid"
    /\ Respond(e, CASE kind[e] = "unauthenticated" -> 401
                    [] kind[e] = "malformed"       -> 400
                    [] kind[e] = "incomplete"      -> 422)
    /\ UNCHANGED <<storeVars, kafkaVars, kind, gone, late, server, used, before>>

(* The checks pass, event.New makes the event and store.Append is called.  *)
StartIngest(e) ==
    /\ server = "up"
    /\ pc[e] = "idle"
    /\ kind[e] = "valid"
    /\ Store!BeginAppend(e)
    /\ pc' = [pc EXCEPT ![e] = "appending"]
    /\ before' = [before EXCEPT ![e] = {f \in Event : status[f] = 201}]
    /\ UNCHANGED <<kafkaVars, kind, status, gone, late, server, used>>

(* PostgreSQL works on the statement, whatever happens to the handler.     *)
StoreStep(e) ==
    /\ Store!ServerStep(e)
    /\ UNCHANGED <<kafkaVars, kind, pc, status, gone, late, server, used, before>>

(* A statement is cancelled with its context or its process, or by a fault.*)
StoreAborts(e) ==
    /\ Store!AbortStmt(e)
    /\ \/ pc[e] = "dead" /\ UNCHANGED used
       \/ CallFails(e)
    /\ UNCHANGED <<kafkaVars, kind, pc, status, gone, late, server, before>>

(* Mutant: Ingest does not return on the error of Append.                  *)
AfterAppendIgnoringError(e) ==
    /\ pc' = [pc EXCEPT ![e] = "publishing"]
    /\ UNCHANGED status

(* Mutant: the handler answers with a status the API does not document.    *)
AfterAppendUndocumented(e) ==
    IF ret'[e] = "ok" THEN /\ pc' = [pc EXCEPT ![e] = "publishing"]
                           /\ UNCHANGED status
                      ELSE Respond(e, 500)

(* Mutant: the client is answered once the row is there, and the event is  *)
(* published afterwards.                                                   *)
AfterAppendRespondFirst(e) ==
    IF ret'[e] = "ok" THEN /\ pc' = [pc EXCEPT ![e] = "publishing"]
                           /\ status' = [status EXCEPT ![e] = 201]
                      ELSE Respond(e, 422)

(* Ingest returns on an Append error, which the handler answers with 422;  *)
(* otherwise it goes on to Publish.                                        *)
AfterAppend(e) ==
    IF ret'[e] = "ok" THEN /\ pc' = [pc EXCEPT ![e] = "publishing"]
                           /\ UNCHANGED status
                      ELSE Respond(e, 422)

AppendReturns(e) ==
    /\ pc[e] = "appending"
    /\ Store!AppendReturns(e)
    /\ AfterAppend(e)
    /\ UNCHANGED <<kafkaVars, kind, gone, late, server, used, before>>

AppendFails(e) ==
    /\ pc[e] = "appending"
    /\ Store!AppendFails(e)
    /\ CallFails(e)
    /\ AfterAppend(e)
    /\ UNCHANGED <<kafkaVars, kind, gone, late, server, before>>

-------------------------------------------------------------------------------
(* WriteMessages puts the message into the batch of its partition.         *)
Enqueue(e) ==
    /\ pc[e] = "publishing"
    /\ server # "closing"
    /\ queue' = [queue EXCEPT ![PartitionFor(e)] = Append(@, Message(e))]
    /\ pc' = [pc EXCEPT ![e] = "waiting"]
    /\ UNCHANGED <<storeVars, topic, kind, status, gone, late, server, used, before>>

(* The result of Publish, an error or not, does not change the answer.     *)
RespondCreated(e) ==
    /\ Respond(e, 201)
    /\ UNCHANGED <<storeVars, kafkaVars, kind, gone, late, server, before>>

(* Mutant: the handler reports a Publish error to the client.              *)
PublishRefusedIsAnError(e) ==
    /\ pc[e] = "publishing"
    /\ \/ server = "closing" /\ UNCHANGED used
       \/ CallFails(e)
    /\ Respond(e, 422)
    /\ UNCHANGED <<storeVars, kafkaVars, kind, gone, late, server, before>>

(* WriteMessages fails before it queues anything: no metadata, a cancelled *)
(* context, or a Writer that main has closed already.                      *)
PublishRefused(e) ==
    /\ pc[e] = "publishing"
    /\ \/ server = "closing" /\ UNCHANGED used
       \/ CallFails(e)
    /\ RespondCreated(e)

(* Mutant: WriteMessages waits for a delivery that a failed batch will     *)
(* never report.                                                           *)
PublishReturnsOnDelivery(e) ==
    /\ pc[e] = "waiting"
    /\ Delivered(e) \/ e \in gone
    /\ UNCHANGED used
    /\ RespondCreated(e)

(* The batch was written or given up, or the context ends the wait while   *)
(* the message stays queued.                                               *)
PublishReturns(e) ==
    /\ pc[e] = "waiting"
    /\ ~Queued(e) \/ e \in gone
    /\ UNCHANGED used
    /\ RespondCreated(e)

(* The partition's goroutine writes the oldest message.                    *)
Flush(p) ==
    /\ queue[p] # <<>>
    /\ topic' = [topic EXCEPT ![p] = Append(@, Head(queue[p]))]
    /\ queue' = [queue EXCEPT ![p] = Tail(@)]
    /\ UNCHANGED <<storeVars, kind, pc, status, gone, late, server, used, before>>

(* The write gets no answer: the writer tries again, so the message may be *)
(* there twice; or all attempts fail and it is dropped.                    *)
FlushFails(p) ==
    /\ queue[p] # <<>>
    /\ Fault
    /\ \/ /\ topic' = [topic EXCEPT ![p] = Append(@, Head(queue[p]))]
          /\ UNCHANGED queue
       \/ /\ queue' = [queue EXCEPT ![p] = Tail(@)]
          /\ UNCHANGED topic
    /\ UNCHANGED <<storeVars, kind, pc, status, gone, late, server, before>>

-------------------------------------------------------------------------------
Disconnect(e) ==
    /\ pc[e] \in Active
    /\ e \notin gone
    /\ used.gone < MaxGone
    /\ used' = [used EXCEPT !.gone = @ + 1]
    /\ gone' = gone \cup {e}
    /\ UNCHANGED <<storeVars, kafkaVars, kind, pc, status, late, server, before>>

(* PostgreSQL or Kafka keeps the handler for more than 10 seconds.  Its ctx*)
(* is not cancelled: the handler goes on, and writes to a closed connection*)
WriteTimeoutPasses(e) ==
    /\ pc[e] \in Active
    /\ e \notin late
    /\ Fault
    /\ late' = late \cup {e}
    /\ UNCHANGED <<storeVars, kafkaVars, kind, pc, status, gone, server, before>>

(* The process ends: its handlers and the writer's memory are lost.        *)
ProcessEnds ==
    /\ server' = "down"
    /\ pc' = [e \in Event |-> IF pc[e] \in Active THEN "dead" ELSE pc[e]]
    /\ queue' = [p \in Partition |-> <<>>]
    /\ UNCHANGED <<storeVars, topic, kind, status, gone, late, before>>

Crash ==
    /\ server # "down"
    /\ used.crashes < MaxCrashes
    /\ used' = [used EXCEPT !.crashes = @ + 1]
    /\ ProcessEnds

(* SIGTERM: srv.Shutdown closes the listener and waits for the handlers.   *)
Shutdown ==
    /\ server = "up"
    /\ used.shutdowns < MaxShutdowns
    /\ used' = [used EXCEPT !.shutdowns = @ + 1]
    /\ server' = "draining"
    /\ UNCHANGED <<storeVars, kafkaVars, kind, pc, status, gone, late, before>>

(* Mutant: srv.Close instead of srv.Shutdown.                              *)
ShutdownAtOnce ==
    /\ server = "draining"
    /\ UNCHANGED used
    /\ server' = "closing"
    /\ UNCHANGED <<storeVars, kafkaVars, kind, pc, status, gone, late, before>>

(* Shutdown returns when no handler is active, or after 15 seconds with an *)
(* error that is only logged; main then closes the writer.                 *)
ShutdownReturns ==
    /\ server = "draining"
    /\ \/ (\A e \in Event : pc[e] \notin Active) /\ UNCHANGED used
       \/ Fault
    /\ server' = "closing"
    /\ UNCHANGED <<storeVars, kafkaVars, kind, pc, status, gone, late, before>>

(* publisher.Close waits for the queued batches, store.Close for the       *)
(* connections in use; then main returns.                                  *)
MainReturns ==
    /\ server = "closing"
    /\ \A p \in Partition : queue[p] = <<>>
    /\ \A e \in Event : pc[e] # "appending"
    /\ UNCHANGED used
    /\ ProcessEnds

(* docker-compose: restart: unless-stopped.                                *)
Restart ==
    /\ server = "down"
    /\ server' = "up"
    /\ UNCHANGED <<storeVars, kafkaVars, kind, pc, status, gone, late, used, before>>

-------------------------------------------------------------------------------
HandlerStep(e) == \/ AppendReturns(e)
                  \/ Enqueue(e)
                  \/ PublishRefused(e)
                  \/ PublishReturns(e)

Next == \/ \E e \in Event : \/ Reject(e)
                            \/ StartIngest(e)
                            \/ StoreStep(e)
                            \/ StoreAborts(e)
                            \/ AppendFails(e)
                            \/ HandlerStep(e)
                            \/ WriteTimeoutPasses(e)
                            \/ Disconnect(e)
        \/ \E p \in Partition : Flush(p) \/ FlushFails(p)
        \/ Crash
        \/ Shutdown
        \/ ShutdownReturns
        \/ MainReturns
        \/ Restart

Spec == Init /\ [][Next]_vars

(* Goroutines are scheduled, PostgreSQL and Kafka answer, main goes on.    *)
(* Clients, signals and faults owe nothing.                                *)
Fairness == /\ \A e \in Event : WF_vars(StoreStep(e)) /\ WF_vars(HandlerStep(e))
            /\ \A p \in Partition : WF_vars(Flush(p))
            /\ WF_vars(ShutdownReturns)
            /\ WF_vars(MainReturns)

FairSpec == Spec /\ Fairness
-------------------------------------------------------------------------------
TypeOK ==
    /\ Store!TypeOK
    /\ kind \in [Event -> RequestKind]
    /\ pc \in [Event -> Active \cup {"idle", "done", "dead"}]
    /\ status \in [Event -> {0, 1, 201, 400, 401, 422}]
    /\ gone \subseteq Event
    /\ late \subseteq Event
    /\ queue \in [Partition -> Seq([id : Event, stream_id : Stream, version : Nat])]
    /\ topic \in [Partition -> Seq([id : Event, stream_id : Stream, version : Nat])]
    /\ server \in {"up", "draining", "closing", "down"}
    /\ used \in [faults : 0..MaxFaults, gone : 0..MaxGone,
                crashes : 0..MaxCrashes, shutdowns : 0..MaxShutdowns]
    /\ before \in [Event -> SUBSET Event]

Stored(m) == \E r \in events : /\ r.id = m.id
                              /\ r.stream_id = m.stream_id
                              /\ r.version = m.version

(* Nothing is in Kafka, or on its way there, that is not in the store with *)
(* the same version; and a 201 means a durable row.  Crashes, cancelled    *)
(* requests and failed statements do not change that.                      *)
StoreComesFirst ==
    /\ \A p \in Partition : /\ \A i \in DOMAIN queue[p] : Stored(queue[p][i])
                            /\ \A i \in DOMAIN topic[p] : Stored(topic[p][i])
    /\ \A e \in Event : status[e] = 201 => Stored(Message(e))

(* A Kafka that refuses or loses the event costs the client nothing: once  *)
(* Append has succeeded the handler ends with 201.  What it does not answer*)
(* is a client that has left, or a request that has outlasted WriteTimeout,*)
(* which a Kafka that only hangs can bring about.                          *)
KafkaNeverFailsRequest ==
    \A e \in Event : ret[e] = "ok" => \/ status[e] = 201
                                      \/ status[e] = 0 /\ pc[e] # "done"
                                      \/ status[e] = 1 /\ e \in gone \cup late

Occurrences(e) == {i \in DOMAIN topic[PartitionFor(e)] : topic[PartitionFor(e)][i].id = e}

(* A client that waits for its 201 before it sends the next event of the   *)
(* stream finds the two in that order, by version in the store and by      *)
(* position in Kafka, also when the writer has repeated a message.         *)
SequentialRequestsStayInOrder ==
    \A e \in Event : \A f \in before[e] :
        event[e].stream_id = event[f].stream_id =>
            /\ ret[e] = "ok" => event[f].version < event[e].version
            /\ \A i \in Occurrences(f), j \in Occurrences(e) : i < j

(* While nothing fails, Kafka has every event before its client gets the   *)
(* 201, and a graceful shutdown cuts off neither a handler nor a message.  *)
NothingDropped ==
    (used.faults = 0 /\ used.gone = 0 /\ used.crashes = 0) =>
        \A e \in Event : /\ status[e] = 201 => Delivered(e)
                         /\ pc[e] # "dead"

(* Every accepted request is answered, or its process has ended.           *)
RequestsEnd == \A e \in Event : pc[e] = "appending" ~> pc[e] \in {"done", "dead"}

(* The events of a stream are in their partition in version order (an      *)
(* event that is there twice may repeat).                                  *)
StreamOrderInTopic ==
    \A p \in Partition : \A i, j \in DOMAIN topic[p] :
        (i < j /\ topic[p][i].stream_id = topic[p][j].stream_id)
            => topic[p][i].version <= topic[p][j].version
===============================================================================
