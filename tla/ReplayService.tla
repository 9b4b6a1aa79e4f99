----------------------------- MODULE ReplayService ----------------------------
(***************************************************************************)
(* The replay-service: grpcserver.Handler.Replay over replay.Service over  *)
(* EventStore.GetFromVersion, while events keep being appended.  Of a      *)
(* request, to_version, from_time and to_time are not read.                *)
(*                                                                         *)
(* The store is the abstract EventLog, which EventStore implements: one    *)
(* SELECT sees the log of its stream at one moment, and nothing else of a  *)
(* call touches shared state, so that a call is one step.                  *)
(***************************************************************************)
EXTENDS Integers, Sequences, FiniteSets

CONSTANTS Event, Stream, Tenant,
          NonObject,    \* events whose payload is JSON, but not an object
          NoStream,     \* the empty stream_id
          NoTenant,     \* no Identity in the context
          Caller,       \* the tenants that ctx may carry, NoTenant among them
                        \* when nothing authenticates the call
          Client,       \* clients of the gRPC service
          FromVersion   \* from_version values that clients send

ASSUME CallerAssumption == /\ Caller \subseteq Tenant \cup {NoTenant}
                           /\ NoTenant \notin Tenant
                           /\ NoStream \notin Stream
                           /\ NonObject \subseteq Event
                           /\ FromVersion \subseteq Int

VARIABLES log,      \* see EventLog
          reply     \* reply[c]: c's last request and what it was answered

vars == <<log, reply>>

Log == INSTANCE EventLog WITH acked <- {}

Request == [stream_id : Stream \cup {NoStream}, from_version : FromVersion,
            tenant_id : Caller]

(* ORDER BY version ASC: the i-th version of V has i - 1 others before it. *)
InOrder(V) ==
    [i \in 1..Cardinality(V) |->
        CHOOSE v \in V : Cardinality({w \in V : w < v}) = i - 1]

(* scanRows: the rows of the stream that have a version in V, one by one.  *)
RowsOf(s, V) ==
    [i \in 1..Cardinality(V) |->
        LET v == InOrder(V)[i]
        IN  [version |-> v, id |-> log[s][v].id, tenant_id |-> log[s][v].tenant_id]]

IsVisible(row, tenant) == tenant = NoTenant \/ row.tenant_id = tenant

(* Mutant: from_version is exclusive.                                      *)
GetAfterVersion(s, from, tenant) ==
    RowsOf(s, {v \in DOMAIN log[s] : v > from /\ IsVisible(log[s][v], tenant)})

(* Mutant: the query does not filter by tenant.                            *)
GetFromVersionOfAll(s, from, tenant) ==
    RowsOf(s, {v \in DOMAIN log[s] : v >= from})

(* WHERE stream_id = $1 AND version >= $2 [AND tenant_id = $3]; the tenant *)
(* only when ctx carries one.                                              *)
GetFromVersion(s, from, tenant) ==
    RowsOf(s, {v \in DOMAIN log[s] : v >= from /\ IsVisible(log[s][v], tenant)})

Gaps(rows) == {i \in 2..Len(rows) : rows[i].version # rows[i - 1].version + 1}

FirstGap(rows) == CHOOSE i \in Gaps(rows) : \A j \in Gaps(rows) : i <= j

Ok(rows) == [code |-> "OK", cause |-> "none", missing |-> 0, events |-> rows]

Fails(code, cause) == [code |-> code, cause |-> cause, missing |-> 0, events |-> <<>>]

GapAt(version) ==
    [code |-> "DataLoss", cause |-> "gap", missing |-> version, events |-> <<>>]

(* Mutant: versions are compared with the position in the slice.           *)
validateFromOne(rows) ==
    IF \A i \in DOMAIN rows : rows[i].version = i THEN Ok(rows)
    ELSE GapAt(1)

(* The gap that validateContiguous reports is the first one.               *)
validateContiguous(rows) ==
    IF Gaps(rows) = {} THEN Ok(rows)
    ELSE GapAt(rows[FirstGap(rows) - 1].version + 1)

(* domainToProto fails on a payload that is no object, and Replay with it. *)
ToProto(result) ==
    IF \E i \in DOMAIN result.events : result.events[i].id \in NonObject
    THEN Fails("Internal", "payload")
    ELSE result

(* The handler wraps every error of the service as DataLoss.               *)
Answer(req) ==
    IF req.stream_id = NoStream THEN Fails("InvalidArgument", "stream_id")
    ELSE IF req.tenant_id = NoTenant THEN Fails("DataLoss", "identity")
    ELSE IF req.from_version < 0 THEN Fails("DataLoss", "from_version")
    ELSE ToProto(validateContiguous(
             GetFromVersion(req.stream_id, req.from_version, req.tenant_id)))

NoReply == [req    |-> [stream_id |-> NoStream, from_version |-> 0,
                        tenant_id |-> NoTenant],
            answer |-> Fails("none", "none")]

Init == /\ Log!Init
        /\ reply = [c \in Client |-> NoReply]

(* Elsewhere, the ingest-api appends an event.                             *)
AppendEvent == /\ \E s \in Stream, x \in Log!Entry : Log!AppendEntry(s, x)
               /\ UNCHANGED reply

Replay(c, req) ==
    /\ reply' = [reply EXCEPT ![c] = [req |-> req, answer |-> Answer(req)]]
    /\ UNCHANGED log

(* The SELECT fails; the request was good up to there.                     *)
ReadFails(c, req) ==
    /\ req.stream_id # NoStream
    /\ req.tenant_id # NoTenant
    /\ req.from_version >= 0
    /\ reply' = [reply EXCEPT ![c] = [req |-> req, answer |-> Fails("DataLoss", "store")]]
    /\ UNCHANGED log

Next == \/ AppendEvent
        \/ \E c \in Client, req \in Request : Replay(c, req) \/ ReadFails(c, req)

Spec == Init /\ [][Next]_vars

-------------------------------------------------------------------------------
Answered(c) == reply[c].answer.code = "OK"

Events(c) == reply[c].answer.events

LastVersion(c) == Events(c)[Len(Events(c))].version

(* The caller's rows of the stream with a version in from..to.             *)
OwnVersions(req, from, to) ==
    {v \in DOMAIN log[req.stream_id] :
        from <= v /\ v <= to /\ log[req.stream_id][v].tenant_id = req.tenant_id}

(* A successful replay is exactly the caller's part of the log up to its   *)
(* last event, in order and without holes, and stays so while the log      *)
(* grows: nothing is inserted before a version that was replayed.          *)
ReplayIsFaithful ==
    \A c \in Client : Answered(c) =>
        LET req == reply[c].req
            es  == Events(c)
        IN  /\ \A i \in DOMAIN es :
                  /\ es[i].version \in DOMAIN log[req.stream_id]
                  /\ es[i].id = log[req.stream_id][es[i].version].id
            /\ \A i \in 1..(Len(es) - 1) : es[i + 1].version = es[i].version + 1
            /\ es # <<>> => {es[i].version : i \in DOMAIN es}
                               = OwnVersions(req, req.from_version, LastVersion(c))

(* A client that resumes after the last version it got misses nothing and  *)
(* gets nothing twice, whatever was appended between the two calls.        *)
ResumedReplayIsComplete ==
    \A c, d \in Client :
        (/\ Answered(c) /\ Answered(d)
         /\ Events(c) # <<>> /\ Events(d) # <<>>
         /\ reply[d].req.stream_id = reply[c].req.stream_id
         /\ reply[d].req.tenant_id = reply[c].req.tenant_id
         /\ reply[d].req.from_version = LastVersion(c) + 1)
        => LET both == Events(c) \o Events(d)
           IN  /\ \A i, j \in DOMAIN both : i < j => both[i].version < both[j].version
               /\ {both[i].version : i \in DOMAIN both}
                     = OwnVersions(reply[c].req, reply[c].req.from_version, LastVersion(d))

SingleTenant(s) == \A v, w \in DOMAIN log[s] : log[s][v].tenant_id = log[s][w].tenant_id

(* The stream of one tenant replays from every version: the gap check does *)
(* not fail it, not even when the replay starts in the middle.             *)
OwnStreamHasNoGap ==
    \A c \in Client :
        (reply[c].req.stream_id # NoStream /\ SingleTenant(reply[c].req.stream_id))
        => reply[c].answer.cause # "gap"

(* A reported gap is a data-integrity violation: the version is missing.   *)
GapMeansMissingVersion ==
    \A c \in Client :
        reply[c].answer.cause = "gap" =>
            reply[c].answer.missing \notin DOMAIN log[reply[c].req.stream_id]
===============================================================================
