--------------------------------- MODULE Query --------------------------------
(***************************************************************************)
(* GET /events and GET /events/{streamID}: handler.listEvents and          *)
(* handler.getByStream over query.Service and Indexer.Search, while the    *)
(* consumer-service goes on indexing.                                      *)
(*                                                                         *)
(* A client walks the pages of one route: from an offset of its choice, it *)
(* goes on at the offset and limit of the last answer added up, until that *)
(* reaches the total of the last answer.  Reads change nothing, so that    *)
(* walks do not meet each other and one is enough.                         *)
(*                                                                         *)
(* Elasticsearch: documents are indexed with Refresh "false", and searches *)
(* see them after the next refresh.  One node holds the only copy of the   *)
(* index (discovery.type: single-node in docker-compose.yml).              *)
(***************************************************************************)
EXTENDS Integers, Sequences, FiniteSets

CONSTANTS Event,           \* event UUIDs, as numbers: the sort compares them
          Stream, Tenant,
          Time,            \* the values of occurred_at, in nanoseconds
          Milli,           \* the nanoseconds of a millisecond
          NoStream,        \* the empty StreamID of ListAll's SearchQuery
          NoTenant,        \* no identity in the context
          Limit, Offset,   \* values of the query parameters of a first page
          DefaultLimit, MaxLimit,
          MaxResultWindow  \* index.max_result_window of Elasticsearch

ASSUME QueryAssumption == /\ Event \subseteq Nat /\ IsFiniteSet(Event)
                          /\ Time \subseteq Nat /\ Milli \in Nat \ {0}
                          /\ NoStream \notin Stream
                          /\ NoTenant \notin Tenant
                          /\ Limit \subseteq Int
                          /\ Offset \subseteq Int
                          /\ MaxLimit \in Nat /\ DefaultLimit \in 1..MaxLimit
                          /\ MaxResultWindow \in Nat

VARIABLES doc,         \* doc[e]: the fields of e that queries look at
          indexed,     \* the documents Elasticsearch has acknowledged
          searchable,  \* those that searches see
          walk         \* the client

vars == <<doc, indexed, searchable, walk>>

Doc == [tenant_id : Tenant, stream_id : Stream,
        version : 1..Cardinality(Event), occurred_at : Time]

(* Versions count 1, 2, ... in each stream, over all tenants.              *)
Versioned(d) ==
    \A s \in Stream :
        LET es == {e \in Event : d[e].stream_id = s}
        IN  {d[e].version : e \in es} = 1..Cardinality(es)

Min2(a, b) == IF a < b THEN a ELSE b
-------------------------------------------------------------------------------
(* A query is a record of tenant, stream (NoStream: all), limit, offset.   *)

parseIntParam(n, fallback) == IF n < 0 THEN fallback ELSE n

(* Mutant: the limit has no upper bound.                                   *)
PageSizeUnbounded(limit) == IF limit <= 0 THEN DefaultLimit ELSE limit

PageSize(limit) ==
    IF limit <= 0 THEN DefaultLimit ELSE Min2(limit, MaxLimit)

(* The filters: a clause for each value that is not empty.                 *)
Matches(e, q) == /\ q.stream_id # NoStream => doc[e].stream_id = q.stream_id
                 /\ q.tenant_id # NoTenant => doc[e].tenant_id = q.tenant_id

(* What Elasticsearch sorts a field of type date by: whole milliseconds.    *)
(* The document itself, which the answers show, keeps the nanoseconds.     *)
DateKey(e) == doc[e].occurred_at \div Milli

Newer(e, f) == \/ DateKey(e) > DateKey(f)
               \/ DateKey(e) = DateKey(f) /\ e > f

Lower(e, f) == \/ doc[e].version < doc[f].version
               \/ doc[e].version = doc[f].version /\ e < f

(* Mutant: both routes are sorted by time.                                 *)
PrecedesInTime(e, f, q) == IF q.stream_id = NoStream THEN Newer(e, f) ELSE Newer(f, e)

(* SortByOccurredAtDesc is set by ListAll, the query without a stream.     *)
Precedes(e, f, q) == IF q.stream_id = NoStream THEN Newer(e, f) ELSE Lower(e, f)

Hits(q) == {e \in searchable : Matches(e, q)}

(* The hits in order: each has as many before it as its index says.        *)
SortedHits(q) ==
    LET hits == Hits(q)
    IN  [i \in 1..Cardinality(hits) |->
            CHOOSE e \in hits :
                Cardinality({f \in hits : Precedes(f, e, q)}) = i - 1]

Search(q) ==
    LET hits == SortedHits(q)
    IN  [events |-> SubSeq(hits, q.offset + 1, Min2(q.offset + q.limit, Len(hits))),
         total  |-> Len(hits)]

(* Mutant: only Elasticsearch refuses.                                     *)
RefusedByWindow(q) == q.offset + q.limit > MaxResultWindow

(* The service refuses a caller without a tenant, and Elasticsearch a page *)
(* beyond its window; both are answered with 500.                          *)
Refused(q) == \/ q.tenant_id = NoTenant
              \/ q.offset + q.limit > MaxResultWindow
-------------------------------------------------------------------------------
Walk == [phase     : {"idle", "walking", "failed", "done"},
         tenant_id : Tenant \cup {NoTenant},
         stream_id : Stream \cup {NoStream},
         limit     : Limit,                \* as sent
         size      : 0..MaxLimit,          \* as the last answer has it
         offset    : Nat \cup Offset,
         got       : Seq(Event),           \* all pages so far, one after another
         start     : SUBSET Event,         \* what was there from its offset on
         disturbed : BOOLEAN]              \* something was put in between since

Init ==
    /\ doc \in [Event -> Doc]
    /\ Versioned(doc)
    /\ indexed = {}
    /\ searchable = {}
    /\ walk \in [phase : {"idle"}, tenant_id : Tenant \cup {NoTenant},
                 stream_id : Stream \cup {NoStream}, limit : Limit, size : {0},
                 offset : Offset, got : {<<>>}, start : {{}}, disturbed : {FALSE}]

(* The consumers index in any order: the partitions of the topic are not   *)
(* in version order, and a dead letter may be indexed at a later time.     *)
Index(e) ==
    /\ e \notin indexed
    /\ indexed' = indexed \cup {e}
    /\ UNCHANGED <<doc, searchable, walk>>

Refresh ==
    /\ searchable # indexed
    /\ searchable' = indexed
    /\ walk' = [walk EXCEPT !.disturbed =
                   \/ @
                   \/ \E e \in indexed \ searchable, f \in Hits(walk) :
                          Matches(e, walk) /\ Precedes(e, f, walk)]
    /\ UNCHANGED <<doc, indexed>>

(* What the handler passes to the service, and the service to Search.      *)
QueryOf(w) ==
    [tenant_id |-> w.tenant_id, stream_id |-> w.stream_id,
     limit |-> PageSize(parseIntParam(w.limit, DefaultLimit)),
     offset |-> parseIntParam(w.offset, 0)]

(* All that pages from q.offset on would show at this moment.              *)
FromOffset(q) ==
    LET hits == SortedHits(q) IN {hits[i] : i \in q.offset + 1 .. Len(hits)}

StartWalk ==
    /\ walk.phase = "idle"
    /\ walk' = [walk EXCEPT !.phase = "walking",
                            !.start = FromOffset(QueryOf(walk)),
                            !.disturbed = FALSE]
    /\ UNCHANGED <<doc, indexed, searchable>>

(* Mutant: the result repeats the limit of the request.                    *)
NextPageEchoed ==
    LET q      == QueryOf(walk)
        result == Search(q)
        asked  == IF walk.limit > 0 THEN walk.limit ELSE q.limit
    IN  /\ walk.phase \in {"walking", "failed"}
        /\ ~Refused(q)
        /\ walk' = [walk EXCEPT
               !.phase  = IF q.offset + asked < result.total THEN "walking" ELSE "done",
               !.size   = q.limit,
               !.offset = q.offset + asked,
               !.got    = @ \o result.events]
        /\ UNCHANGED <<doc, indexed, searchable>>

(* A 200; the client works out the next offset from it.                    *)
NextPage ==
    LET q      == QueryOf(walk)
        result == Search(q)
    IN  /\ walk.phase \in {"walking", "failed"}
        /\ ~Refused(q)
        /\ walk' = [walk EXCEPT
               !.phase  = IF q.offset + q.limit < result.total THEN "walking" ELSE "done",
               !.size   = q.limit,
               !.offset = q.offset + q.limit,
               !.got    = @ \o result.events]
        /\ UNCHANGED <<doc, indexed, searchable>>

(* A 500: refused, the 3 s of the handler are over, or the search failed.  *)
(* The client may ask again.                                               *)
PageFails ==
    /\ walk.phase = "walking"
    /\ walk' = [walk EXCEPT !.phase = "failed"]
    /\ UNCHANGED <<doc, indexed, searchable>>

Next ==
    \/ \E e \in Event : Index(e)
    \/ Refresh
    \/ StartWalk
    \/ NextPage
    \/ PageFails

Spec == Init /\ [][Next]_vars
-------------------------------------------------------------------------------
Got == {walk.got[i] : i \in DOMAIN walk.got}

(* Every variable keeps its type; a page never has more than MaxLimit      *)
(* events, whatever limit the client sends.                                *)
TypeOK ==
    /\ doc \in [Event -> Doc]
    /\ indexed \subseteq Event
    /\ searchable \subseteq indexed
    /\ walk \in Walk

(* A client that has read all pages has read every event that was          *)
(* searchable (from its offset on) when it began, although pages are cut   *)
(* by offset from an index that grows between the calls, and calls fail:   *)
(* what is put in between moves events to later pages, never to earlier.   *)
WalkIsComplete == walk.phase = "done" => walk.start \subseteq Got

(* The pages hold events of the caller's tenant and of the stream asked    *)
(* for; a caller without an identity gets none, not those of all tenants.  *)
OnlyOwnEvents ==
    \A e \in Got : /\ doc[e].tenant_id = walk.tenant_id
                   /\ walk.stream_id \in {doc[e].stream_id, NoStream}

(* Where no event was put before one that was there, the pages together    *)
(* are in the order of the route without repetition: by version in a       *)
(* stream; in the feed no event comes before one that is newer by a        *)
(* millisecond (within a millisecond the order is that of the UUIDs).      *)
UndisturbedWalkIsExact ==
    ~walk.disturbed =>
        \A i, j \in DOMAIN walk.got : i < j =>
            LET e == doc[walk.got[i]]
                f == doc[walk.got[j]]
            IN  /\ walk.got[i] # walk.got[j]
                /\ IF walk.stream_id = NoStream
                   THEN f.occurred_at - e.occurred_at < Milli
                   ELSE e.version < f.version
===============================================================================
