------------------------------ MODULE EventStore ------------------------------
(***************************************************************************)
(* postgres.EventStore.Append: one INSERT whose VALUES list computes the   *)
(* version with a subquery over the rows its snapshot shows, and the table *)
(* constraint UNIQUE (stream_id, version).                                 *)
(*                                                                         *)
(* One statement is one implicit transaction at READ COMMITTED.  What      *)
(* other transactions can do between its parts is kept:                    *)
(*   sent      the handler is inside QueryRow: connection, network, queue  *)
(*   computed  the subquery has read MAX(version) + 1 from the snapshot    *)
(*   inserted  the row is in the unique index, visible to nobody yet       *)
(*   committed the row is visible                                          *)
(*   aborted   the server rolled the statement back                        *)
(* The call returns on its own account: it may report an error (deadline,  *)
(* cancelled request, lost connection) while the server still works on the *)
(* statement, or after the server committed it.                            *)
(***************************************************************************)
EXTENDS Naturals

CONSTANTS Event,    \* event UUIDs; event.New draws a fresh one per request
          Stream,   \* stream identifiers
          Tenant    \* tenant identifiers

VARIABLES events,   \* the table: the set of committed rows
          event,    \* event[e]: the *event.Event the caller passes to Append
          stmt,     \* stmt[e]: how far the server is with e's INSERT
          version,  \* version[e]: what the subquery of e's INSERT computed
          ret       \* ret[e]: what Append has returned to its caller

vars == <<events, event, stmt, version, ret>>

Row == [id : Event, tenant_id : Tenant, stream_id : Stream, version : Nat]

DomainEvent == [tenant_id : Tenant, stream_id : Stream, version : Nat]

VersionsOf(s) == {r.version : r \in {row \in events : row.stream_id = s}}

Largest(S) == CHOOSE m \in S : \A v \in S : v <= m

Coalesce0(S) == IF S = {} THEN 0 ELSE Largest(S)

(* SELECT COALESCE(MAX(version), 0) FROM events WHERE stream_id = s        *)
MaxVersion(s) == Coalesce0(VersionsOf(s))

RowOf(e) == [id        |-> e,
             tenant_id |-> event[e].tenant_id,
             stream_id |-> event[e].stream_id,
             version   |-> version[e]]

SameKey(e, f) == /\ event[e].stream_id = event[f].stream_id
                 /\ version[e] = version[f]

(* What the caller holds after Append: e with the version written back.    *)
Reported(e) == [id        |-> e,
                tenant_id |-> event[e].tenant_id,
                stream_id |-> event[e].stream_id,
                version   |-> event[e].version]

(* A committed row holds the key (stream_id, version) e wants.             *)
KeyTaken(e) == version[e] \in VersionsOf(event[e].stream_id)

(* An uncommitted row holds it: the unique index makes e wait.             *)
KeyLocked(e) == \E f \in Event \ {e} : stmt[f] = "inserted" /\ SameKey(e, f)
-------------------------------------------------------------------------------
(* event.New leaves Version zero; the tenant comes from the identity.      *)
Init ==
    /\ events = {}
    /\ event \in [Event -> [tenant_id : Tenant, stream_id : Stream, version : {0}]]
    /\ stmt = [e \in Event |-> "idle"]
    /\ version = [e \in Event |-> 0]
    /\ ret = [e \in Event |-> "none"]

BeginAppend(e) ==
    /\ stmt[e] = "idle"
    /\ stmt' = [stmt EXCEPT ![e] = "sent"]
    /\ UNCHANGED <<events, event, version, ret>>

(* Mutant: the version is drawn from a counter that other statements have  *)
(* advanced already, committed or not.                                     *)
ComputeVersionFromSequence(e) ==
    /\ stmt[e] = "sent"
    /\ stmt' = [stmt EXCEPT ![e] = "computed"]
    /\ LET drawn == {version[f] : f \in {g \in Event : event[g].stream_id = event[e].stream_id}}
       IN  version' = [version EXCEPT ![e] = Largest(drawn) + 1]
    /\ UNCHANGED <<events, event, ret>>

(* Mutant: COALESCE(MAX(version), 0) - 1.                                  *)
ComputeVersionDown(e) ==
    /\ stmt[e] = "sent"
    /\ stmt' = [stmt EXCEPT ![e] = "computed"]
    /\ version' = [version EXCEPT ![e] = MaxVersion(event[e].stream_id) - 1]
    /\ UNCHANGED <<events, event, ret>>

(* The subquery sees the rows committed when the statement starts.         *)
ComputeVersion(e) ==
    /\ stmt[e] = "sent"
    /\ stmt' = [stmt EXCEPT ![e] = "computed"]
    /\ version' = [version EXCEPT ![e] = MaxVersion(event[e].stream_id) + 1]
    /\ UNCHANGED <<events, event, ret>>

(* Mutant: no UNIQUE (stream_id, version) on the table.                    *)
InsertRowUnchecked(e) ==
    /\ stmt[e] = "computed"
    /\ stmt' = [stmt EXCEPT ![e] = "inserted"]
    /\ UNCHANGED <<events, event, version, ret>>

(* Mutant: the constraint is UNIQUE (tenant_id, stream_id, version).       *)
InsertRowPerTenant(e) ==
    /\ stmt[e] = "computed"
    /\ \A r \in events : ~ /\ r.tenant_id = event[e].tenant_id
                          /\ r.stream_id = event[e].stream_id
                          /\ r.version = version[e]
    /\ \A f \in Event \ {e} : ~ /\ stmt[f] = "inserted"
                                 /\ SameKey(e, f)
                                 /\ event[e].tenant_id = event[f].tenant_id
    /\ stmt' = [stmt EXCEPT ![e] = "inserted"]
    /\ UNCHANGED <<events, event, version, ret>>

InsertRow(e) ==
    /\ stmt[e] = "computed"
    /\ ~KeyTaken(e)
    /\ ~KeyLocked(e)
    /\ stmt' = [stmt EXCEPT ![e] = "inserted"]
    /\ UNCHANGED <<events, event, version, ret>>

(* ERROR: duplicate key value violates unique constraint.                  *)
UniqueViolation(e) ==
    /\ stmt[e] = "computed"
    /\ KeyTaken(e)
    /\ stmt' = [stmt EXCEPT ![e] = "aborted"]
    /\ UNCHANGED <<events, event, version, ret>>

CommitRow(e) ==
    /\ stmt[e] = "inserted"
    /\ events' = events \cup {RowOf(e)}
    /\ stmt' = [stmt EXCEPT ![e] = "committed"]
    /\ UNCHANGED <<event, version, ret>>

(* The server cancels or loses the statement: cancel request, restart,     *)
(* the connection was never obtained.                                      *)
AbortStmt(e) ==
    /\ stmt[e] \in {"sent", "computed", "inserted"}
    /\ stmt' = [stmt EXCEPT ![e] = "aborted"]
    /\ UNCHANGED <<events, event, version, ret>>

(* Mutant: success is reported once the row is in the index, before the    *)
(* server has committed it.                                                *)
AppendReturnsEarly(e) ==
    /\ ret[e] = "none"
    /\ \/ /\ stmt[e] \in {"inserted", "committed"}
          /\ ret' = [ret EXCEPT ![e] = "ok"]
          /\ event' = [event EXCEPT ![e].version = version[e]]
       \/ /\ stmt[e] = "aborted"
          /\ ret' = [ret EXCEPT ![e] = "error"]
          /\ UNCHANGED event
    /\ UNCHANGED <<events, stmt, version>>

(* Mutant: the call waits for a version and never returns the error of a   *)
(* statement the server has rejected.                                      *)
AppendReturnsNoError(e) ==
    /\ ret[e] = "none"
    /\ stmt[e] = "committed"
    /\ ret' = [ret EXCEPT ![e] = "ok"]
    /\ event' = [event EXCEPT ![e].version = version[e]]
    /\ UNCHANGED <<events, stmt, version>>

(* Scan(&e.Version) writes what RETURNING version reports; the statement's *)
(* error is returned as it is.                                             *)
AppendReturns(e) ==
    /\ ret[e] = "none"
    /\ \/ /\ stmt[e] = "committed"
          /\ ret' = [ret EXCEPT ![e] = "ok"]
          /\ event' = [event EXCEPT ![e].version = version[e]]
       \/ /\ stmt[e] = "aborted"
          /\ ret' = [ret EXCEPT ![e] = "error"]
          /\ UNCHANGED event
    /\ UNCHANGED <<events, stmt, version>>

(* The caller gets an error whatever became of the statement.              *)
AppendFails(e) ==
    /\ ret[e] = "none"
    /\ stmt[e] # "idle"
    /\ ret' = [ret EXCEPT ![e] = "error"]
    /\ UNCHANGED <<events, event, stmt, version>>

ServerStep(e) == \/ ComputeVersion(e)
                 \/ InsertRow(e)
                 \/ UniqueViolation(e)
                 \/ CommitRow(e)

Next == \E e \in Event :
            \/ BeginAppend(e)
            \/ ServerStep(e)
            \/ AbortStmt(e)
            \/ AppendReturns(e)
            \/ AppendFails(e)

Spec == Init /\ [][Next]_vars

(* PostgreSQL finishes the statements it was sent, and a call that has its *)
(* answer returns.  No handler has to call Append.                         *)
Fairness == \A e \in Event : /\ WF_vars(ServerStep(e))
                             /\ WF_vars(AppendReturns(e))

FairSpec == Spec /\ Fairness
-------------------------------------------------------------------------------
TypeOK ==
    /\ events \subseteq Row
    /\ event \in [Event -> DomainEvent]
    /\ stmt \in [Event -> {"idle", "sent", "computed", "inserted",
                           "committed", "aborted"}]
    /\ version \in [Event -> Nat]
    /\ ret \in [Event -> {"none", "ok", "error"}]

(* The versions of a stream are 1, 2, ..., n with no hole and no repeat,   *)
(* although concurrent statements compute them from stale snapshots: what  *)
(* validateContiguous in the replay service takes for granted.             *)
GapFree ==
    \A s \in Stream :
        /\ VersionsOf(s) = 1..MaxVersion(s)
        /\ \A r1, r2 \in events :
              (r1.stream_id = s /\ r2.stream_id = s /\ r1.version = r2.version)
                  => r1 = r2

(* An event whose Append returned no error is in the table, once, with the *)
(* tenant, stream and version its caller was told; one whose statement was *)
(* rolled back is not there.                                               *)
AckedIsDurable ==
    \A e \in Event :
        /\ ret[e] = "ok" => {r \in events : r.id = e} = {Reported(e)}
        /\ stmt[e] = "aborted" => {r \in events : r.id = e} = {}

(* Rows are only ever added, and a row becomes visible as the last of its  *)
(* stream: readers see versions appear in order, however the statements    *)
(* that computed them interleave and whichever of them abort.              *)
AppendsAtTail ==
    [][/\ events \subseteq events'
       /\ \A r \in events' \ events : r.version = MaxVersion(r.stream_id) + 1]_vars

RowAt(rows, s, v) == CHOOSE r \in rows : r.stream_id = s /\ r.version = v

EntryAt(s, v) == [id        |-> RowAt(events, s, v).id,
                  tenant_id |-> RowAt(events, s, v).tenant_id]

LogOf(s) == [v \in 1..MaxVersion(s) |-> EntryAt(s, v)]

LogView == [s \in Stream |-> LogOf(s)]

AckedView == {<<e, event[e].version>> : e \in {f \in Event : ret[f] = "ok"}}

Log == INSTANCE EventLog WITH log <- LogView, acked <- AckedView

(* The table is an append-only log per stream, as the port promises.       *)
ImplementsEventLog == Log!Spec

(* Every Append that a handler starts returns, also when it has to wait    *)
(* for a competing statement that holds its key.                           *)
AppendTerminates == \A e \in Event : stmt[e] = "sent" ~> ret[e] # "none"
===============================================================================
