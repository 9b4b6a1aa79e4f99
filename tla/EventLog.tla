------------------------------- MODULE EventLog -------------------------------
(***************************************************************************)
(* What the event store promises its callers (the port event.Store): one   *)
(* append-only log per stream.  An event enters the log of its stream at   *)
(* the next position, which is its version, and never moves again.  An     *)
(* Append is acknowledged only after its event is in the log, and it       *)
(* reports the event's position.                                           *)
(*                                                                         *)
(* EventStore implements this specification; ReplayService reads from it.  *)
(***************************************************************************)
EXTENDS Naturals, Sequences

CONSTANTS Event,    \* event UUIDs
          Stream,   \* stream identifiers
          Tenant    \* tenant identifiers

VARIABLES log,      \* log[s][v]: the event of stream s that has version v
          acked     \* <<e, v>>: Append returned without an error for event e,
                    \* with v as e.Version

logVars == <<log, acked>>

Entry == [id : Event, tenant_id : Tenant]

InLog(e) == \E s \in Stream : \E v \in DOMAIN log[s] : log[s][v].id = e

Init == /\ log = [s \in Stream |-> <<>>]
        /\ acked = {}

(* The event gets the version that follows the last one of its stream.     *)
AppendEntry(s, x) ==
    /\ ~InLog(x.id)
    /\ log' = [log EXCEPT ![s] = Append(@, x)]
    /\ UNCHANGED acked

Acknowledge(s, v) ==
    /\ v \in DOMAIN log[s]
    /\ acked' = acked \cup {<<log[s][v].id, v>>}
    /\ UNCHANGED log

Next == \E s \in Stream :
            \/ \E x \in Entry : AppendEntry(s, x)
            \/ \E v \in DOMAIN log[s] : Acknowledge(s, v)

Spec == Init /\ [][Next]_logVars
===============================================================================
