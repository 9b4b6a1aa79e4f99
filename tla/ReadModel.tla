------------------------------- MODULE ReadModel ------------------------------
(***************************************************************************)
(* What the platform promises of its two views of the events (README.md,   *)
(* "Eventual consistency"): PostgreSQL is the source of truth and the      *)
(* index follows it.  An event is stored first, once and for good; the     *)
(* read model shows nothing else, and takes nothing back.                  *)
(*                                                                         *)
(* Pipeline implements this specification.                                 *)
(***************************************************************************)
CONSTANT Event

VARIABLES stored,   \* the events in PostgreSQL
          shown     \* the events in the index

Init == stored = {} /\ shown = {}

Store(e) == /\ e \notin stored
            /\ stored' = stored \cup {e}
            /\ UNCHANGED shown

Show(e) == /\ e \in stored
           /\ shown' = shown \cup {e}
           /\ UNCHANGED stored

Next == \E e \in Event : Store(e) \/ Show(e)

Spec == Init /\ [][Next]_<<stored, shown>>
===============================================================================
