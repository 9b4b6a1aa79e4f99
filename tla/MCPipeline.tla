------------------------------ MODULE MCPipeline ------------------------------
(* Pipeline on small sets for TLC.                                         *)
EXTENDS Pipeline, TLC

CONSTANTS e1, e2

(* e1 has a stream_id with a routed prefix; the other pairs are no routes. *)
Routes == << <<"order", "events.old.v1">>, <<"user">>, <<"", "events.v1">>,
             <<"order", "events.order.v1">> >>

Prefixes == (e1 :> "order") @@ (e2 :> "payment")
===============================================================================
