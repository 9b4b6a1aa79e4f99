---------------------------- MODULE MCIngestApi -------------------------------
(* IngestApi on small sets for TLC.                                        *)
EXTENDS IngestApi, TLC

(* All streams hash to one partition: the case in which they can disturb   *)
(* each other's order.                                                     *)
OnePartition == [s \in Stream |-> CHOOSE p \in Partition : TRUE]
===============================================================================
