--------------------------- MODULE MCReplayService ----------------------------
(* ReplayService on small sets for TLC.                                    *)
EXTENDS ReplayService

(* from_version includes a value the service rejects.                      *)
FromVersions == {-1, 0, 2, 3}

FromStart == {0}
===============================================================================
