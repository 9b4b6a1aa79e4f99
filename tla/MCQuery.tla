------------------------------- MODULE MCQuery --------------------------------
(* limit: negative, zero, above MaxLimit; offset: negative, and so far     *)
(* that a page of MaxLimit is beyond MaxResultWindow.                      *)
EXTENDS Query, TLC

Limits == {-1, 0, 3}
Offsets == {-1, 3}
Symmetry == Permutations(Stream) \cup Permutations(Tenant)
===============================================================================
