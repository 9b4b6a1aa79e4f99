-------------------------------- MODULE MCAuth --------------------------------
(* Auth on small sets for TLC.                                             *)
EXTENDS Auth

CONSTANTS s1, s2    \* secrets

(* Every mode, with and without a secret, and a change of the secret.      *)
AllConfigs ==
    {[mode |-> m, secret |-> k] : m \in {"none", "simple", "jwt"}, k \in {Blank, s1}}
        \cup {[mode |-> "jwt", secret |-> s2], [mode |-> "other", secret |-> s1]}

(* One second, more than the longest maximum, nothing, and numbers whose   *)
(* product with Second wraps around to a negative one and to a fraction of *)
(* a second (3 units to a second, a word of 32: 18 is -14 and 33 is 1).    *)
Lifetimes == {0, 1, 5, 6, 11}
===============================================================================
