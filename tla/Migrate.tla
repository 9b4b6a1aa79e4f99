-------------------------------- MODULE Migrate -------------------------------
(***************************************************************************)
(* cmd/migrate: run and applyOne, by processes that may run at the same    *)
(* time, fail, be killed and be started again.                             *)
(*                                                                         *)
(* A file of the embedded FS is known by its place in the sorted list.     *)
(* What its SQL does to the schema is left open: it takes effect when its  *)
(* transaction commits, and may fail.  A key of schema_migrations that an  *)
(* open transaction has inserted makes others wait for its end.            *)
(***************************************************************************)
EXTENDS Naturals

CONSTANTS Proc,    \* processes
          Files    \* how many files the FS has

ASSUME MigrateAssumption == Files \in Nat

VARIABLES recorded,  \* the committed rows of schema_migrations
          effect,    \* effect[f]: how many times the SQL of f has taken effect
          pc,        \* pc[p]: where p is in run and applyOne
          applied,   \* applied[p]: the map of that name
          next       \* next[p]: the file of the loop in run

vars == <<recorded, effect, pc, applied, next>>

File == 1..Files

\* not run yet; before the query; in the loop; after the BEGIN, the SQL, the
\* INSERT and the COMMIT of applyOne; ended with exit code 0 or 1
Location == {"idle", "query", "loop", "begun", "executed", "inserted",
             "committed", "exit0", "exit1"}

Ended == {"exit0", "exit1"}

Running == Location \ ({"idle"} \cup Ended)

Go(p, from, to) == /\ pc[p] = from
                   /\ pc' = [pc EXCEPT ![p] = to]

Init ==
    /\ recorded = {}
    /\ effect = [f \in File |-> 0]
    /\ pc = [p \in Proc |-> "idle"]
    /\ applied = [p \in Proc |-> {}]
    /\ next = [p \in Proc |-> 1]

(* Mutant: the loop starts at index 0.                                     *)
StartAtZero(p) ==
    /\ pc[p] \notin Running
    /\ pc' = [pc EXCEPT ![p] = "query"]
    /\ applied' = [applied EXCEPT ![p] = {}]
    /\ next' = [next EXCEPT ![p] = 0]
    /\ UNCHANGED <<recorded, effect>>

(* An operator runs the binary, once more at any time after its end.       *)
Start(p) ==
    /\ pc[p] \notin Running
    /\ pc' = [pc EXCEPT ![p] = "query"]
    /\ applied' = [applied EXCEPT ![p] = {}]
    /\ next' = [next EXCEPT ![p] = 1]
    /\ UNCHANGED <<recorded, effect>>

(* The tracking table is there after CREATE TABLE IF NOT EXISTS.  Its rows *)
(* are read in the order of their names; rows.Err() is not looked at after *)
(* the loop, so that a connection lost in between ends it early, without   *)
(* an error.                                                               *)
LoadApplied(p) ==
    /\ Go(p, "query", "loop")
    /\ \E last \in 0..Files :
           applied' = [applied EXCEPT ![p] = {f \in recorded : f <= last}]
    /\ UNCHANGED <<recorded, effect, next>>

Skip(p) ==
    /\ pc[p] = "loop"
    /\ next[p] \in applied[p]
    /\ next' = [next EXCEPT ![p] = @ + 1]
    /\ UNCHANGED <<recorded, effect, pc, applied>>

Begin(p) ==
    /\ next[p] \in File \ applied[p]
    /\ Go(p, "loop", "begun")
    /\ UNCHANGED <<recorded, effect, applied, next>>

(* It may wait for locks that other transactions hold; those need nothing  *)
(* that p holds, so that the wait is left out.                             *)
ExecSQL(p) ==
    /\ Go(p, "begun", "executed")
    /\ UNCHANGED <<recorded, effect, applied, next>>

(* filename is the primary key: the INSERT waits for an open transaction   *)
(* with the same one, and fails if a committed row has it.                 *)
InsertRecord(p) ==
    /\ next[p] \notin recorded
    /\ \A q \in Proc : pc[q] = "inserted" => next[q] # next[p]
    /\ Go(p, "executed", "inserted")
    /\ UNCHANGED <<recorded, effect, applied, next>>

(* Mutant: ON CONFLICT DO NOTHING, after which the transaction commits.    *)
DuplicateIgnored(p) ==
    /\ next[p] \in recorded
    /\ Go(p, "executed", "inserted")
    /\ UNCHANGED <<recorded, effect, applied, next>>

(* Mutant: the file is tried again, with the same map.                     *)
DuplicateRetried(p) ==
    /\ next[p] \in recorded
    /\ Go(p, "executed", "loop")
    /\ UNCHANGED <<recorded, effect, applied, next>>

DuplicateKey(p) ==
    /\ next[p] \in recorded
    /\ Go(p, "executed", "exit1")
    /\ UNCHANGED <<recorded, effect, applied, next>>

(* The effects of the SQL and the row become visible at once.              *)
Commit(p) ==
    /\ Go(p, "inserted", "committed")
    /\ recorded' = recorded \cup {next[p]}
    /\ effect' = [effect EXCEPT ![next[p]] = @ + 1]
    /\ UNCHANGED <<applied, next>>

NextFile(p) ==
    /\ Go(p, "committed", "loop")
    /\ next' = [next EXCEPT ![p] = @ + 1]
    /\ UNCHANGED <<recorded, effect, applied>>

(* Mutant: the loop ends before the last file.                             *)
FinishEarly(p) ==
    /\ next[p] >= Files
    /\ Go(p, "loop", "exit0")
    /\ UNCHANGED <<recorded, effect, applied, next>>

(* run returns nil.                                                        *)
Finish(p) ==
    /\ next[p] > Files
    /\ Go(p, "loop", "exit0")
    /\ UNCHANGED <<recorded, effect, applied, next>>

(* Mutant: an error of applyOne is logged, and the loop goes on.           *)
FailContinues(p) ==
    /\ Go(p, "begun", "loop")
    /\ next' = [next EXCEPT ![p] = @ + 1]
    /\ UNCHANGED <<recorded, effect, applied>>

(* Any call fails, or the process is killed.  An open transaction is       *)
(* rolled back, by the deferred Rollback or with its connection; at        *)
(* "committed" the COMMIT has succeeded and only its answer is lost.       *)
Fail(p) ==
    /\ pc[p] \in Running
    /\ pc' = [pc EXCEPT ![p] = "exit1"]
    /\ UNCHANGED <<recorded, effect, applied, next>>

Step(p) ==
    \/ LoadApplied(p)
    \/ Skip(p)
    \/ Begin(p)
    \/ ExecSQL(p)
    \/ InsertRecord(p)
    \/ DuplicateKey(p)
    \/ Commit(p)
    \/ NextFile(p)
    \/ Finish(p)

Next == \E p \in Proc : Step(p) \/ Start(p) \/ Fail(p)

Spec == Init /\ [][Next]_vars

(* PostgreSQL answers and lets the transactions that wait for a key have   *)
(* it in turn.  Nobody has to start or to restart a process.               *)
FairSpec == /\ Spec
            /\ \A p \in Proc : WF_vars(Step(p)) /\ SF_vars(InsertRecord(p))
-------------------------------------------------------------------------------
(* Every variable keeps its type.                                          *)
TypeOK ==
    /\ recorded \subseteq File
    /\ effect \in [File -> Nat]
    /\ pc \in [Proc -> Location]
    /\ applied \in [Proc -> SUBSET File]
    /\ next \in [Proc -> 1..Files + 1]

(* A file has taken effect exactly once if it is recorded, and not at all  *)
(* otherwise, whatever processes run side by side with stale or truncated  *)
(* maps, are killed, or lose the answer to their COMMIT: "each file is     *)
(* executed exactly once, even across restarts" (cmd/migrate/main.go:10).  *)
AppliedOnce ==
    \A f \in File : effect[f] = IF f \in recorded THEN 1 ELSE 0

(* No file is applied before those that sort before it.                    *)
InOrder == \A f \in recorded : 1..f \subseteq recorded

(* Exit code 0 means that all files are applied, also when others run at   *)
(* the same time.                                                          *)
ExitZeroMeansMigrated == \A p \in Proc : pc[p] = "exit0" => recorded = File

(* A run ends: no process waits for ever for another's transaction.        *)
RunsEnd == \A p \in Proc : pc[p] \in Running ~> pc[p] \in Ended
===============================================================================
