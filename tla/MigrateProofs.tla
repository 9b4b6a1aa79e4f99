----------------------------- MODULE MigrateProofs ----------------------------
(***************************************************************************)
(* Proofs about Migrate, for any set of processes and any number of files. *)
(***************************************************************************)
EXTENDS Migrate, TLAPS

(* A process has, or has had, a row of its own in a transaction.           *)
InTransaction == {"begun", "executed", "inserted", "committed"}

(* What a process takes for applied is applied: maps may be stale or cut   *)
(* off, but rows never go away.                                            *)
AppliedIsRecorded == \A p \in Proc : applied[p] \subseteq recorded

(* The loop leaves no file behind.                                         *)
EarlierIsRecorded == \A p \in Proc : 1..(next[p] - 1) \subseteq recorded

(* A transaction is about a file of the list.                              *)
WorksOnFile == \A p \in Proc : pc[p] \in InTransaction => next[p] \in File

(* An open transaction that holds a key holds it alone, and no committed   *)
(* row has it.                                                             *)
HoldsKey ==
    \A p \in Proc : pc[p] = "inserted" =>
        /\ next[p] \notin recorded
        /\ \A q \in Proc \ {p} : pc[q] = "inserted" => next[q] # next[p]

CommittedIsRecorded ==
    \A p \in Proc : pc[p] = "committed" => next[p] \in recorded

IInv == /\ TypeOK
        /\ AppliedIsRecorded
        /\ EarlierIsRecorded
        /\ WorksOnFile
        /\ HoldsKey
        /\ CommittedIsRecorded
        /\ AppliedOnce
        /\ InOrder
        /\ ExitZeroMeansMigrated

(* Nothing is recorded at first.                                           *)
LEMMA InitIInv == Init => IInv
<1> SUFFICES ASSUME Init PROVE IInv
    OBVIOUS
<1>1. TypeOK
      BY MigrateAssumption DEF Init, TypeOK, Location, File
<1>2. AppliedIsRecorded /\ EarlierIsRecorded /\ AppliedOnce /\ InOrder
      BY DEF Init, AppliedIsRecorded, EarlierIsRecorded, AppliedOnce, InOrder
<1>3. WorksOnFile /\ HoldsKey /\ CommittedIsRecorded /\ ExitZeroMeansMigrated
      BY DEF Init, WorksOnFile, InTransaction, HoldsKey, CommittedIsRecorded,
             ExitZeroMeansMigrated
<1> QED BY <1>1, <1>2, <1>3 DEF IInv

(* A step that records nothing and moves one process to a place outside    *)
(* its transaction, or into it with a file, keeps the rest of the          *)
(* invariant.  (from, to) is the move of pc[p].                            *)
LEMMA LocalStep ==
    ASSUME IInv, NEW p \in Proc, NEW to \in Location \ {"inserted", "committed"},
           pc' = [pc EXCEPT ![p] = to],
           UNCHANGED <<recorded, effect>>,
           applied' \in [Proc -> SUBSET recorded],
           next' \in [Proc -> 1..Files + 1],
           \A q \in Proc \ {p} : next'[q] = next[q],
           1..(next'[p] - 1) \subseteq recorded,
           to \in InTransaction => next'[p] \in File,
           to = "exit0" => recorded = File
    PROVE  IInv'
<1> USE DEF IInv
<1>1. TypeOK'
      BY DEF TypeOK
<1>2. AppliedIsRecorded'
      BY DEF AppliedIsRecorded
<1>3. EarlierIsRecorded'
      BY DEF EarlierIsRecorded
<1>4. WorksOnFile'
      BY DEF WorksOnFile, TypeOK
<1>5. HoldsKey'
      BY DEF HoldsKey, TypeOK
<1>6. CommittedIsRecorded'
      BY DEF CommittedIsRecorded, TypeOK
<1>7. AppliedOnce' /\ InOrder'
      BY DEF AppliedOnce, InOrder
<1>8. ExitZeroMeansMigrated'
      BY DEF ExitZeroMeansMigrated, TypeOK
<1> QED BY <1>1, <1>2, <1>3, <1>4, <1>5, <1>6, <1>7, <1>8

(* The INSERT takes a key that nobody holds and no row has.                *)
LEMMA InsertRecordKeeps ==
    ASSUME IInv, NEW p \in Proc, InsertRecord(p)
    PROVE  IInv'
<1> USE DEF IInv, InsertRecord, Go
<1>1. TypeOK'
      BY DEF TypeOK, Location
<1>2. AppliedIsRecorded' /\ EarlierIsRecorded' /\ AppliedOnce' /\ InOrder'
      BY DEF AppliedIsRecorded, EarlierIsRecorded, AppliedOnce, InOrder
<1>3. WorksOnFile'
      BY DEF WorksOnFile, InTransaction, TypeOK
<1>4. HoldsKey'
      BY DEF HoldsKey, TypeOK
<1>5. CommittedIsRecorded' /\ ExitZeroMeansMigrated'
      BY DEF CommittedIsRecorded, ExitZeroMeansMigrated, TypeOK
<1> QED BY <1>1, <1>2, <1>3, <1>4, <1>5

(* The commit records the next file in the order, for the first time.      *)
LEMMA CommitKeeps ==
    ASSUME IInv, NEW p \in Proc, Commit(p)
    PROVE  IInv'
<1> USE DEF IInv, Commit, Go
<1>1. /\ next[p] \in File
      /\ next[p] \notin recorded
      BY DEF WorksOnFile, InTransaction, HoldsKey
<1>2. TypeOK'
      BY <1>1 DEF TypeOK, Location
<1>3. AppliedIsRecorded' /\ EarlierIsRecorded'
      BY DEF AppliedIsRecorded, EarlierIsRecorded
<1>4. WorksOnFile'
      BY DEF WorksOnFile, InTransaction, TypeOK
<1>5. HoldsKey'
      BY DEF HoldsKey, TypeOK
<1>6. CommittedIsRecorded'
      BY DEF CommittedIsRecorded, TypeOK
<1>7. AppliedOnce'
  <2> SUFFICES ASSUME NEW f \in File
               PROVE  effect'[f] = IF f \in recorded' THEN 1 ELSE 0
      BY DEF AppliedOnce, File
  <2>1. CASE f = next[p]
        BY <1>1, <2>1 DEF AppliedOnce, TypeOK
  <2>2. CASE f # next[p]
        BY <2>2 DEF AppliedOnce, TypeOK
  <2> QED BY <2>1, <2>2
<1>8. InOrder'
  <2> SUFFICES ASSUME NEW f \in recorded', NEW g \in 1..f
               PROVE  g \in recorded'
      BY DEF InOrder
  <2>1. CASE f \in recorded
        BY <2>1 DEF InOrder
  <2>2. CASE f = next[p]
        BY <1>1, <2>2 DEF EarlierIsRecorded, File
  <2> QED BY <2>1, <2>2
<1>9. ExitZeroMeansMigrated'
      BY <1>1 DEF ExitZeroMeansMigrated, TypeOK
<1> QED BY <1>2, <1>3, <1>4, <1>5, <1>6, <1>7, <1>8, <1>9

(* All other steps record nothing.                                         *)
LEMMA StepKeeps ==
    ASSUME IInv, NEW p \in Proc, Step(p) \/ Start(p) \/ Fail(p)
    PROVE  IInv'
<1> USE DEF Go
<1>1. TypeOK /\ \A q \in Proc : applied[q] \subseteq recorded
      BY DEF IInv, AppliedIsRecorded
<1>2. 1..(next[p] - 1) \subseteq recorded
      BY DEF IInv, EarlierIsRecorded
<1>3. applied \in [Proc -> SUBSET recorded]
      BY <1>1 DEF TypeOK
<1>4. CASE LoadApplied(p)
  <2>1. applied' \in [Proc -> SUBSET recorded]
        BY <1>3, <1>4 DEF LoadApplied
  <2> QED BY <1>1, <1>2, <1>4, <2>1, LocalStep
          DEF LoadApplied, TypeOK, Location, InTransaction
<1>5. CASE Skip(p)
  <2>1. next[p] \in recorded /\ next[p] \in File
        BY <1>1, <1>5 DEF Skip, TypeOK
  <2>2. next' \in [Proc -> 1..Files + 1] /\ next'[p] = next[p] + 1
        BY <1>1, <1>5, <2>1, MigrateAssumption DEF Skip, TypeOK, File
  <2>3. 1..(next'[p] - 1) \subseteq recorded
        BY <1>1, <1>2, <2>1, <2>2 DEF TypeOK, File
  <2>4. pc' = [pc EXCEPT ![p] = "loop"]
        BY <1>1, <1>5 DEF Skip, TypeOK
  <2> QED BY <1>1, <1>3, <1>5, <2>2, <2>3, <2>4, LocalStep
          DEF Skip, TypeOK, Location, InTransaction
<1>6. CASE Begin(p)
      BY <1>1, <1>2, <1>3, <1>6, LocalStep DEF Begin, TypeOK, Location, InTransaction
<1>7. CASE ExecSQL(p)
  <2>1. next[p] \in File
        BY <1>7 DEF ExecSQL, IInv, WorksOnFile, InTransaction
  <2> QED BY <1>1, <1>2, <1>3, <1>7, <2>1, LocalStep
          DEF ExecSQL, TypeOK, Location, InTransaction
<1>8. CASE InsertRecord(p)
      BY <1>8, InsertRecordKeeps
<1>9. CASE DuplicateKey(p)
      BY <1>1, <1>2, <1>3, <1>9, LocalStep
      DEF DuplicateKey, TypeOK, Location, InTransaction
<1>10. CASE Commit(p)
      BY <1>10, CommitKeeps
<1>11. CASE NextFile(p)
  <2>1. next[p] \in recorded /\ next[p] \in File
        BY <1>1, <1>11 DEF NextFile, IInv, CommittedIsRecorded, TypeOK
  <2>2. next' \in [Proc -> 1..Files + 1] /\ next'[p] = next[p] + 1
        BY <1>1, <1>11, <2>1, MigrateAssumption DEF NextFile, TypeOK, File
  <2>3. 1..(next'[p] - 1) \subseteq recorded
        BY <1>1, <1>2, <2>1, <2>2 DEF TypeOK, File
  <2> QED BY <1>1, <1>3, <1>11, <2>2, <2>3, LocalStep
          DEF NextFile, TypeOK, Location, InTransaction
<1>12. CASE Finish(p)
  <2>1. next[p] = Files + 1
        BY <1>1, <1>12, MigrateAssumption DEF Finish, TypeOK
  <2>2. File \subseteq recorded
        BY <1>2, <2>1, MigrateAssumption DEF File
  <2>3. recorded = File
        BY <1>1, <2>2 DEF TypeOK
  <2> QED BY <1>1, <1>2, <1>3, <1>12, <2>3, LocalStep
          DEF Finish, TypeOK, Location, InTransaction
<1>13. CASE Start(p)
  <2>1. applied' \in [Proc -> SUBSET recorded]
        BY <1>3, <1>13 DEF Start
  <2>2. next' \in [Proc -> 1..Files + 1] /\ next'[p] = 1
        BY <1>1, <1>13, MigrateAssumption DEF Start, TypeOK
  <2>3. 1..(next'[p] - 1) \subseteq recorded
        BY <2>2
  <2>4. \A q \in Proc \ {p} : next'[q] = next[q]
        BY <1>1, <1>13 DEF Start, TypeOK
  <2> QED BY <1>13, <2>1, <2>2, <2>3, <2>4, LocalStep
          DEF Start, Location, InTransaction
<1>14. CASE Fail(p)
      BY <1>1, <1>2, <1>3, <1>14, LocalStep
      DEF Fail, TypeOK, Location, InTransaction
<1> QED BY <1>4, <1>5, <1>6, <1>7, <1>8, <1>9, <1>10, <1>11, <1>12, <1>13, <1>14
        DEF Step

(* Every step keeps the invariant.                                         *)
LEMMA NextKeeps == IInv /\ [Next]_vars => IInv'
<1> SUFFICES ASSUME IInv, [Next]_vars PROVE IInv'
    OBVIOUS
<1>1. CASE Next
      BY <1>1, StepKeeps DEF Next
<1>2. CASE UNCHANGED vars
      BY <1>2 DEF vars, IInv, TypeOK, AppliedIsRecorded, EarlierIsRecorded,
                  WorksOnFile, HoldsKey, CommittedIsRecorded, AppliedOnce,
                  InOrder, ExitZeroMeansMigrated
<1> QED BY <1>1, <1>2

(* The invariant holds of every run of the program.                        *)
LEMMA Invariance == Spec => []IInv
<1> QED BY InitIInv, NextKeeps, PTL DEF Spec

(* Every variable keeps its type.                                          *)
THEOREM TypeCorrect == Spec => []TypeOK
<1>1. IInv => TypeOK
      BY DEF IInv
<1> QED BY <1>1, Invariance, PTL

(* Each file takes effect exactly once if it is recorded, and not at all   *)
(* otherwise.                                                              *)
THEOREM EachFileOnce == Spec => []AppliedOnce
<1>1. IInv => AppliedOnce
      BY DEF IInv
<1> QED BY <1>1, Invariance, PTL

(* The recorded files are the first ones of the list.                      *)
THEOREM FilesInOrder == Spec => []InOrder
<1>1. IInv => InOrder
      BY DEF IInv
<1> QED BY <1>1, Invariance, PTL

(* A run that ends with exit code 0 leaves all files applied.              *)
THEOREM SuccessMeansMigrated == Spec => []ExitZeroMeansMigrated
<1>1. IInv => ExitZeroMeansMigrated
      BY DEF IInv
<1> QED BY <1>1, Invariance, PTL
===============================================================================
