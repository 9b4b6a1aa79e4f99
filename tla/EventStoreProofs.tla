--------------------------- MODULE EventStoreProofs ---------------------------
(***************************************************************************)
(* EventStore, for every set of events, streams and tenants: the type      *)
(* invariant, gap-free and unique versions, durability of what Append      *)
(* acknowledged, and that rows become visible in version order.            *)
(***************************************************************************)
EXTENDS EventStore, SequenceTheorems, TLAPS

-------------------------------------------------------------------------------
(* The inductive invariant.  GapFree alone is not inductive: it has to be  *)
(* known that a version computed from a stale snapshot is at most one past *)
(* the last version (the maximum never decreases), so that a key that is   *)
(* still free can only be the next one; and that the unique index keeps    *)
(* the keys of uncommitted rows free and apart.                            *)
(***************************************************************************)
Contiguous == \A s \in Stream : \E n \in Nat : VersionsOf(s) = 1..n

InFlightVersions ==
    \A e \in Event : stmt[e] \in {"computed", "inserted"} =>
        /\ version[e] >= 1
        /\ version[e] = 1 \/ version[e] - 1 \in VersionsOf(event[e].stream_id)

InsertedKeysAreFree ==
    \A e \in Event : stmt[e] = "inserted" => ~KeyTaken(e) /\ ~KeyLocked(e)

RowsAreCommitted == \A r \in events : stmt[r.id] = "committed" /\ r = RowOf(r.id)

CommittedIsStored == \A e \in Event : stmt[e] = "committed" => RowOf(e) \in events

VersionKeys ==
    \A r1, r2 \in events :
        r1.stream_id = r2.stream_id /\ r1.version = r2.version => r1 = r2

OkIsCommitted ==
    \A e \in Event : ret[e] = "ok" =>
        stmt[e] = "committed" /\ event[e].version = version[e]

IInv == /\ TypeOK
        /\ Contiguous
        /\ InFlightVersions
        /\ InsertedKeysAreFree
        /\ RowsAreCommitted
        /\ CommittedIsStored
        /\ VersionKeys
        /\ OkIsCommitted

-------------------------------------------------------------------------------
(* The subquery's value, once the versions are known to be an interval.    *)
LEMMA MaxOfInterval == \A n \in Nat : Coalesce0(1..n) = n
<1> TAKE n \in Nat
<1>1. CASE n = 0
  BY <1>1 DEF Coalesce0
<1>2. CASE n # 0
  <2>1. n \in 1..n /\ \A v \in 1..n : v <= n
    BY <1>2
  <2>2. \A m \in 1..n : (\A v \in 1..n : v <= m) => m = n
    BY <2>1
  <2>3. QED
    BY <2>1, <2>2 DEF Coalesce0, Largest
<1>3. QED
  BY <1>1, <1>2

LEMMA MaxIsNat ==
    ASSUME Contiguous, NEW s \in Stream
    PROVE  /\ MaxVersion(s) \in Nat
           /\ VersionsOf(s) = 1..MaxVersion(s)
<1>1. PICK n \in Nat : VersionsOf(s) = 1..n
  BY DEF Contiguous
<1>2. MaxVersion(s) = n
  BY <1>1, MaxOfInterval DEF MaxVersion
<1>3. QED
  BY <1>1, <1>2

(* The row a statement commits follows the last row of its stream: the     *)
(* key is free, so the version is not in 1..Max, and it is at most Max + 1.*)
LEMMA NextKey ==
    ASSUME IInv, NEW e \in Event, stmt[e] = "inserted"
    PROVE  version[e] = MaxVersion(event[e].stream_id) + 1
<1> DEFINE s == event[e].stream_id
<1>1. s \in Stream /\ version[e] \in Nat
  BY DEF IInv, TypeOK, DomainEvent
<1>2. MaxVersion(s) \in Nat /\ VersionsOf(s) = 1..MaxVersion(s)
  BY <1>1, MaxIsNat DEF IInv
<1>3. version[e] \notin 1..MaxVersion(s)
  BY <1>2 DEF IInv, InsertedKeysAreFree, KeyTaken
<1>4. version[e] >= 1 /\ (version[e] = 1 \/ version[e] - 1 \in 1..MaxVersion(s))
  BY <1>2 DEF IInv, InFlightVersions
<1>5. QED
  BY <1>1, <1>2, <1>3, <1>4

LEMMA InitIInv == Init => IInv
<1> SUFFICES ASSUME Init PROVE IInv
  OBVIOUS
<1> USE DEF Init
<1>1. TypeOK
  BY DEF TypeOK, DomainEvent
<1>2. \A s \in Stream : VersionsOf(s) = 1..0
  BY DEF VersionsOf
<1>3. Contiguous
  BY <1>2 DEF Contiguous
<1>4. /\ InFlightVersions /\ InsertedKeysAreFree /\ RowsAreCommitted
      /\ CommittedIsStored /\ VersionKeys /\ OkIsCommitted
  BY DEF InFlightVersions, InsertedKeysAreFree, RowsAreCommitted,
         CommittedIsStored, VersionKeys, OkIsCommitted
<1>5. QED
  BY <1>1, <1>3, <1>4 DEF IInv
-------------------------------------------------------------------------------
(* Every step but a commit leaves the table alone.  Such a step keeps the  *)
(* invariant when it keeps the tenant, stream and computed version of      *)
(* every statement that is in flight or done.                              *)
LEMMA SameTable ==
    ASSUME events' = events
    PROVE  /\ \A s : VersionsOf(s)' = VersionsOf(s) /\ MaxVersion(s)' = MaxVersion(s)
           /\ Contiguous => Contiguous'
           /\ VersionKeys => VersionKeys'
<1>1. \A s : VersionsOf(s)' = VersionsOf(s)
  BY DEF VersionsOf
<1>2. \A s : MaxVersion(s)' = MaxVersion(s)
  BY <1>1 DEF MaxVersion
<1>3. Contiguous => Contiguous'
  BY <1>1 DEF Contiguous
<1>4. VersionKeys => VersionKeys'
  BY DEF VersionKeys
<1>5. QED
  BY <1>1, <1>2, <1>3, <1>4

(* The statement's state changes, its version and its event do not.        *)
LEMMA StmtStep ==
    ASSUME IInv, NEW e \in Event, NEW to,
           to \in {"sent", "inserted", "aborted"},
           to = "inserted" => stmt[e] = "computed" /\ ~KeyTaken(e) /\ ~KeyLocked(e),
           stmt[e] # "committed",
           stmt' = [stmt EXCEPT ![e] = to],
           UNCHANGED <<events, event, version, ret>>
    PROVE  IInv'
<1> USE DEF IInv
<1>1. TypeOK'
  BY DEF TypeOK
<1>2. /\ Contiguous' /\ VersionKeys'
      /\ \A s : VersionsOf(s)' = VersionsOf(s)
  BY SameTable
<1>3. \A f \in Event : stmt'[f] = IF f = e THEN to ELSE stmt[f]
  BY DEF TypeOK
<1>4. InFlightVersions'
  BY <1>2, <1>3 DEF InFlightVersions
<1>5. InsertedKeysAreFree'
  <2>1. \A f \in Event : KeyTaken(f)' = KeyTaken(f)
    BY <1>2 DEF KeyTaken
  <2>2. \A f, g \in Event : SameKey(f, g)' = SameKey(f, g) /\ SameKey(f, g) = SameKey(g, f)
    BY DEF SameKey
  <2>3. ASSUME NEW f \in Event, stmt'[f] = "inserted"
        PROVE  ~KeyTaken(f)' /\ ~KeyLocked(f)'
    <3>1. ~KeyTaken(f) /\ ~KeyLocked(f)
      BY <1>3, <2>3 DEF InsertedKeysAreFree
    <3>2. \A g \in Event \ {f} : stmt'[g] = "inserted" => ~SameKey(f, g)
      BY <1>3, <2>2, <2>3, <3>1 DEF KeyLocked
    <3>3. QED
      BY <2>1, <2>2, <3>1, <3>2 DEF KeyLocked
  <2>4. QED
    BY <2>3 DEF InsertedKeysAreFree
<1>6. RowsAreCommitted'
  BY <1>3 DEF RowsAreCommitted, RowOf, TypeOK, Row
<1>7. CommittedIsStored'
  BY <1>3 DEF CommittedIsStored, RowOf
<1>8. OkIsCommitted'
  BY <1>3 DEF OkIsCommitted
<1>9. QED
  BY <1>1, <1>2, <1>4, <1>5, <1>6, <1>7, <1>8

LEMMA ComputeVersionStep ==
    ASSUME IInv, NEW e \in Event, ComputeVersion(e)
    PROVE  IInv'
<1> DEFINE s == event[e].stream_id
<1> USE DEF IInv, ComputeVersion
<1>1. s \in Stream /\ MaxVersion(s) \in Nat /\ VersionsOf(s) = 1..MaxVersion(s)
  <2>1. s \in Stream
    BY DEF TypeOK, DomainEvent
  <2>2. QED
    BY <2>1, MaxIsNat
<1>2. TypeOK'
  BY <1>1 DEF TypeOK
<1>3. /\ Contiguous' /\ VersionKeys'
      /\ \A t : VersionsOf(t)' = VersionsOf(t)
  BY SameTable
<1>4. \A f \in Event : /\ stmt'[f] = IF f = e THEN "computed" ELSE stmt[f]
                       /\ version'[f] = IF f = e THEN MaxVersion(s) + 1 ELSE version[f]
  BY DEF TypeOK
<1>5. InFlightVersions'
  <2>1. ASSUME NEW f \in Event, stmt'[f] \in {"computed", "inserted"}
        PROVE  /\ version'[f] >= 1
               /\ version'[f] = 1 \/ version'[f] - 1 \in VersionsOf(event[f].stream_id)
    <3>1. CASE f = e
      BY <1>1, <1>4, <3>1
    <3>2. CASE f # e
      BY <1>4, <2>1, <3>2 DEF InFlightVersions
    <3>3. QED
      BY <3>1, <3>2
  <2>2. QED
    BY <1>3, <2>1 DEF InFlightVersions
<1>6. InsertedKeysAreFree'
  <2>1. \A f \in Event : stmt'[f] = "inserted" => f # e /\ stmt[f] = "inserted"
    BY <1>4
  <2>2. \A f \in Event \ {e} : KeyTaken(f)' = KeyTaken(f)
    BY <1>3, <1>4 DEF KeyTaken
  <2>3. \A f, g \in Event \ {e} : SameKey(f, g)' = SameKey(f, g)
    BY <1>4 DEF SameKey
  <2>4. \A f \in Event \ {e} : KeyLocked(f)' => KeyLocked(f)
    BY <2>1, <2>3 DEF KeyLocked
  <2>5. QED
    BY <2>1, <2>2, <2>4 DEF InsertedKeysAreFree
<1>7. \A f \in Event : stmt'[f] = "committed" => f # e /\ RowOf(f)' = RowOf(f)
  BY <1>4 DEF RowOf
<1>8. RowsAreCommitted'
  BY <1>4, <1>7 DEF RowsAreCommitted, TypeOK, Row
<1>9. CommittedIsStored'
  BY <1>4, <1>7 DEF CommittedIsStored
<1>10. OkIsCommitted'
  BY <1>4 DEF OkIsCommitted
<1>11. QED
  BY <1>2, <1>3, <1>5, <1>6, <1>8, <1>9, <1>10

LEMMA CommitRowStep ==
    ASSUME IInv, NEW e \in Event, CommitRow(e)
    PROVE  IInv'
<1> DEFINE s == event[e].stream_id
<1> DEFINE n == MaxVersion(s)
<1> USE DEF IInv, CommitRow
<1>1. /\ s \in Stream /\ n \in Nat /\ VersionsOf(s) = 1..n /\ version[e] = n + 1
      /\ event[e].tenant_id \in Tenant /\ event[e].stream_id \in Stream
  <2>1. s \in Stream /\ event[e].tenant_id \in Tenant
    BY DEF TypeOK, DomainEvent
  <2>2. QED
    BY <2>1, MaxIsNat, NextKey
<1>2. RowOf(e) \in Row
  BY <1>1 DEF Row, RowOf
<1>3. TypeOK'
  BY <1>2 DEF TypeOK
<1>4. \A f \in Event : stmt'[f] = IF f = e THEN "committed" ELSE stmt[f]
  BY DEF TypeOK
<1>5. /\ VersionsOf(s)' = VersionsOf(s) \cup {n + 1}
      /\ \A t : t # s => VersionsOf(t)' = VersionsOf(t)
  <2>1. RowOf(e).stream_id = s /\ RowOf(e).version = n + 1
    BY <1>1 DEF RowOf
  <2>2. \A t, v : v \in VersionsOf(t) <=> \E r \in events : r.stream_id = t /\ r.version = v
    BY DEF VersionsOf
  <2>3. \A t, v : v \in VersionsOf(t)' <=> \E r \in events' : r.stream_id = t /\ r.version = v
    BY DEF VersionsOf
  <2>4. \A t, v : v \in VersionsOf(t)' <=> v \in VersionsOf(t) \/ (t = s /\ v = n + 1)
    BY <2>1, <2>2, <2>3
  <2>5. VersionsOf(s)' = VersionsOf(s) \cup {n + 1}
    <3>1. \A v : v \in VersionsOf(s)' <=> v \in VersionsOf(s) \cup {n + 1}
      BY <2>4
    <3>2. QED
      BY <3>1
  <2>6. ASSUME NEW t, t # s PROVE VersionsOf(t)' = VersionsOf(t)
    <3>1. \A v : v \in VersionsOf(t)' <=> v \in VersionsOf(t)
      BY <2>4, <2>6
    <3>2. QED
      BY <3>1 DEF VersionsOf
  <2>7. QED
    BY <2>5, <2>6
<1>6. Contiguous'
  <2>1. VersionsOf(s)' = 1..(n + 1)
    BY <1>1, <1>5
  <2>2. ASSUME NEW t \in Stream PROVE \E m \in Nat : VersionsOf(t)' = 1..m
    <3>1. CASE t = s
      BY <1>1, <2>1, <3>1
    <3>2. CASE t # s
      BY <1>5, <3>2 DEF Contiguous
    <3>3. QED
      BY <3>1, <3>2
  <2>3. QED
    BY <2>2 DEF Contiguous
<1>7. InFlightVersions'
  BY <1>4, <1>5 DEF InFlightVersions
<1>8. InsertedKeysAreFree'
  <2>1. ASSUME NEW f \in Event, stmt'[f] = "inserted"
        PROVE  ~KeyTaken(f)' /\ ~KeyLocked(f)'
    <3>1. f # e /\ stmt[f] = "inserted" /\ ~KeyTaken(f) /\ ~KeyLocked(f)
      BY <1>4, <2>1 DEF InsertedKeysAreFree
    <3>2. ~SameKey(f, e)
      BY <3>1 DEF KeyLocked
    <3>3. ~KeyTaken(f)'
      BY <1>1, <1>5, <3>1, <3>2 DEF KeyTaken, SameKey
    <3>4. ~KeyLocked(f)'
      BY <1>4, <3>1 DEF KeyLocked, SameKey
    <3>5. QED
      BY <3>3, <3>4
  <2>2. QED
    BY <2>1 DEF InsertedKeysAreFree
<1>9. \A f \in Event : RowOf(f)' = RowOf(f)
  BY DEF RowOf
<1>10. RowsAreCommitted'
  <2>1. \A r \in events : r.id \in Event
    BY DEF TypeOK, Row
  <2>2. RowOf(e).id = e
    BY DEF RowOf
  <2>3. QED
    BY <1>4, <1>9, <2>1, <2>2 DEF RowsAreCommitted
<1>11. CommittedIsStored'
  BY <1>4, <1>9 DEF CommittedIsStored
<1>12. VersionKeys'
  <2>1. \A r \in events : ~(r.stream_id = s /\ r.version = n + 1)
    <3>1. \A r \in events : r.stream_id = s => r.version \in VersionsOf(s)
      BY DEF VersionsOf
    <3>2. QED
      BY <1>1, <3>1
  <2>2. RowOf(e).stream_id = s /\ RowOf(e).version = n + 1
    BY <1>1 DEF RowOf
  <2>3. QED
    BY <2>1, <2>2 DEF VersionKeys
<1>13. OkIsCommitted'
  BY <1>4 DEF OkIsCommitted
<1>14. QED
  BY <1>3, <1>6, <1>7, <1>8, <1>10, <1>11, <1>12, <1>13

(* Append returns: only ret and the version field of the caller's event    *)
(* change.                                                                 *)
LEMMA ReturnStep ==
    ASSUME IInv, NEW e \in Event, AppendReturns(e) \/ AppendFails(e)
    PROVE  IInv'
<1> USE DEF IInv, AppendReturns, AppendFails
<1>1. /\ UNCHANGED <<events, stmt, version>>
      /\ event' \in [Event -> DomainEvent]
      /\ ret' \in [Event -> {"none", "ok", "error"}]
      /\ \A f \in Event : /\ event'[f].stream_id = event[f].stream_id
                          /\ event'[f].tenant_id = event[f].tenant_id
                          /\ f # e => event'[f] = event[f] /\ ret'[f] = ret[f]
      /\ ret'[e] = "ok" => stmt[e] = "committed" /\ event'[e].version = version[e]
  <2>1. event[e] \in DomainEvent /\ version[e] \in Nat
    BY DEF TypeOK
  <2>2. CASE /\ event' = event
             /\ ret' = [ret EXCEPT ![e] = "error"]
    BY <2>2 DEF TypeOK
  <2>3. CASE /\ stmt[e] = "committed"
             /\ ret' = [ret EXCEPT ![e] = "ok"]
             /\ event' = [event EXCEPT ![e] = [@ EXCEPT !.version = version[e]]]
    <3> DEFINE d == [event[e] EXCEPT !.version = version[e]]
    <3>1. /\ d \in DomainEvent /\ d.version = version[e]
          /\ d.stream_id = event[e].stream_id /\ d.tenant_id = event[e].tenant_id
      BY <2>1 DEF DomainEvent
    <3>2. event' = [event EXCEPT ![e] = d]
      BY <2>3
    <3>3. QED
      BY <2>3, <3>1, <3>2 DEF TypeOK
  <2>4. QED
    BY <2>2, <2>3
<1>2. TypeOK'
  BY <1>1 DEF TypeOK
<1>3. /\ Contiguous' /\ VersionKeys'
      /\ \A t : VersionsOf(t)' = VersionsOf(t)
  BY <1>1, SameTable
<1>4. InFlightVersions'
  BY <1>1, <1>3 DEF InFlightVersions
<1>5. InsertedKeysAreFree'
  <2>1. \A f \in Event : KeyTaken(f)' = KeyTaken(f)
    BY <1>1, <1>3 DEF KeyTaken
  <2>2. \A f \in Event : KeyLocked(f)' = KeyLocked(f)
    BY <1>1 DEF KeyLocked, SameKey
  <2>3. QED
    BY <1>1, <2>1, <2>2 DEF InsertedKeysAreFree
<1>6. \A f \in Event : RowOf(f)' = RowOf(f)
  BY <1>1 DEF RowOf
<1>7. RowsAreCommitted' /\ CommittedIsStored'
  BY <1>1, <1>6 DEF RowsAreCommitted, CommittedIsStored, TypeOK, Row
<1>8. OkIsCommitted'
  BY <1>1 DEF OkIsCommitted
<1>9. QED
  BY <1>2, <1>3, <1>4, <1>5, <1>7, <1>8
-------------------------------------------------------------------------------
LEMMA NextIInv == IInv /\ [Next]_vars => IInv'
<1> SUFFICES ASSUME IInv, [Next]_vars PROVE IInv'
  OBVIOUS
<1>1. ASSUME NEW e \in Event, BeginAppend(e) PROVE IInv'
  BY <1>1, StmtStep DEF BeginAppend
<1>2. ASSUME NEW e \in Event, ComputeVersion(e) PROVE IInv'
  BY <1>2, ComputeVersionStep
<1>3. ASSUME NEW e \in Event, InsertRow(e) PROVE IInv'
  BY <1>3, StmtStep DEF InsertRow
<1>4. ASSUME NEW e \in Event, UniqueViolation(e) PROVE IInv'
  BY <1>4, StmtStep DEF UniqueViolation
<1>5. ASSUME NEW e \in Event, CommitRow(e) PROVE IInv'
  BY <1>5, CommitRowStep
<1>6. ASSUME NEW e \in Event, AbortStmt(e) PROVE IInv'
  BY <1>6, StmtStep DEF AbortStmt
<1>7. ASSUME NEW e \in Event, AppendReturns(e) \/ AppendFails(e) PROVE IInv'
  BY <1>7, ReturnStep
<1>8. CASE UNCHANGED vars
  <2> USE <1>8 DEF vars, IInv
  <2>1. TypeOK' /\ Contiguous' /\ VersionKeys'
    BY SameTable DEF TypeOK
  <2>2. InFlightVersions' /\ CommittedIsStored' /\ OkIsCommitted'
    BY DEF InFlightVersions, CommittedIsStored, OkIsCommitted, RowOf, VersionsOf
  <2>3. InsertedKeysAreFree' /\ RowsAreCommitted'
    BY DEF InsertedKeysAreFree, RowsAreCommitted, KeyTaken, KeyLocked, SameKey,
           RowOf, VersionsOf
  <2>4. QED
    BY <2>1, <2>2, <2>3
<1>9. QED
  BY <1>1, <1>2, <1>3, <1>4, <1>5, <1>6, <1>7, <1>8 DEF Next, ServerStep

LEMMA InductiveInvariant == Spec => []IInv
<1>1. Init => IInv
  BY InitIInv
<1>2. IInv /\ [Next]_vars => IInv'
  BY NextIInv
<1>3. QED
  BY <1>1, <1>2, PTL DEF Spec

LEMMA IInvImpliesGapFree == IInv => GapFree
<1> SUFFICES ASSUME IInv PROVE GapFree
  OBVIOUS
<1>1. \A s \in Stream : VersionsOf(s) = 1..MaxVersion(s)
  BY MaxIsNat DEF IInv
<1>2. QED
  BY <1>1 DEF GapFree, IInv, VersionKeys

LEMMA IInvImpliesAckedIsDurable == IInv => AckedIsDurable
<1> SUFFICES ASSUME IInv, NEW e \in Event
             PROVE  /\ ret[e] = "ok" => {r \in events : r.id = e} = {Reported(e)}
                    /\ stmt[e] = "aborted" => {r \in events : r.id = e} = {}
  BY DEF AckedIsDurable
<1>1. \A r \in events : r.id = e => stmt[e] = "committed" /\ r = RowOf(e)
  BY DEF IInv, RowsAreCommitted
<1>2. ASSUME ret[e] = "ok" PROVE {r \in events : r.id = e} = {Reported(e)}
  <2>1. stmt[e] = "committed" /\ Reported(e) = RowOf(e) /\ RowOf(e).id = e
    BY <1>2 DEF IInv, OkIsCommitted, Reported, RowOf
  <2>2. RowOf(e) \in events
    BY <2>1 DEF IInv, CommittedIsStored
  <2>3. QED
    BY <1>1, <2>1, <2>2
<1>3. QED
  BY <1>1, <1>2

(* The variables keep their types, whatever the statements do.             *)
THEOREM TypeCorrect == Spec => []TypeOK
BY InductiveInvariant, PTL DEF IInv

(* In every stream, for any number of concurrent appends and aborts, the   *)
(* committed versions are 1..n and no version is used twice.               *)
THEOREM VersionsAreGapFree == Spec => []GapFree
BY InductiveInvariant, IInvImpliesGapFree, PTL

(* An acknowledged event is durable with the version that was reported; a  *)
(* rolled back one has left nothing behind.                                *)
THEOREM AcknowledgedIsDurable == Spec => []AckedIsDurable
BY InductiveInvariant, IInvImpliesAckedIsDurable, PTL

(* Rows are only added, each at the end of its stream.                     *)
THEOREM RowsAppendAtTail == Spec => AppendsAtTail
<1> DEFINE A == /\ events \subseteq events'
                /\ \A r \in events' \ events : r.version = MaxVersion(r.stream_id) + 1
<1>1. IInv /\ [Next]_vars => [A]_vars
  <2> SUFFICES ASSUME IInv, Next PROVE A
    OBVIOUS
  <2>1. ASSUME NEW e \in Event, CommitRow(e) PROVE A
    <3>1. events' = events \cup {RowOf(e)} /\ stmt[e] = "inserted"
      BY <2>1 DEF CommitRow
    <3>2. RowOf(e).version = MaxVersion(RowOf(e).stream_id) + 1
      BY <3>1, NextKey DEF RowOf
    <3>3. QED
      BY <3>1, <3>2
  <2>2. CASE events' = events
    BY <2>2
  <2>3. QED
    BY <2>1, <2>2 DEF Next, ServerStep, BeginAppend, ComputeVersion, InsertRow,
                      UniqueViolation, AbortStmt, AppendReturns, AppendFails
<1>2. QED
  BY <1>1, InductiveInvariant, PTL DEF Spec, AppendsAtTail
-------------------------------------------------------------------------------
(* The refinement.  A stream's log is the function the table defines; only *)
(* CommitRow extends it, by the entry of the committed row, and only       *)
(* AppendReturns acknowledges.  Everything else is a stuttering step.      *)
(***************************************************************************)
LEMMA RowAtIsTheRow ==
    ASSUME NEW rows, NEW r \in rows,
           \A r1, r2 \in rows :
               r1.stream_id = r2.stream_id /\ r1.version = r2.version => r1 = r2
    PROVE  RowAt(rows, r.stream_id, r.version) = r
BY DEF RowAt

LEMMA EntryOfRow ==
    ASSUME VersionKeys, NEW r \in events
    PROVE  EntryAt(r.stream_id, r.version) = [id |-> r.id, tenant_id |-> r.tenant_id]
BY RowAtIsTheRow DEF VersionKeys, EntryAt

LEMMA LogOfIsASeq ==
    ASSUME IInv, NEW s \in Stream
    PROVE  /\ LogOf(s) \in Seq(Log!Entry)
           /\ Len(LogOf(s)) = MaxVersion(s)
           /\ DOMAIN LogOf(s) = 1..MaxVersion(s)
           /\ \A v \in 1..MaxVersion(s) : LogOf(s)[v] = EntryAt(s, v)
<1>1. MaxVersion(s) \in Nat /\ VersionsOf(s) = 1..MaxVersion(s)
  BY MaxIsNat DEF IInv
<1>2. ASSUME NEW v \in 1..MaxVersion(s)
      PROVE  EntryAt(s, v) \in Log!Entry
  <2>1. PICK r \in events : r.stream_id = s /\ r.version = v
    BY <1>1 DEF VersionsOf
  <2>2. r.id \in Event /\ r.tenant_id \in Tenant
    BY DEF IInv, TypeOK, Row
  <2>3. EntryAt(s, v) = [id |-> r.id, tenant_id |-> r.tenant_id]
    BY <2>1, EntryOfRow DEF IInv
  <2>4. QED
    BY <2>2, <2>3 DEF Log!Entry
<1>3. LogOf(s) \in [1..MaxVersion(s) -> Log!Entry]
  BY <1>2 DEF LogOf
<1>4. LogOf(s) \in Seq(Log!Entry)
  BY <1>1, <1>3, SeqDef
<1>5. DOMAIN LogOf(s) = 1..MaxVersion(s)
  BY <1>3
<1>6. Len(LogOf(s)) = MaxVersion(s)
  BY <1>1, <1>4, <1>5, LenProperties
<1>7. QED
  BY <1>4, <1>5, <1>6 DEF LogOf

(* A stream whose rows stay the same keeps its log.                        *)
LEMMA SameLog ==
    ASSUME events' = events
    PROVE  LogView' = LogView
<1>1. \A s, v : EntryAt(s, v)' = EntryAt(s, v)
  BY DEF EntryAt
<1>2. \A s : MaxVersion(s)' = MaxVersion(s)
  BY SameTable
<1>3. QED
  BY <1>1, <1>2 DEF LogView, LogOf

LEMMA CommitExtendsLog ==
    ASSUME IInv, IInv', NEW e \in Event, CommitRow(e),
           NEW s, s = event[e].stream_id,
           NEW x, x = [id |-> e, tenant_id |-> event[e].tenant_id]
    PROVE  /\ s \in Stream
           /\ x \in Log!Entry
           /\ \A t \in Stream : \A v \in DOMAIN LogOf(t) : LogOf(t)[v].id # e
           /\ LogView' = [LogView EXCEPT ![s] = Append(@, x)]
<1>1. /\ events' = events \cup {RowOf(e)}
      /\ stmt[e] = "inserted"
  BY DEF CommitRow
<1>2. s \in Stream /\ x \in Log!Entry
  BY DEF IInv, TypeOK, DomainEvent, Log!Entry
<1>3. PICK n \in Nat : /\ n = MaxVersion(s)
                       /\ VersionsOf(s) = 1..n
                       /\ version[e] = n + 1
  BY <1>1, <1>2, MaxIsNat, NextKey DEF IInv
<1>4. /\ RowOf(e) \in events'
      /\ RowOf(e).stream_id = s /\ RowOf(e).version = n + 1
      /\ RowOf(e).id = e /\ RowOf(e).tenant_id = event[e].tenant_id
  BY <1>1, <1>3 DEF RowOf
<1>5. /\ MaxVersion(s)' = n + 1
      /\ \A t : t # s => MaxVersion(t)' = MaxVersion(t)
  <2>1. \A t, v : v \in VersionsOf(t) <=> \E r \in events : r.stream_id = t /\ r.version = v
    BY DEF VersionsOf
  <2>2. \A t, v : v \in VersionsOf(t)' <=> \E r \in events' : r.stream_id = t /\ r.version = v
    BY DEF VersionsOf
  <2>3. \A t, v : v \in VersionsOf(t)' <=> v \in VersionsOf(t) \/ (t = s /\ v = n + 1)
    BY <1>1, <1>4, <2>1, <2>2
  <2>4. VersionsOf(s)' = 1..(n + 1)
    <3>1. \A v : v \in VersionsOf(s)' <=> v \in 1..(n + 1)
      BY <1>3, <2>3
    <3>2. QED
      BY <3>1 DEF VersionsOf
  <2>5. ASSUME NEW t, t # s PROVE VersionsOf(t)' = VersionsOf(t)
    <3>1. \A v : v \in VersionsOf(t)' <=> v \in VersionsOf(t)
      BY <2>3, <2>5
    <3>2. QED
      BY <3>1 DEF VersionsOf
  <2>6. QED
    BY <2>4, <2>5, MaxOfInterval DEF MaxVersion
<1>6. ASSUME NEW t \in Stream, NEW v \in 1..MaxVersion(t)
      PROVE  EntryAt(t, v)' = EntryAt(t, v) /\ EntryAt(t, v).id # e
  <2>1. PICK r \in events : r.stream_id = t /\ r.version = v
    <3>1. v \in VersionsOf(t)
      BY MaxIsNat DEF IInv
    <3>2. QED
      BY <3>1 DEF VersionsOf
  <2>2. EntryAt(t, v) = [id |-> r.id, tenant_id |-> r.tenant_id]
    BY <2>1, EntryOfRow DEF IInv
  <2>3. RowAt(events', t, v) = r
    BY <1>1, <2>1, RowAtIsTheRow DEF IInv, VersionKeys
  <2>4. EntryAt(t, v)' = [id |-> r.id, tenant_id |-> r.tenant_id]
    BY <2>3 DEF EntryAt
  <2>5. r.id # e
    BY <1>1 DEF IInv, RowsAreCommitted
  <2>6. QED
    BY <2>2, <2>4, <2>5
<1>7. EntryAt(s, n + 1)' = x
  <2>1. RowAt(events', s, n + 1) = RowOf(e)
    BY <1>4, RowAtIsTheRow DEF IInv, VersionKeys
  <2>2. QED
    BY <1>4, <2>1 DEF EntryAt
<1>8. \A t \in Stream : \A v \in DOMAIN LogOf(t) : LogOf(t)[v].id # e
  BY <1>6, LogOfIsASeq
<1>9. LogOf(s)' = Append(LogOf(s), x)
  <2>1. /\ LogOf(s) \in Seq(Log!Entry) /\ Len(LogOf(s)) = n
        /\ \A v \in 1..n : LogOf(s)[v] = EntryAt(s, v)
    BY <1>2, <1>3, LogOfIsASeq
  <2>2. /\ Append(LogOf(s), x) \in Seq(Log!Entry)
        /\ Len(Append(LogOf(s), x)) = n + 1
        /\ \A v \in 1..n : Append(LogOf(s), x)[v] = EntryAt(s, v)
        /\ Append(LogOf(s), x)[n + 1] = x
    BY <1>2, <2>1, AppendProperties
  <2>3. Append(LogOf(s), x) = [v \in 1..(n + 1) |-> Append(LogOf(s), x)[v]]
    BY <1>3, <2>2, LenProperties
  <2>4. LogOf(s)' = [v \in 1..(n + 1) |-> EntryAt(s, v)']
    BY <1>5 DEF LogOf
  <2>5. ASSUME NEW v \in 1..(n + 1) PROVE EntryAt(s, v)' = Append(LogOf(s), x)[v]
    <3>1. CASE v \in 1..n
      BY <1>2, <1>3, <1>6, <2>2, <3>1
    <3>2. CASE v = n + 1
      BY <1>7, <2>2, <3>2
    <3>3. v \in 1..n \/ v = n + 1
      BY <1>3
    <3>4. QED
      BY <3>1, <3>2, <3>3
  <2>6. QED
    BY <2>3, <2>4, <2>5
<1>10. \A t \in Stream \ {s} : LogOf(t)' = LogOf(t)
  BY <1>5, <1>6 DEF LogOf
<1>11. LogView' = [LogView EXCEPT ![s] = Append(@, x)]
  <2>1. LogView' = [t \in Stream |-> LogOf(t)']
    BY DEF LogView
  <2>2. QED
    BY <1>2, <1>9, <1>10, <2>1 DEF LogView
<1>12. QED
  BY <1>2, <1>8, <1>11

LEMMA ReturnAcknowledges ==
    ASSUME IInv, NEW e \in Event, AppendReturns(e) \/ AppendFails(e)
    PROVE  \/ AckedView' = AckedView
           \/ \E s \in Stream : \E v \in DOMAIN LogOf(s) :
                  AckedView' = AckedView \cup {<<LogOf(s)[v].id, v>>}
<1> USE DEF AppendReturns, AppendFails
<1>1. ret[e] = "none" /\ \A f \in Event \ {e} : ret'[f] = ret[f] /\ event'[f] = event[f]
  BY DEF IInv, TypeOK
<1>2. CASE ret' = [ret EXCEPT ![e] = "error"]
  <2>1. {f \in Event : ret'[f] = "ok"} = {f \in Event : ret[f] = "ok"}
    BY <1>1, <1>2 DEF IInv, TypeOK
  <2>2. \A f \in {g \in Event : ret[g] = "ok"} : event'[f] = event[f]
    BY <1>1
  <2>3. QED
    BY <2>1, <2>2 DEF AckedView
<1>3. CASE /\ stmt[e] = "committed"
           /\ ret' = [ret EXCEPT ![e] = "ok"]
           /\ event' = [event EXCEPT ![e].version = version[e]]
  <2>1. event'[e].version = version[e]
    BY <1>3 DEF IInv, TypeOK, DomainEvent
  <2>2. {f \in Event : ret'[f] = "ok"} = {f \in Event : ret[f] = "ok"} \cup {e}
    BY <1>1, <1>3 DEF IInv, TypeOK
  <2>3. AckedView' = AckedView \cup {<<e, version[e]>>}
    BY <1>1, <2>1, <2>2 DEF AckedView
  <2>4. PICK r \in events : /\ r.id = e /\ r.version = version[e]
                            /\ r.stream_id = event[e].stream_id
    BY <1>3 DEF IInv, CommittedIsStored, RowOf
  <2>5. r.stream_id \in Stream /\ r.version \in VersionsOf(r.stream_id)
    BY DEF IInv, TypeOK, Row, VersionsOf
  <2>6. r.version \in 1..MaxVersion(r.stream_id)
    BY <2>5, MaxIsNat DEF IInv
  <2>7. /\ r.version \in DOMAIN LogOf(r.stream_id)
        /\ LogOf(r.stream_id)[r.version] = EntryAt(r.stream_id, r.version)
    BY <2>5, <2>6, LogOfIsASeq
  <2>8. LogOf(r.stream_id)[r.version].id = e
    <3>1. EntryAt(r.stream_id, r.version) = [id |-> r.id, tenant_id |-> r.tenant_id]
      BY EntryOfRow DEF IInv
    <3>2. QED
      BY <2>4, <2>7, <3>1
  <2>9. QED
    BY <2>3, <2>4, <2>5, <2>7, <2>8
<1>4. QED
  BY <1>2, <1>3

LEMMA StepRefines ==
    ASSUME IInv, IInv', [Next]_vars
    PROVE  [Log!Next]_(Log!logVars)
<1> USE DEF Log!logVars
<1>1. \A s \in Stream : LogView[s] = LogOf(s)
  BY DEF LogView
<1>2. ASSUME NEW e \in Event, CommitRow(e)
      PROVE  Log!Next
  <2>1. PICK s : s = event[e].stream_id
    OBVIOUS
  <2>2. PICK x : x = [id |-> e, tenant_id |-> event[e].tenant_id]
    OBVIOUS
  <2>3. /\ s \in Stream /\ x \in Log!Entry
        /\ \A t \in Stream : \A v \in DOMAIN LogOf(t) : LogOf(t)[v].id # e
        /\ LogView' = [LogView EXCEPT ![s] = Append(@, x)]
    BY <1>2, <2>1, <2>2, CommitExtendsLog
  <2>4. x.id = e
    BY <2>2
  <2>5. ~Log!InLog(x.id)
    BY <1>1, <2>3, <2>4 DEF Log!InLog
  <2>6. AckedView' = AckedView
    BY <1>2 DEF AckedView, CommitRow
  <2>7. Log!AppendEntry(s, x)
    BY <2>3, <2>5, <2>6 DEF Log!AppendEntry
  <2>8. QED
    BY <2>3, <2>7 DEF Log!Next
<1>3. ASSUME NEW e \in Event, AppendReturns(e) \/ AppendFails(e)
      PROVE  [Log!Next]_(Log!logVars)
  <2>1. LogView' = LogView
    BY <1>3, SameLog DEF AppendReturns, AppendFails
  <2>2. CASE AckedView' = AckedView
    BY <2>1, <2>2
  <2>3. ASSUME NEW s \in Stream, NEW v \in DOMAIN LogOf(s),
               AckedView' = AckedView \cup {<<LogOf(s)[v].id, v>>}
        PROVE  Log!Next
    <3>1. Log!Acknowledge(s, v)
      BY <1>1, <2>1, <2>3 DEF Log!Acknowledge
    <3>2. QED
      BY <1>1, <3>1 DEF Log!Next
  <2>4. QED
    BY <1>3, <2>2, <2>3, ReturnAcknowledges
<1>4. CASE UNCHANGED <<events, event, ret>>
  <2>1. LogView' = LogView
    BY <1>4, SameLog
  <2>2. AckedView' = AckedView
    BY <1>4 DEF AckedView
  <2>3. QED
    BY <2>1, <2>2
<1>5. QED
  BY <1>2, <1>3, <1>4
     DEF Next, ServerStep, BeginAppend, ComputeVersion, InsertRow, UniqueViolation,
         AbortStmt, vars

(* The table with its INSERT statements implements the append-only log     *)
(* that the port event.Store describes.                                    *)
THEOREM EventStoreImplementsEventLog == Spec => ImplementsEventLog
<1>1. Init => Log!Init
  <2> SUFFICES ASSUME Init PROVE Log!Init
    OBVIOUS
  <2>1. \A s \in Stream : VersionsOf(s) = 1..0
    BY DEF Init, VersionsOf
  <2>2. \A s \in Stream : MaxVersion(s) = 0
    BY <2>1, MaxOfInterval DEF MaxVersion
  <2>3. \A s \in Stream : LogOf(s) = <<>>
    BY <2>2 DEF LogOf
  <2>4. {f \in Event : ret[f] = "ok"} = {}
    BY DEF Init
  <2>5. QED
    BY <2>3, <2>4 DEF Log!Init, LogView, AckedView
<1>2. IInv /\ IInv' /\ [Next]_vars => [Log!Next]_(Log!logVars)
  BY StepRefines
<1>3. QED
  BY <1>1, <1>2, InductiveInvariant, PTL DEF Spec, ImplementsEventLog, Log!Spec
===============================================================================
