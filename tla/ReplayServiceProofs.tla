-------------------------- MODULE ReplayServiceProofs -------------------------
(***************************************************************************)
(* ReplayService, for every set of events, streams, tenants, clients and   *)
(* from_version values, and streams of every length: a successful replay   *)
(* is exactly the caller's part of the log, a client that resumes misses   *)
(* nothing, and the stream of one tenant is never refused for a gap.       *)
(***************************************************************************)
EXTENDS ReplayService, FunctionTheorems, FiniteSetTheorems, TLAPS

-------------------------------------------------------------------------------
(* ORDER BY version ASC lists every selected version, once and ascending:  *)
(* the number of smaller ones maps V one-to-one into 0..Cardinality(V) - 1 *)
(* and so, as many as there are, onto it.                                  *)
(***************************************************************************)
Below(v, V) == {w \in V : w < v}

LEMMA BelowGrows ==
    ASSUME NEW V, IsFiniteSet(V), V \subseteq Nat
    PROVE  /\ Cardinality(V) \in Nat
           /\ \A v \in V : Cardinality(Below(v, V)) \in 0..(Cardinality(V) - 1)
           /\ \A v, w \in V : v < w => Cardinality(Below(v, V)) < Cardinality(Below(w, V))
<1>1. Cardinality(V) \in Nat
  BY FS_CardinalityType
<1>2. ASSUME NEW S \in SUBSET V, NEW T \in SUBSET S, T # S
      PROVE  /\ Cardinality(S) \in Nat /\ Cardinality(T) \in Nat
             /\ Cardinality(T) < Cardinality(S)
  <2>1. IsFiniteSet(S)
    BY FS_Subset
  <2>2. IsFiniteSet(T) /\ Cardinality(T) <= Cardinality(S)
        /\ (Cardinality(S) = Cardinality(T) => S = T)
    BY <2>1, FS_Subset
  <2>3. Cardinality(S) \in Nat /\ Cardinality(T) \in Nat
    BY <2>1, <2>2, FS_CardinalityType
  <2>4. QED
    BY <1>2, <2>2, <2>3
<1>3. ASSUME NEW v \in V PROVE Cardinality(Below(v, V)) \in 0..(Cardinality(V) - 1)
  <2>1. v \in Nat /\ Below(v, V) \in SUBSET V /\ v \notin Below(v, V)
    BY DEF Below
  <2>2. QED
    BY <1>1, <1>2, <2>1
<1>4. ASSUME NEW v \in V, NEW w \in V, v < w
      PROVE  Cardinality(Below(v, V)) < Cardinality(Below(w, V))
  <2>1. v \in Nat /\ w \in Nat /\ \A x \in V : x \in Nat
    OBVIOUS
  <2>2. \A x \in V : x < v => x < w
    BY <1>4, <2>1
  <2>3. /\ Below(v, V) \in SUBSET Below(w, V) /\ Below(w, V) \in SUBSET V
        /\ v \in Below(w, V)
    BY <1>4, <2>2 DEF Below
  <2>4. v \notin Below(v, V)
    BY <2>1 DEF Below
  <2>5. QED
    BY <1>2, <2>3, <2>4
<1>5. QED
  BY <1>1, <1>3, <1>4

LEMMA EveryRankIsTaken ==
    ASSUME NEW V, IsFiniteSet(V), V \subseteq Nat,
           NEW i \in 1..Cardinality(V)
    PROVE  \E v \in V : Cardinality(Below(v, V)) = i - 1
<1> DEFINE n == Cardinality(V)
           R == 0..(n - 1)
           f == [v \in V |-> Cardinality(Below(v, V))]
<1>1. /\ n \in Nat
      /\ \A v \in V : Cardinality(Below(v, V)) \in R
      /\ \A v, w \in V : v < w => Cardinality(Below(v, V)) < Cardinality(Below(w, V))
  BY BelowGrows
<1>2. f \in [V -> R]
  BY <1>1
<1>3. ASSUME NEW v \in V, NEW w \in V, f[v] = f[w] PROVE v = w
  <2>1. /\ Cardinality(Below(v, V)) \in Nat
        /\ Cardinality(Below(v, V)) = Cardinality(Below(w, V))
    BY <1>1, <1>3
  <2>2. ~(v < w) /\ ~(w < v)
    BY <1>1, <2>1
  <2>3. v \in Nat /\ w \in Nat
    OBVIOUS
  <2>4. QED
    BY <2>2, <2>3
<1>4. f \in Injection(V, R)
  BY <1>2, <1>3 DEF Injection, IsInjective
<1>5. IsFiniteSet(R) /\ Cardinality(R) = n
  <2>1. 0 \in Int /\ n - 1 \in Int
    BY <1>1
  <2>2. /\ IsFiniteSet(R)
        /\ Cardinality(R) = IF 0 > n - 1 THEN 0 ELSE (n - 1) - 0 + 1
    BY <2>1, FS_Interval
  <2>3. QED
    BY <1>1, <2>2
<1>6. f \in Surjection(V, R)
  BY <1>4, <1>5, FS_Injection
<1>7. i - 1 \in R
  BY <1>1
<1>8. PICK v \in V : f[v] = i - 1
  BY <1>6, <1>7 DEF Surjection
<1>9. QED
  BY <1>8

LEMMA InOrderIsOrder ==
    ASSUME NEW V, IsFiniteSet(V), V \subseteq Nat
    PROVE  /\ Cardinality(V) \in Nat
           /\ \A i \in 1..Cardinality(V) : InOrder(V)[i] \in V
           /\ \A i, j \in 1..Cardinality(V) : i < j => InOrder(V)[i] < InOrder(V)[j]
           /\ \A v \in V : \E i \in 1..Cardinality(V) : InOrder(V)[i] = v
<1> DEFINE n == Cardinality(V)
<1>1. /\ n \in Nat
      /\ \A v \in V : Cardinality(Below(v, V)) \in 0..(n - 1)
      /\ \A v, w \in V : v < w => Cardinality(Below(v, V)) < Cardinality(Below(w, V))
  BY BelowGrows
<1>0. \A v \in V : v \in Nat
  OBVIOUS
<1>2. ASSUME NEW i \in 1..n
      PROVE  InOrder(V)[i] \in V /\ Cardinality(Below(InOrder(V)[i], V)) = i - 1
  <2>1. InOrder(V)[i] = CHOOSE v \in V : Cardinality(Below(v, V)) = i - 1
    BY DEF InOrder, Below
  <2>2. QED
    BY <2>1, EveryRankIsTaken
<1>3. ASSUME NEW v \in V, NEW w \in V,
             Cardinality(Below(v, V)) <= Cardinality(Below(w, V))
      PROVE  v <= w
  <2>1. v \in Nat /\ w \in Nat
    OBVIOUS
  <2>2. /\ Cardinality(Below(v, V)) \in Nat /\ Cardinality(Below(w, V)) \in Nat
        /\ w < v => Cardinality(Below(w, V)) < Cardinality(Below(v, V))
    BY <1>1
  <2>3. QED
    BY <1>3, <2>1, <2>2
<1>4. ASSUME NEW i \in 1..n, NEW j \in 1..n, i < j
      PROVE  InOrder(V)[i] < InOrder(V)[j]
  <2> DEFINE v == InOrder(V)[i]
             w == InOrder(V)[j]
  <2>1. /\ v \in V /\ Cardinality(Below(v, V)) = i - 1
        /\ w \in V /\ Cardinality(Below(w, V)) = j - 1
    BY <1>2
  <2> HIDE DEF v, w
  <2>2. i \in Int /\ j \in Int
    BY <1>1
  <2>3. v # w /\ Cardinality(Below(v, V)) <= Cardinality(Below(w, V))
    BY <1>4, <2>1, <2>2
  <2>4. v <= w /\ v # w /\ v \in Nat /\ w \in Nat
    BY <1>0, <1>3, <2>1, <2>3
  <2>5. v < w
    BY <2>4
  <2>6. QED
    BY <2>5 DEF v, w
<1>5. ASSUME NEW v \in V PROVE \E i \in 1..n : InOrder(V)[i] = v
  <2> DEFINE i == Cardinality(Below(v, V)) + 1
  <2>1. i \in 1..n /\ i - 1 = Cardinality(Below(v, V))
    BY <1>1
  <2> DEFINE w == InOrder(V)[i]
  <2>2. w \in V /\ Cardinality(Below(w, V)) = Cardinality(Below(v, V))
    BY <1>2, <2>1
  <2> HIDE DEF w, i
  <2>3. v \in Nat /\ w \in Nat /\ Cardinality(Below(v, V)) \in Nat
    BY <1>0, <1>1, <2>2
  <2>4. w <= v /\ v <= w
    BY <1>3, <2>2, <2>3
  <2>5. w = v
    BY <2>3, <2>4
  <2>6. QED
    BY <2>1, <2>5 DEF w
<1>6. QED
  BY <1>1, <1>2, <1>4, <1>5

(* Where the selected versions leave nothing out, neither does the list.   *)
LEMMA IntervalIsContiguous ==
    ASSUME NEW V, IsFiniteSet(V), V \subseteq Nat,
           \A v, w \in V : \A x \in Nat : v <= x /\ x <= w => x \in V,
           NEW i \in 2..Cardinality(V)
    PROVE  InOrder(V)[i] = InOrder(V)[i - 1] + 1
<1> DEFINE n == Cardinality(V)
           a == InOrder(V)[i - 1]
           b == InOrder(V)[i]
<1>0. /\ n \in Nat
      /\ \A k \in 1..n : InOrder(V)[k] \in V
      /\ \A k, l \in 1..n : k < l => InOrder(V)[k] < InOrder(V)[l]
      /\ \A v \in V : \E k \in 1..n : InOrder(V)[k] = v
  BY InOrderIsOrder
<1>1. n \in Nat /\ i \in 1..n /\ i - 1 \in 1..n /\ i - 1 < i
  BY <1>0
<1>2. a \in V /\ b \in V /\ a \in Nat /\ b \in Nat /\ a < b
  BY <1>0, <1>1
<1>3. a + 1 \in V
  BY <1>2
<1>4. PICK k \in 1..n : InOrder(V)[k] = a + 1
  BY <1>0, <1>3
<1>5. ~(k < i - 1) /\ k # i - 1
  <2>1. k < i - 1 => a + 1 < a
    BY <1>0, <1>1, <1>4
  <2>2. QED
    BY <1>2, <1>4, <2>1
<1>6. CASE k = i
  BY <1>4, <1>6
<1>7. CASE i < k
  <2>1. b < a + 1
    BY <1>0, <1>1, <1>4, <1>7
  <2>2. QED
    BY <1>2, <2>1
<1>8. QED
  BY <1>1, <1>5, <1>6, <1>7

-------------------------------------------------------------------------------
(* The inductive invariant: every reply that was given still says the truth *)
(* about the log as it is now.  A successful one has all that the property  *)
(* ReplayIsFaithful says, over any two events and not only neighbours; one  *)
(* that reports a gap was about a stream that two tenants share.            *)
(***************************************************************************)
LogType == [Stream -> Seq(Log!Entry)]

RowType == [version : Nat, id : Event, tenant_id : Tenant]

OwnIn(L, req, from, to) ==
    {v \in DOMAIN L[req.stream_id] :
        from <= v /\ v <= to /\ L[req.stream_id][v].tenant_id = req.tenant_id}

FaithfulIn(L, req, es) ==
    /\ req.stream_id \in Stream
    /\ req.from_version \in Int
    /\ es \in Seq(RowType)
    /\ \A i \in DOMAIN es : /\ es[i].version \in DOMAIN L[req.stream_id]
                           /\ es[i].id = L[req.stream_id][es[i].version].id
    /\ \A i, j \in DOMAIN es : i < j => es[i].version < es[j].version
    /\ \A i \in 1..(Len(es) - 1) : es[i + 1].version = es[i].version + 1
    /\ es # <<>> => {es[i].version : i \in DOMAIN es}
                       = OwnIn(L, req, req.from_version, es[Len(es)].version)

SharedIn(L, s) == \E v, w \in DOMAIN L[s] : L[s][v].tenant_id # L[s][w].tenant_id

GoodIn(L, r) ==
    /\ r.answer.code = "OK" => FaithfulIn(L, r.req, r.answer.events)
    /\ r.answer.cause = "gap" => /\ r.req.stream_id \in Stream
                                 /\ SharedIn(L, r.req.stream_id)

IInv == /\ log \in LogType
        /\ reply = [c \in Client |-> reply[c]]
        /\ \A c \in Client : GoodIn(log, reply[c])

-------------------------------------------------------------------------------
(* The log grows at the end: what was said of it stays true.               *)
Grown(L, s, x) == [L EXCEPT ![s] = Append(@, x)]

LEMMA AppendKeeps ==
    ASSUME NEW L \in LogType, NEW s \in Stream, NEW x \in Log!Entry,
           NEW M, M = Grown(L, s, x)
    PROVE  /\ M \in LogType
           /\ \A r \in Stream : \A v \in DOMAIN L[r] :
                 /\ v \in DOMAIN M[r] /\ M[r][v] = L[r][v]
                 /\ \A w \in DOMAIN M[r] : w <= v => w \in DOMAIN L[r]
<1>1. ASSUME NEW r \in Stream
      PROVE  L[r] \in Seq(Log!Entry) /\ M[r] = IF r = s THEN Append(L[r], x) ELSE L[r]
  BY DEF LogType, Grown
<1>2. M \in LogType
  BY <1>1 DEF LogType, Grown
<1>3. ASSUME NEW r \in Stream, NEW v \in DOMAIN L[r]
      PROVE  /\ v \in DOMAIN M[r] /\ M[r][v] = L[r][v]
             /\ \A w \in DOMAIN M[r] : w <= v => w \in DOMAIN L[r]
  <2>1. CASE r = s
    <3>1. L[r] \in Seq(Log!Entry) /\ M[r] = Append(L[r], x)
      BY <1>1, <2>1
    <3>2. Len(L[r]) \in Nat /\ DOMAIN L[r] = 1..Len(L[r])
      BY <3>1
    <3>3. /\ DOMAIN M[r] = 1..(Len(L[r]) + 1)
          /\ \A i \in 1..Len(L[r]) : M[r][i] = L[r][i]
      BY <3>1
    <3>4. QED
      BY <3>2, <3>3
  <2>2. CASE r # s
    BY <1>1, <2>2
  <2>3. QED
    BY <2>1, <2>2
<1>4. QED
  BY <1>2, <1>3

LEMMA AppendKeepsReplies ==
    ASSUME NEW L \in LogType, NEW s \in Stream, NEW x \in Log!Entry,
           NEW M \in LogType, M = Grown(L, s, x)
    PROVE  \A r : GoodIn(L, r) => GoodIn(M, r)
<1> SUFFICES ASSUME NEW r, GoodIn(L, r) PROVE GoodIn(M, r)
  OBVIOUS
<1> DEFINE q  == r.req.stream_id
           es == r.answer.events
<1>1. \A t \in Stream : \A v \in DOMAIN L[t] :
          /\ v \in DOMAIN M[t] /\ M[t][v] = L[t][v]
          /\ \A w \in DOMAIN M[t] : w <= v => w \in DOMAIN L[t]
  BY AppendKeeps
<1>2. ASSUME FaithfulIn(L, r.req, es) PROVE FaithfulIn(M, r.req, es)
  <2>1. ASSUME es # <<>>
        PROVE  OwnIn(M, r.req, r.req.from_version, es[Len(es)].version)
                 = OwnIn(L, r.req, r.req.from_version, es[Len(es)].version)
    <3> DEFINE last == es[Len(es)].version
    <3>1. q \in Stream /\ last \in DOMAIN L[q]
      BY <1>2, <2>1 DEF FaithfulIn
    <3> HIDE DEF last
    <3>2. \A v \in DOMAIN M[q] : v <= last => v \in DOMAIN L[q] /\ M[q][v] = L[q][v]
      BY <1>1, <3>1
    <3>3. \A v \in DOMAIN L[q] : v \in DOMAIN M[q] /\ M[q][v] = L[q][v]
      BY <1>1, <3>1
    <3>4. OwnIn(M, r.req, r.req.from_version, last) = OwnIn(L, r.req, r.req.from_version, last)
      BY <3>2, <3>3 DEF OwnIn
    <3>5. QED
      BY <3>4 DEF last
  <2>2. QED
    BY <1>1, <1>2, <2>1 DEF FaithfulIn
<1>3. ASSUME q \in Stream, SharedIn(L, q) PROVE SharedIn(M, q)
  BY <1>1, <1>3 DEF SharedIn
<1>4. QED
  BY <1>2, <1>3 DEF GoodIn

-------------------------------------------------------------------------------
(* What a call answers.                                                    *)
LEMMA RowsAreTheSelected ==
    ASSUME log \in LogType, NEW s \in Stream, NEW V \in SUBSET DOMAIN log[s]
    PROVE  /\ IsFiniteSet(V) /\ V \subseteq Nat
           /\ Cardinality(V) \in Nat
           /\ RowsOf(s, V) \in Seq(RowType)
           /\ Len(RowsOf(s, V)) = Cardinality(V)
           /\ DOMAIN RowsOf(s, V) = 1..Cardinality(V)
           /\ \A i \in 1..Cardinality(V) :
                 /\ RowsOf(s, V)[i].version = InOrder(V)[i]
                 /\ RowsOf(s, V)[i].id = log[s][InOrder(V)[i]].id
<1>1. log[s] \in Seq(Log!Entry) /\ DOMAIN log[s] = 1..Len(log[s]) /\ Len(log[s]) \in Nat
  BY DEF LogType
<1>2. IsFiniteSet(DOMAIN log[s])
  BY <1>1, FS_Interval
<1>3. IsFiniteSet(V) /\ V \subseteq Nat
  BY <1>1, <1>2, FS_Subset
<1>4. Cardinality(V) \in Nat /\ \A i \in 1..Cardinality(V) : InOrder(V)[i] \in V
  BY <1>3, InOrderIsOrder
<1>5. ASSUME NEW v \in V
      PROVE  [version |-> v, id |-> log[s][v].id, tenant_id |-> log[s][v].tenant_id] \in RowType
  <2>1. v \in Nat /\ log[s][v] \in Log!Entry
    BY <1>1, <1>3
  <2>2. QED
    BY <2>1 DEF RowType, Log!Entry
<1>6. RowsOf(s, V) \in [1..Cardinality(V) -> RowType]
  BY <1>4, <1>5 DEF RowsOf
<1>7. RowsOf(s, V) \in Seq(RowType) /\ Len(RowsOf(s, V)) = Cardinality(V)
  BY <1>4, <1>6
<1>8. \A i \in 1..Cardinality(V) :
          /\ RowsOf(s, V)[i].version = InOrder(V)[i]
          /\ RowsOf(s, V)[i].id = log[s][InOrder(V)[i]].id
  BY DEF RowsOf
<1>9. QED
  BY <1>3, <1>4, <1>6, <1>7, <1>8

Selected(req) ==
    {v \in DOMAIN log[req.stream_id] :
        v >= req.from_version /\ IsVisible(log[req.stream_id][v], req.tenant_id)}

LEMMA AnswerCases ==
    ASSUME NEW req \in Request
    PROVE  LET rows == RowsOf(req.stream_id, Selected(req))
           IN  /\ Answer(req).code = "OK" \/ Answer(req).cause = "gap" =>
                     /\ req.stream_id \in Stream /\ req.tenant_id \in Tenant
                     /\ req.from_version \in Int /\ req.tenant_id # NoTenant
               /\ Answer(req).code = "OK" =>
                     Gaps(rows) = {} /\ Answer(req).events = rows
               /\ Answer(req).cause = "gap" => Gaps(rows) # {}
<1> DEFINE rows == GetFromVersion(req.stream_id, req.from_version, req.tenant_id)
<1>1. rows = RowsOf(req.stream_id, Selected(req))
  BY DEF GetFromVersion, Selected
<1>2. \A a, b : Fails(a, b).code = a /\ Fails(a, b).cause = b
  BY DEF Fails
<1>3. \/ Answer(req).code # "OK" /\ Answer(req).cause # "gap"
      \/ /\ req.stream_id # NoStream /\ req.tenant_id # NoTenant
         /\ Answer(req) = ToProto(validateContiguous(rows))
  BY <1>2 DEF Answer
<1>4. \/ Gaps(rows) = {} /\ validateContiguous(rows) = Ok(rows)
      \/ Gaps(rows) # {} /\ validateContiguous(rows).code = "DataLoss"
                        /\ validateContiguous(rows).cause = "gap"
  BY DEF validateContiguous, GapAt
<1>5. Ok(rows).code = "OK" /\ Ok(rows).cause = "none" /\ Ok(rows).events = rows
  BY DEF Ok
<1> HIDE DEF rows
<1>6. \/ ToProto(validateContiguous(rows)) = validateContiguous(rows)
      \/ /\ ToProto(validateContiguous(rows)).code = "Internal"
         /\ ToProto(validateContiguous(rows)).cause = "payload"
  BY <1>2 DEF ToProto
<1>7. /\ req.stream_id # NoStream => req.stream_id \in Stream
      /\ req.tenant_id # NoTenant => req.tenant_id \in Tenant
      /\ req.from_version \in Int
  BY CallerAssumption DEF Request
<1>8. QED
  BY <1>1, <1>3, <1>4, <1>5, <1>6, <1>7

LEMMA AnswerIsGood ==
    ASSUME log \in LogType, NEW req \in Request
    PROVE  GoodIn(log, [req |-> req, answer |-> Answer(req)])
<1> DEFINE s    == req.stream_id
           V    == Selected(req)
           n    == Cardinality(V)
           rows == RowsOf(s, V)
           ans  == Answer(req)
<1>1. SUFFICES ASSUME ans.code = "OK" \/ ans.cause = "gap"
      PROVE  /\ ans.code = "OK" => FaithfulIn(log, req, ans.events)
             /\ ans.cause = "gap" => s \in Stream /\ SharedIn(log, s)
  BY DEF GoodIn
<1>2. /\ s \in Stream /\ req.tenant_id \in Tenant /\ req.tenant_id # NoTenant
      /\ req.from_version \in Int
      /\ ans.code = "OK" => Gaps(rows) = {} /\ ans.events = rows
      /\ ans.cause = "gap" => Gaps(rows) # {}
  BY <1>1, AnswerCases
<1>3. /\ V \in SUBSET DOMAIN log[s]
      /\ \A v \in DOMAIN log[s] :
            v \in V <=> v >= req.from_version /\ log[s][v].tenant_id = req.tenant_id
  BY <1>2 DEF Selected, IsVisible
<1> HIDE DEF V, ans
<1>4. /\ IsFiniteSet(V) /\ V \subseteq Nat /\ n \in Nat
      /\ rows \in Seq(RowType) /\ Len(rows) = n /\ DOMAIN rows = 1..n
      /\ \A i \in 1..n : /\ rows[i].version = InOrder(V)[i]
                        /\ rows[i].id = log[s][InOrder(V)[i]].id
  BY <1>2, <1>3, RowsAreTheSelected
<1>5. /\ \A i \in 1..n : InOrder(V)[i] \in V
      /\ \A i, j \in 1..n : i < j => InOrder(V)[i] < InOrder(V)[j]
      /\ \A v \in V : \E i \in 1..n : InOrder(V)[i] = v
  BY <1>4, InOrderIsOrder
<1> HIDE DEF rows, n
<1>6. ASSUME ans.code = "OK" PROVE FaithfulIn(log, req, ans.events)
  <2>1. ans.events = rows /\ Gaps(rows) = {}
    BY <1>2, <1>6
  <2>2. \A i \in DOMAIN rows : /\ rows[i].version \in DOMAIN log[s]
                             /\ rows[i].id = log[s][rows[i].version].id
    BY <1>3, <1>4, <1>5
  <2>3. \A i, j \in DOMAIN rows : i < j => rows[i].version < rows[j].version
    BY <1>4, <1>5
  <2>4. ASSUME NEW i \in 1..(Len(rows) - 1)
        PROVE  rows[i + 1].version = rows[i].version + 1
    <3>1. i + 1 \in 2..Len(rows) /\ (i + 1) - 1 = i
      BY <1>4
    <3>2. QED
      BY <2>1, <3>1 DEF Gaps
  <2>5. ASSUME rows # <<>>
        PROVE  {rows[i].version : i \in DOMAIN rows}
                   = OwnIn(log, req, req.from_version, rows[Len(rows)].version)
    <3> DEFINE last == rows[Len(rows)].version
    <3>1. n \in 1..n
      BY <1>4, <2>5
    <3>2. last = InOrder(V)[n] /\ last \in V /\ last \in Nat
      BY <1>4, <1>5, <3>1
    <3>3. ASSUME NEW v \in V PROVE v <= last /\ \E i \in DOMAIN rows : rows[i].version = v
      <4>1. PICK i \in 1..n : InOrder(V)[i] = v
        BY <1>5
      <4>2. i = n \/ i < n
        BY <1>4
      <4>3. v = last \/ v < last
        BY <1>5, <3>1, <3>2, <4>1, <4>2
      <4>4. v \in Nat
        BY <1>4
      <4>5. QED
        BY <1>4, <3>2, <4>1, <4>3, <4>4
    <3>4. \A i \in DOMAIN rows : rows[i].version \in V
      BY <1>4, <1>5
    <3> HIDE DEF last
    <3>5. \A v \in V : v \in Nat /\ req.from_version <= v
      BY <1>2, <1>3, <1>4
    <3>6. OwnIn(log, req, req.from_version, last) = V
      <4>1. \A v \in DOMAIN log[s] : v \in Nat
        BY <1>2 DEF LogType
      <4>2. QED
        BY <1>2, <1>3, <3>3, <3>5, <4>1 DEF OwnIn
    <3>7. QED
      BY <3>3, <3>4, <3>6 DEF last
  <2>6. rows \in Seq(RowType)
    BY <1>4
  <2>7. FaithfulIn(log, req, rows)
    BY <1>2, <2>2, <2>3, <2>4, <2>5, <2>6 DEF FaithfulIn
  <2>8. QED
    BY <2>1, <2>7
<1>7. ASSUME ans.cause = "gap" PROVE SharedIn(log, s)
  <2>1. PICK i \in 2..n : rows[i].version # rows[i - 1].version + 1
    BY <1>2, <1>4, <1>7 DEF Gaps
  <2>2. i \in 1..n /\ i - 1 \in 1..n
    BY <1>4
  <2>3. InOrder(V)[i] # InOrder(V)[i - 1] + 1
    BY <1>4, <2>1, <2>2
  <2>4. ~(\A v, w \in V : \A x \in Nat : v <= x /\ x <= w => x \in V)
    BY <1>4, <2>1, <2>3, IntervalIsContiguous DEF n
  <2>5. PICK v \in V, w \in V, x \in Nat : v <= x /\ x <= w /\ x \notin V
    BY <2>4
  <2>6. x \in DOMAIN log[s]
    <3>1. DOMAIN log[s] = 1..Len(log[s]) /\ Len(log[s]) \in Nat
      BY <1>2 DEF LogType
    <3>2. v \in 1..Len(log[s]) /\ w \in 1..Len(log[s])
      BY <1>3, <3>1
    <3>3. QED
      BY <2>5, <3>1, <3>2
  <2>7. x >= req.from_version
    BY <1>2, <1>3, <1>4, <2>5
  <2>8. log[s][x].tenant_id # log[s][v].tenant_id
    BY <1>3, <2>5, <2>6, <2>7
  <2>9. QED
    BY <1>3, <2>6, <2>8 DEF SharedIn
<1>8. QED
  BY <1>2, <1>6, <1>7

-------------------------------------------------------------------------------
LEMMA InitIInv == Init => IInv
<1> SUFFICES ASSUME Init PROVE IInv
  OBVIOUS
<1>1. log \in LogType
  BY DEF Init, Log!Init, LogType
<1>2. reply = [c \in Client |-> NoReply]
  BY DEF Init
<1>3. ASSUME NEW c \in Client PROVE GoodIn(log, reply[c])
  BY <1>2 DEF GoodIn, NoReply, Fails
<1>4. QED
  BY <1>1, <1>2, <1>3 DEF IInv

LEMMA NewReply ==
    ASSUME IInv, log' = log, NEW c \in Client, NEW r, GoodIn(log, r),
           reply' = [reply EXCEPT ![c] = r]
    PROVE  IInv'
<1>1. reply' = [d \in Client |-> IF d = c THEN r ELSE reply[d]]
  BY DEF IInv
<1>2. \A d \in Client : GoodIn(log', reply'[d])
  BY <1>1 DEF IInv
<1>3. reply' = [d \in Client |-> reply'[d]]
  BY <1>1
<1>4. QED
  BY <1>2, <1>3 DEF IInv

LEMMA NextIInv == IInv /\ [Next]_vars => IInv'
<1> SUFFICES ASSUME IInv, [Next]_vars PROVE IInv'
  OBVIOUS
<1>1. ASSUME AppendEvent PROVE IInv'
  <2>1. PICK s \in Stream, x \in Log!Entry : Log!AppendEntry(s, x)
    BY <1>1 DEF AppendEvent
  <2>2. log' = Grown(log, s, x) /\ reply' = reply
    BY <1>1, <2>1 DEF AppendEvent, Log!AppendEntry, Grown
  <2>3. log' \in LogType
    BY <2>2, AppendKeeps DEF IInv
  <2>4. \A r : GoodIn(log, r) => GoodIn(log', r)
    BY <2>2, <2>3, AppendKeepsReplies DEF IInv
  <2>5. QED
    BY <2>2, <2>3, <2>4 DEF IInv
<1>2. ASSUME NEW c \in Client, NEW req \in Request, Replay(c, req) PROVE IInv'
  BY <1>2, NewReply, AnswerIsGood DEF Replay, IInv
<1>3. ASSUME NEW c \in Client, NEW req \in Request, ReadFails(c, req) PROVE IInv'
  <2>1. GoodIn(log, [req |-> req, answer |-> Fails("DataLoss", "store")])
    BY DEF GoodIn, Fails
  <2>2. QED
    BY <1>3, <2>1, NewReply DEF ReadFails
<1>4. CASE UNCHANGED vars
  BY <1>4 DEF vars, IInv
<1>5. QED
  BY <1>1, <1>2, <1>3, <1>4 DEF Next

LEMMA InductiveInvariant == Spec => []IInv
<1>1. Init => IInv
  BY InitIInv
<1>2. IInv /\ [Next]_vars => IInv'
  BY NextIInv
<1>3. QED
  BY <1>1, <1>2, PTL DEF Spec

-------------------------------------------------------------------------------
(* A successful replay is the caller's part of the log, now and whatever   *)
(* is appended later.                                                      *)
THEOREM ReplaysAreFaithful == Spec => []ReplayIsFaithful
<1>1. IInv => ReplayIsFaithful
  <2> SUFFICES ASSUME IInv, NEW c \in Client, Answered(c)
               PROVE  LET req == reply[c].req
                          es  == Events(c)
                      IN  /\ \A i \in DOMAIN es :
                                /\ es[i].version \in DOMAIN log[req.stream_id]
                                /\ es[i].id = log[req.stream_id][es[i].version].id
                          /\ \A i \in 1..(Len(es) - 1) :
                                es[i + 1].version = es[i].version + 1
                          /\ es # <<>> => {es[i].version : i \in DOMAIN es}
                                = OwnVersions(req, req.from_version, LastVersion(c))
    BY DEF ReplayIsFaithful
  <2>1. FaithfulIn(log, reply[c].req, Events(c))
    BY DEF IInv, GoodIn, Answered, Events
  <2>2. \A req, from, to : OwnIn(log, req, from, to) = OwnVersions(req, from, to)
    BY DEF OwnIn, OwnVersions
  <2>3. QED
    BY <2>1, <2>2 DEF FaithfulIn, LastVersion
<1>2. QED
  BY <1>1, InductiveInvariant, PTL

JoinedIsComplete(p, both, last) ==
    /\ \A i, j \in DOMAIN both : i < j => both[i].version < both[j].version
    /\ {both[i].version : i \in DOMAIN both} = OwnVersions(p, p.from_version, last)

(* Two replays, the second from where the first ended, are one replay.     *)
LEMMA ResumptionIsComplete ==
    ASSUME log \in LogType
    PROVE  \A p, q, es, fs :
               (/\ FaithfulIn(log, p, es) /\ FaithfulIn(log, q, fs)
                /\ es # <<>> /\ fs # <<>>
                /\ q.stream_id = p.stream_id /\ q.tenant_id = p.tenant_id
                /\ q.from_version = es[Len(es)].version + 1)
               => JoinedIsComplete(p, es \o fs, fs[Len(fs)].version)
<1> SUFFICES ASSUME NEW p, NEW q, NEW es, NEW fs,
                    FaithfulIn(log, p, es), FaithfulIn(log, q, fs), es # <<>>, fs # <<>>,
                    q.stream_id = p.stream_id, q.tenant_id = p.tenant_id,
                    q.from_version = es[Len(es)].version + 1
             PROVE  JoinedIsComplete(p, es \o fs, fs[Len(fs)].version)
  OBVIOUS
<1> DEFINE both == es \o fs
           m    == Len(es)
           n    == Len(fs)
           mid  == es[m].version
           last == fs[n].version
           A    == {es[i].version : i \in DOMAIN es}
           B    == {fs[i].version : i \in DOMAIN fs}
<1>1. /\ m \in Nat /\ n \in Nat /\ m \in DOMAIN es /\ n \in DOMAIN fs
      /\ DOMAIN es = 1..m /\ DOMAIN fs = 1..n /\ DOMAIN both = 1..(m + n)
      /\ \A i \in 1..m : both[i] = es[i]
      /\ \A i \in 1..n : both[m + i] = fs[i]
      /\ \A i \in (m + 1)..(m + n) : i - m \in 1..n /\ both[i] = fs[i - m]
  BY DEF FaithfulIn
<1>2. /\ p.stream_id \in Stream /\ p.from_version \in Int
      /\ DOMAIN log[p.stream_id] \subseteq Nat
  BY DEF FaithfulIn, LogType
<1>3. /\ A = OwnVersions(p, p.from_version, mid)
      /\ B = OwnVersions(p, mid + 1, last)
  BY DEF FaithfulIn, OwnIn, OwnVersions
<1>4. mid \in A /\ last \in B
  BY <1>1
<1>b. /\ \A i \in 1..m : es[i].version \in A
      /\ \A v \in A : \E i \in 1..m : es[i].version = v
      /\ \A i \in 1..n : fs[i].version \in B
      /\ \A v \in B : \E i \in 1..n : fs[i].version = v
  BY <1>1
<1> HIDE DEF mid, last, A, B
<1>5. /\ mid \in Nat /\ last \in Nat /\ p.from_version <= mid /\ mid + 1 <= last
      /\ \A v \in A : v \in Nat /\ v <= mid
      /\ \A v \in B : v \in Nat /\ mid < v
  BY <1>2, <1>3, <1>4 DEF OwnVersions
<1>6. A \cup B = OwnVersions(p, p.from_version, last)
  BY <1>2, <1>3, <1>5 DEF OwnVersions
<1>7. {both[i].version : i \in DOMAIN both} = A \cup B
  <2>1. ASSUME NEW i \in DOMAIN both PROVE both[i].version \in A \cup B
    <3>1. i \in 1..m \/ i \in (m + 1)..(m + n)
      BY <1>1
    <3>2. QED
      BY <1>1, <1>b, <3>1
  <2>2. ASSUME NEW v \in A PROVE \E i \in DOMAIN both : both[i].version = v
    <3>1. PICK i \in 1..m : es[i].version = v
      BY <1>b
    <3>2. i \in 1..(m + n)
      BY <1>1
    <3>3. QED
      BY <1>1, <3>1, <3>2
  <2>3. ASSUME NEW v \in B PROVE \E i \in DOMAIN both : both[i].version = v
    <3>1. PICK i \in 1..n : fs[i].version = v
      BY <1>b
    <3>2. m + i \in 1..(m + n)
      BY <1>1
    <3>3. QED
      BY <1>1, <3>1, <3>2
  <2>4. QED
    BY <2>1, <2>2, <2>3
<1>8. ASSUME NEW i \in DOMAIN both, NEW j \in DOMAIN both, i < j
      PROVE  both[i].version < both[j].version
  <2>1. \/ i \in 1..m /\ j \in 1..m
        \/ i \in 1..m /\ j \in (m + 1)..(m + n)
        \/ i \in (m + 1)..(m + n) /\ j \in (m + 1)..(m + n)
    BY <1>1, <1>8
  <2>2. CASE i \in 1..m /\ j \in 1..m
    BY <1>1, <1>8, <2>2 DEF FaithfulIn
  <2>3. CASE i \in 1..m /\ j \in (m + 1)..(m + n)
    <3>1. both[i].version \in A /\ both[j].version \in B
      BY <1>1, <1>b, <2>3
    <3>2. QED
      BY <1>5, <3>1
  <2>4. CASE i \in (m + 1)..(m + n) /\ j \in (m + 1)..(m + n)
    <3>1. /\ i - m \in DOMAIN fs /\ j - m \in DOMAIN fs /\ i - m < j - m
          /\ both[i] = fs[i - m] /\ both[j] = fs[j - m]
      BY <1>1, <1>8, <2>4
    <3>2. QED
      BY <3>1 DEF FaithfulIn
  <2>5. QED
    BY <2>1, <2>2, <2>3, <2>4
<1>9. QED
  BY <1>6, <1>7, <1>8 DEF JoinedIsComplete, last

(* Resuming after the last version that came neither misses nor repeats.   *)
THEOREM ResumedReplaysAreComplete == Spec => []ResumedReplayIsComplete
<1>1. IInv => ResumedReplayIsComplete
  <2> SUFFICES ASSUME IInv, NEW c \in Client, NEW d \in Client,
                      Answered(c), Answered(d), Events(c) # <<>>, Events(d) # <<>>,
                      reply[d].req.stream_id = reply[c].req.stream_id,
                      reply[d].req.tenant_id = reply[c].req.tenant_id,
                      reply[d].req.from_version = LastVersion(c) + 1
               PROVE  LET both == Events(c) \o Events(d)
                      IN  /\ \A i, j \in DOMAIN both :
                                i < j => both[i].version < both[j].version
                          /\ {both[i].version : i \in DOMAIN both}
                                = OwnVersions(reply[c].req, reply[c].req.from_version,
                                              LastVersion(d))
    BY DEF ResumedReplayIsComplete
  <2>1. /\ FaithfulIn(log, reply[c].req, Events(c))
        /\ FaithfulIn(log, reply[d].req, Events(d))
    BY DEF IInv, GoodIn, Answered, Events
  <2>2. reply[d].req.from_version = Events(c)[Len(Events(c))].version + 1
    BY DEF LastVersion
  <2>3. log \in LogType
    BY DEF IInv
  <2> DEFINE p == reply[c].req
             q == reply[d].req
             es == Events(c)
             fs == Events(d)
  <2>4. /\ FaithfulIn(log, p, es) /\ FaithfulIn(log, q, fs) /\ es # <<>> /\ fs # <<>>
        /\ q.stream_id = p.stream_id /\ q.tenant_id = p.tenant_id
        /\ q.from_version = es[Len(es)].version + 1
    BY <2>1, <2>2
  <2> HIDE DEF p, q, es, fs
  <2>5. JoinedIsComplete(p, es \o fs, fs[Len(fs)].version)
    BY <2>3, <2>4, ResumptionIsComplete
  <2>6. QED
    BY <2>5 DEF JoinedIsComplete, LastVersion, p, es, fs
<1>2. QED
  BY <1>1, InductiveInvariant, PTL

(* One tenant's stream has no gap to report.                               *)
THEOREM OwnStreamsHaveNoGap == Spec => []OwnStreamHasNoGap
<1>1. IInv => OwnStreamHasNoGap
  BY DEF IInv, GoodIn, SharedIn, OwnStreamHasNoGap, SingleTenant
<1>2. QED
  BY <1>1, InductiveInvariant, PTL
===============================================================================
