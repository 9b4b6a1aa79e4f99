------------------------------ MODULE QueryProofs -----------------------------
(***************************************************************************)
(* Query, for every finite set of events, every assignment of tenants,     *)
(* streams and times to them, every limit and offset a client may send and *)
(* every page size: a walk over the pages is complete, shows the caller's  *)
(* events only, and is in order while nothing is put before what it read.  *)
(***************************************************************************)
EXTENDS Query, FunctionTheorems, FiniteSetTheorems, SequenceTheorems, TLAPS

-------------------------------------------------------------------------------
(* What a search finds and in which order, as functions of the documents d *)
(* and of the set S of those that searches see.                            *)
(***************************************************************************)
MatchesIn(d, e, q) == /\ q.stream_id # NoStream => d[e].stream_id = q.stream_id
                      /\ q.tenant_id # NoTenant => d[e].tenant_id = q.tenant_id

Found(d, S, q) == {e \in S : MatchesIn(d, e, q)}

DateKeyIn(d, e) == d[e].occurred_at \div Milli

PrecedesIn(d, e, f, q) ==
    IF q.stream_id = NoStream
    THEN \/ DateKeyIn(d, e) > DateKeyIn(d, f)
         \/ DateKeyIn(d, e) = DateKeyIn(d, f) /\ e > f
    ELSE \/ d[e].version < d[f].version
         \/ d[e].version = d[f].version /\ e < f

Before(d, S, e, q) == {f \in Found(d, S, q) : PrecedesIn(d, f, e, q)}

Rank(d, S, e, q) == Cardinality(Before(d, S, e, q))

Total(d, S, q) == Cardinality(Found(d, S, q))

LEMMA DocTyped ==
    ASSUME NEW d \in [Event -> Doc], NEW e \in Event
    PROVE  /\ e \in Nat /\ d[e].occurred_at \in Nat /\ d[e].version \in Nat
           /\ DateKeyIn(d, e) \in Nat
           /\ d[e].stream_id \in Stream /\ d[e].tenant_id \in Tenant
<1>1. d[e] \in Doc /\ e \in Nat /\ Time \subseteq Nat
  BY QueryAssumption
<1>2. Cardinality(Event) \in Nat
  BY QueryAssumption, FS_CardinalityType
<1>3. /\ d[e].version \in 1..Cardinality(Event) /\ d[e].occurred_at \in Time
      /\ d[e].stream_id \in Stream /\ d[e].tenant_id \in Tenant
  BY <1>1 DEF Doc
<1>4. d[e].version \in Nat
  BY <1>2, <1>3
<1>5. d[e].occurred_at \in Nat
  BY <1>1, <1>3
<1>6. DateKeyIn(d, e) \in Nat
  BY <1>5, QueryAssumption DEF DateKeyIn
<1>7. QED
  BY <1>1, <1>3, <1>4, <1>5, <1>6

(* Two times of which the first has no smaller key: the second is less than*)
(* a millisecond ahead.                                                    *)
LEMMA KeysAreMillis ==
    ASSUME NEW s \in Nat, NEW t \in Nat, s \div Milli >= t \div Milli
    PROVE  t - s < Milli
<1>1. Milli \in Nat /\ Milli > 0
  BY QueryAssumption
<1>2. /\ s \div Milli \in Nat /\ t \div Milli \in Nat
      /\ (s \div Milli) * Milli <= s
      /\ t < ((t \div Milli) + 1) * Milli
  BY <1>1
<1>3. (t \div Milli) * Milli <= (s \div Milli) * Milli
  BY <1>1, <1>2
<1>4. QED
  BY <1>1, <1>2, <1>3

(* Both routes have a total order: the event id breaks every tie.          *)
LEMMA TotalOrder ==
    ASSUME NEW d \in [Event -> Doc]
    PROVE  \A q : \A e, f \in Event :
               /\ ~PrecedesIn(d, e, e, q)
               /\ e = f \/ PrecedesIn(d, e, f, q) \/ PrecedesIn(d, f, e, q)
               /\ \A g \in Event :
                     PrecedesIn(d, e, f, q) /\ PrecedesIn(d, f, g, q) => PrecedesIn(d, e, g, q)
<1> SUFFICES ASSUME NEW q, NEW e \in Event, NEW f \in Event
    PROVE  /\ ~PrecedesIn(d, e, e, q)
           /\ e = f \/ PrecedesIn(d, e, f, q) \/ PrecedesIn(d, f, e, q)
           /\ \A g \in Event :
                 PrecedesIn(d, e, f, q) /\ PrecedesIn(d, f, g, q) => PrecedesIn(d, e, g, q)
  OBVIOUS
<1>1. \A g \in Event : g \in Nat /\ DateKeyIn(d, g) \in Nat /\ d[g].version \in Nat
  BY DocTyped
<1>2. QED
  BY <1>1 DEF PrecedesIn

LEMMA FoundIsFinite ==
    ASSUME NEW d, NEW S \in SUBSET Event, NEW q
    PROVE  /\ IsFiniteSet(Found(d, S, q)) /\ Total(d, S, q) \in Nat
           /\ Found(d, S, q) \in SUBSET Event
           /\ \A e : /\ IsFiniteSet(Before(d, S, e, q)) /\ Rank(d, S, e, q) \in Nat
                     /\ Before(d, S, e, q) \in SUBSET Found(d, S, q)
<1>1. Found(d, S, q) \in SUBSET Event
  BY DEF Found
<1>2. IsFiniteSet(Found(d, S, q)) /\ Total(d, S, q) \in Nat
  BY <1>1, QueryAssumption, FS_Subset, FS_CardinalityType DEF Total
<1>3. ASSUME NEW e
      PROVE  /\ IsFiniteSet(Before(d, S, e, q)) /\ Rank(d, S, e, q) \in Nat
             /\ Before(d, S, e, q) \in SUBSET Found(d, S, q)
  <2>1. Before(d, S, e, q) \in SUBSET Found(d, S, q)
    BY DEF Before
  <2>2. QED
    BY <1>2, <2>1, FS_Subset, FS_CardinalityType DEF Rank
<1>4. QED
  BY <1>1, <1>2, <1>3

(* The rank of a hit counts the hits before it: it is below their total,   *)
(* and it grows along the order of the route.                              *)
RanksAreOrder(d, S, q) ==
    /\ Total(d, S, q) \in Nat
    /\ \A e \in Found(d, S, q) : /\ Rank(d, S, e, q) \in Nat
                               /\ Rank(d, S, e, q) < Total(d, S, q)
    /\ \A e, f \in Found(d, S, q) :
          /\ PrecedesIn(d, e, f, q) <=> Rank(d, S, e, q) < Rank(d, S, f, q)
          /\ e = f <=> Rank(d, S, e, q) = Rank(d, S, f, q)

LEMMA Ranks ==
    ASSUME NEW d \in [Event -> Doc], NEW S \in SUBSET Event
    PROVE  \A q : RanksAreOrder(d, S, q)
<1> SUFFICES ASSUME NEW q PROVE RanksAreOrder(d, S, q)
  OBVIOUS
<1> DEFINE H == Found(d, S, q)
           P(e, f) == PrecedesIn(d, e, f, q)
           B(e) == Before(d, S, e, q)
           r(e) == Rank(d, S, e, q)
<1>1. /\ IsFiniteSet(H) /\ H \in SUBSET Event /\ Total(d, S, q) \in Nat
      /\ \A e : IsFiniteSet(B(e)) /\ r(e) \in Nat /\ B(e) \in SUBSET H
  BY FoundIsFinite
<1>2. \A e, f, g \in H : /\ ~P(e, e)
                         /\ e = f \/ P(e, f) \/ P(f, e)
                         /\ P(e, f) /\ P(f, g) => P(e, g)
  BY <1>1, TotalOrder
<1>3. \A e, f : f \in B(e) <=> f \in H /\ P(f, e)
  BY DEF Before
<1>4. ASSUME NEW X \in SUBSET H, NEW Y \in SUBSET X, Y # X
      PROVE  Cardinality(Y) < Cardinality(X)
  <2>1. IsFiniteSet(X) /\ IsFiniteSet(Y) /\ Cardinality(Y) <= Cardinality(X)
        /\ (Cardinality(X) = Cardinality(Y) => X = Y)
    BY <1>1, FS_Subset
  <2>2. Cardinality(X) \in Nat /\ Cardinality(Y) \in Nat
    BY <2>1, FS_CardinalityType
  <2>3. QED
    BY <1>4, <2>1, <2>2
<1> HIDE DEF H, P, B
<1>5. ASSUME NEW e \in H PROVE r(e) \in Nat /\ r(e) < Total(d, S, q)
  <2>1. B(e) \in SUBSET H /\ B(e) # H
    BY <1>1, <1>2, <1>3
  <2>2. r(e) < Total(d, S, q)
    BY <1>4, <2>1 DEF Rank, Total, B, H
  <2>3. QED
    BY <1>1, <2>2
<1>6. ASSUME NEW e \in H, NEW f \in H, P(e, f) PROVE r(e) < r(f)
  <2>1. B(e) \in SUBSET B(f) /\ B(f) \in SUBSET H /\ e \in B(f) /\ e \notin B(e)
    BY <1>1, <1>2, <1>3, <1>6
  <2>2. QED
    BY <1>4, <2>1 DEF Rank, B
<1> HIDE DEF r
<1>7. ASSUME NEW e \in H, NEW f \in H
      PROVE  (P(e, f) <=> r(e) < r(f)) /\ (e = f <=> r(e) = r(f))
  <2>1. r(e) \in Nat /\ r(f) \in Nat
    BY <1>1
  <2>2. (P(e, f) => r(e) < r(f)) /\ (P(f, e) => r(f) < r(e))
    BY <1>6
  <2>3. e = f \/ P(e, f) \/ P(f, e)
    BY <1>2
  <2>4. QED
    BY <2>1, <2>2, <2>3
<1>8. QED
  BY <1>1, <1>5, <1>7 DEF RanksAreOrder, H, P, r

LEMMA EveryRankIsTaken ==
    ASSUME NEW d \in [Event -> Doc], NEW S \in SUBSET Event, NEW q,
           NEW k \in 0..(Total(d, S, q) - 1)
    PROVE  \E e \in Found(d, S, q) : Rank(d, S, e, q) = k
<1> DEFINE H == Found(d, S, q)
           n == Total(d, S, q)
           R == 0..(n - 1)
           f == [e \in H |-> Rank(d, S, e, q)]
<1>0. RanksAreOrder(d, S, q)
  BY Ranks
<1>1. /\ n \in Nat /\ \A e \in H : Rank(d, S, e, q) \in R
      /\ \A e, g \in H : Rank(d, S, e, q) = Rank(d, S, g, q) => e = g
  BY <1>0 DEF RanksAreOrder
<1>2. f \in Injection(H, R)
  BY <1>1 DEF Injection, IsInjective
<1>3. IsFiniteSet(R) /\ Cardinality(R) = n
  <2>1. 0 \in Int /\ n - 1 \in Int
    BY <1>1
  <2>2. IsFiniteSet(R) /\ Cardinality(R) = IF 0 > n - 1 THEN 0 ELSE (n - 1) - 0 + 1
    BY <2>1, FS_Interval
  <2>3. QED
    BY <1>1, <2>2
<1>4. Cardinality(H) = Cardinality(R)
  BY <1>3 DEF Total
<1>5. f \in Surjection(H, R)
  BY <1>2, <1>3, <1>4, FS_Injection
<1>6. PICK e \in H : f[e] = k
  BY <1>5 DEF Surjection
<1>7. QED
  BY <1>6

(* SortedHits lists all hits, each at the place that its rank says.        *)
LEMMA SortedByRank ==
    ASSUME doc \in [Event -> Doc], searchable \in SUBSET Event, NEW q
    PROVE  LET n == Total(doc, searchable, q)
           IN  /\ n \in Nat
               /\ SortedHits(q) \in Seq(Event)
               /\ Len(SortedHits(q)) = n /\ DOMAIN SortedHits(q) = 1..n
               /\ \A i \in 1..n : /\ SortedHits(q)[i] \in Found(doc, searchable, q)
                                 /\ Rank(doc, searchable, SortedHits(q)[i], q) = i - 1
               /\ \A e \in Found(doc, searchable, q) :
                     /\ Rank(doc, searchable, e, q) + 1 \in 1..n
                     /\ SortedHits(q)[Rank(doc, searchable, e, q) + 1] = e
<1> DEFINE H    == Found(doc, searchable, q)
           n    == Total(doc, searchable, q)
           r(e) == Rank(doc, searchable, e, q)
           s    == SortedHits(q)
<1>1. s = [i \in 1..n |-> CHOOSE e \in H : r(e) = i - 1]
  BY DEF SortedHits, Total, Rank, Before, Hits, Found, Matches, MatchesIn,
         Precedes, PrecedesIn, Newer, Lower, DateKey, DateKeyIn
<1>2. /\ n \in Nat /\ \A e \in H : r(e) \in 0..(n - 1)
      /\ \A e, f \in H : r(e) = r(f) => e = f
  <2>1. RanksAreOrder(doc, searchable, q)
    BY Ranks
  <2>2. QED
    BY <2>1 DEF RanksAreOrder
<1>3. H \in SUBSET Event
  BY FoundIsFinite
<1>4. \A k \in 0..(n - 1) : \E e \in H : r(e) = k
  BY EveryRankIsTaken
<1> HIDE DEF H, n, r, s
<1>5. ASSUME NEW i \in 1..n PROVE s[i] \in H /\ r(s[i]) = i - 1
  <2>1. i - 1 \in 0..(n - 1)
    BY <1>2
  <2>2. \E e \in H : r(e) = i - 1
    BY <1>4, <2>1
  <2>3. QED
    BY <1>1, <2>2
<1>6. s \in [1..n -> Event]
  BY <1>1, <1>3, <1>5
<1>7. s \in Seq(Event) /\ Len(s) = n /\ DOMAIN s = 1..n
  BY <1>2, <1>6
<1>8. ASSUME NEW e \in H PROVE r(e) + 1 \in 1..n /\ s[r(e) + 1] = e
  <2>1. r(e) + 1 \in 1..n /\ (r(e) + 1) - 1 = r(e)
    BY <1>2
  <2>2. s[r(e) + 1] \in H /\ r(s[r(e) + 1]) = r(e)
    BY <1>5, <2>1
  <2>3. QED
    BY <1>2, <2>1, <2>2
<1>9. QED
  BY <1>2, <1>5, <1>7, <1>8 DEF H, n, r, s

(* A page shows the hits whose rank is from its offset on, up to its limit. *)
IsPage(d, S, q, page) ==
    /\ page \in Seq(Event)
    /\ \A k \in DOMAIN page : /\ page[k] \in Found(d, S, q)
                            /\ Rank(d, S, page[k], q) = q.offset + k - 1
                            /\ q.offset + k - 1 < q.offset + q.limit
    /\ \A e \in Found(d, S, q) :
          /\ q.offset <= Rank(d, S, e, q)
          /\ Rank(d, S, e, q) < q.offset + q.limit
          => \E k \in DOMAIN page : page[k] = e

LEMMA PageByRank ==
    ASSUME doc \in [Event -> Doc], searchable \in SUBSET Event
    PROVE  \A q : q.offset \in Nat /\ q.limit \in Nat =>
               /\ Search(q).total = Total(doc, searchable, q)
               /\ IsPage(doc, searchable, q, Search(q).events)
<1> SUFFICES ASSUME NEW q, q.offset \in Nat, q.limit \in Nat
             PROVE  /\ Search(q).total = Total(doc, searchable, q)
                    /\ IsPage(doc, searchable, q, Search(q).events)
  OBVIOUS
<1> DEFINE H    == Found(doc, searchable, q)
           n    == Total(doc, searchable, q)
           r(e) == Rank(doc, searchable, e, q)
           s    == SortedHits(q)
           o    == q.offset
           m    == Min2(o + q.limit, n)
           p    == Search(q).events
<1>1. /\ n \in Nat /\ s \in Seq(Event) /\ Len(s) = n /\ DOMAIN s = 1..n
      /\ \A i \in 1..n : s[i] \in H /\ r(s[i]) = i - 1
      /\ \A e \in H : r(e) + 1 \in 1..n /\ s[r(e) + 1] = e
  BY SortedByRank
<1>2. Search(q).total = n /\ p = SubSeq(s, o + 1, m)
  BY <1>1 DEF Search
<1>3. o \in Nat /\ m \in Nat /\ m <= n /\ m <= o + q.limit /\ (m = n \/ m = o + q.limit)
  BY <1>1 DEF Min2
<1> HIDE DEF H, n, r, s, o, m, p
<1>4. /\ p \in Seq(Event)
      /\ DOMAIN p = 1..(m - o)
      /\ \A k \in 1..(m - o) : p[k] = s[k + o]
  <2>1. o + 1 \in Int /\ m \in Int /\ \A i \in (o + 1)..m : s[i] \in Event
    BY <1>1, <1>3
  <2>2. /\ SubSeq(s, o + 1, m) \in Seq(Event)
        /\ Len(SubSeq(s, o + 1, m)) = IF o + 1 <= m THEN m - (o + 1) + 1 ELSE 0
        /\ \A k \in 1..(m - (o + 1) + 1) : SubSeq(s, o + 1, m)[k] = s[(o + 1) + k - 1]
    BY <2>1, SubSeqProperties
  <2>3. /\ p \in Seq(Event) /\ Len(p) = IF o + 1 <= m THEN m - o ELSE 0
        /\ \A k \in 1..(m - o) : p[k] = s[k + o]
    BY <1>2, <1>3, <2>2
  <2>4. DOMAIN p = 1..(m - o)
    BY <1>3, <2>3
  <2>5. QED
    BY <2>3, <2>4
<1>5. ASSUME NEW k \in 1..(m - o)
      PROVE  p[k] \in H /\ r(p[k]) = o + k - 1 /\ o + k - 1 < o + q.limit
  <2>1. k + o \in 1..n /\ p[k] = s[k + o] /\ (k + o) - 1 = o + k - 1
    BY <1>1, <1>3, <1>4
  <2>2. o + k - 1 < o + q.limit
    BY <1>3
  <2>3. QED
    BY <1>1, <2>1, <2>2
<1>6. ASSUME NEW e \in H, o <= r(e), r(e) < o + q.limit
      PROVE  \E k \in 1..(m - o) : p[k] = e
  <2>1. r(e) + 1 \in 1..n /\ s[r(e) + 1] = e
    BY <1>1
  <2>2. r(e) + 1 - o \in 1..(m - o) /\ (r(e) + 1 - o) + o = r(e) + 1
    BY <1>1, <1>3, <1>6, <2>1
  <2>3. QED
    BY <1>4, <2>1, <2>2
<1>7. QED
  BY <1>2, <1>4, <1>5, <1>6 DEF IsPage, H, n, r, o, p

(* An index that grows takes no hit away and moves hits only to the back.  *)
LEMMA MoreToFind ==
    ASSUME NEW d, NEW T \in SUBSET Event, NEW S \in SUBSET T
    PROVE  \A q : /\ Found(d, S, q) \subseteq Found(d, T, q)
                 /\ \A e : Rank(d, S, e, q) <= Rank(d, T, e, q)
                 /\ \A f : (\A g \in T \ S : MatchesIn(d, g, q) => ~PrecedesIn(d, g, f, q))
                          => Rank(d, S, f, q) = Rank(d, T, f, q)
<1> SUFFICES ASSUME NEW q
    PROVE  /\ Found(d, S, q) \subseteq Found(d, T, q)
           /\ \A e : Rank(d, S, e, q) <= Rank(d, T, e, q)
           /\ \A f : (\A g \in T \ S : MatchesIn(d, g, q) => ~PrecedesIn(d, g, f, q))
                    => Rank(d, S, f, q) = Rank(d, T, f, q)
  OBVIOUS
<1>1. Found(d, S, q) \subseteq Found(d, T, q)
  BY DEF Found
<1>2. ASSUME NEW e PROVE Rank(d, S, e, q) <= Rank(d, T, e, q)
  <2>1. Before(d, S, e, q) \in SUBSET Before(d, T, e, q)
    BY <1>1 DEF Before
  <2>2. IsFiniteSet(Before(d, T, e, q))
    BY FoundIsFinite
  <2>3. QED
    BY <2>1, <2>2, FS_Subset DEF Rank
<1>3. ASSUME NEW e, \A g \in T \ S : MatchesIn(d, g, q) => ~PrecedesIn(d, g, e, q)
      PROVE  Rank(d, S, e, q) = Rank(d, T, e, q)
  <2>1. Before(d, S, e, q) = Before(d, T, e, q)
    BY <1>3 DEF Before, Found
  <2>2. QED
    BY <2>1 DEF Rank
<1>4. QED
  BY <1>1, <1>2, <1>3

-------------------------------------------------------------------------------
(* The inductive invariant.  What was there when the walk began has been   *)
(* read, or is still to come: its rank is not below the offset of the next *)
(* page.  What has been read is the caller's; and while the walk is        *)
(* undisturbed it is in order, with ranks below that offset, so that the   *)
(* next page can only go on after it.                                      *)
(***************************************************************************)
Read(w, e) == \E i \in DOMAIN w.got : w.got[i] = e

Progress(d, S, w) ==
    w.phase \in {"walking", "failed"} =>
        \A e \in w.start : \/ Read(w, e)
                           \/ /\ e \in Found(d, S, QueryOf(w))
                              /\ QueryOf(w).offset <= Rank(d, S, e, QueryOf(w))

Complete(w) == w.phase = "done" => \A e \in w.start : Read(w, e)

Owned(d, w) ==
    \A i \in DOMAIN w.got :
        /\ d[w.got[i]].tenant_id = w.tenant_id
        /\ w.stream_id # NoStream => d[w.got[i]].stream_id = w.stream_id

Ordered(d, S, w) ==
    /\ w.phase = "idle" => w.got = <<>>
    /\ ~w.disturbed =>
          /\ \A i \in DOMAIN w.got :
                /\ w.got[i] \in Found(d, S, QueryOf(w))
                /\ Rank(d, S, w.got[i], QueryOf(w)) < QueryOf(w).offset
          /\ \A i, j \in DOMAIN w.got :
                i < j => PrecedesIn(d, w.got[i], w.got[j], QueryOf(w))

Good(d, S, w) == Progress(d, S, w) /\ Complete(w) /\ Owned(d, w) /\ Ordered(d, S, w)

IInv == TypeOK /\ Versioned(doc) /\ Good(doc, searchable, walk)

LEMMA QueryOfWalk ==
    \A w \in Walk : /\ QueryOf(w).offset \in Nat /\ QueryOf(w).limit \in 1..MaxLimit
                    /\ QueryOf(w).tenant_id = w.tenant_id
                    /\ QueryOf(w).stream_id = w.stream_id
<1> SUFFICES ASSUME NEW w \in Walk
    PROVE  /\ QueryOf(w).offset \in Nat /\ QueryOf(w).limit \in 1..MaxLimit
           /\ QueryOf(w).tenant_id = w.tenant_id
           /\ QueryOf(w).stream_id = w.stream_id
  OBVIOUS
<1>1. w.offset \in Int /\ w.limit \in Int
  <2>1. w.offset \in Nat \cup Offset /\ w.limit \in Limit
    BY DEF Walk
  <2>2. \A n \in Nat \cup Offset : n \in Int
    BY QueryAssumption
  <2>3. \A n \in Limit : n \in Int
    BY QueryAssumption
  <2>4. QED
    BY <2>1, <2>2, <2>3
<1>2. DefaultLimit \in 1..MaxLimit /\ MaxLimit \in Nat
  BY QueryAssumption
<1>3. parseIntParam(w.limit, DefaultLimit) \in Int
  BY <1>1, <1>2 DEF parseIntParam
<1>4. \A n \in Int : PageSize(n) \in 1..MaxLimit
  BY <1>2 DEF PageSize, Min2
<1>5. parseIntParam(w.offset, 0) \in Nat
  BY <1>1 DEF parseIntParam
<1>6. QED
  BY <1>3, <1>4, <1>5 DEF QueryOf

(* A refresh disturbs the walk, or puts nothing before what it has read.   *)
LEMMA RefreshKeepsGood ==
    ASSUME NEW d \in [Event -> Doc], NEW T \in SUBSET Event, NEW S \in SUBSET T,
           NEW w \in Walk, NEW v \in Walk, Good(d, S, w),
           /\ v.phase = w.phase /\ v.got = w.got /\ v.start = w.start
           /\ v.tenant_id = w.tenant_id /\ v.stream_id = w.stream_id
           /\ v.limit = w.limit /\ v.offset = w.offset,
           ~v.disturbed =>
               /\ ~w.disturbed
               /\ \A g \in T \ S : \A f \in Found(d, S, QueryOf(w)) :
                     MatchesIn(d, g, QueryOf(w)) => ~PrecedesIn(d, g, f, QueryOf(w))
    PROVE  Good(d, T, v)
<1> DEFINE q == QueryOf(w)
<1>1. QueryOf(v) = q
  BY DEF QueryOf
<1>2. q.offset \in Nat
  BY QueryOfWalk
<1> HIDE DEF q
<1>3. /\ Found(d, S, q) \subseteq Found(d, T, q)
      /\ \A e : Rank(d, S, e, q) <= Rank(d, T, e, q)
      /\ \A e : (\A g \in T \ S : MatchesIn(d, g, q) => ~PrecedesIn(d, g, e, q))
               => Rank(d, S, e, q) = Rank(d, T, e, q)
  BY MoreToFind
<1>4. \A e : Rank(d, S, e, q) \in Nat /\ Rank(d, T, e, q) \in Nat
  <2>1. S \in SUBSET Event
    OBVIOUS
  <2>2. QED
    BY <2>1, FoundIsFinite
<1>5. Progress(d, T, v)
  <2>1. ASSUME v.phase \in {"walking", "failed"}, NEW e \in v.start, ~Read(v, e)
        PROVE  e \in Found(d, T, q) /\ q.offset <= Rank(d, T, e, q)
    <3>1. e \in Found(d, S, q) /\ q.offset <= Rank(d, S, e, q)
      BY <2>1 DEF Good, Progress, Read, q
    <3>2. Rank(d, S, e, q) <= Rank(d, T, e, q)
      BY <1>3
    <3>3. QED
      BY <1>2, <1>3, <1>4, <3>1, <3>2
  <2>2. QED
    BY <1>1, <2>1 DEF Progress
<1>6. Complete(v) /\ Owned(d, v)
  BY DEF Good, Complete, Owned, Read
<1>7. Ordered(d, T, v)
  <2>1. ASSUME ~v.disturbed, NEW i \in DOMAIN v.got
        PROVE  v.got[i] \in Found(d, T, q) /\ Rank(d, T, v.got[i], q) < q.offset
    <3>1. v.got[i] \in Found(d, S, q) /\ Rank(d, S, v.got[i], q) < q.offset
      BY <2>1 DEF Good, Ordered, q
    <3>2. \A g \in T \ S : MatchesIn(d, g, q) => ~PrecedesIn(d, g, v.got[i], q)
      BY <2>1, <3>1 DEF q
    <3>3. QED
      BY <1>3, <3>1, <3>2
  <2>2. ASSUME ~v.disturbed, NEW i \in DOMAIN v.got, NEW j \in DOMAIN v.got, i < j
        PROVE  PrecedesIn(d, v.got[i], v.got[j], q)
    BY <2>2 DEF Good, Ordered, q
  <2>3. v.phase = "idle" => v.got = <<>>
    BY DEF Good, Ordered
  <2>4. QED
    BY <1>1, <2>1, <2>2, <2>3 DEF Ordered
<1>8. QED
  BY <1>5, <1>6, <1>7 DEF Good

(* A page appends what has a rank from its offset on.                      *)
LEMMA PageKeepsGood ==
    ASSUME NEW d \in [Event -> Doc], NEW S \in SUBSET Event,
           NEW w \in Walk, NEW v \in Walk, Good(d, S, w),
           w.phase \in {"walking", "failed"}, w.tenant_id # NoTenant,
           NEW q, q = QueryOf(w), NEW page, IsPage(d, S, q, page),
           /\ v.phase = (IF q.offset + q.limit < Total(d, S, q)
                         THEN "walking" ELSE "done")
           /\ v.offset = q.offset + q.limit /\ v.got = w.got \o page
           /\ v.tenant_id = w.tenant_id /\ v.stream_id = w.stream_id
           /\ v.limit = w.limit /\ v.start = w.start /\ v.disturbed = w.disturbed
    PROVE  Good(d, S, v)
<1> DEFINE m == Len(w.got)
           n == Len(page)
<1>1. /\ q.offset \in Nat /\ q.limit \in Nat /\ q.tenant_id = w.tenant_id
      /\ q.stream_id = w.stream_id
  BY QueryOfWalk, QueryAssumption
<1>2. /\ QueryOf(v).offset = q.offset + q.limit
      /\ QueryOf(v).tenant_id = q.tenant_id /\ QueryOf(v).stream_id = q.stream_id
  BY <1>1 DEF QueryOf, parseIntParam
<1>3. /\ Found(d, S, QueryOf(v)) = Found(d, S, q)
      /\ \A e : Rank(d, S, e, QueryOf(v)) = Rank(d, S, e, q)
      /\ \A e, f : PrecedesIn(d, e, f, QueryOf(v)) <=> PrecedesIn(d, e, f, q)
  <2>1. \A e : MatchesIn(d, e, QueryOf(v)) <=> MatchesIn(d, e, q)
    BY <1>2 DEF MatchesIn
  <2>2. \A e, f : PrecedesIn(d, e, f, QueryOf(v)) <=> PrecedesIn(d, e, f, q)
    BY <1>2 DEF PrecedesIn
  <2>3. Found(d, S, QueryOf(v)) = Found(d, S, q)
    BY <2>1 DEF Found
  <2>4. \A e : Before(d, S, e, QueryOf(v)) = Before(d, S, e, q)
    BY <2>2, <2>3 DEF Before
  <2>5. QED
    BY <2>2, <2>3, <2>4 DEF Rank
<1>4. w.got \in Seq(Event) /\ page \in Seq(Event)
  BY DEF Walk, IsPage
<1>5. /\ m \in Nat /\ n \in Nat /\ DOMAIN w.got = 1..m /\ DOMAIN page = 1..n
      /\ DOMAIN v.got = 1..(m + n)
      /\ \A i \in 1..m : v.got[i] = w.got[i]
      /\ \A i \in (m + 1)..(m + n) : i - m \in 1..n /\ v.got[i] = page[i - m]
      /\ \A k \in 1..n : m + k \in 1..(m + n) /\ v.got[m + k] = page[k]
  BY <1>4
<1>6. \A i \in 1..(m + n) : i \in 1..m \/ i \in (m + 1)..(m + n)
  BY <1>5
<1>7. RanksAreOrder(d, S, q)
  BY Ranks
<1>8. /\ Total(d, S, q) \in Nat
      /\ \A e \in Found(d, S, q) : /\ Rank(d, S, e, q) \in Nat
                                 /\ Rank(d, S, e, q) < Total(d, S, q)
      /\ \A e, f \in Found(d, S, q) :
            PrecedesIn(d, e, f, q) <=> Rank(d, S, e, q) < Rank(d, S, f, q)
  BY <1>7 DEF RanksAreOrder
<1>9. /\ \A k \in 1..n : /\ page[k] \in Found(d, S, q)
                       /\ Rank(d, S, page[k], q) = q.offset + k - 1
                       /\ q.offset + k - 1 < q.offset + q.limit
      /\ \A e \in Found(d, S, q) :
            /\ q.offset <= Rank(d, S, e, q)
            /\ Rank(d, S, e, q) < q.offset + q.limit
            => \E k \in 1..n : page[k] = e
  BY <1>5 DEF IsPage
<1> HIDE DEF m, n
<1>10. \A e : Read(w, e) => Read(v, e)
  BY <1>5 DEF Read
<1>11. ASSUME NEW e \in v.start, ~Read(v, e)
      PROVE  e \in Found(d, S, q) /\ q.offset + q.limit <= Rank(d, S, e, q)
  <2>1. e \in Found(d, S, q) /\ q.offset <= Rank(d, S, e, q)
    BY <1>10, <1>11 DEF Good, Progress
  <2>2. ~(Rank(d, S, e, q) < q.offset + q.limit)
    <3>1. ASSUME NEW k \in 1..n, page[k] = e PROVE FALSE
      BY <1>5, <1>11, <3>1 DEF Read
    <3>2. QED
      BY <1>9, <2>1, <3>1
  <2>3. Rank(d, S, e, q) \in Nat
    BY <1>8, <2>1
  <2>4. QED
    BY <1>1, <2>1, <2>2, <2>3
<1>12. Progress(d, S, v)
  BY <1>2, <1>3, <1>11 DEF Progress
<1>13. Complete(v)
  <2>1. ASSUME v.phase = "done", NEW e \in v.start, ~Read(v, e) PROVE FALSE
    <3>1. ~(q.offset + q.limit < Total(d, S, q))
      BY <2>1
    <3>2. e \in Found(d, S, q) /\ q.offset + q.limit <= Rank(d, S, e, q)
      BY <1>11, <2>1
    <3>3. Rank(d, S, e, q) \in Nat /\ Rank(d, S, e, q) < Total(d, S, q)
      BY <1>8, <3>2
    <3>4. QED
      BY <1>1, <1>8, <3>1, <3>2, <3>3
  <2>2. QED
    BY <2>1 DEF Complete
<1>14. Owned(d, v)
  <2>1. ASSUME NEW i \in DOMAIN v.got
        PROVE  /\ d[v.got[i]].tenant_id = v.tenant_id
               /\ v.stream_id # NoStream => d[v.got[i]].stream_id = v.stream_id
    <3>1. CASE i \in 1..m
      BY <1>5, <3>1 DEF Good, Owned
    <3>2. CASE i \in (m + 1)..(m + n)
      <4>1. v.got[i] \in Found(d, S, q)
        BY <1>9, <1>5, <3>2
      <4>2. QED
        BY <1>1, <4>1 DEF Found, MatchesIn
    <3>3. QED
      BY <1>5, <1>6, <3>1, <3>2
  <2>2. QED
    BY <2>1 DEF Owned
<1>15. Ordered(d, S, v)
  <2>1. SUFFICES ASSUME ~w.disturbed
        PROVE  /\ \A i \in DOMAIN v.got :
                     /\ v.got[i] \in Found(d, S, q)
                     /\ Rank(d, S, v.got[i], q) < q.offset + q.limit
               /\ \A i, j \in DOMAIN v.got :
                     i < j => PrecedesIn(d, v.got[i], v.got[j], q)
    BY <1>2, <1>3 DEF Ordered
  <2>2. ASSUME NEW i \in 1..m
        PROVE  /\ v.got[i] \in Found(d, S, q) /\ Rank(d, S, v.got[i], q) \in Nat
               /\ Rank(d, S, v.got[i], q) < q.offset
    <3>1. v.got[i] \in Found(d, S, q) /\ Rank(d, S, v.got[i], q) < q.offset
      BY <1>5, <2>1 DEF Good, Ordered
    <3>2. QED
      BY <1>8, <3>1
  <2>3. ASSUME NEW i \in (m + 1)..(m + n)
        PROVE  /\ v.got[i] \in Found(d, S, q) /\ i - m \in 1..n
               /\ Rank(d, S, v.got[i], q) = q.offset + (i - m) - 1
               /\ q.offset + (i - m) - 1 < q.offset + q.limit
    BY <1>9, <1>5
  <2>4. ASSUME NEW i \in DOMAIN v.got
        PROVE  /\ v.got[i] \in Found(d, S, q)
               /\ Rank(d, S, v.got[i], q) < q.offset + q.limit
    <3>1. CASE i \in 1..m
      BY <1>1, <2>2, <3>1
    <3>2. CASE i \in (m + 1)..(m + n)
      BY <2>3, <3>2
    <3>3. QED
      BY <1>5, <1>6, <3>1, <3>2
  <2>5. ASSUME NEW i \in DOMAIN v.got, NEW j \in DOMAIN v.got, i < j
        PROVE  PrecedesIn(d, v.got[i], v.got[j], q)
    <3>1. CASE j \in 1..m
      <4>1. i \in 1..m
        BY <1>5, <2>5, <3>1
      <4>2. PrecedesIn(d, w.got[i], w.got[j], q)
        BY <1>5, <2>1, <2>5, <3>1, <4>1 DEF Good, Ordered
      <4>3. QED
        BY <1>5, <3>1, <4>1, <4>2
    <3>2. CASE j \in (m + 1)..(m + n)
      <4> DEFINE ri == Rank(d, S, v.got[i], q)
                 rj == Rank(d, S, v.got[j], q)
                 o  == q.offset
      <4>1. rj = o + (j - m) - 1 /\ j - m \in 1..n /\ o \in Nat
        BY <1>1, <2>3, <3>2
      <4>2. i \in 1..m => ri \in Nat /\ ri < o
        BY <2>2
      <4>3. i \in (m + 1)..(m + n) => ri = o + (i - m) - 1
        BY <2>3
      <4> HIDE DEF ri, rj, o
      <4>4. i \in Int /\ j \in Int /\ m \in Int /\ n \in Int
        BY <1>5
      <4>5. ASSUME i \in 1..m PROVE ri < rj
        BY <4>1, <4>2, <4>4, <4>5
      <4>6. ASSUME i \in (m + 1)..(m + n) PROVE ri < rj
        BY <2>5, <4>1, <4>3, <4>4, <4>6
      <4>7. ri < rj
        BY <1>5, <1>6, <4>5, <4>6
      <4>8. QED
        BY <1>8, <2>4, <4>7 DEF ri, rj
    <3>3. QED
      BY <1>5, <1>6, <3>1, <3>2
  <2>6. QED
    BY <2>4, <2>5
<1>16. QED
  BY <1>12, <1>13, <1>14, <1>15 DEF Good

-------------------------------------------------------------------------------
LEMMA InitIInv == Init => IInv
<1> SUFFICES ASSUME Init PROVE IInv
  OBVIOUS
<1>1. walk.phase = "idle" /\ walk.got = <<>> /\ walk \in Walk
  <2>1. {0} \subseteq 0..MaxLimit /\ {<<>>} \subseteq Seq(Event)
        /\ {{}} \subseteq SUBSET Event
    BY QueryAssumption
  <2>2. walk.phase = "idle" /\ walk.got = <<>>
    BY DEF Init
  <2>3. walk \in Walk
    BY <2>1 DEF Init, Walk
  <2>4. QED
    BY <2>2, <2>3
<1>2. TypeOK /\ Versioned(doc)
  BY <1>1 DEF Init, TypeOK
<1>3. Good(doc, searchable, walk)
  BY <1>1 DEF Good, Progress, Complete, Owned, Ordered
<1>4. QED
  BY <1>2, <1>3 DEF IInv

LEMMA RefreshStep == IInv /\ Refresh => IInv'
<1> SUFFICES ASSUME IInv, Refresh PROVE IInv'
  OBVIOUS
<1> DEFINE q == QueryOf(walk)
<1>1. /\ doc \in [Event -> Doc] /\ indexed \in SUBSET Event
      /\ searchable \in SUBSET indexed /\ walk \in Walk
      /\ Versioned(doc) /\ Good(doc, searchable, walk)
  BY DEF IInv, TypeOK
<1>2. doc' = doc /\ indexed' = indexed /\ searchable' = indexed
  BY DEF Refresh
<1>3. PICK b \in BOOLEAN :
          /\ walk' = [walk EXCEPT !.disturbed = b]
          /\ ~b => /\ ~walk.disturbed
                   /\ \A e \in indexed \ searchable : \A f \in Hits(walk) :
                         ~(Matches(e, walk) /\ Precedes(e, f, walk))
  BY DEF Refresh
<1>4. /\ walk' \in Walk /\ walk'.disturbed = b
      /\ walk'.phase = walk.phase /\ walk'.got = walk.got /\ walk'.start = walk.start
      /\ walk'.tenant_id = walk.tenant_id /\ walk'.stream_id = walk.stream_id
      /\ walk'.limit = walk.limit /\ walk'.offset = walk.offset
  BY <1>1, <1>3 DEF Walk
<1>5. q.tenant_id = walk.tenant_id /\ q.stream_id = walk.stream_id
  BY DEF QueryOf
<1>6. /\ \A e : Matches(e, walk) <=> MatchesIn(doc, e, q)
      /\ \A e, f : Precedes(e, f, walk) <=> PrecedesIn(doc, e, f, q)
  BY <1>5 DEF Matches, MatchesIn, Precedes, PrecedesIn, Newer, Lower, DateKey, DateKeyIn
<1>7. Hits(walk) = Found(doc, searchable, q)
  BY <1>6 DEF Hits, Found
<1>8. ~walk'.disturbed =>
          /\ ~walk.disturbed
          /\ \A g \in indexed \ searchable : \A f \in Found(doc, searchable, q) :
                MatchesIn(doc, g, q) => ~PrecedesIn(doc, g, f, q)
  BY <1>3, <1>4, <1>6, <1>7
<1>9. Good(doc, indexed, walk')
  BY <1>1, <1>4, <1>8, RefreshKeepsGood
<1>10. QED
  BY <1>1, <1>2, <1>4, <1>9 DEF IInv, TypeOK

LEMMA StartWalkStep == IInv /\ StartWalk => IInv'
<1> SUFFICES ASSUME IInv, StartWalk PROVE IInv'
  OBVIOUS
<1> DEFINE q == QueryOf(walk)
           w == walk'
<1>1. /\ doc \in [Event -> Doc] /\ searchable \in SUBSET Event /\ walk \in Walk
      /\ Good(doc, searchable, walk)
  BY DEF IInv, TypeOK
<1>2. walk.got = <<>>
  BY <1>1 DEF StartWalk, Good, Ordered
<1>3. q.offset \in Nat
  BY <1>1, QueryOfWalk
<1>4. /\ Total(doc, searchable, q) \in Nat
      /\ Len(SortedHits(q)) = Total(doc, searchable, q)
      /\ \A i \in 1..Total(doc, searchable, q) :
            /\ SortedHits(q)[i] \in Found(doc, searchable, q)
            /\ Rank(doc, searchable, SortedHits(q)[i], q) = i - 1
  BY <1>1, SortedByRank
<1>5. ASSUME NEW e \in FromOffset(q)
      PROVE  e \in Found(doc, searchable, q) /\ q.offset <= Rank(doc, searchable, e, q)
  <2>1. PICK i \in q.offset + 1 .. Len(SortedHits(q)) : e = SortedHits(q)[i]
    BY DEF FromOffset
  <2>2. i \in 1..Total(doc, searchable, q) /\ q.offset <= i - 1
    BY <1>3, <1>4
  <2>3. QED
    BY <1>4, <2>1, <2>2
<1>6. FromOffset(q) \in SUBSET Event
  BY <1>1, <1>5 DEF Found
<1>7. /\ w \in Walk /\ w.phase = "walking" /\ w.start = FromOffset(q) /\ w.got = <<>>
      /\ QueryOf(w) = q
  BY <1>1, <1>2, <1>6 DEF StartWalk, Walk, QueryOf
<1>8. doc' = doc /\ searchable' = searchable /\ indexed' = indexed
  BY DEF StartWalk
<1>9. Good(doc, searchable, w)
  BY <1>5, <1>7 DEF Good, Progress, Complete, Owned, Ordered
<1>10. QED
  BY <1>7, <1>8, <1>9 DEF IInv, TypeOK

LEMMA NextPageStep == IInv /\ NextPage => IInv'
<1> SUFFICES ASSUME IInv, NextPage PROVE IInv'
  OBVIOUS
<1> DEFINE q    == QueryOf(walk)
           page == Search(q).events
           w    == walk'
<1>1. /\ doc \in [Event -> Doc] /\ searchable \in SUBSET Event /\ walk \in Walk
      /\ Good(doc, searchable, walk)
  BY DEF IInv, TypeOK
<1>2. /\ q.offset \in Nat /\ q.limit \in 1..MaxLimit /\ q.limit \in Nat
      /\ q.tenant_id = walk.tenant_id
  BY <1>1, QueryOfWalk, QueryAssumption
<1>3. /\ Search(q).total = Total(doc, searchable, q)
      /\ IsPage(doc, searchable, q, page)
  BY <1>1, <1>2, PageByRank
<1>4. walk.phase \in {"walking", "failed"} /\ walk.tenant_id # NoTenant
  BY <1>2 DEF NextPage, Refused
<1>5. walk' = [walk EXCEPT
          !.phase  = IF q.offset + q.limit < Total(doc, searchable, q)
                     THEN "walking" ELSE "done",
          !.size   = q.limit,
          !.offset = q.offset + q.limit,
          !.got    = @ \o page]
  BY <1>3 DEF NextPage
<1>6. page \in Seq(Event)
  BY <1>3 DEF IsPage
<1> HIDE DEF page
<1>7. /\ w \in Walk
      /\ w.phase = (IF q.offset + q.limit < Total(doc, searchable, q)
                    THEN "walking" ELSE "done")
      /\ w.offset = q.offset + q.limit /\ w.got = walk.got \o page
      /\ w.tenant_id = walk.tenant_id /\ w.stream_id = walk.stream_id
      /\ w.limit = walk.limit /\ w.start = walk.start /\ w.disturbed = walk.disturbed
  <2> DEFINE phase  == IF q.offset + q.limit < Total(doc, searchable, q)
                       THEN "walking" ELSE "done"
             offset == q.offset + q.limit
             got    == walk.got \o page
             size   == q.limit
  <2>1. /\ phase \in {"walking", "done"} /\ offset \in Nat /\ got \in Seq(Event)
        /\ size \in 0..MaxLimit
    BY <1>1, <1>2, <1>6 DEF Walk
  <2>2. w = [walk EXCEPT !.phase = phase, !.size = size, !.offset = offset, !.got = got]
    BY <1>5
  <2> HIDE DEF phase, offset, got, size
  <2>3. /\ w \in Walk /\ w.phase = phase /\ w.offset = offset /\ w.got = got
        /\ w.tenant_id = walk.tenant_id /\ w.stream_id = walk.stream_id
        /\ w.limit = walk.limit /\ w.start = walk.start /\ w.disturbed = walk.disturbed
    BY <1>1, <2>1, <2>2 DEF Walk
  <2>4. QED
    BY <2>3 DEF phase, offset, got
<1>8. Good(doc, searchable, w)
  BY <1>1, <1>3, <1>4, <1>7, PageKeepsGood
<1>9. doc' = doc /\ searchable' = searchable /\ indexed' = indexed
  BY DEF NextPage
<1>10. QED
  BY <1>7, <1>8, <1>9 DEF IInv, TypeOK

LEMMA PageFailsStep == IInv /\ PageFails => IInv'
<1> SUFFICES ASSUME IInv, PageFails PROVE IInv'
  OBVIOUS
<1> DEFINE w == walk'
<1>1. /\ walk \in Walk /\ Good(doc, searchable, walk) /\ walk.phase = "walking"
  BY DEF IInv, TypeOK, PageFails
<1>2. /\ w \in Walk /\ w.phase = "failed" /\ QueryOf(w) = QueryOf(walk)
      /\ w.got = walk.got /\ w.start = walk.start /\ w.disturbed = walk.disturbed
      /\ w.tenant_id = walk.tenant_id /\ w.stream_id = walk.stream_id
  BY <1>1 DEF PageFails, Walk, QueryOf
<1>3. Good(doc, searchable, w)
  BY <1>1, <1>2 DEF Good, Progress, Complete, Owned, Ordered, Read
<1>4. doc' = doc /\ searchable' = searchable /\ indexed' = indexed
  BY DEF PageFails
<1>5. QED
  BY <1>2, <1>3, <1>4 DEF IInv, TypeOK

LEMMA NextIInv == IInv /\ [Next]_vars => IInv'
<1> SUFFICES ASSUME IInv, [Next]_vars PROVE IInv'
  OBVIOUS
<1>1. ASSUME NEW e \in Event, Index(e) PROVE IInv'
  BY <1>1 DEF Index, IInv, TypeOK
<1>2. CASE UNCHANGED vars
  BY <1>2 DEF vars, IInv, TypeOK
<1>3. QED
  BY <1>1, <1>2, RefreshStep, StartWalkStep, NextPageStep, PageFailsStep DEF Next

LEMMA InductiveInvariant == Spec => []IInv
<1>1. Init => IInv
  BY InitIInv
<1>2. IInv /\ [Next]_vars => IInv'
  BY NextIInv
<1>3. QED
  BY <1>1, <1>2, PTL DEF Spec

-------------------------------------------------------------------------------
(* Every variable keeps its type, and no page exceeds MaxLimit.            *)
THEOREM TypeCorrect == Spec => []TypeOK
BY InductiveInvariant, PTL DEF IInv

(* A walk that is done has read all that was there when it began.          *)
THEOREM WalksAreComplete == Spec => []WalkIsComplete
<1>1. IInv => WalkIsComplete
  BY DEF IInv, Good, Complete, Read, WalkIsComplete, Got
<1>2. QED
  BY <1>1, InductiveInvariant, PTL

(* The pages hold the events of the caller's tenant and stream only.       *)
THEOREM EventsAreOwn == Spec => []OnlyOwnEvents
<1>1. IInv => OnlyOwnEvents
  BY DEF IInv, Good, Owned, OnlyOwnEvents, Got
<1>2. QED
  BY <1>1, InductiveInvariant, PTL

(* In a stream no two documents have one version: as many versions as      *)
(* documents leave none for a second.                                      *)
LEMMA VersionsDiffer ==
    ASSUME NEW d, Versioned(d), NEW s \in Stream,
           NEW e \in Event, NEW f \in Event,
           d[e].stream_id = s, d[f].stream_id = s, e # f
    PROVE  d[e].version # d[f].version
<1> DEFINE es == {x \in Event : d[x].stream_id = s}
           vs == 1..Cardinality(es)
           g  == [x \in es |-> d[x].version]
<1>1. IsFiniteSet(es) /\ Cardinality(es) \in Nat
  BY QueryAssumption, FS_Subset, FS_CardinalityType
<1>2. {d[x].version : x \in es} = vs
  BY DEF Versioned
<1>3. Cardinality(es) = Cardinality(vs)
  <2>1. 1 \in Int /\ Cardinality(es) \in Int
    BY <1>1
  <2>2. Cardinality(vs) = IF 1 > Cardinality(es) THEN 0 ELSE Cardinality(es) - 1 + 1
    BY <2>1, FS_Interval
  <2>3. QED
    BY <1>1, <2>2
<1> HIDE DEF vs
<1>4. g \in Surjection(es, vs)
  BY <1>2 DEF Surjection
<1>5. g \in Injection(es, vs)
  BY <1>1, <1>3, <1>4, FS_SurjSameCardinalityImpliesInj
<1>6. e \in es /\ f \in es /\ g[e] # g[f]
  BY <1>5 DEF Injection, IsInjective
<1>7. QED
  BY <1>6

(* An undisturbed walk has the order of its route, without repetition.     *)
THEOREM UndisturbedWalksAreExact == Spec => []UndisturbedWalkIsExact
<1>1. IInv => UndisturbedWalkIsExact
  <2> SUFFICES ASSUME IInv, ~walk.disturbed,
                      NEW i \in DOMAIN walk.got, NEW j \in DOMAIN walk.got, i < j
               PROVE  /\ walk.got[i] # walk.got[j]
                      /\ IF walk.stream_id = NoStream
                         THEN doc[walk.got[j]].occurred_at - doc[walk.got[i]].occurred_at < Milli
                         ELSE doc[walk.got[i]].version < doc[walk.got[j]].version
    BY DEF UndisturbedWalkIsExact
  <2> DEFINE e == walk.got[i]
             f == walk.got[j]
             q == QueryOf(walk)
  <2>1. /\ doc \in [Event -> Doc] /\ walk \in Walk /\ searchable \in SUBSET Event
        /\ Versioned(doc)
    BY DEF IInv, TypeOK
  <2>2. /\ e \in Found(doc, searchable, q) /\ f \in Found(doc, searchable, q)
        /\ PrecedesIn(doc, e, f, q) /\ q.stream_id = walk.stream_id
    BY DEF IInv, Good, Ordered, QueryOf
  <2> HIDE DEF e, f
  <2>3. e \in Event /\ f \in Event
    BY <2>1, <2>2 DEF Found
  <2>4. e # f
    BY <2>1, <2>2, <2>3, TotalOrder
  <2>5. /\ doc[e].occurred_at \in Nat /\ doc[f].occurred_at \in Nat
        /\ doc[e].version \in Nat /\ doc[f].version \in Nat
    BY <2>1, <2>3, DocTyped
  <2>6. CASE walk.stream_id = NoStream
    <3>1. DateKeyIn(doc, e) >= DateKeyIn(doc, f)
      BY <2>1, <2>2, <2>3, <2>6, DocTyped DEF PrecedesIn
    <3>2. QED
      BY <2>4, <2>5, <2>6, <3>1, KeysAreMillis DEF DateKeyIn, e, f
  <2>7. CASE walk.stream_id # NoStream
    <3>1. /\ doc[e].stream_id = walk.stream_id /\ doc[f].stream_id = walk.stream_id
          /\ walk.stream_id \in Stream
      BY <2>1, <2>2, <2>7 DEF Found, MatchesIn, Walk
    <3>2. doc[e].version # doc[f].version
      BY <2>1, <2>3, <2>4, <3>1, VersionsDiffer
    <3>3. QED
      BY <2>2, <2>4, <2>5, <2>7, <3>2 DEF PrecedesIn, e, f
  <2>8. QED
    BY <2>6, <2>7
<1>2. QED
  BY <1>1, InductiveInvariant, PTL
===============================================================================
