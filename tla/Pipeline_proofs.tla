--------------------------- MODULE Pipeline_proofs ---------------------------
(***************************************************************************)
(* Proofs about Pipeline, for every size of the world and every window.    *)
(*                                                                         *)
(* What a job decides passes through sorts, deduplications, an index and a *)
(* row per conversion, all over sequences that may hold a message twice.   *)
(* The first half of the module takes the sequences away: the producer's   *)
(* logs hold the rows of the world in some order (WorldOK), and a run over *)
(* them decides DecidedRows, a function of the sets of rows read, whatever *)
(* the order, the re-sent messages and ENGINE_DEDUP (RunIsDecided).        *)
(*                                                                         *)
(* The second half is an invariant in two parts.  Inv holds always: every  *)
(* row of the lake and of the run under way is a decision over exposures   *)
(* that have landed, or a correction of one (RowOK).  That is what sums,   *)
(* joins and the pass by buckets need, whichever reading of the current    *)
(* rows they get.  EarlyInv says what holds while no run was started early:*)
(* hot rows are those of the offline replay, a correction stands beside    *)
(* what it corrects, and every landed run is whole.  Decisions, recovery   *)
(* and accuracy follow from it.                                            *)
(***************************************************************************)
EXTENDS Pipeline, FiniteSetTheorems, SequenceTheorems, WellFoundedInduction, TLAPS

----------------------------------------------------------------------------
(* Least, greatest and last members.                                        *)

\* A non-empty set of numbers has a least one.
LEMMA HasLeast ==
    ASSUME NEW S \in SUBSET Nat, S # {}
    PROVE  \E m \in S : \A n \in S : m <= n
  <1> DEFINE Below == {pair \in Nat \X Nat : pair[1] < pair[2]}
  <1>1. IsWellFoundedOn(Below, Nat)
    BY NatLessThanWellFounded, Zenon DEF OpToRel
  <1>2. PICK d \in S : \A e \in S : ~(<<e, d>> \in Below)
    <2> HIDE DEF Below
    <2> QED
      BY <1>1, WFMin
  <1>3. ASSUME NEW e \in S  PROVE d <= e
    <2>1. d \in Nat /\ e \in Nat
      OBVIOUS
    <2>2. e < d => <<e, d>> \in Below
      BY <2>1
    <2>3. ~(e < d)
      BY <1>2, <2>2
    <2> QED
      BY <2>1, <2>3
  <1> QED
    BY <1>3

\* A finite one has a greatest: its least cofinal subset has one member.
LEMMA HasGreatest ==
    ASSUME NEW S \in SUBSET Nat, IsFiniteSet(S), S # {}
    PROVE  \E m \in S : \A n \in S : n <= m
  <1> DEFINE Cofinal == {T \in SUBSET S : \A n \in S : \E m \in T : n <= m}
  <1>1. S \in Cofinal
    OBVIOUS
  <1>2. Cofinal \subseteq FiniteSubsetsOf(S)
    BY FS_FiniteSubsetsOfFinite
  <1>3. PICK T \in Cofinal : \A U \in Cofinal : ~(<<U, T>> \in StrictSubsetOrdering(S))
    <2> HIDE DEF Cofinal
    <2> QED
      BY <1>1, <1>2, FS_StrictSubsetOrderingWellFounded, WFMin
  <1>4. T \subseteq S /\ \A n \in S : \E m \in T : n <= m
    OBVIOUS
  <1>5. PICK m \in T : TRUE
    BY <1>4
  <1>6. ASSUME NEW a \in T, NEW b \in T, a < b  PROVE FALSE
    <2>1. T \ {a} \in Cofinal
      <3>1. ASSUME NEW n \in S  PROVE \E k \in T \ {a} : n <= k
        <4>1. PICK k \in T : n <= k
          BY <1>4
        <4>2. CASE k # a
          BY <4>1, <4>2
        <4>3. CASE k = a
          <5>1. n <= b /\ b \in T \ {a}
            BY <1>4, <1>6, <4>1, <4>3
          <5> QED
            BY <5>1
        <4> QED
          BY <4>2, <4>3
      <3> QED
        BY <1>4, <3>1
    <2> HIDE DEF Cofinal
    <2>2. <<T \ {a}, T>> \in StrictSubsetOrdering(S)
      BY <1>4, <1>6 DEF StrictSubsetOrdering
    <2> QED
      BY <1>3, <2>1, <2>2
  <1>7. \A n \in S : n <= m
    <2> SUFFICES ASSUME NEW n \in S  PROVE n <= m
      OBVIOUS
    <2>1. PICK k \in T : n <= k
      BY <1>4
    <2>2. ~(m < k)
      BY <1>6
    <2> QED
      BY <1>4, <2>1, <2>2
  <1> QED
    BY <1>4, <1>7

\* The image of a finite set is finite.
LEMMA FiniteImage ==
    ASSUME NEW S, IsFiniteSet(S), NEW f, DOMAIN f = S
    PROVE  IsFiniteSet({f[x] : x \in S})
  <1> DEFINE T == {f[x] : x \in S}
             g == [x \in S |-> f[x]]
  <1>1. g \in Surjection(S, T)
    BY DEF Surjection
  <1> QED
    BY <1>1, FS_Surjection

\* A finite set ordered by two numbers has a last member.
LEMMA HasLast ==
    ASSUME NEW S, IsFiniteSet(S), S # {}, NEW f \in [S -> Nat], NEW g \in [S -> Nat]
    PROVE  \E m \in S : \A x \in S : f[x] < f[m] \/ (f[x] = f[m] /\ g[x] <= g[m])
  <1>1. PICK a \in {f[x] : x \in S} : \A n \in {f[x] : x \in S} : n <= a
    <2>1. IsFiniteSet({f[x] : x \in S})
      BY FiniteImage
    <2> QED
      BY <2>1, HasGreatest
  <1> DEFINE U == {x \in S : f[x] = a}
  <1>2. IsFiniteSet(U) /\ U # {}
    BY <1>1, FS_Subset
  <1>3. PICK m \in U : \A x \in U : g[x] <= g[m]
    <2> DEFINE h == [x \in U |-> g[x]]
    <2>1. IsFiniteSet({h[x] : x \in U})
      BY <1>2, FiniteImage
    <2>2. {h[x] : x \in U} \in SUBSET Nat /\ {h[x] : x \in U} # {}
      BY <1>2
    <2>3. PICK n \in {h[x] : x \in U} : \A k \in {h[x] : x \in U} : k <= n
      <3> HIDE DEF h
      <3> QED
        BY <2>1, <2>2, HasGreatest
    <2> QED
      BY <2>3
  <1>4. ASSUME NEW x \in S  PROVE f[x] < f[m] \/ (f[x] = f[m] /\ g[x] <= g[m])
    <2>1. f[x] <= a /\ a = f[m] /\ f[x] \in Nat /\ a \in Nat
      BY <1>1, <1>3
    <2>2. f[x] = a => g[x] <= g[m]
      BY <1>3
    <2>3. f[x] < f[m] \/ f[x] = a
      BY <2>1
    <2> QED
      BY <2>1, <2>2, <2>3
  <1> QED
    BY <1>3, <1>4

----------------------------------------------------------------------------
(* The latest touch.                                                        *)

\* Exposures as the leaf reads them.
Touchable(rows) ==
    IsFiniteSet(rows) /\ \A e \in rows : e.event_time \in Nat /\ e.exposure_id \in Nat

\* The latest touch of some exposures is one of them, and none comes after it.
LEMMA LatestTouchIsLast ==
    ASSUME NEW rows, Touchable(rows), rows # {}
    PROVE  /\ LatestTouch(rows) \in rows
           /\ \A e \in rows : ~TouchedBefore(LatestTouch(rows), e)
  <1> DEFINE f == [e \in rows |-> e.event_time]
             g == [e \in rows |-> e.exposure_id]
  <1>1. PICK m \in rows : \A e \in rows : f[e] < f[m] \/ (f[e] = f[m] /\ g[e] <= g[m])
    <2>1. f \in [rows -> Nat] /\ g \in [rows -> Nat] /\ IsFiniteSet(rows)
      BY DEF Touchable
    <2> HIDE DEF f, g
    <2> QED
      BY <2>1, HasLast
  <1>2. \A e \in rows : ~TouchedBefore(m, e)
    BY <1>1 DEF Touchable, TouchedBefore
  <1> QED
    BY <1>2 DEF LatestTouch

\* Two exposures that nothing follows have the same id.
LEMMA LastAgree ==
    ASSUME NEW rows, Touchable(rows), NEW t \in rows, NEW u \in rows,
           \A e \in rows : ~TouchedBefore(t, e), \A e \in rows : ~TouchedBefore(u, e)
    PROVE  t.exposure_id = u.exposure_id
  BY DEF Touchable, TouchedBefore

----------------------------------------------------------------------------
(* The producer: what every world is.                                       *)

\* Events that a topic can be sorted by.
Sortable(S, id) ==
    /\ IsFiniteSet(S)
    /\ \A a \in S : a.ingest_time \in Nat /\ a[id] \in Nat
    /\ \A a, b \in S : a[id] = b[id] => a = b

InOrder(s, id) == \A i, j \in DOMAIN s : i < j => ArrivesBefore(s[i], s[j], id)

\* Any finite set of events can be put in order.
LEMMA CanBeOrdered ==
    ASSUME NEW S, NEW id, Sortable(S, id)
    PROVE  \E s \in [1..Cardinality(S) -> S] : InOrder(s, id)
  <1> DEFINE Unordered == {R \in SUBSET S : ~\E s \in [1..Cardinality(R) -> R] : InOrder(s, id)}
  <1>1. ASSUME Unordered # {}  PROVE FALSE
    <2>1. Unordered \subseteq FiniteSubsetsOf(S)
      BY FS_FiniteSubsetsOfFinite DEF Sortable
    <2>2. PICK R \in Unordered : \A U \in Unordered : ~(<<U, R>> \in StrictSubsetOrdering(S))
      <3> HIDE DEF Unordered
      <3> QED
        BY <1>1, <2>1, FS_StrictSubsetOrderingWellFounded, WFMin
    <2>3. R \in SUBSET S /\ IsFiniteSet(R) /\ Cardinality(R) \in Nat
      BY FS_Subset, FS_CardinalityType DEF Sortable
    <2>0. ~\E s \in [1..Cardinality(R) -> R] : InOrder(s, id)
      OBVIOUS
    <2> HIDE DEF Unordered
    <2>4. R # {}
      <3>1. SUFFICES ASSUME R = {}  PROVE FALSE
        OBVIOUS
      <3>2. Cardinality(R) = 0
        BY <3>1, FS_EmptySet
      <3>3. [i \in 1..0 |-> i] \in [1..Cardinality(R) -> R]
        BY <3>1, <3>2
      <3>4. InOrder([i \in 1..0 |-> i], id)
        BY DEF InOrder
      <3> QED
        BY <2>0, <3>3, <3>4
    <2>5. PICK m \in R : \A e \in R : \/ e.ingest_time < m.ingest_time
                                      \/ e.ingest_time = m.ingest_time /\ e[id] <= m[id]
      <3> DEFINE f == [e \in R |-> e.ingest_time]
                 g == [e \in R |-> e[id]]
      <3>1. f \in [R -> Nat] /\ g \in [R -> Nat]
        BY <2>3 DEF Sortable
      <3>2. PICK m \in R : \A e \in R : f[e] < f[m] \/ (f[e] = f[m] /\ g[e] <= g[m])
        <4> HIDE DEF f, g
        <4> QED
          BY <2>3, <2>4, <3>1, HasLast
      <3> QED
        BY <3>2
    <2> DEFINE Q == R \ {m}
    <2>6. /\ Q \in SUBSET S /\ Q # R /\ Cardinality(Q) = Cardinality(R) - 1
          /\ Cardinality(R) - 1 \in Nat
      <3>1. Cardinality(R) # 0
        BY <2>3, <2>4, FS_EmptySet
      <3>2. Cardinality(R \ {m}) = Cardinality(R) - 1
        BY <2>3, FS_RemoveElement
      <3> QED
        BY <2>3, <3>1, <3>2
    <2>7. Q \notin Unordered
      <3> HIDE DEF Q
      <3>1. Q \subseteq R
        BY DEF Q
      <3> QED
        BY <2>2, <2>3, <2>6, <3>1 DEF StrictSubsetOrdering
    <2>8. PICK t \in [1..Cardinality(Q) -> Q] : InOrder(t, id)
      BY <2>6, <2>7 DEF Unordered
    <2> DEFINE n == Cardinality(R)
               s == [i \in 1..n |-> IF i = n THEN m ELSE t[i]]
    <2> HIDE DEF n
    <2>9. n \in Nat \ {0} /\ t \in [1..n - 1 -> Q]
      <3>1. Cardinality(R) # 0
        BY <2>3, <2>4, FS_EmptySet
      <3> HIDE DEF Q
      <3> QED
        BY <2>3, <2>6, <2>8, <3>1 DEF n
    <2>10. s \in [1..n -> R]
      <3>1. ASSUME NEW i \in 1..n  PROVE (IF i = n THEN m ELSE t[i]) \in R
        <4>1. i # n => i \in 1..n - 1
          BY <2>9
        <4> QED
          BY <2>9, <4>1
      <3> QED
        BY <3>1
    <2>11. InOrder(s, id)
      <3>1. ASSUME NEW i \in 1..n, NEW j \in 1..n, i < j
            PROVE  ArrivesBefore(s[i], s[j], id)
        <4>1. i \in 1..n - 1 /\ s[i] = t[i] /\ t[i] \in Q
          <5>1. i \in 1..n - 1 /\ i # n
            BY <2>9, <3>1
          <5> QED
            BY <2>9, <3>1, <5>1
        <4>2. CASE j = n
          <5>1. s[j] = m
            BY <4>2, <2>9
          <5>2. t[i] # m /\ t[i] \in S /\ m \in S
            BY <2>3, <4>1
          <5>3. t[i][id] # m[id] /\ t[i][id] \in Nat /\ m[id] \in Nat
            BY <5>2 DEF Sortable
          <5> QED
            BY <2>5, <4>1, <5>1, <5>3 DEF ArrivesBefore
        <4>3. CASE j # n
          <5>1. j \in 1..n - 1 /\ s[j] = t[j]
            BY <4>3, <2>9
          <5> QED
            BY <2>8, <2>9, <3>1, <4>1, <5>1 DEF InOrder
        <4> QED
          BY <4>2, <4>3
      <3> QED
        BY <3>1 DEF InOrder
    <2> QED
      BY <2>0, <2>10, <2>11 DEF n
  <1>2. S \notin Unordered
    BY <1>1
  <1> QED
    BY <1>2

\* A topic holds some events, each of them at least once.
Holds(s, S) == s \in Seq(S) /\ S = {s[i] : i \in 1..Len(s)}

\* The events in arrival order are the events.
LEMMA OrderHolds ==
    ASSUME NEW S, NEW id, Sortable(S, id)
    PROVE  Holds(arrival_order(S, id), S)
  <1> DEFINE s == arrival_order(S, id)
             n == Cardinality(S)
  <1>1. n \in Nat /\ IsFiniteSet(S)
    BY FS_CardinalityType DEF Sortable
  <1>2. s \in [1..n -> S] /\ InOrder(s, id)
    BY CanBeOrdered DEF arrival_order, InOrder
  <1>3. s \in Injection(1..n, S)
    <2>1. ASSUME NEW i \in 1..n, NEW j \in 1..n, i < j  PROVE s[i] # s[j]
      BY <1>2, <2>1 DEF InOrder, ArrivesBefore, Sortable
    <2>2. ASSUME NEW i \in 1..n, NEW j \in 1..n, s[i] = s[j]  PROVE i = j
      BY <1>1, <2>1, <2>2
    <2> HIDE DEF s, n
    <2> QED
      BY <1>2, <2>2 DEF Injection, IsInjective
  <1>4. s \in Surjection(1..n, S)
    <2>1. IsFiniteSet(1..n) /\ Cardinality(1..n) = n
      BY <1>1, FS_Interval
    <2> HIDE DEF s, n
    <2>2. Cardinality(1..n) = Cardinality(S)
      BY <2>1 DEF n
    <2> QED
      BY <1>1, <1>3, <2>2, FS_Injection
  <1>5. s \in Seq(S) /\ Len(s) = n
    <2> HIDE DEF s, n
    <2> QED
      BY <1>1, <1>2
  <1>6. S = {s[i] : i \in 1..n}
    <2> HIDE DEF s, n
    <2> QED
      BY <1>2, <1>4 DEF Surjection
  <1> QED
    BY <1>5, <1>6 DEF Holds

\* An event sent again is one of the events.
LEMMA InsertHolds ==
    ASSUME NEW S, NEW s, Holds(s, S), NEW e \in S, NEW k \in 1..Len(s)
    PROVE  Holds(InsertAt(s, k + 1, e), S)
  <1> DEFINE a == SubSeq(s, 1, k)
             b == SubSeq(s, k + 1, Len(s))
  <1>1. s \in Seq(S) /\ Len(s) \in Nat /\ \A i \in 1..Len(s) : s[i] \in S
    BY DEF Holds
  <1>2. a \in Seq(S) /\ Len(a) = k /\ \A i \in 1..k : a[i] = s[i]
    BY <1>1, SubSeqProperties
  <1>3. b \in Seq(S) /\ Len(b) = Len(s) - k /\ \A i \in 1..Len(s) - k : b[i] = s[k + i]
    <2>1. /\ b \in Seq(S)
          /\ Len(b) = (IF k + 1 <= Len(s) THEN Len(s) - (k + 1) + 1 ELSE 0)
          /\ \A i \in 1..Len(s) - (k + 1) + 1 : b[i] = s[(k + 1) + i - 1]
      BY <1>1, SubSeqProperties
    <2> HIDE DEF b
    <2> QED
      BY <1>1, <2>1
  <1> DEFINE u == a \o <<e>>
             t == u \o b
  <1> HIDE DEF a, b
  <1>4. u \in Seq(S) /\ Len(u) = k + 1 /\ (\A i \in 1..k : u[i] = s[i]) /\ u[k + 1] = e
    <2>1. <<e>> \in Seq(S) /\ Len(<<e>>) = 1
      OBVIOUS
    <2>2. /\ u \in Seq(S) /\ Len(u) = Len(a) + Len(<<e>>)
          /\ \A i \in 1..Len(a) + Len(<<e>>) :
                u[i] = IF i <= Len(a) THEN a[i] ELSE <<e>>[i - Len(a)]
      BY <1>2, <2>1, ConcatProperties
    <2> HIDE DEF u
    <2> QED
      BY <1>2, <2>1, <2>2
  <1>5. /\ t \in Seq(S) /\ Len(t) = Len(s) + 1
        /\ \A i \in 1..k : t[i] = s[i]
        /\ \A i \in 1..Len(s) - k : t[k + 1 + i] = s[k + i]
    <2> HIDE DEF u
    <2>1. /\ t \in Seq(S) /\ Len(t) = Len(u) + Len(b)
          /\ \A i \in 1..Len(u) + Len(b) :
                t[i] = IF i <= Len(u) THEN u[i] ELSE b[i - Len(u)]
      BY <1>3, <1>4, ConcatProperties
    <2> HIDE DEF t
    <2>2. ASSUME NEW i \in 1..Len(s) - k  PROVE t[k + 1 + i] = s[k + i]
      <3>1. k + 1 + i \in 1..Len(u) + Len(b) /\ ~(k + 1 + i <= Len(u))
            /\ (k + 1 + i) - Len(u) = i
        BY <1>1, <1>3, <1>4
      <3> QED
        BY <1>3, <2>1, <3>1
    <2>3. ASSUME NEW i \in 1..k  PROVE t[i] = s[i]
      <3>1. i \in 1..Len(u) + Len(b) /\ i <= Len(u)
        BY <1>1, <1>3, <1>4
      <3> QED
        BY <1>4, <2>1, <3>1
    <2>4. Len(t) = Len(s) + 1
      BY <1>1, <1>3, <1>4, <2>1
    <2> QED
      BY <2>1, <2>2, <2>3, <2>4
  <1>7. InsertAt(s, k + 1, e) = t
    <2>1. (k + 1) - 1 = k
      BY <1>1
    <2> QED
      BY <2>1 DEF InsertAt, a, b
  <1> HIDE DEF t
  <1>8. ASSUME NEW x \in S  PROVE \E i \in 1..Len(t) : t[i] = x
    <2>1. PICK i \in 1..Len(s) : s[i] = x
      BY DEF Holds
    <2>2. CASE i <= k
      BY <1>1, <1>5, <2>1, <2>2
    <2>3. CASE i > k
      <3>1. i - k \in 1..Len(s) - k /\ k + (i - k) = i /\ k + 1 + (i - k) \in 1..Len(t)
        BY <1>1, <1>5, <2>3
      <3> QED
        BY <1>5, <2>1, <3>1
    <2> QED
      BY <1>1, <2>2, <2>3
  <1>9. \A i \in 1..Len(t) : t[i] \in S
    BY <1>5
  <1> QED
    BY <1>5, <1>7, <1>8, <1>9 DEF Holds

\* A log with re-sent messages holds the rows of the log without.
LEMMA ResentHolds ==
    ASSUME NEW events, NEW id, Sortable({events[i] : i \in DOMAIN events}, id),
           NEW s \in with_duplicates(events, id)
    PROVE  Holds(s, {events[i] : i \in DOMAIN events})
  <1> DEFINE S == {events[i] : i \in DOMAIN events}
             sorted == arrival_order(S, id)
  <1>1. Holds(sorted, S)
    BY OrderHolds
  <1>2. s = sorted \/ \E p \in (DOMAIN sorted) \X (DOMAIN sorted) :
                         s = InsertAt(sorted, p[2] + 1, sorted[p[1]])
    BY DEF with_duplicates
  <1> HIDE DEF sorted, S
  <1>3. DOMAIN sorted = 1..Len(sorted) /\ \A i \in 1..Len(sorted) : sorted[i] \in S
    BY <1>1 DEF Holds
  <1>4. ASSUME NEW i \in 1..Len(sorted), NEW k \in 1..Len(sorted)
        PROVE  Holds(InsertAt(sorted, k + 1, sorted[i]), S)
    BY <1>1, <1>3, InsertHolds
  <1>5. Holds(s, S)
    BY <1>1, <1>2, <1>3, <1>4
  <1> QED
    BY <1>5 DEF S

ExposureRows == [exposure_id : Nat, household_id : HouseholdIds, event_time : Nat,
                 ingest_time : Nat, program_genre : {"news", "sports"}]

HouseholdRows == [household_id : HouseholdIds, devices : SUBSET Nat,
                  ips : SUBSET (0..NHouseholds)]

ConversionRows == [conversion_id : Nat, event_time : Nat, ingest_time : Nat,
                   device_id : Nat, ip : Nat]

\* Rows of a finite topic, told apart by id.
RowsById(S, rows, id) ==
    /\ IsFiniteSet(S) /\ S \subseteq rows
    /\ \A a, b \in S : a[id] = b[id] => a = b

\* A device graph, or what a drain has read of it.
IsGraph(g) ==
    /\ g \in Seq(HouseholdRows) /\ Len(g) \in 0..NHouseholds /\ DOMAIN g = 1..Len(g)
    /\ \A h \in 1..Len(g) : /\ g[h].household_id = h
                            /\ g[h].devices = {DeviceOf(h)}
                            /\ g[h].ips \subseteq 0..NHouseholds

Shown(w) == {w.exposures[i] : i \in 1..Len(w.exposures)}
Made(w) == {w.conversions[i] : i \in 1..Len(w.conversions)}

\* A conversion comes from its household, and after what caused it.
Grounded(w, c) ==
    LET home == w.home[c.conversion_id]
    IN /\ home \in HouseholdIds
       /\ c.conversion_id \in DOMAIN w.truth
       /\ c.device_id \in {DeviceOf(home), UnknownDevice}
       /\ c.ip \in w.device_graph[home].ips
       /\ \A x \in w.truth[c.conversion_id] :
             \E e \in Shown(w) : /\ e.exposure_id = x /\ e.household_id = home
                                 /\ e.event_time < c.event_time

WorldOK(w) ==
    /\ IsGraph(w.device_graph) /\ Len(w.device_graph) = NHouseholds
    /\ Holds(w.exposures, Shown(w)) /\ RowsById(Shown(w), ExposureRows, "exposure_id")
    /\ Holds(w.conversions, Made(w)) /\ RowsById(Made(w), ConversionRows, "conversion_id")
    /\ \A c \in Made(w) : Grounded(w, c)

\* Rows of a topic by id can be put in order.
LEMMA RowsSortable ==
    /\ \A S : RowsById(S, ExposureRows, "exposure_id") => Sortable(S, "exposure_id")
    /\ \A S : RowsById(S, ConversionRows, "conversion_id") => Sortable(S, "conversion_id")
  BY DEF RowsById, Sortable, ExposureRows, ConversionRows

\* The graph numbers its households and gives each one device of its own.
LEMMA GraphBuilt ==
    ASSUME NEW graph \in build_graph
    PROVE  IsGraph(graph) /\ Len(graph) = NHouseholds
  <1>1. PICK ips \in [HouseholdIds -> SUBSET (0..NHouseholds)] :
          graph = [h \in HouseholdIds |->
                     [household_id |-> h, devices |-> {DeviceOf(h)}, ips |-> ips[h]]]
    BY DEF build_graph
  <1>2. Len(graph) = NHouseholds /\ NHouseholds \in Nat
    BY <1>1, ProducerAssumption DEF HouseholdIds
  <1>3. ASSUME NEW h \in 1..NHouseholds
        PROVE  [household_id |-> h, devices |-> {DeviceOf(h)}, ips |-> ips[h]] \in HouseholdRows
    BY <1>2 DEF HouseholdRows, HouseholdIds, DeviceOf
  <1>4. graph \in Seq(HouseholdRows)
    BY <1>1, <1>2, <1>3 DEF HouseholdIds
  <1> QED
    BY <1>1, <1>2, <1>4 DEF IsGraph, HouseholdIds

\* The i-th exposure has the id i, so ids tell exposures apart.
LEMMA ExposuresGenerated ==
    ASSUME NEW exps \in generate_exposures
    PROVE  /\ DOMAIN exps = 1..NExposures
           /\ \A i \in 1..NExposures : exps[i] \in ExposureRows /\ exps[i].exposure_id = i
           /\ RowsById({exps[i] : i \in DOMAIN exps}, ExposureRows, "exposure_id")
  <1>1. PICK hs \in [1..NExposures -> HouseholdIds], delays \in [1..NExposures -> Delays] :
          exps = [i \in 1..NExposures |->
                    [exposure_id |-> i, household_id |-> hs[i],
                     event_time |-> (i - 1) * Spacing,
                     ingest_time |-> ingest_time((i - 1) * Spacing, delays[i]),
                     program_genre |-> IF i % 2 = 1 THEN "news" ELSE "sports"]]
    BY DEF generate_exposures
  <1>2. DOMAIN exps = 1..NExposures /\ NExposures \in Nat
    BY <1>1, ProducerAssumption
  <1>3. ASSUME NEW i \in 1..NExposures
        PROVE  exps[i] \in ExposureRows /\ exps[i].exposure_id = i
    <2>1. i \in Nat /\ (i - 1) * Spacing \in Nat
      <3>1. i \in Nat /\ i - 1 \in Nat /\ Spacing \in Nat
        BY <1>2, ProducerAssumption
      <3> DEFINE j == i - 1
      <3>2. j \in Nat
        BY <3>1
      <3> HIDE DEF j
      <3>3. j * Spacing \in Nat
        BY <3>1, <3>2
      <3> QED
        BY <3>1, <3>3 DEF j
    <2> DEFINE t == (i - 1) * Spacing
    <2>2. exps[i] = [exposure_id |-> i, household_id |-> hs[i], event_time |-> t,
                     ingest_time |-> t + delays[i],
                     program_genre |-> IF i % 2 = 1 THEN "news" ELSE "sports"]
      BY <1>1 DEF ingest_time
    <2> HIDE DEF t
    <2>3. t \in Nat /\ t + delays[i] \in Nat
      <3>1. t \in Nat /\ delays[i] \in Nat
        BY <2>1, ProducerAssumption DEF t
      <3> QED
        BY <3>1
    <2> QED
      BY <2>1, <2>2, <2>3 DEF ExposureRows
  <1>4. IsFiniteSet({exps[i] : i \in DOMAIN exps})
    <2>1. IsFiniteSet(1..NExposures)
      BY <1>2, FS_Interval
    <2> QED
      BY <1>2, <2>1, FiniteImage
  <1> QED
    BY <1>2, <1>3, <1>4 DEF RowsById

\* What every occasion for a conversion is.
FromHousehold(graph, exps, o) ==
    /\ o.event_time \in Nat /\ o.ingest_time \in Nat /\ o.home \in HouseholdIds
    /\ o.device_id \in {DeviceOf(o.home), UnknownDevice}
    /\ o.ip \in graph[o.home].ips
    /\ \A x \in o.cause : \E i \in DOMAIN exps : /\ exps[i].exposure_id = x
                                                 /\ exps[i].household_id = o.home
                                                 /\ exps[i].event_time < o.event_time

\* Whatever made it, a conversion comes from one household of the graph, seen
\* through its device or one of its addresses.
LEMMA OccasionsFromHouseholds ==
    ASSUME NEW graph \in build_graph, NEW exps \in generate_exposures,
           NEW o \in Occasions(graph, exps)
    PROVE  FromHousehold(graph, exps, o)
  <1>1. \A h \in HouseholdIds : graph[h].household_id = h /\ graph[h].devices = {DeviceOf(h)}
    BY GraphBuilt DEF IsGraph, HouseholdIds
  <1>2. ASSUME NEW h \in HouseholdIds, NEW t \in Nat, NEW cause,
               o \in make_conversion(graph[h], t, cause)
        PROVE  /\ o.event_time = t /\ o.ingest_time \in Nat /\ o.home = h /\ o.cause = cause
               /\ o.device_id \in {DeviceOf(h), UnknownDevice} /\ o.ip \in graph[h].ips
    <2>1. PICK d \in graph[h].devices \cup {UnknownDevice}, ip \in graph[h].ips, delay \in Delays :
             o = [event_time |-> t, ingest_time |-> ingest_time(t, delay), device_id |-> d,
                  ip |-> ip, home |-> graph[h].household_id, cause |-> cause]
      BY <1>2 DEF make_conversion
    <2>2. ingest_time(t, delay) \in Nat
      BY ProducerAssumption DEF ingest_time
    <2> QED
      BY <1>1, <2>1, <2>2
  <1>3. o \in UNION {Caused(graph, exps[i]) : i \in DOMAIN exps}
          \/ o \in UNION {Organic(graph[h]) : h \in HouseholdIds}
    BY DEF Occasions
  <1>4. CASE o \in UNION {Caused(graph, exps[i]) : i \in DOMAIN exps}
    <2>1. PICK i \in DOMAIN exps : o \in Caused(graph, exps[i])
      BY <1>4
    <2>2. PICK d \in ConvDelays :
              o \in make_conversion(graph[exps[i].household_id], exps[i].event_time + d,
                                    {exps[i].exposure_id})
      BY <2>1 DEF Caused
    <2>3. exps[i].household_id \in HouseholdIds /\ exps[i].event_time \in Nat
      BY ExposuresGenerated DEF ExposureRows
    <2>4. d \in Nat \ {0}
      BY ProducerAssumption
    <2>5. exps[i].event_time + d \in Nat /\ exps[i].event_time < exps[i].event_time + d
      BY <2>3, <2>4
    <2>6. /\ o.event_time = exps[i].event_time + d /\ o.home = exps[i].household_id
          /\ o.ingest_time \in Nat /\ o.cause = {exps[i].exposure_id}
          /\ o.device_id \in {DeviceOf(o.home), UnknownDevice} /\ o.ip \in graph[o.home].ips
      BY <1>2, <2>2, <2>3, <2>5
    <2> QED
      BY <2>3, <2>5, <2>6 DEF FromHousehold
  <1>5. CASE o \in UNION {Organic(graph[h]) : h \in HouseholdIds}
    <2>1. PICK h \in HouseholdIds : o \in Organic(graph[h])
      BY <1>5
    <2>2. PICK t \in OrganicTimes : o \in make_conversion(graph[h], t, {})
      BY <2>1 DEF Organic
    <2>3. t \in Nat
      BY ProducerAssumption
    <2>4. /\ o.event_time = t /\ o.ingest_time \in Nat /\ o.home = h /\ o.cause = {}
          /\ o.device_id \in {DeviceOf(h), UnknownDevice} /\ o.ip \in graph[h].ips
      BY <1>2, <2>2, <2>3
    <2> QED
      BY <2>3, <2>4 DEF FromHousehold
  <1> QED
    BY <1>3, <1>4, <1>5

\* Conversions are numbered like exposures, and their payload hides the household.
LEMMA PayloadsAreRows ==
    ASSUME NEW graph \in build_graph, NEW exps \in generate_exposures,
           NEW cs \in generate_conversions(graph, exps)
    PROVE  LET ks == [i \in DOMAIN cs |-> Payload(cs, i)]
           IN /\ RowsById({ks[i] : i \in DOMAIN ks}, ConversionRows, "conversion_id")
              /\ \A i \in DOMAIN cs : /\ ks[i].conversion_id = i
                                      /\ FromHousehold(graph, exps, cs[i])
  <1>1. PICK n \in 1..MaxConversions : cs \in [1..n -> Occasions(graph, exps)]
    BY DEF generate_conversions
  <1>2. n \in Nat /\ DOMAIN cs = 1..n /\ IsFiniteSet(1..n)
    BY <1>1, ProducerAssumption, FS_Interval
  <1>3. \A i \in 1..n : FromHousehold(graph, exps, cs[i])
    BY <1>1, OccasionsFromHouseholds
  <1> DEFINE ks == [i \in DOMAIN cs |-> Payload(cs, i)]
  <1>4. ASSUME NEW i \in 1..n
        PROVE  ks[i] \in ConversionRows /\ ks[i].conversion_id = i
    <2>1. ks[i] = [conversion_id |-> i, event_time |-> cs[i].event_time,
                   ingest_time |-> cs[i].ingest_time,
                   device_id |-> cs[i].device_id, ip |-> cs[i].ip]
      BY <1>2 DEF Payload
    <2>2. /\ cs[i].event_time \in Nat /\ cs[i].ingest_time \in Nat /\ cs[i].home \in HouseholdIds
          /\ cs[i].device_id \in {DeviceOf(cs[i].home), UnknownDevice}
          /\ cs[i].ip \in graph[cs[i].home].ips
      BY <1>3 DEF FromHousehold
    <2>3. cs[i].device_id \in Nat
      BY <2>2, ProducerAssumption DEF HouseholdIds, DeviceOf, UnknownDevice
    <2>4. cs[i].ip \in Nat
      <3>1. graph[cs[i].home].ips \subseteq 0..NHouseholds
        BY <2>2, GraphBuilt DEF IsGraph, HouseholdIds
      <3> QED
        BY <2>2, <3>1, ProducerAssumption
    <2> HIDE DEF ks
    <2> QED
      BY <1>2, <2>1, <2>2, <2>3, <2>4 DEF ConversionRows
  <1>5. IsFiniteSet({ks[i] : i \in DOMAIN ks})
    <2>1. DOMAIN ks = 1..n
      BY <1>2
    <2> HIDE DEF ks
    <2> QED
      BY <1>2, <2>1, FiniteImage
  <1>6. DOMAIN ks = 1..n
    BY <1>2
  <1> HIDE DEF ks
  <1>7. RowsById({ks[i] : i \in DOMAIN ks}, ConversionRows, "conversion_id")
    BY <1>4, <1>5, <1>6 DEF RowsById
  <1>8. \A i \in DOMAIN cs : ks[i].conversion_id = i /\ FromHousehold(graph, exps, cs[i])
    BY <1>2, <1>3, <1>4
  <1> QED
    BY <1>7, <1>8 DEF ks

\* Every world is in order.
LEMMA WorldsAreOK ==
    ASSUME NEW w \in Worlds
    PROVE  WorldOK(w)
  <1> DEFINE Runs(graph, exps, cs) ==
               {x \in generate(graph, exps, cs) : Upsets(x, exps, cs) <= MaxUpsets}
  <1>1a. w \in UNION {UNION {UNION {Runs(graph, exps, cs) :
                                     cs \in generate_conversions(graph, exps)} :
                              exps \in generate_exposures} : graph \in build_graph}
    BY Zenon DEF Worlds
  <1> HIDE DEF Runs
  <1>1b. PICK graph \in build_graph :
          w \in UNION {UNION {Runs(graph, exps, cs) :
                                cs \in generate_conversions(graph, exps)} :
                         exps \in generate_exposures}
    BY <1>1a
  <1>1c. PICK exps \in generate_exposures :
          w \in UNION {Runs(graph, exps, cs) : cs \in generate_conversions(graph, exps)}
    BY <1>1b
  <1>1d. PICK cs \in generate_conversions(graph, exps) : w \in Runs(graph, exps, cs)
    BY <1>1c
  <1>1e. w \in generate(graph, exps, cs)
    BY <1>1d DEF Runs
  <1>1. PICK es \in with_duplicates(exps, "exposure_id"),
             cvs \in with_duplicates([i \in DOMAIN cs |-> Payload(cs, i)], "conversion_id") :
          w = GeneratedStream(graph, es, cvs, cs)
    BY <1>1e DEF generate
  <1> DEFINE ks == [i \in DOMAIN cs |-> Payload(cs, i)]
             E == {exps[i] : i \in DOMAIN exps}
             C == {ks[i] : i \in DOMAIN ks}
  <1>2. IsGraph(graph) /\ Len(graph) = NHouseholds
    BY GraphBuilt
  <1>3. RowsById(E, ExposureRows, "exposure_id") /\ Holds(es, E)
    <2>1. RowsById(E, ExposureRows, "exposure_id")
      BY ExposuresGenerated
    <2>2. Sortable(E, "exposure_id")
      BY <2>1, RowsSortable
    <2> QED
      BY <2>1, <2>2, ResentHolds
  <1>4. /\ RowsById(C, ConversionRows, "conversion_id")
        /\ \A i \in DOMAIN cs : ks[i].conversion_id = i /\ FromHousehold(graph, exps, cs[i])
    BY PayloadsAreRows
  <1>5. Holds(cvs, C)
    <2>1. Sortable(C, "conversion_id")
      <3> HIDE DEF C
      <3> QED
        BY <1>4, RowsSortable
    <2> QED
      BY <2>1, ResentHolds
  <1>6. Shown(w) = E /\ Made(w) = C
    <2> HIDE DEF E, C
    <2> QED
      BY <1>1, <1>3, <1>5 DEF Shown, Made, Holds, GeneratedStream
  <1>7. ASSUME NEW c \in C  PROVE Grounded(w, c)
    <2>1. PICK i \in DOMAIN cs : c = Payload(cs, i)
      OBVIOUS
    <2>2. c.conversion_id = i /\ c.event_time = cs[i].event_time
          /\ c.device_id = cs[i].device_id /\ c.ip = cs[i].ip
      BY <2>1 DEF Payload
    <2>3. FromHousehold(graph, exps, cs[i])
      BY <1>4
    <2>4. w.home[i] = cs[i].home /\ w.truth[i] = cs[i].cause /\ i \in DOMAIN w.truth
          /\ w.device_graph = graph
      BY <1>1 DEF GeneratedStream
    <2>5. \A j \in DOMAIN exps : exps[j] \in Shown(w)
      BY <1>6
    <2> HIDE DEF E, C, ks
    <2> QED
      BY <2>2, <2>3, <2>4, <2>5 DEF FromHousehold, Grounded
  <1> HIDE DEF E, C, ks
  <1>8. w.device_graph = graph /\ w.exposures = es /\ w.conversions = cvs
    BY <1>1 DEF GeneratedStream
  <1> QED
    BY <1>2, <1>3, <1>4, <1>5, <1>6, <1>7, <1>8 DEF WorldOK

----------------------------------------------------------------------------
(* Resolution and dedup: the households behind a conversion.                *)

Known(g, c) == {h \in 1..Len(g) : c.device_id \in g[h].devices}

Listing(g, ip) == {h \in 1..Len(g) : ip \in g[h].ips}

Behind(g, c) == IF Known(g, c) # {} THEN Known(g, c) ELSE Listing(g, c.ip)

Means(g, c) == IF Known(g, c) # {} THEN "device" ELSE "ip"

\* The graph a drain has read lists every household once.
LEMMA LatestIsGraph ==
    ASSUME NEW g, IsGraph(g)
    PROVE  DOMAIN latest(g) = 1..Len(g) /\ \A h \in 1..Len(g) : latest(g)[h] = g[h]
  <1>1. {g[i].household_id : i \in DOMAIN g} = 1..Len(g)
    BY DEF IsGraph
  <1>2. ASSUME NEW h \in 1..Len(g)
        PROVE  (CHOOSE i \in DOMAIN g : /\ g[i].household_id = h
                                        /\ \A j \in DOMAIN g : g[j].household_id = h => j <= i) = h
    BY DEF IsGraph
  <1>3. DOMAIN latest(g) = 1..Len(g)
    BY <1>1 DEF latest
  <1> QED
    BY <1>1, <1>2, <1>3 DEF latest

\* A household's device is known by the one household that lists it.
LEMMA KnownOwner ==
    ASSUME NEW g, IsGraph(g), NEW c, NEW h \in Known(g, c)
    PROVE  Known(g, c) = {h} /\ h \in 1..Len(g)
  <1>1. h \in 1..Len(g) /\ c.device_id = DeviceOf(h)
    BY DEF Known, IsGraph
  <1>2. ASSUME NEW k \in Known(g, c)  PROVE k = h
    <2>1. k \in 1..Len(g) /\ c.device_id = DeviceOf(k)
      BY DEF Known, IsGraph
    <2>2. Len(g) \in Nat
      BY ProducerAssumption DEF IsGraph
    <2> QED
      BY <1>1, <2>1, <2>2 DEF DeviceOf
  <1> QED
    BY <1>1, <1>2

\* resolve_one finds the households behind a conversion: a row for each.
LEMMA ResolveFindsBehind ==
    ASSUME NEW g, IsGraph(g), NEW c
    PROVE  resolve_one(c, from_households(g))
             = {Resolved(c, h, Means(g, c), Cardinality(Behind(g, c))) : h \in Behind(g, c)}
  <1> DEFINE index == from_households(g)
             graph == latest(g)
             slot(h) == CHOOSE i \in DOMAIN g :
                      /\ g[i].household_id = h
                      /\ \A j \in DOMAIN g : g[j].household_id = h => i <= j
             listing(d) == {h \in DOMAIN graph : d \in graph[h].devices}
  <1>1. DOMAIN graph = 1..Len(g) /\ \A h \in 1..Len(g) : graph[h] = g[h]
    BY LatestIsGraph
  <1>2. /\ DOMAIN index.device_of = UNION {graph[h].devices : h \in DOMAIN graph}
        /\ DOMAIN index.owners_of = UNION {graph[h].ips : h \in DOMAIN graph}
        /\ \A d \in DOMAIN index.device_of : index.device_of[d]
             = CHOOSE h \in listing(d) : \A k \in listing(d) : slot(k) <= slot(h)
        /\ \A ip \in DOMAIN index.owners_of :
             index.owners_of[ip] = {h \in DOMAIN graph : ip \in graph[h].ips}
    BY Zenon DEF from_households
  <1> HIDE DEF index, graph, slot
  <1>3. listing(c.device_id) = Known(g, c)
    BY <1>1 DEF Known
  <1>4. c.device_id \in DOMAIN index.device_of <=> Known(g, c) # {}
    BY <1>1, <1>2 DEF Known
  <1>5. CASE Known(g, c) # {}
    <2>1. PICK h : h \in Known(g, c)
      BY <1>5
    <2>2. Known(g, c) = {h} /\ h \in 1..Len(g)
      BY <2>1, KnownOwner
    <2>3. slot(h) <= slot(h)
      <3>1. slot(h) = h
        BY <2>2 DEF slot, IsGraph
      <3> QED
        BY <2>2, <3>1
    <2>4. index.device_of[c.device_id] = h
      BY <1>2, <1>3, <1>4, <1>5, <2>2, <2>3
    <2>5. Behind(g, c) = {h} /\ Means(g, c) = "device" /\ Cardinality({h}) = 1
      BY <1>5, <2>2, FS_Singleton DEF Behind, Means
    <2>6. resolve_one(c, index) = {Resolved(c, h, "device", 1)}
      BY <1>4, <1>5, <2>4 DEF resolve_one
    <2> QED
      BY <2>5, <2>6 DEF index
  <1>6. CASE Known(g, c) = {}
    <2>1. c.device_id \notin DOMAIN index.device_of
      BY <1>4, <1>6
    <2>2. Behind(g, c) = Listing(g, c.ip) /\ Means(g, c) = "ip"
      BY <1>6 DEF Behind, Means
    <2>3. c.ip \in DOMAIN index.owners_of <=> Listing(g, c.ip) # {}
      BY <1>1, <1>2 DEF Listing
    <2>4. CASE Listing(g, c.ip) # {}
      <3>1. index.owners_of[c.ip] = Listing(g, c.ip)
        BY <1>1, <1>2, <2>3, <2>4 DEF Listing
      <3>2. resolve_one(c, index) = {Resolved(c, h, "ip", Cardinality(index.owners_of[c.ip])) :
                                        h \in index.owners_of[c.ip]}
        BY <2>1, <2>3, <2>4 DEF resolve_one
      <3> QED
        BY <2>2, <3>1, <3>2 DEF index
    <2>5. CASE Listing(g, c.ip) = {}
      <3>1. resolve_one(c, index) = {}
        BY <2>1, <2>3, <2>5 DEF resolve_one
      <3> QED
        BY <2>2, <2>5, <3>1 DEF index
    <2> QED
      BY <2>4, <2>5
  <1> QED
    BY <1>5, <1>6

\* Where rows of one key are copies, dedup_by_id keeps one of every row.
LEMMA DedupKeepsRows ==
    ASSUME NEW arrivals, NEW key,
           \A a \in arrivals : a[1] \in Nat /\ a[2].household_id \in Nat,
           \A a, b \in arrivals : (\A f \in key : b[2][f] = a[2][f]) => b[2] = a[2]
    PROVE  dedup_by_id(arrivals, key) = {a[2] : a \in arrivals}
  <1>1. ASSUME NEW a \in arrivals  PROVE a[2] \in dedup_by_id(arrivals, key)
    <2> DEFINE Same == {b \in arrivals : b[2] = a[2]}
               S == {b[1] : b \in Same}
    <2>1. S \in SUBSET Nat /\ a[1] \in S
      OBVIOUS
    <2>2. PICK m \in S : \A n \in S : m <= n
      <3> HIDE DEF S
      <3> QED
        BY <2>1, HasLeast
    <2>3. PICK b \in Same : b[1] = m
      BY <2>2
    <2>4. ASSUME NEW x \in arrivals, \A f \in key : x[2][f] = b[2][f]
          PROVE  ~Earlier(x, b)
      <3>1. x \in Same
        BY <2>3, <2>4
      <3>2. x[1] \in S /\ x[1] \in Nat /\ x[2] = b[2] /\ m <= x[1]
        BY <2>2, <2>3, <3>1
      <3>3. x[2].household_id \in Nat /\ m \in Nat
        BY <2>1, <2>2
      <3> QED
        BY <2>3, <3>2, <3>3 DEF Earlier
    <2>5. b \in arrivals /\ b[2] = a[2]
      BY <2>3
    <2> QED
      BY <2>4, <2>5 DEF dedup_by_id
  <1> QED
    BY <1>1 DEF dedup_by_id

Elements(log) == {log[i] : i \in DOMAIN log}

\* Conversions as resolution finds them: a row for each household behind each.
FanOf(g, c) == {Resolved(c, h, Means(g, c), Cardinality(Behind(g, c))) : h \in Behind(g, c)}

Fans(g, C) == UNION {FanOf(g, c) : c \in C}

ById(C, id) == \A c, d \in C : c[id] = d[id] => c = d

\* Exposures sent again are dropped, and with them nothing else.
LEMMA ExposuresDeduped ==
    ASSUME NEW log, Elements(log) \subseteq ExposureRows, ById(Elements(log), "exposure_id"),
           DOMAIN log \subseteq Nat
    PROVE  LET arrivals == {<<i, log[i]>> : i \in DOMAIN log}
           IN dedup_exposures(arrivals) = Elements(log) /\ {a[2] : a \in arrivals} = Elements(log)
  <1> DEFINE arrivals == {<<i, log[i]>> : i \in DOMAIN log}
  <1>1. {a[2] : a \in arrivals} = Elements(log)
    <2>1. ASSUME NEW i \in DOMAIN log  PROVE \E a \in arrivals : log[i] = a[2]
      <3>1. <<i, log[i]>> \in arrivals /\ <<i, log[i]>>[2] = log[i]
        OBVIOUS
      <3> QED
        BY <3>1
    <2>2. ASSUME NEW a \in arrivals  PROVE \E i \in DOMAIN log : a[2] = log[i]
      OBVIOUS
    <2> HIDE DEF arrivals
    <2> QED
      BY <2>1, <2>2 DEF Elements
  <1>2. \A a \in arrivals : a[1] \in Nat /\ a[2] \in Elements(log)
    BY DEF Elements
  <1> HIDE DEF arrivals
  <1>3. \A a \in arrivals : a[1] \in Nat /\ a[2].household_id \in Nat
    BY <1>2, ProducerAssumption DEF ExposureRows, HouseholdIds
  <1>4. ASSUME NEW a \in arrivals, NEW b \in arrivals,
               \A f \in {"exposure_id"} : b[2][f] = a[2][f]
        PROVE  b[2] = a[2]
    BY <1>2, <1>4 DEF ById
  <1>5. dedup_by_id(arrivals, {"exposure_id"}) = {a[2] : a \in arrivals}
    BY <1>3, <1>4, DedupKeepsRows
  <1> QED
    BY <1>1, <1>5 DEF dedup_exposures, arrivals

\* So are the resolved rows of conversions sent again.
LEMMA ResolvedDeduped ==
    ASSUME NEW g, IsGraph(g), NEW log, DOMAIN log \subseteq Nat,
           ById(Elements(log), "conversion_id")
    PROVE  LET resolved == resolve_stream(log, from_households(g))
           IN /\ dedup_resolved(resolved) = Fans(g, Elements(log))
              /\ {x[2] : x \in resolved} = Fans(g, Elements(log))
  <1> DEFINE resolved == resolve_stream(log, from_households(g))
  <1>1. ASSUME NEW x \in resolved
        PROVE  \E i \in DOMAIN log : \E h \in Behind(g, log[i]) :
                  x = <<i, Resolved(log[i], h, Means(g, log[i]), Cardinality(Behind(g, log[i])))>>
    <2>1. PICK i \in DOMAIN log : x \in {<<i, r>> : r \in resolve_one(log[i], from_households(g))}
      BY DEF resolve_stream
    <2>2. PICK r \in resolve_one(log[i], from_households(g)) : x = <<i, r>>
      BY <2>1
    <2> QED
      BY <2>2, ResolveFindsBehind
  <1>2. ASSUME NEW i \in DOMAIN log, NEW r \in FanOf(g, log[i])
        PROVE  <<i, r>> \in resolved
    <2>1. r \in resolve_one(log[i], from_households(g))
      BY ResolveFindsBehind DEF FanOf
    <2> QED
      BY <2>1 DEF resolve_stream
  <1> HIDE DEF resolved
  <1>3. {x[2] : x \in resolved} = Fans(g, Elements(log))
    <2>1. ASSUME NEW x \in resolved  PROVE x[2] \in Fans(g, Elements(log))
      <3>1. PICK i \in DOMAIN log : \E h \in Behind(g, log[i]) :
                  x = <<i, Resolved(log[i], h, Means(g, log[i]), Cardinality(Behind(g, log[i])))>>
        BY <1>1
      <3>2. x[2] \in FanOf(g, log[i]) /\ log[i] \in Elements(log)
        BY <3>1 DEF FanOf, Elements
      <3> QED
        BY <3>2 DEF Fans
    <2>2. ASSUME NEW r \in Fans(g, Elements(log))  PROVE \E x \in resolved : r = x[2]
      <3>1. PICK i \in DOMAIN log : r \in FanOf(g, log[i])
        BY DEF Fans, Elements
      <3> QED
        BY <1>2, <3>1
    <2> QED
      BY <2>1, <2>2
  <1>4. \A x \in resolved : x[1] \in Nat /\ x[2].household_id \in Nat
    <2> SUFFICES ASSUME NEW x \in resolved  PROVE x[1] \in Nat /\ x[2].household_id \in Nat
      OBVIOUS
    <2>10. PICK i \in DOMAIN log : \E h \in Behind(g, log[i]) :
             x = <<i, Resolved(log[i], h, Means(g, log[i]), Cardinality(Behind(g, log[i])))>>
      BY <1>1
    <2>1. PICK h \in Behind(g, log[i]) :
             x = <<i, Resolved(log[i], h, Means(g, log[i]), Cardinality(Behind(g, log[i])))>>
      BY <2>10
    <2>2. h \in 1..Len(g)
      BY DEF Behind, Known, Listing
    <2> QED
      BY <2>1, <2>2 DEF Resolved
  <1>5. ASSUME NEW a \in resolved, NEW b \in resolved,
               \A f \in {"conversion_id", "household_id"} : b[2][f] = a[2][f]
        PROVE  b[2] = a[2]
    <2>10. PICK i \in DOMAIN log : \E h \in Behind(g, log[i]) :
             a = <<i, Resolved(log[i], h, Means(g, log[i]), Cardinality(Behind(g, log[i])))>>
      BY <1>1
    <2>1. PICK h \in Behind(g, log[i]) :
             a = <<i, Resolved(log[i], h, Means(g, log[i]), Cardinality(Behind(g, log[i])))>>
      BY <2>10
    <2>20. PICK j \in DOMAIN log : \E k \in Behind(g, log[j]) :
             b = <<j, Resolved(log[j], k, Means(g, log[j]), Cardinality(Behind(g, log[j])))>>
      BY <1>1
    <2>2. PICK k \in Behind(g, log[j]) :
             b = <<j, Resolved(log[j], k, Means(g, log[j]), Cardinality(Behind(g, log[j])))>>
      BY <2>20
    <2>3. b[2].conversion_id = a[2].conversion_id /\ b[2].household_id = a[2].household_id
      BY <1>5
    <2>4. log[i].conversion_id = log[j].conversion_id /\ h = k
      BY <2>1, <2>2, <2>3 DEF Resolved
    <2>5. log[i] = log[j]
      BY <2>4 DEF ById, Elements
    <2> QED
      BY <2>1, <2>2, <2>4, <2>5
  <1>6. dedup_by_id(resolved, {"conversion_id", "household_id"}) = {x[2] : x \in resolved}
    BY <1>4, <1>5, DedupKeepsRows
  <1> QED
    BY <1>3, <1>6 DEF dedup_resolved, resolved

----------------------------------------------------------------------------
(* The decision of a run, as a function of what it has drained.             *)

LowestBehind(g, c) == CHOOSE h \in Behind(g, c) : \A k \in Behind(g, c) : h <= k

\* The row of a conversion, without fan-out or positions.
DecidedRow(g, E, c) ==
    HotRow(Resolved(c, LowestBehind(g, c), Means(g, c), Cardinality(Behind(g, c))), E,
           IF Cardinality(Behind(g, c)) > 1 THEN Behind(g, c) ELSE {})

DecidedRows(g, E, C) == {DecidedRow(g, E, c) : c \in {d \in C : Behind(g, d) # {}}}

\* The lowest of the households behind a conversion is one of them.
LEMMA LowestIsBehind ==
    ASSUME NEW g, IsGraph(g), NEW c, Behind(g, c) # {}
    PROVE  /\ LowestBehind(g, c) \in Behind(g, c)
           /\ \A k \in Behind(g, c) : LowestBehind(g, c) <= k
           /\ Behind(g, c) \in SUBSET (1..Len(g))
  <1>1. Behind(g, c) \in SUBSET (1..Len(g)) /\ 1..Len(g) \subseteq Nat
    BY DEF Behind, Known, Listing
  <1>2. \E h \in Behind(g, c) : \A k \in Behind(g, c) : h <= k
    BY <1>1, HasLeast
  <1> QED
    BY <1>1, <1>2 DEF LowestBehind

\* The oracle decides every conversion once, and that one by itself.
LEMMA AttributeDecides ==
    ASSUME NEW g, IsGraph(g), NEW E, NEW C, ById(C, "conversion_id")
    PROVE  attribute(E, Fans(g, C)) = DecidedRows(g, E, C)
  <1> DEFINE fans == Fans(g, C)
             RowOf(c) == Resolved(c, LowestBehind(g, c), Means(g, c), Cardinality(Behind(g, c)))
  <1>1. ASSUME NEW r \in fans
        PROVE  \E c \in C : \E h \in Behind(g, c) :
                  r = Resolved(c, h, Means(g, c), Cardinality(Behind(g, c)))
    BY DEF Fans, FanOf
  <1>2. ASSUME NEW c \in C, NEW h \in Behind(g, c)
        PROVE  Resolved(c, h, Means(g, c), Cardinality(Behind(g, c))) \in fans
    BY DEF Fans, FanOf
  <1> HIDE DEF fans
  <1>3. ASSUME NEW c \in C, Behind(g, c) # {}
        PROVE  RowOf(c) \in one_row_per_conversion(fans)
    <2>1. RowOf(c) \in fans
      BY <1>2, <1>3, LowestIsBehind
    <2>2. ASSUME NEW q \in fans, q.conversion_id = RowOf(c).conversion_id
          PROVE  RowOf(c).household_id <= q.household_id
      <3>1. PICK d \in C : \E h \in Behind(g, d) :
                  q = Resolved(d, h, Means(g, d), Cardinality(Behind(g, d)))
        BY <1>1
      <3>2. PICK h \in Behind(g, d) :
                  q = Resolved(d, h, Means(g, d), Cardinality(Behind(g, d)))
        BY <3>1
      <3>3. q.conversion_id = d.conversion_id /\ q.household_id = h
        BY <3>2 DEF Resolved
      <3>4. RowOf(c).conversion_id = c.conversion_id /\ RowOf(c).household_id = LowestBehind(g, c)
        BY DEF Resolved
      <3>5. d = c
        BY <2>2, <3>3, <3>4 DEF ById
      <3> QED
        BY <1>3, <3>3, <3>4, <3>5, LowestIsBehind
    <2> HIDE DEF RowOf
    <2> QED
      BY <2>1, <2>2 DEF one_row_per_conversion
  <1>4. ASSUME NEW r \in one_row_per_conversion(fans)
        PROVE  \E c \in C : Behind(g, c) # {} /\ r = RowOf(c)
    <2>1. r \in fans /\ \A q \in fans : q.conversion_id = r.conversion_id
                                           => r.household_id <= q.household_id
      BY DEF one_row_per_conversion
    <2>2. PICK c \in C : \E h \in Behind(g, c) :
                  r = Resolved(c, h, Means(g, c), Cardinality(Behind(g, c)))
      BY <1>1, <2>1
    <2>3. PICK h \in Behind(g, c) : r = Resolved(c, h, Means(g, c), Cardinality(Behind(g, c)))
      BY <2>2
    <2>4. /\ LowestBehind(g, c) \in Behind(g, c) /\ LowestBehind(g, c) <= h
          /\ Behind(g, c) \in SUBSET (1..Len(g))
      BY LowestIsBehind
    <2>5. RowOf(c) \in fans
      BY <1>2, <2>4
    <2>6. /\ RowOf(c).conversion_id = r.conversion_id
          /\ RowOf(c).household_id = LowestBehind(g, c) /\ r.household_id = h
      BY <2>3 DEF Resolved
    <2>7. h <= LowestBehind(g, c)
      BY <2>1, <2>5, <2>6
    <2>8. h = LowestBehind(g, c)
      <3>1. h \in Nat /\ LowestBehind(g, c) \in Nat
        BY <2>4
      <3> QED
        BY <2>4, <2>7, <3>1
    <2> QED
      BY <2>3, <2>8
  <1>5. ASSUME NEW c \in C, Behind(g, c) # {}
        PROVE  candidate_households(RowOf(c), fans)
                 = IF Cardinality(Behind(g, c)) > 1 THEN Behind(g, c) ELSE {}
    <2> DEFINE Own == {q \in fans : q.conversion_id = RowOf(c).conversion_id
                                      /\ q.candidate_count > 1}
    <2>1. ASSUME NEW q \in Own
          PROVE  q.household_id \in Behind(g, c) /\ Cardinality(Behind(g, c)) > 1
      <3>1. PICK d \in C : \E h \in Behind(g, d) :
                  q = Resolved(d, h, Means(g, d), Cardinality(Behind(g, d)))
        BY <1>1
      <3>2. PICK h \in Behind(g, d) :
                  q = Resolved(d, h, Means(g, d), Cardinality(Behind(g, d)))
        BY <3>1
      <3>3. /\ q.conversion_id = d.conversion_id /\ q.household_id = h
            /\ q.candidate_count = Cardinality(Behind(g, d))
        BY <3>2 DEF Resolved
      <3>4. q.conversion_id = c.conversion_id /\ q.candidate_count > 1
        BY DEF Resolved
      <3>5. d = c
        BY <3>3, <3>4 DEF ById
      <3> QED
        BY <3>2, <3>3, <3>4, <3>5
    <2>2. ASSUME Cardinality(Behind(g, c)) > 1, NEW h \in Behind(g, c)
          PROVE  \E q \in Own : h = q.household_id
      <3> DEFINE q == Resolved(c, h, Means(g, c), Cardinality(Behind(g, c)))
      <3>1. q \in fans
        BY <1>2
      <3>2. q.conversion_id = c.conversion_id /\ q.household_id = h
            /\ q.candidate_count = Cardinality(Behind(g, c))
            /\ RowOf(c).conversion_id = c.conversion_id
        BY DEF Resolved
      <3> HIDE DEF q, RowOf
      <3> QED
        BY <2>2, <3>1, <3>2
    <2>3. candidate_households(RowOf(c), fans) = {q.household_id : q \in Own}
      BY DEF candidate_households
    <2> HIDE DEF Own
    <2> QED
      BY <2>1, <2>2, <2>3
  <1>6. attribute(E, fans) = {HotRow(r, E, candidate_households(r, fans)) :
                                r \in one_row_per_conversion(fans)}
    BY DEF attribute
  <1>7. ASSUME NEW c \in C, Behind(g, c) # {}
        PROVE  HotRow(RowOf(c), E, candidate_households(RowOf(c), fans)) = DecidedRow(g, E, c)
    BY <1>5, <1>7 DEF DecidedRow
  <1> HIDE DEF RowOf
  <1>8. ASSUME NEW c \in C, Behind(g, c) # {}  PROVE DecidedRow(g, E, c) \in attribute(E, fans)
    BY <1>3, <1>6, <1>7, <1>8
  <1>9. ASSUME NEW r \in one_row_per_conversion(fans)
        PROVE  HotRow(r, E, candidate_households(r, fans)) \in DecidedRows(g, E, C)
    <2>1. PICK c \in C : Behind(g, c) # {} /\ r = RowOf(c)
      BY <1>4
    <2> QED
      BY <1>7, <2>1 DEF DecidedRows
  <1>10. attribute(E, fans) \subseteq DecidedRows(g, E, C)
    BY <1>6, <1>9
  <1>11. DecidedRows(g, E, C) \subseteq attribute(E, fans)
    BY <1>8 DEF DecidedRows
  <1> QED
    BY <1>10, <1>11 DEF fans

\* What a run lands is decided by what it has drained: not by the order of the
\* messages, their re-sends, or ENGINE_DEDUP.
THEOREM RunIsDecided ==
    ASSUME NEW g, IsGraph(g), NEW el, NEW cl, NEW dedup,
           DOMAIN el \subseteq Nat, DOMAIN cl \subseteq Nat,
           Elements(el) \subseteq ExposureRows, ById(Elements(el), "exposure_id"),
           ById(Elements(cl), "conversion_id")
    PROVE  Decide(el, cl, from_households(g), dedup)
             = DecidedRows(g, Elements(el), Elements(cl))
  <1> DEFINE resolved == resolve_stream(cl, from_households(g))
             arrivals == {<<i, el[i]>> : i \in DOMAIN el}
  <1>1. dedup_exposures(arrivals) = Elements(el) /\ {a[2] : a \in arrivals} = Elements(el)
    BY ExposuresDeduped
  <1>2. /\ dedup_resolved(resolved) = Fans(g, Elements(cl))
        /\ {x[2] : x \in resolved} = Fans(g, Elements(cl))
    BY ResolvedDeduped
  <1>3. Decide(el, cl, from_households(g), dedup)
          = IF dedup = "off"
            THEN run_attribution({a[2] : a \in arrivals}, {x[2] : x \in resolved})
            ELSE run_attribution(dedup_exposures(arrivals), dedup_resolved(resolved))
    BY DEF Decide
  <1> HIDE DEF resolved, arrivals
  <1>4. attribute(Elements(el), Fans(g, Elements(cl)))
          = DecidedRows(g, Elements(el), Elements(cl))
    BY AttributeDecides
  <1> QED
    BY <1>1, <1>2, <1>3, <1>4 DEF run_attribution

----------------------------------------------------------------------------
(* The invariants.                                                          *)

AttributedRows ==
    [conversion_id : Nat, conv : ConversionRows, event_time : Nat, ingest_time : Nat,
     household_id : HouseholdIds, resolution : {"device", "ip"}, candidate_count : Nat,
     candidate_households : SUBSET HouseholdIds, credited : SUBSET Nat, assists : SUBSET Nat,
     reason : {"none", "ambiguous_ip", "state_miss"}, path : {"hot", "reconciled"},
     processed_at : Nat]

\* A credit is of one exposure of the row's household, within the window of
\* the row's path.
Credits(r, E) ==
    r.credited = {}
    \/ \E e \in E : /\ r.credited = {e.exposure_id} /\ e.household_id = r.household_id
                    /\ e.event_time <= r.event_time
                    /\ r.event_time - LongWindow <= e.event_time
                    /\ r.path = "hot" => r.event_time - HotWindow <= e.event_time

\* A row of a conversion that was made, credited with an exposure of E, and in
\* the version its path gives it.
RowOK(r, E) ==
    /\ r \in AttributedRows
    /\ r.conv \in Made(world)
    /\ r.conversion_id = r.conv.conversion_id
    /\ r.event_time = r.conv.event_time /\ r.ingest_time = r.conv.ingest_time
    /\ Credits(r, E)
    /\ r.path = "hot" => r.processed_at = r.ingest_time
    /\ r.path = "reconciled" => r.processed_at > r.ingest_time /\ r.credited # {}

TopicsOK ==
    /\ WorldOK(world)
    /\ sent \in [Topics -> Nat] /\ \A t \in Topics : sent[t] <= Len(world[t])
    /\ early \in Nat

EngineOK ==
    /\ pc \in {"idle", "conversions", "graph", "landExposures", "landAttributed"}
    /\ exposures \in Seq(Shown(world)) /\ conversions \in Seq(Made(world))
    /\ pc # "idle" => last = "none"
    /\ pc \notin {"landExposures", "landAttributed"} => run = {}
    /\ pc = "landAttributed" => Elements(exposures) \subseteq lakeExp

RowsOK ==
    /\ lakeExp \subseteq Shown(world)
    /\ \A r \in lakeAtt : RowOK(r, lakeExp)
    /\ \A r \in run : RowOK(r, lakeExp \cup Elements(exposures)) /\ r.path = "hot"

Inv == TopicsOK /\ EngineOK /\ RowsOK

\* The households of a row are those its conversion may belong to.
FromCandidates(r) ==
    LET households == Candidates(r.conv)
    IN /\ r.household_id \in households /\ r.candidate_count = Cardinality(households)
       /\ r.candidate_households = IF Cardinality(households) > 1 THEN households ELSE {}

Hot(rows) == {r \in rows : r.path = "hot"}

\* A hot row without a credit, whose households saw something in the long window.
Recoverable(r) ==
    /\ r.path = "hot" /\ r.credited = {}
    /\ LongTouches(r) # {}

\* What holds of a run over complete topics.
WholeRun ==
    /\ pc # "idle" \/ lakeExp # {} \/ lakeAtt # {} => Complete
    /\ pc # "idle" => Elements(exposures) = Shown(world)
    /\ pc \in {"graph", "landExposures", "landAttributed"} => Elements(conversions) = Made(world)
    /\ pc \in {"landExposures", "landAttributed"} => run = offline_attributed

WholeLake ==
    /\ lakeAtt # {} \/ pc = "landAttributed" => lakeExp = Shown(world)
    /\ Hot(lakeAtt) \subseteq offline_attributed
    /\ last = "engine" => Hot(lakeAtt) = offline_attributed
    /\ \A r \in lakeAtt : FromCandidates(r)
    /\ last = "reconcile" =>
          \A r \in lakeAtt : Recoverable(r) =>
             \E q \in lakeAtt : q.path = "reconciled" /\ q.conversion_id = r.conversion_id

EarlyInv == early = 0 => WholeRun /\ WholeLake

IInv == Inv /\ EarlyInv

----------------------------------------------------------------------------
(* What a drain has read.                                                   *)

\* The first n messages of a topic.
LEMMA PrefixOf ==
    ASSUME NEW S, NEW s \in Seq(S), NEW n \in Nat, n <= Len(s)
    PROVE  /\ SubSeq(s, 1, n) \in Seq(S) /\ Len(SubSeq(s, 1, n)) = n
           /\ \A i \in 1..n : SubSeq(s, 1, n)[i] = s[i]
           /\ n = Len(s) => SubSeq(s, 1, n) = s
  <1>1. /\ SubSeq(s, 1, n) \in Seq(S) /\ Len(SubSeq(s, 1, n)) = n
        /\ \A i \in 1..n : SubSeq(s, 1, n)[i] = s[i]
    <2>1. 1 \in 1..Len(s) + 1 /\ n \in 0..Len(s) /\ \A i \in 1..n : 1 + i - 1 = i
      OBVIOUS
    <2> QED
      BY SubSeqProperties, <2>1
  <1>2. n = Len(s) => SubSeq(s, 1, n) = s
    <2> DEFINE t == SubSeq(s, 1, n)
    <2> HIDE DEF t
    <2>1. SUFFICES ASSUME n = Len(s)  PROVE t = s
      BY DEF t
    <2>2. t \in Seq(S) /\ Len(t) = n /\ \A i \in 1..n : t[i] = s[i]
      BY <1>1 DEF t
    <2> QED
      BY <2>1, <2>2
  <1> QED
    BY <1>1, <1>2

\* Drained topics hold rows of the world, and all of them once all was delivered.
LEMMA DrainedLogs ==
    ASSUME TopicsOK
    PROVE  /\ Log("exposures") \in Seq(Shown(world)) /\ Log("conversions") \in Seq(Made(world))
           /\ IsGraph(Log("device_graph"))
           /\ Complete => /\ Elements(Log("exposures")) = Shown(world)
                          /\ Elements(Log("conversions")) = Made(world)
                          /\ Log("device_graph") = world.device_graph
  <1> DEFINE es == world["exposures"]
             cs == world["conversions"]
             gs == world["device_graph"]
  <1>1. \A t \in Topics : sent[t] \in Nat /\ sent[t] <= Len(world[t])
    BY DEF TopicsOK
  <1>2. {"exposures", "conversions", "device_graph"} = Topics
    BY DEF Topics
  <1>3. /\ es \in Seq(Shown(world)) /\ Shown(world) = {es[i] : i \in 1..Len(es)}
        /\ cs \in Seq(Made(world)) /\ Made(world) = {cs[i] : i \in 1..Len(cs)}
        /\ IsGraph(gs)
    BY DEF TopicsOK, WorldOK, Holds
  <1>4. /\ SubSeq(es, 1, sent["exposures"]) \in Seq(Shown(world))
        /\ sent["exposures"] = Len(es) => SubSeq(es, 1, sent["exposures"]) = es
    <2> HIDE DEF es
    <2>1. sent["exposures"] \in Nat /\ sent["exposures"] <= Len(es)
      BY <1>1, <1>2 DEF es
    <2> QED
      BY <1>3, <2>1, PrefixOf
  <1>5. /\ SubSeq(cs, 1, sent["conversions"]) \in Seq(Made(world))
        /\ sent["conversions"] = Len(cs) => SubSeq(cs, 1, sent["conversions"]) = cs
    <2> HIDE DEF cs
    <2>1. sent["conversions"] \in Nat /\ sent["conversions"] <= Len(cs)
      BY <1>1, <1>2 DEF cs
    <2> QED
      BY <1>3, <2>1, PrefixOf
  <1>6. /\ IsGraph(SubSeq(gs, 1, sent["device_graph"]))
        /\ sent["device_graph"] = Len(gs) => SubSeq(gs, 1, sent["device_graph"]) = gs
    <2> DEFINE n == sent["device_graph"]
               p == SubSeq(gs, 1, n)
    <2> HIDE DEF gs
    <2>1. n \in Nat /\ n <= Len(gs)
      BY <1>1, <1>2 DEF gs
    <2>2. gs \in Seq(HouseholdRows)
      BY <1>3 DEF IsGraph
    <2> HIDE DEF n
    <2>3. p \in Seq(HouseholdRows) /\ Len(p) = n /\ (\A i \in 1..n : p[i] = gs[i])
          /\ (n = Len(gs) => p = gs)
      BY <2>1, <2>2, PrefixOf
    <2> HIDE DEF p
    <2>4. IsGraph(p)
      <3>0. Len(gs) \in 0..NHouseholds /\ NHouseholds \in Nat
        BY <1>3, ProducerAssumption DEF IsGraph
      <3>1a. n \in 0..NHouseholds /\ 1..n \subseteq 1..Len(gs)
        BY <2>1, <3>0
      <3>1b. DOMAIN p = 1..n
        BY <2>3
      <3>1. n \in 0..NHouseholds /\ DOMAIN p = 1..n /\ 1..n \subseteq 1..Len(gs)
        BY <3>1a, <3>1b
      <3>2. \A h \in 1..Len(gs) : /\ gs[h].household_id = h /\ gs[h].devices = {DeviceOf(h)}
                                  /\ gs[h].ips \subseteq 0..NHouseholds
        BY <1>3 DEF IsGraph
      <3> QED
        BY <2>3, <3>1, <3>2 DEF IsGraph
    <2> QED
      BY <2>3, <2>4 DEF n, p
  <1>7. Complete => /\ sent["exposures"] = Len(es) /\ sent["conversions"] = Len(cs)
                    /\ sent["device_graph"] = Len(gs)
    BY <1>2 DEF Complete
  <1>8. /\ es \in Seq(Shown(world)) => DOMAIN es = 1..Len(es)
        /\ cs \in Seq(Made(world)) => DOMAIN cs = 1..Len(cs)
    <2> HIDE DEF es, cs
    <2> QED
      OBVIOUS
  <1>9. Complete => Elements(Log("exposures")) = Shown(world)
    BY <1>3, <1>4, <1>7, <1>8 DEF Log, Elements
  <1>10. Complete => Elements(Log("conversions")) = Made(world)
    BY <1>3, <1>5, <1>7, <1>8 DEF Log, Elements
  <1>11. Complete => Log("device_graph") = world.device_graph
    BY <1>6, <1>7 DEF Log
  <1> QED
    BY <1>4, <1>5, <1>6, <1>9, <1>10, <1>11 DEF Log

\* The rows of the topics: finite, typed, told apart by id.
LEMMA RowsOfTheWorld ==
    ASSUME WorldOK(world)
    PROVE  /\ IsFiniteSet(Shown(world)) /\ Shown(world) \subseteq ExposureRows
           /\ ById(Shown(world), "exposure_id")
           /\ IsFiniteSet(Made(world)) /\ Made(world) \subseteq ConversionRows
           /\ ById(Made(world), "conversion_id")
           /\ \A rows : rows \subseteq Shown(world) => Touchable(rows)
  <1>1. RowsById(Shown(world), ExposureRows, "exposure_id")
        /\ RowsById(Made(world), ConversionRows, "conversion_id")
    BY DEF WorldOK
  <1>2. ASSUME NEW rows, rows \subseteq Shown(world)  PROVE Touchable(rows)
    <2>1. IsFiniteSet(rows) /\ rows \subseteq ExposureRows
      BY <1>1, <1>2, FS_Subset DEF RowsById
    <2> QED
      BY <2>1 DEF Touchable, ExposureRows
  <1> QED
    BY <1>1, <1>2 DEF RowsById, ById

\* What a run decides, from a part of the topics.
LEMMA RunDecides ==
    ASSUME WorldOK(world), NEW el \in Seq(Shown(world)), NEW cl \in Seq(Made(world)),
           NEW g, IsGraph(g), NEW dedup
    PROVE  Decide(el, cl, from_households(g), dedup)
             = DecidedRows(g, Elements(el), Elements(cl))
  <1>1. DOMAIN el \subseteq Nat /\ Elements(el) \subseteq Shown(world)
    BY DEF Elements
  <1>2. DOMAIN cl \subseteq Nat /\ Elements(cl) \subseteq Made(world)
    BY DEF Elements
  <1>3. Elements(el) \subseteq ExposureRows /\ ById(Elements(el), "exposure_id")
    BY <1>1, RowsOfTheWorld DEF ById
  <1>4. ById(Elements(cl), "conversion_id")
    BY <1>2, RowsOfTheWorld DEF ById
  <1> QED
    BY <1>1, <1>2, <1>3, <1>4, RunIsDecided

\* The offline replay decides the same from the mirrors.
LEMMA OfflineIsDecided ==
    ASSUME WorldOK(world)
    PROVE  offline_attributed = DecidedRows(world.device_graph, Shown(world), Made(world))
  <1> DEFINE es == world.exposures
             cs == world.conversions
             g == world.device_graph
  <1>1. es \in Seq(Shown(world)) /\ cs \in Seq(Made(world)) /\ IsGraph(g)
        /\ Shown(world) = {es[i] : i \in 1..Len(es)} /\ Made(world) = {cs[i] : i \in 1..Len(cs)}
    BY DEF WorldOK, Holds
  <1>2. offline_attributed
          = attribute({es[i] : i \in DOMAIN es},
                      {x[2] : x \in resolve_stream(cs, from_households(g))})
    BY DEF offline_attributed, offline_resolved
  <1> HIDE DEF es, cs, g
  <1>3. DOMAIN es = 1..Len(es) /\ DOMAIN cs = 1..Len(cs)
    BY <1>1
  <1>4. Elements(cs) = Made(world) /\ DOMAIN cs \subseteq Nat
    BY <1>1, <1>3 DEF Elements
  <1>5. ById(Made(world), "conversion_id")
    BY RowsOfTheWorld
  <1>6. {x[2] : x \in resolve_stream(cs, from_households(g))} = Fans(g, Made(world))
    BY <1>1, <1>4, <1>5, ResolvedDeduped
  <1> QED
    BY <1>1, <1>2, <1>3, <1>5, <1>6, AttributeDecides DEF g

----------------------------------------------------------------------------
(* The rows a run decides.                                                  *)

\* The touches that the hot window offers the household standing for a conversion.
HotEligible(g, E, c) ==
    Eligible({e \in E : e.household_id = LowestBehind(g, c)}, c, HotWindow)

\* What a hot row says of its conversion.
IsDecided(r, g, E, c) ==
    LET households == Behind(g, c)
    IN /\ r.conv = c /\ r.conversion_id = c.conversion_id
       /\ r.event_time = c.event_time /\ r.ingest_time = c.ingest_time
       /\ r.household_id = LowestBehind(g, c) /\ r.resolution = Means(g, c)
       /\ r.candidate_count = Cardinality(households)
       /\ r.candidate_households = IF Cardinality(households) > 1 THEN households ELSE {}
       /\ r.path = "hot" /\ r.processed_at = c.ingest_time
       /\ r.reason \in {"none", "ambiguous_ip", "state_miss"}
       /\ r.credited = IF Cardinality(households) > 1 THEN {} ELSE LatestOf(HotEligible(g, E, c))
       /\ r.assists = IF Cardinality(households) > 1 THEN {} ELSE OthersOf(HotEligible(g, E, c))
       /\ r = [conversion_id |-> r.conversion_id, conv |-> r.conv,
               event_time |-> r.event_time, ingest_time |-> r.ingest_time,
               household_id |-> r.household_id, resolution |-> r.resolution,
               candidate_count |-> r.candidate_count,
               candidate_households |-> r.candidate_households,
               credited |-> r.credited, assists |-> r.assists, reason |-> r.reason,
               path |-> r.path, processed_at |-> r.processed_at]

LEMMA DecidedFields ==
    ASSUME NEW g, NEW E, NEW c
    PROVE  IsDecided(DecidedRow(g, E, c), g, E, c)
  <1> DEFINE n == Cardinality(Behind(g, c))
             low == LowestBehind(g, c)
             candidates == IF n > 1 THEN Behind(g, c) ELSE {}
             conv == Resolved(c, low, Means(g, c), n)
             own == {e \in E : e.household_id = low}
             d == attribute_household({e \in E : e.household_id = conv.household_id}, conv, HotWindow)
             r == DecidedRow(g, E, c)
  <1>1. /\ conv.conv = c /\ conv.conversion_id = c.conversion_id
        /\ conv.event_time = c.event_time /\ conv.ingest_time = c.ingest_time
        /\ conv.household_id = low /\ conv.resolution = Means(g, c) /\ conv.candidate_count = n
    BY DEF Resolved
  <1>2. r = [conversion_id |-> conv.conversion_id, conv |-> conv.conv,
             event_time |-> conv.event_time, ingest_time |-> conv.ingest_time,
             household_id |-> conv.household_id, resolution |-> conv.resolution,
             candidate_count |-> conv.candidate_count,
             candidate_households |-> candidates,
             credited |-> d.credited, assists |-> d.assists, reason |-> d.reason,
             path |-> "hot", processed_at |-> d.processed_at]
    BY DEF DecidedRow, HotRow
  <1> HIDE DEF r, conv, low, n
  <1>3. Eligible(own, conv, HotWindow) = Eligible(own, c, HotWindow)
    BY <1>1 DEF Eligible
  <1>4. d = IF n > 1 THEN Unattributed(conv) ELSE Credit(Eligible(own, c, HotWindow), conv)
    BY <1>1, <1>3 DEF attribute_household, last_touch
  <1> HIDE DEF own, d
  <1>5. /\ Unattributed(conv).credited = {} /\ Unattributed(conv).assists = {}
        /\ Unattributed(conv).processed_at = c.ingest_time
        /\ Unattributed(conv).reason \in {"ambiguous_ip", "state_miss"}
    BY <1>1 DEF Unattributed
  <1> DEFINE el == Eligible(own, c, HotWindow)
  <1> HIDE DEF el
  <1>6. /\ Credit(el, conv).credited = LatestOf(el)
        /\ Credit(el, conv).assists = OthersOf(el)
        /\ Credit(el, conv).processed_at = c.ingest_time
        /\ Credit(el, conv).reason \in {"none", "ambiguous_ip", "state_miss"}
    <2>1. CASE el = {}
      BY <1>5, <2>1 DEF Credit, LatestOf, OthersOf
    <2>2. CASE el # {}
      BY <1>1, <2>2 DEF Credit, LatestOf, OthersOf
    <2> QED
      BY <2>1, <2>2
  <1>7. /\ d.credited = IF n > 1 THEN {} ELSE LatestOf(el)
        /\ d.assists = IF n > 1 THEN {} ELSE OthersOf(el)
        /\ d.processed_at = c.ingest_time
        /\ d.reason \in {"none", "ambiguous_ip", "state_miss"}
    BY <1>4, <1>5, <1>6 DEF el
  <1>8. /\ r.conv = c /\ r.conversion_id = c.conversion_id
        /\ r.event_time = c.event_time /\ r.ingest_time = c.ingest_time
        /\ r.household_id = low /\ r.resolution = Means(g, c) /\ r.candidate_count = n
        /\ r.candidate_households = candidates
        /\ r.path = "hot" /\ r.processed_at = c.ingest_time
        /\ r.reason \in {"none", "ambiguous_ip", "state_miss"}
        /\ r.credited = IF n > 1 THEN {} ELSE LatestOf(el)
        /\ r.assists = IF n > 1 THEN {} ELSE OthersOf(el)
    BY <1>1, <1>2, <1>7
  <1>9. r = [conversion_id |-> r.conversion_id, conv |-> r.conv,
             event_time |-> r.event_time, ingest_time |-> r.ingest_time,
             household_id |-> r.household_id, resolution |-> r.resolution,
             candidate_count |-> r.candidate_count,
             candidate_households |-> r.candidate_households,
             credited |-> r.credited, assists |-> r.assists, reason |-> r.reason,
             path |-> r.path, processed_at |-> r.processed_at]
    BY <1>2
  <1> QED
    BY <1>8, <1>9, Zenon DEF IsDecided, HotEligible, r, n, low, el, own

\* A finite set that is not empty, and not of two or more, has one member.
LEMMA OneOrMore ==
    ASSUME NEW S, IsFiniteSet(S), S # {}
    PROVE  Cardinality(S) \in Nat \ {0}
           /\ (~(Cardinality(S) > 1) => \E x : S = {x})
           /\ (\A x, y \in S : x # y => Cardinality(S) > 1)
  <1>1. Cardinality(S) \in Nat /\ Cardinality(S) # 0
    BY FS_CardinalityType, FS_EmptySet
  <1>2. ASSUME ~(Cardinality(S) > 1)  PROVE \E x : S = {x}
    <2>1. Cardinality(S) = 1
      BY <1>1, <1>2
    <2> QED
      BY <2>1, FS_Singleton
  <1>3. ASSUME NEW x \in S, NEW y \in S, x # y  PROVE Cardinality(S) > 1
    <2>1. Cardinality(S) # 1
      <3>1. ~\E z : S = {z}
        BY <1>3
      <3> QED
        BY <3>1, FS_Singleton
    <2> QED
      BY <1>1, <2>1
  <1> QED
    BY <1>1, <1>2, <1>3

\* The households behind a conversion are finitely many.
LEMMA BehindFinite ==
    ASSUME NEW g, IsGraph(g), NEW c
    PROVE  IsFiniteSet(Behind(g, c)) /\ Behind(g, c) \subseteq HouseholdIds
  <1>1. Len(g) \in 0..NHouseholds /\ NHouseholds \in Nat
    BY ProducerAssumption DEF IsGraph
  <1>2. 1..Len(g) \subseteq HouseholdIds
    BY <1>1 DEF HouseholdIds
  <1>3. IsFiniteSet(1..Len(g))
    BY <1>1, FS_Interval
  <1>4. Behind(g, c) \subseteq 1..Len(g)
    BY DEF Behind, Known, Listing
  <1> QED
    BY <1>2, <1>3, <1>4, FS_Subset

\* The id of the latest of some exposures.
LEMMA LatestCredit ==
    ASSUME NEW rows, Touchable(rows)
    PROVE  /\ rows = {} => LatestOf(rows) = {}
           /\ rows # {} => \E e \in rows : LatestOf(rows) = {e.exposure_id}
  BY LatestTouchIsLast DEF LatestOf

\* A row that a run decides is in order, and hot.
LEMMA DecidedRowOK ==
    ASSUME WorldOK(world), NEW g, IsGraph(g), NEW E, E \subseteq Shown(world),
           NEW c \in Made(world), Behind(g, c) # {}
    PROVE  RowOK(DecidedRow(g, E, c), E) /\ DecidedRow(g, E, c).path = "hot"
  <1> DEFINE r == DecidedRow(g, E, c)
             n == Cardinality(Behind(g, c))
             low == LowestBehind(g, c)
             el == HotEligible(g, E, c)
  <1>0. IsDecided(r, g, E, c)
    BY DecidedFields
  <1>3. c \in ConversionRows /\ Shown(world) \subseteq ExposureRows
    BY RowsOfTheWorld
  <1>4. low \in HouseholdIds /\ Behind(g, c) \subseteq HouseholdIds /\ n \in Nat
    BY LowestIsBehind, BehindFinite, FS_CardinalityType
  <1>5. el \subseteq E /\ \A e \in el : /\ e.household_id = low /\ e.event_time <= c.event_time
                                        /\ c.event_time - HotWindow <= e.event_time
    BY DEF HotEligible, Eligible
  <1>6. Touchable(el)
    BY <1>5, RowsOfTheWorld
  <1> HIDE DEF r
  <1>1. /\ r.conv = c /\ r.conversion_id = c.conversion_id
        /\ r.event_time = c.event_time /\ r.ingest_time = c.ingest_time
        /\ r.household_id = low /\ r.resolution = Means(g, c) /\ r.candidate_count = n
        /\ r.candidate_households = (IF n > 1 THEN Behind(g, c) ELSE {})
        /\ r.path = "hot" /\ r.processed_at = c.ingest_time
        /\ r.reason \in {"none", "ambiguous_ip", "state_miss"}
        /\ r.credited = IF n > 1 THEN {} ELSE LatestOf(el)
        /\ r.assists = IF n > 1 THEN {} ELSE OthersOf(el)
    BY <1>0, Zenon DEF IsDecided
  <1>2. r = [conversion_id |-> r.conversion_id, conv |-> r.conv,
             event_time |-> r.event_time, ingest_time |-> r.ingest_time,
             household_id |-> r.household_id, resolution |-> r.resolution,
             candidate_count |-> r.candidate_count,
             candidate_households |-> r.candidate_households,
             credited |-> r.credited, assists |-> r.assists, reason |-> r.reason,
             path |-> r.path, processed_at |-> r.processed_at]
    BY <1>0, Zenon DEF IsDecided
  <1> HIDE DEF n, low, el
  <1>7. r.credited = {} \/ \E e \in el : r.credited = {e.exposure_id}
    BY <1>1, <1>6, LatestCredit
  <1>8. c.conversion_id \in Nat /\ c.event_time \in Nat /\ c.ingest_time \in Nat
    BY <1>3 DEF ConversionRows
  <1>9. \A e \in el : e.exposure_id \in Nat /\ e.event_time \in Nat
    BY <1>3, <1>5 DEF ExposureRows
  <1>10. Credits(r, E)
    <2>1. HotWindow \in Nat /\ LongWindow \in Nat /\ HotWindow <= LongWindow
      BY TimeAssumption
    <2>2. ASSUME NEW e \in el  PROVE c.event_time - LongWindow <= e.event_time
      BY <1>5, <1>8, <1>9, <2>1
    <2> QED
      BY <1>1, <1>5, <1>7, <2>2 DEF Credits
  <1>11. r \in AttributedRows
    <2>1. r.credited \in SUBSET Nat /\ r.assists \in SUBSET Nat
      BY <1>1, <1>7, <1>9 DEF OthersOf
    <2>2. r.candidate_households \in SUBSET HouseholdIds
      BY <1>1, <1>4
    <2>3. r.resolution \in {"device", "ip"}
      BY <1>1 DEF Means
    <2> QED
      BY <1>1, <1>2, <1>3, <1>4, <1>8, <2>1, <2>2, <2>3 DEF AttributedRows
  <1>12. RowOK(r, E)
    BY <1>1, <1>10, <1>11 DEF RowOK
  <1> QED
    BY <1>1, <1>12 DEF r

----------------------------------------------------------------------------
(* Readings of the record, and what reconciliation adds to it.              *)

\* A reading has one row for every conversion of the log, a highest version.
LEMMA ReadingOf ==
    ASSUME NEW log, NEW current \in Currents(log)
    PROVE  /\ current \subseteq log
           /\ \A r \in current : r \in Tops(log, r.conversion_id)
           /\ \A r \in log : \E q \in current : q.conversion_id = r.conversion_id
           /\ ById(current, "conversion_id")
  <1> DEFINE convs == {r.conversion_id : r \in log}
  <1>1. PICK f \in {g \in [convs -> log] : \A c \in convs : g[c] \in Tops(log, c)} :
           current = {f[c] : c \in convs}
    BY DEF Currents
  <1>2. \A c \in convs : f[c] \in log /\ f[c] \in Tops(log, c) /\ f[c].conversion_id = c
    BY <1>1 DEF Tops
  <1>3. \A r \in log : r.conversion_id \in convs
    OBVIOUS
  <1> HIDE DEF convs
  <1>4. current \subseteq log /\ \A r \in current : r \in Tops(log, r.conversion_id)
    BY <1>1, <1>2
  <1>5. ASSUME NEW r \in log  PROVE \E q \in current : q.conversion_id = r.conversion_id
    BY <1>1, <1>2, <1>3
  <1>6. ASSUME NEW r \in current, NEW q \in current, r.conversion_id = q.conversion_id
        PROVE  r = q
    BY <1>1, <1>2, <1>6
  <1> QED
    BY <1>4, <1>5, <1>6 DEF ById

\* The row corrected from the touches T: the latest is credited, and the others
\* of its household assist.
CorrectedFrom(r, T, version) ==
    LET t == LatestTouch(T)
    IN [r EXCEPT !.household_id = t.household_id, !.credited = {t.exposure_id},
                 !.assists = {e.exposure_id : e \in SameHousehold(T)} \ {t.exposure_id},
                 !.reason = "none", !.path = "reconciled", !.processed_at = version]

\* The reduction over households, of the latest touch of each, credits the
\* latest touch of any.
LEMMA PickIsLatest ==
    ASSUME WorldOK(world), NEW row, NEW rows, rows \subseteq Shown(world), NEW version
    PROVE  LET T == Touches(row, expand_candidates(row), rows, LongWindow)
           IN Corrected(row, rows, LongWindow, version)
                = IF T = {} THEN {} ELSE {CorrectedFrom(row, T, version)}
  <1> DEFINE T == Touches(row, expand_candidates(row), rows, LongWindow)
             Touched(h) == Eligible({e \in rows : e.household_id = h}, row, LongWindow)
             seen == {g \in expand_candidates(row) : Touched(g) # {}}
             touches == {LatestTouch(Touched(h)) : h \in seen}
  <1>1. T \subseteq rows /\ \A e \in T : e.household_id \in expand_candidates(row)
                                         /\ e \in Touched(e.household_id)
    BY DEF Touches, Eligible
  <1>2. \A h \in expand_candidates(row) : Touched(h) \subseteq T
    BY DEF Touches, Eligible
  <1> DEFINE Fix(t) == [row EXCEPT !.household_id = t.household_id, !.credited = {t.exposure_id},
                                   !.assists = {e.exposure_id : e \in Touched(t.household_id)}
                                                 \ {t.exposure_id},
                                   !.reason = "none", !.path = "reconciled",
                                   !.processed_at = version]
  <1>3. Corrected(row, rows, LongWindow, version) = {Fix(t) : t \in pick_household(touches)}
    BY Zenon DEF Corrected
  <1>13. \A t \in T : Touched(t.household_id) = {e \in T : e.household_id = t.household_id}
    BY DEF Touches, Eligible
  <1> HIDE DEF T, Touched
  <1>4. ASSUME NEW S, S \subseteq T  PROVE Touchable(S)
    BY <1>1, <1>4, RowsOfTheWorld
  <1>5. ASSUME NEW h \in seen
        PROVE  /\ LatestTouch(Touched(h)) \in Touched(h) /\ LatestTouch(Touched(h)) \in T
               /\ \A e \in Touched(h) : ~TouchedBefore(LatestTouch(Touched(h)), e)
    <2>1. Touched(h) # {} /\ Touched(h) \subseteq T
      BY <1>2
    <2> QED
      BY <1>4, <2>1, LatestTouchIsLast
  <1>6. touches \subseteq T
    BY <1>5
  <1>7. \A e \in T : e.event_time \in Nat /\ e.exposure_id \in Nat
    BY <1>4 DEF Touchable
  <1>8. \A e \in T : e.household_id \in seen
    BY <1>1
  <1>9. ASSUME NEW t \in pick_household(touches)
        PROVE  t \in T /\ t = LatestTouch(T)
    <2>1. t \in touches /\ t \in T /\ \A u \in touches : ~TouchedBefore(t, u)
      BY <1>6 DEF pick_household
    <2>2. ASSUME NEW e \in T  PROVE ~TouchedBefore(t, e)
      <3> DEFINE u == LatestTouch(Touched(e.household_id))
      <3>1. u \in touches
        BY <1>8
      <3>2. u \in T /\ ~TouchedBefore(u, e)
        BY <1>1, <1>5, <1>8
      <3>3. ~TouchedBefore(t, u)
        BY <2>1, <3>1
      <3> HIDE DEF u
      <3> QED
        BY <1>7, <2>1, <3>2, <3>3 DEF TouchedBefore
    <2>3. LatestTouch(T) \in T /\ \A e \in T : ~TouchedBefore(LatestTouch(T), e)
      BY <1>4, <2>1, LatestTouchIsLast
    <2>4. LatestTouch(T).exposure_id = t.exposure_id
      BY <1>4, <2>1, <2>2, <2>3, LastAgree
    <2>5. ById(Shown(world), "exposure_id") /\ T \subseteq Shown(world)
      BY <1>1, RowsOfTheWorld
    <2> QED
      BY <2>1, <2>3, <2>4, <2>5 DEF ById
  <1>10. ASSUME T # {}  PROVE pick_household(touches) # {}
    <2>1. LatestTouch(T) \in T /\ \A e \in T : ~TouchedBefore(LatestTouch(T), e)
      BY <1>4, <1>10, LatestTouchIsLast
    <2> DEFINE w == LatestTouch(T)
               u == LatestTouch(Touched(w.household_id))
    <2>2. u \in touches /\ u \in T /\ ~TouchedBefore(u, w)
      BY <1>1, <1>5, <1>8, <2>1
    <2>3. ASSUME NEW v \in touches  PROVE ~TouchedBefore(u, v)
      <3>1. v \in T /\ ~TouchedBefore(w, v)
        BY <1>6, <2>1
      <3> HIDE DEF w, u
      <3>2. w \in T
        BY <2>1 DEF w
      <3> QED
        BY <1>7, <2>2, <3>1, <3>2 DEF TouchedBefore
    <2> HIDE DEF touches
    <2> QED
      BY <2>2, <2>3 DEF pick_household
  <1> HIDE DEF touches
  <1>11. CASE T = {}
    <2>1. pick_household(touches) = {}
      BY <1>9, <1>11
    <2> QED
      BY <1>3, <1>11, <2>1 DEF T
  <1>12. CASE T # {}
    <2>1. pick_household(touches) = {LatestTouch(T)} /\ LatestTouch(T) \in T
      BY <1>9, <1>10, <1>12
    <2>2. Corrected(row, rows, LongWindow, version) = {Fix(LatestTouch(T))}
      BY <1>3, <2>1
    <2>3. Touched(LatestTouch(T).household_id) = SameHousehold(T)
      BY <1>13, <2>1 DEF SameHousehold
    <2>4. Fix(LatestTouch(T)) = CorrectedFrom(row, T, version)
      BY <2>3, Zenon DEF CorrectedFrom
    <2> QED
      BY <1>12, <2>2, <2>4 DEF T
  <1> QED
    BY <1>11, <1>12

\* A day holds the times from its start to the start of the next.
LEMMA DayHolds ==
    ASSUME NEW t \in Nat
    PROVE  /\ DayOf(t) \in Nat /\ DayOf(t) * DayLength <= t
           /\ t < DayOf(t) * DayLength + DayLength
  BY TimeAssumption DEF DayOf

Candidate(r) == r.path = "hot" /\ r.credited = {}

\* The touches of a candidate in the lake.
LakeTouches(r) == Touches(r, expand_candidates(r), lakeExp, LongWindow)

\* The reads of a day, bucket by bucket, hold what any of its candidates needs.
LEMMA DayReadIsEnough ==
    ASSUME WorldOK(world), lakeExp \subseteq Shown(world), NEW current, NEW row \in current,
           Candidate(row), row.event_time \in Nat
    PROVE  LET day == DayOf(row.event_time)
               start == day * DayLength
               households == UNION {expand_candidates(r) : r \in lake_candidates(current, day)}
               InBucket(b) == {h \in households : BucketOf[h] = b}
               rows == UNION {read_exposures_by_household(
                                InBucket(b), start - LongWindow, start + DayLength) :
                                b \in {BucketOf[h] : h \in households}}
           IN /\ row \in lake_candidates(current, day) /\ rows \subseteq lakeExp
              /\ Touches(row, expand_candidates(row), rows, LongWindow) = LakeTouches(row)
  <1> DEFINE day == DayOf(row.event_time)
             start == day * DayLength
             households == UNION {expand_candidates(r) : r \in lake_candidates(current, day)}
             InBucket(b) == {h \in households : BucketOf[h] = b}
             read(b) == read_exposures_by_household(InBucket(b), start - LongWindow,
                                                    start + DayLength)
             rows == UNION {read(b) : b \in {BucketOf[h] : h \in households}}
  <1>1. row \in lake_candidates(current, day)
    BY DEF lake_candidates, Candidate
  <1>2. expand_candidates(row) \subseteq households
    BY <1>1
  <1>3. start \in Nat /\ start <= row.event_time /\ row.event_time < start + DayLength
    <2>1. day \in Nat /\ day * DayLength <= row.event_time
          /\ row.event_time < day * DayLength + DayLength
      BY DayHolds
    <2>2. DayLength \in Nat
      BY TimeAssumption
    <2> HIDE DEF day
    <2>3. day * DayLength \in Nat
      BY <2>1, <2>2
    <2> QED
      BY <2>1, <2>3
  <1> HIDE DEF day, start, households
  <1>4. \A b : read(b) \subseteq lakeExp
    BY DEF read_exposures_by_household
  <1>5. rows \subseteq lakeExp
    BY <1>4
  <1>6. ASSUME NEW e \in LakeTouches(row)  PROVE e \in rows
    <2>1. /\ e \in lakeExp /\ e.household_id \in expand_candidates(row)
          /\ row.event_time - LongWindow <= e.event_time /\ e.event_time <= row.event_time
      BY DEF LakeTouches, Touches, Eligible
    <2>2. e.event_time \in Nat
      BY <2>1, RowsOfTheWorld DEF ExposureRows
    <2>3. start - LongWindow <= e.event_time /\ e.event_time < start + DayLength
      BY <1>3, <2>1, <2>2, TimeAssumption
    <2> DEFINE b == BucketOf[e.household_id]
    <2>4. e.household_id \in households /\ e.household_id \in InBucket(b)
      BY <1>2, <2>1
    <2>5. e \in read(b)
      BY <2>1, <2>3, <2>4 DEF read_exposures_by_household
    <2>6. b \in {BucketOf[h] : h \in households}
      BY <2>4
    <2> HIDE DEF read, b
    <2> QED
      BY <2>5, <2>6
  <1> HIDE DEF rows
  <1>7. Touches(row, expand_candidates(row), rows, LongWindow) \subseteq LakeTouches(row)
    BY <1>5 DEF LakeTouches, Touches, Eligible
  <1>8. LakeTouches(row) \subseteq Touches(row, expand_candidates(row), rows, LongWindow)
    BY <1>6 DEF LakeTouches, Touches, Eligible
  <1>9. Touches(row, expand_candidates(row), rows, LongWindow) = LakeTouches(row)
    BY <1>7, <1>8
  <1> QED
    BY <1>1, <1>5, <1>9, Zenon DEF rows, read, InBucket, households, start, day

\* The row corrected from what the lake holds.
Correction(r, version) == CorrectedFrom(r, LakeTouches(r), version)

\* recovered: a correction, with the latest touch, of every candidate that has
\* a touch, and of nothing else.
LEMMA RecoveredRows ==
    ASSUME WorldOK(world), lakeExp \subseteq Shown(world), NEW current, NEW version,
           \A r \in current : r.event_time \in Nat
    PROVE  recovered(current, version)
             = {Correction(r, version) :
                  r \in {q \in current : Candidate(q) /\ LakeTouches(q) # {}}}
  <1> DEFINE households(day) == UNION {expand_candidates(r) : r \in lake_candidates(current, day)}
             InBucket(day, b) == {h \in households(day) : BucketOf[h] = b}
             rows(day) == UNION {read_exposures_by_household(
                                InBucket(day, b), day * DayLength - LongWindow,
                                day * DayLength + DayLength) :
                                b \in {BucketOf[h] : h \in households(day)}}
             Due == {q \in current : Candidate(q) /\ LakeTouches(q) # {}}
  <1>1. \A day : recover_day(current, day, version)
                   = UNION {Corrected(r, rows(day), LongWindow, version) :
                              r \in lake_candidates(current, day)}
    BY Zenon DEF recover_day
  <1>2. ASSUME NEW r \in current, Candidate(r)
        PROVE  LET day == DayOf(r.event_time)
               IN /\ r \in lake_candidates(current, day) /\ rows(day) \subseteq lakeExp
                  /\ Touches(r, expand_candidates(r), rows(day), LongWindow) = LakeTouches(r)
    <2>1. r.event_time \in Nat
      OBVIOUS
    <2> QED
      BY <1>2, <2>1, DayReadIsEnough, Zenon
  <1> HIDE DEF rows
  <1>3. ASSUME NEW r \in current, Candidate(r)
        PROVE  Corrected(r, rows(DayOf(r.event_time)), LongWindow, version)
                 = IF LakeTouches(r) = {} THEN {} ELSE {Correction(r, version)}
    <2> DEFINE R == rows(DayOf(r.event_time))
    <2>1. R \subseteq Shown(world)
          /\ Touches(r, expand_candidates(r), R, LongWindow) = LakeTouches(r)
      BY <1>2, <1>3
    <2> HIDE DEF R
    <2>2. LET T == Touches(r, expand_candidates(r), R, LongWindow)
          IN Corrected(r, R, LongWindow, version)
               = IF T = {} THEN {} ELSE {CorrectedFrom(r, T, version)}
      BY <2>1, PickIsLatest, Zenon
    <2> QED
      BY <2>1, <2>2, Zenon DEF R, Correction
  <1>4. ASSUME NEW q \in recovered(current, version)
        PROVE  \E r \in Due : q = Correction(r, version)
    <2>1. PICK day \in candidate_days(current) : q \in recover_day(current, day, version)
      BY DEF recovered
    <2>2. PICK r \in lake_candidates(current, day) :
             q \in Corrected(r, rows(day), LongWindow, version)
      BY <1>1, <2>1
    <2>3. r \in current /\ Candidate(r) /\ day = DayOf(r.event_time)
      BY DEF lake_candidates, Candidate
    <2>4. q \in Corrected(r, rows(DayOf(r.event_time)), LongWindow, version)
      BY <2>2, <2>3
    <2> QED
      BY <1>3, <2>3, <2>4
  <1>5. ASSUME NEW r \in Due
        PROVE  Correction(r, version) \in recovered(current, version)
    <2> DEFINE day == DayOf(r.event_time)
    <2>1. Correction(r, version) \in Corrected(r, rows(day), LongWindow, version)
      BY <1>3
    <2>2. day \in candidate_days(current)
      BY DEF candidate_days, Candidate
    <2>3. r \in lake_candidates(current, day)
      BY <1>2
    <2> HIDE DEF day
    <2>4. Correction(r, version) \in recover_day(current, day, version)
      BY <1>1, <2>1, <2>3
    <2> QED
      BY <2>2, <2>4 DEF recovered
  <1> HIDE DEF Due
  <1>6. recovered(current, version) = {Correction(r, version) : r \in Due}
    BY <1>4, <1>5
  <1> QED
    BY <1>6 DEF Due

\* The version of a correction is above the arrival of everything landed.
LEMMA ReconciledLater ==
    ASSUME TopicsOK, RowsOK, NEW served \in SUBSET lakeExp
    PROVE  /\ reconciled_at(served) \in Nat
           /\ \A r \in lakeAtt : reconciled_at(served) > r.ingest_time
  <1> DEFINE S == {e.ingest_time : e \in served} \cup {r.ingest_time : r \in lakeAtt}
             All == {e.ingest_time : e \in Shown(world)} \cup {c.ingest_time : c \in Made(world)}
  <1>1. /\ IsFiniteSet(Shown(world)) /\ IsFiniteSet(Made(world))
        /\ Shown(world) \subseteq ExposureRows /\ Made(world) \subseteq ConversionRows
    BY RowsOfTheWorld DEF TopicsOK
  <1>2. IsFiniteSet(All)
    <2> DEFINE f == [e \in Shown(world) |-> e.ingest_time]
               g == [c \in Made(world) |-> c.ingest_time]
    <2>1. IsFiniteSet({f[e] : e \in Shown(world)}) /\ IsFiniteSet({g[c] : c \in Made(world)})
      <3>1. DOMAIN f = Shown(world) /\ DOMAIN g = Made(world)
        OBVIOUS
      <3> HIDE DEF f, g
      <3> QED
        BY <1>1, <3>1, FiniteImage
    <2>2. All = {f[e] : e \in Shown(world)} \cup {g[c] : c \in Made(world)}
      OBVIOUS
    <2> HIDE DEF All, f, g
    <2> QED
      BY <2>1, <2>2, FS_Union
  <1>3. S \subseteq All
    BY DEF RowsOK, RowOK
  <1>4. All \subseteq Nat
    BY <1>1 DEF ExposureRows, ConversionRows
  <1>5. max_ingest(served) = Greatest(S)
    BY DEF max_ingest
  <1>6. \A r \in lakeAtt : r.ingest_time \in S
    OBVIOUS
  <1> HIDE DEF S, All
  <1>7. IsFiniteSet(S) /\ S \in SUBSET Nat
    BY <1>2, <1>3, <1>4, FS_Subset
  <1>8. Greatest(S) \in Nat /\ \A n \in S : n <= Greatest(S)
    <2>1. CASE S = {}
      BY <2>1 DEF Greatest
    <2>2. CASE S # {}
      <3>1. \E m \in S : \A n \in S : n <= m
        BY <1>7, <2>2, HasGreatest
      <3>2. \E m \in S : \A n \in S : m >= n
        BY <1>7, <3>1
      <3>3. Max(S) \in S /\ \A n \in S : Max(S) >= n
        BY <3>2 DEF Max
      <3> QED
        BY <1>7, <2>2, <3>3 DEF Greatest
    <2> QED
      BY <2>1, <2>2
  <1> DEFINE most == max_ingest(served)
  <1>9. most \in Nat /\ \A r \in lakeAtt : r.ingest_time \in Nat /\ r.ingest_time <= most
    BY <1>5, <1>6, <1>7, <1>8
  <1>10. Delta \in Nat /\ Delta > 0
    BY TimeAssumption
  <1> HIDE DEF most
  <1>11. ASSUME NEW r \in lakeAtt  PROVE most + Delta > r.ingest_time
    BY <1>9, <1>10
  <1>12. reconciled_at(served) = most + Delta
    BY DEF reconciled_at, most
  <1> QED
    BY <1>9, <1>10, <1>11, <1>12

\* The fields that a correction replaces, and those it leaves alone.
LEMMA CorrectionFields ==
    ASSUME NEW r \in AttributedRows, NEW version
    PROVE  LET q == Correction(r, version)
               t == LatestTouch(LakeTouches(r))
               others == {e.exposure_id : e \in SameHousehold(LakeTouches(r))} \ {t.exposure_id}
           IN /\ q.conversion_id = r.conversion_id /\ q.conv = r.conv
              /\ q.event_time = r.event_time /\ q.ingest_time = r.ingest_time
              /\ q.candidate_count = r.candidate_count
              /\ q.candidate_households = r.candidate_households
              /\ q.household_id = t.household_id /\ q.credited = {t.exposure_id}
              /\ q.assists = others
              /\ q.path = "reconciled" /\ q.processed_at = version
              /\ t.household_id \in HouseholdIds /\ t.exposure_id \in Nat /\ version \in Nat
                 /\ others \subseteq Nat
                   => q \in AttributedRows
  <1> DEFINE t == LatestTouch(LakeTouches(r))
             others == {e.exposure_id : e \in SameHousehold(LakeTouches(r))} \ {t.exposure_id}
  <1>1. Correction(r, version)
          = [r EXCEPT !.household_id = t.household_id, !.credited = {t.exposure_id},
                      !.assists = others,
                      !.reason = "none", !.path = "reconciled", !.processed_at = version]
    BY Zenon DEF Correction, CorrectedFrom
  <1> HIDE DEF t, others
  <1> DEFINE q == Correction(r, version)
  <1>2. q = [conversion_id |-> r.conversion_id, conv |-> r.conv,
             event_time |-> r.event_time, ingest_time |-> r.ingest_time,
             household_id |-> t.household_id, resolution |-> r.resolution,
             candidate_count |-> r.candidate_count,
             candidate_households |-> r.candidate_households,
             credited |-> {t.exposure_id}, assists |-> others, reason |-> "none",
             path |-> "reconciled", processed_at |-> version]
    BY <1>1 DEF AttributedRows
  <1> HIDE DEF q
  <1>3. /\ q.conversion_id = r.conversion_id /\ q.conv = r.conv
        /\ q.event_time = r.event_time /\ q.ingest_time = r.ingest_time
        /\ q.candidate_count = r.candidate_count
        /\ q.candidate_households = r.candidate_households
        /\ q.household_id = t.household_id /\ q.credited = {t.exposure_id}
        /\ q.assists = others
        /\ q.path = "reconciled" /\ q.processed_at = version
    BY <1>2
  <1>4. ASSUME t.household_id \in HouseholdIds, t.exposure_id \in Nat, version \in Nat,
               others \subseteq Nat
        PROVE  q \in AttributedRows
    BY <1>2, <1>4 DEF AttributedRows
  <1> QED
    BY <1>3, <1>4 DEF t, others, q

\* Of the touches of a row in the lake one is the latest; it identifies its
\* household's touches.
LEMMA LakeTouchLatest ==
    ASSUME WorldOK(world), lakeExp \subseteq Shown(world), NEW r, LakeTouches(r) # {}
    PROVE  LET T == LakeTouches(r)
               t == LatestTouch(T)
           IN /\ t \in T /\ T \subseteq ExposureRows
              /\ LatestOf(T) = {t.exposure_id} /\ LatestOf(SameHousehold(T)) = {t.exposure_id}
  <1> DEFINE T == LakeTouches(r)
             t == LatestTouch(T)
             H == SameHousehold(T)
  <1>1. T \subseteq Shown(world) /\ H = {e \in T : e.household_id = t.household_id}
    BY DEF LakeTouches, Touches, Eligible, SameHousehold
  <1> HIDE DEF H
  <1> HIDE DEF T
  <1>2. T # {} /\ H \subseteq T
    BY <1>1 DEF T
  <1>3. Touchable(T) /\ Touchable(H) /\ T \subseteq ExposureRows
    <2>1. H \subseteq Shown(world)
      BY <1>1, <1>2
    <2> QED
      BY <1>1, <2>1, RowsOfTheWorld
  <1>4. t \in T /\ \A e \in T : ~TouchedBefore(t, e)
    BY <1>2, <1>3, LatestTouchIsLast
  <1> HIDE DEF t
  <1>5. t \in H
    BY <1>1, <1>4
  <1>6. LatestTouch(H) \in H /\ \A e \in H : ~TouchedBefore(LatestTouch(H), e)
    BY <1>3, <1>5, LatestTouchIsLast
  <1>7. LatestTouch(H).exposure_id = t.exposure_id
    BY <1>2, <1>3, <1>4, <1>5, <1>6, LastAgree
  <1>8. LatestOf(T) = {t.exposure_id} /\ LatestOf(H) = {t.exposure_id}
    BY <1>2, <1>5, <1>7 DEF LatestOf, t
  <1> QED
    BY <1>3, <1>4, <1>8 DEF T, t, H

\* A correction is in order.
LEMMA CorrectionOK ==
    ASSUME TopicsOK, RowsOK, NEW r \in lakeAtt, Candidate(r), LakeTouches(r) # {},
           NEW served \in SUBSET lakeExp
    PROVE  RowOK(Correction(r, reconciled_at(served)), lakeExp)
  <1> DEFINE version == reconciled_at(served)
             q == Correction(r, version)
             T == LakeTouches(r)
             t == LatestTouch(T)
  <1>1. RowOK(r, lakeExp) /\ r \in AttributedRows
    BY DEF RowsOK, RowOK
  <1>2. t \in T /\ T \subseteq ExposureRows
    BY LakeTouchLatest DEF RowsOK, TopicsOK
  <1>3. /\ t \in lakeExp /\ r.event_time - LongWindow <= t.event_time
        /\ t.event_time <= r.event_time
    BY <1>2 DEF LakeTouches, Touches, Eligible
  <1>4. version \in Nat /\ version > r.ingest_time
    BY ReconciledLater
  <1>5. {e.exposure_id : e \in SameHousehold(T)} \ {t.exposure_id} \subseteq Nat
        /\ t.household_id \in HouseholdIds /\ t.exposure_id \in Nat
    <2>1. SameHousehold(T) \subseteq ExposureRows
      BY <1>2 DEF SameHousehold
    <2> HIDE DEF T, t
    <2> QED
      BY <1>2, <2>1 DEF ExposureRows
  <1> HIDE DEF version
  <1>6. /\ q.conversion_id = r.conversion_id /\ q.conv = r.conv
        /\ q.event_time = r.event_time /\ q.ingest_time = r.ingest_time
        /\ q.household_id = t.household_id /\ q.credited = {t.exposure_id}
        /\ q.path = "reconciled" /\ q.processed_at = version
        /\ q \in AttributedRows
    BY <1>1, <1>4, <1>5, CorrectionFields
  <1> HIDE DEF q, t, T
  <1>7. Credits(q, lakeExp)
    BY <1>1, <1>3, <1>6 DEF Credits, RowOK
  <1>8. RowOK(q, lakeExp)
    BY <1>1, <1>4, <1>6, <1>7 DEF RowOK
  <1> QED
    BY <1>8 DEF q, version

----------------------------------------------------------------------------
(* The invariant that no bound on early runs touches.                       *)

\* More landed exposures leave a row in order.
LEMMA RowKept ==
    ASSUME NEW E, NEW F, E \subseteq F, NEW r, RowOK(r, E)
    PROVE  RowOK(r, F)
  <1>1. Credits(r, F)
    BY DEF RowOK, Credits
  <1> QED
    BY <1>1 DEF RowOK

\* A topic has a length.
LEMMA LogsAreSequences ==
    ASSUME WorldOK(world), NEW t \in Topics
    PROVE  Len(world[t]) \in Nat
  <1>1. /\ world["exposures"] \in Seq(Shown(world)) /\ world["conversions"] \in Seq(Made(world))
        /\ world["device_graph"] \in Seq(HouseholdRows)
    BY DEF WorldOK, Holds, IsGraph
  <1> QED
    BY <1>1 DEF Topics

\* Nothing is read and nothing has landed at first.
LEMMA InvInit ==
    Init => Inv
  <1> SUFFICES ASSUME Init  PROVE Inv
    OBVIOUS
  <1>1. WorldOK(world)
    BY WorldsAreOK DEF Init
  <1>2. TopicsOK
    BY <1>1, LogsAreSequences DEF Init, TopicsOK
  <1>3. EngineOK /\ RowsOK
    BY DEF Init, EngineOK, RowsOK
  <1> QED
    BY <1>2, <1>3 DEF Inv

\* A run reads rows of the world and decides over them; landing and correcting
\* keep rows in order.
LEMMA InvStep ==
    ASSUME Inv, [Next]_vars
    PROVE  Inv'
  <1> USE DEF Inv
  <1>1. world' = world /\ WorldOK(world)' /\ Shown(world)' = Shown(world)
        /\ Made(world)' = Made(world)
    <2>1. world' = world
      BY DEF Next, vars, topics, Deliver, DrainExposures, DrainConversions, Attribute,
             LandExposures, LandAttributed, KillEngine, Reconcile
    <2> QED
      BY <2>1 DEF TopicsOK
  <1>2. ASSUME NEW r, NEW E, RowOK(r, E)  PROVE RowOK(r, E)'
    BY <1>1, <1>2 DEF RowOK
  <1>3. TopicsOK'
    <2>1. ASSUME NEW t \in Topics, Deliver(t)  PROVE TopicsOK'
      <3>1. sent[t] \in Nat /\ sent[t] < Len(world[t]) /\ Len(world[t]) \in Nat
        BY <2>1, LogsAreSequences DEF TopicsOK, Deliver
      <3>2. sent' = [sent EXCEPT ![t] = sent[t] + 1] /\ early' = early
        BY <2>1 DEF Deliver
      <3>3. sent[t] + 1 \in Nat /\ sent[t] + 1 <= Len(world[t])
        BY <3>1
      <3> QED
        BY <1>1, <3>2, <3>3 DEF TopicsOK
    <2>2. CASE UNCHANGED sent /\ early' \in Nat
      BY <1>1, <2>2 DEF TopicsOK
    <2>3. ASSUME ~\E t \in Topics : Deliver(t)  PROVE UNCHANGED sent /\ early' \in Nat
      BY <2>3 DEF TopicsOK, Next, vars, topics, DrainExposures, DrainConversions, Attribute,
             LandExposures, LandAttributed, KillEngine, Reconcile
    <2> QED
      BY <2>1, <2>2, <2>3
  <1>4. ASSUME UNCHANGED <<lakeExp, lakeAtt, pc, exposures, conversions, run, last>>
        PROVE  EngineOK' /\ RowsOK'
    BY <1>1, <1>2, <1>4 DEF EngineOK, RowsOK, Elements
  <1>5. ASSUME DrainExposures  PROVE EngineOK' /\ RowsOK'
    <2>1. exposures' \in Seq(Shown(world)) /\ pc' = "conversions" /\ last' = "none"
          /\ UNCHANGED <<lakeExp, lakeAtt, conversions, run>> /\ run = {}
      BY <1>5, DrainedLogs DEF DrainExposures, EngineOK, lake
    <2> QED
      BY <1>1, <1>2, <2>1 DEF EngineOK, RowsOK
  <1>6. ASSUME DrainConversions  PROVE EngineOK' /\ RowsOK'
    <2>1. conversions' \in Seq(Made(world)) /\ pc' = "graph" /\ last' = "none"
          /\ UNCHANGED <<lakeExp, lakeAtt, exposures, run>> /\ run = {}
      BY <1>6, DrainedLogs DEF DrainConversions, EngineOK, lake
    <2> QED
      BY <1>1, <1>2, <2>1 DEF EngineOK, RowsOK
  <1>7. ASSUME Attribute  PROVE EngineOK' /\ RowsOK'
    <2> DEFINE g == Log("device_graph")
               E == Elements(exposures)
               C == Elements(conversions)
    <2>1. IsGraph(g) /\ WorldOK(world)
      BY DrainedLogs DEF TopicsOK
    <2>2. E \subseteq Shown(world) /\ C \subseteq Made(world)
          /\ exposures \in Seq(Shown(world)) /\ conversions \in Seq(Made(world))
      BY DEF EngineOK, Elements
    <2>3. \E dedup \in Dedup : run' = Decide(exposures, conversions, from_households(g), dedup)
      BY <1>7 DEF Attribute, load_graph_index
    <2> HIDE DEF g, E, C
    <2>4. run' = DecidedRows(g, E, C)
      BY <2>1, <2>2, <2>3, RunDecides DEF E, C
    <2>5. ASSUME NEW r \in run'  PROVE RowOK(r, lakeExp \cup E) /\ r.path = "hot"
      <3>1. PICK c \in C : Behind(g, c) # {} /\ r = DecidedRow(g, E, c)
        BY <2>4 DEF DecidedRows
      <3>2. RowOK(r, E) /\ r.path = "hot"
        BY <2>1, <2>2, <3>1, DecidedRowOK
      <3> QED
        BY <3>2, RowKept
    <2>6. /\ pc' = "landExposures" /\ last' = "none"
          /\ UNCHANGED <<lakeExp, lakeAtt, exposures, conversions>>
      BY <1>7 DEF Attribute, EngineOK, lake
    <2>7. Elements(exposures)' = E
      BY <2>6 DEF E, Elements
    <2> QED
      BY <1>1, <1>2, <2>2, <2>5, <2>6, <2>7 DEF EngineOK, RowsOK
  <1>8. ASSUME LandExposures  PROVE EngineOK' /\ RowsOK'
    <2> DEFINE E == Elements(exposures)
    <2>1. E \subseteq Shown(world)
      BY DEF EngineOK, Elements
    <2>2. /\ lakeExp' = lakeExp \cup E /\ pc' = "landAttributed" /\ last' = "none"
          /\ UNCHANGED <<lakeAtt, exposures, conversions, run>> /\ Elements(exposures)' = E
      BY <1>8 DEF LandExposures, EngineOK, Elements
    <2> HIDE DEF E
    <2>3. ASSUME NEW r \in lakeAtt  PROVE RowOK(r, lakeExp')
      BY <2>2, RowKept DEF RowsOK
    <2>4. ASSUME NEW r \in run  PROVE RowOK(r, lakeExp' \cup E) /\ r.path = "hot"
      BY <2>2, RowKept DEF RowsOK, E
    <2>5. RowsOK'
      BY <1>1, <1>2, <2>1, <2>2, <2>3, <2>4 DEF RowsOK
    <2>6. EngineOK'
      BY <1>1, <2>2 DEF EngineOK
    <2> QED
      BY <2>5, <2>6
  <1>9. ASSUME LandAttributed  PROVE EngineOK' /\ RowsOK'
    <2>1. /\ lakeAtt' = lakeAtt \cup run /\ pc' = "idle" /\ exposures' = <<>>
          /\ conversions' = <<>> /\ run' = {} /\ lakeExp' = lakeExp
          /\ lakeExp \cup Elements(exposures) = lakeExp
      BY <1>9 DEF LandAttributed, EndEngine, EngineOK
    <2>2. \A r \in lakeAtt' : RowOK(r, lakeExp)
      BY <2>1 DEF RowsOK
    <2> QED
      BY <1>1, <1>2, <2>1, <2>2 DEF EngineOK, RowsOK
  <1>10. ASSUME KillEngine  PROVE EngineOK' /\ RowsOK'
    <2>1. /\ pc' = "idle" /\ exposures' = <<>> /\ conversions' = <<>> /\ run' = {}
          /\ lakeExp' = lakeExp /\ lakeAtt' = lakeAtt
      BY <1>10 DEF KillEngine, EndEngine, lake
    <2> QED
      BY <1>1, <1>2, <2>1 DEF EngineOK, RowsOK
  <1>11. ASSUME Reconcile  PROVE EngineOK' /\ RowsOK'
    <2>1. PICK current \in Currents(lakeAtt), served \in SUBSET lakeExp :
             lakeAtt' = lakeAtt \cup recovered(current, reconciled_at(served))
      BY <1>11 DEF Reconcile
    <2>2. /\ pc = "idle" /\ UNCHANGED <<lakeExp, pc, exposures, conversions, run>>
      BY <1>11 DEF Reconcile, engine
    <2>3. current \subseteq lakeAtt /\ \A r \in lakeAtt : r.event_time \in Nat
      BY ReadingOf DEF RowsOK, RowOK, AttributedRows
    <2>4. ASSUME NEW q \in recovered(current, reconciled_at(served))
          PROVE  RowOK(q, lakeExp)
      <3>1. PICK r \in current : /\ Candidate(r) /\ LakeTouches(r) # {}
                                 /\ q = Correction(r, reconciled_at(served))
        BY <2>3, RecoveredRows DEF TopicsOK, RowsOK
      <3> QED
        BY <2>3, <3>1, CorrectionOK
    <2>5. \A r \in lakeAtt' : RowOK(r, lakeExp)
      BY <2>1, <2>4 DEF RowsOK
    <2>6. RowsOK'
      BY <1>1, <1>2, <2>2, <2>5 DEF RowsOK, Elements
    <2>7. EngineOK'
      BY <1>1, <2>2 DEF EngineOK
    <2> QED
      BY <2>6, <2>7
  <1>12. EngineOK' /\ RowsOK'
    <2>1. ASSUME NEW t \in Topics, Deliver(t)
          PROVE  UNCHANGED <<lakeExp, lakeAtt, pc, exposures, conversions, run, last>>
      BY <2>1 DEF Deliver, lake, engine
    <2>2. UNCHANGED vars => UNCHANGED <<lakeExp, lakeAtt, pc, exposures, conversions, run, last>>
      BY DEF vars
    <2> QED
      BY <1>4, <1>5, <1>6, <1>7, <1>8, <1>9, <1>10, <1>11, <2>1, <2>2 DEF Next
  <1> QED
    BY <1>3, <1>12

\* Every row of the lake, and of a run, is of a conversion that was made, and
\* credited within the window of its path with an exposure that landed before
\* it, to the household that saw it.
THEOREM RowsAreInOrder ==
    Spec => []Inv
  BY InvInit, InvStep, PTL DEF Spec

\* A credit of a landed row names one landed exposure.
LEMMA CreditJoins ==
    ASSUME Inv, NEW r \in lakeAtt, r.credited # {}
    PROVE  \E e \in lakeExp :
              /\ r.credited = {e.exposure_id} /\ e.household_id = r.household_id
              /\ e \in ExposureRows /\ e.event_time <= r.event_time
              /\ r.path = "hot" => r.event_time - HotWindow <= e.event_time
              /\ \A x \in lakeExp : r.credited = {x.exposure_id} => x = e
  <1>1. PICK e \in lakeExp :
              /\ r.credited = {e.exposure_id} /\ e.household_id = r.household_id
              /\ e.event_time <= r.event_time
              /\ r.path = "hot" => r.event_time - HotWindow <= e.event_time
    BY DEF Inv, RowsOK, RowOK, Credits
  <1>2. lakeExp \subseteq ExposureRows /\ ById(lakeExp, "exposure_id")
    BY RowsOfTheWorld DEF Inv, TopicsOK, RowsOK, ById
  <1>3. ASSUME NEW x \in lakeExp, r.credited = {x.exposure_id}  PROVE x = e
    <2>1. x.exposure_id = e.exposure_id
      BY <1>1, <1>3
    <2> QED
      BY <1>2, <2>1 DEF ById
  <1> QED
    BY <1>1, <1>2, <1>3

\* The context joins a credit with the one landed exposure that has its id.
LEMMA ContextHolds ==
    Inv => ContextAddsUp
  <1> SUFFICES ASSUME Inv, NEW current \in Currents(lakeAtt)
               PROVE  /\ credited(current) = genre_conversions(current, "news")
                                               \cup genre_conversions(current, "sports")
                      /\ genre_conversions(current, "news")
                           \cap genre_conversions(current, "sports") = {}
                      /\ {p[1] : p \in window_edge_lags(current)}
                           = {r \in credited(current) : r.path = "hot"}
                      /\ \A p \in window_edge_lags(current) : p[2] <= HotWindow
    BY DEF ContextAddsUp
  <1>1. ASSUME NEW r \in credited(current)
        PROVE  /\ r \in lakeAtt /\ r.event_time \in Nat
               /\ \E e \in lakeExp : /\ <<r, e>> \in Joined(current)
                                     /\ e.program_genre \in {"news", "sports"}
                                     /\ e.event_time \in Nat /\ e.event_time <= r.event_time
                                     /\ r.path = "hot" => r.event_time - e.event_time <= HotWindow
                                     /\ \A x \in lakeExp : <<r, x>> \in Joined(current) => x = e
    <2>1. r \in lakeAtt /\ r.credited # {}
      BY ReadingOf DEF credited
    <2>2. r.event_time \in Nat
      BY <2>1 DEF Inv, RowsOK, RowOK, AttributedRows
    <2>3. PICK e \in lakeExp :
              /\ r.credited = {e.exposure_id}
              /\ e \in ExposureRows /\ e.event_time <= r.event_time
              /\ r.path = "hot" => r.event_time - HotWindow <= e.event_time
              /\ \A x \in lakeExp : r.credited = {x.exposure_id} => x = e
      BY <2>1, CreditJoins
    <2>4. e.event_time \in Nat /\ e.program_genre \in {"news", "sports"}
      BY <2>3 DEF ExposureRows
    <2>5. r.path = "hot" => r.event_time - e.event_time <= HotWindow
      BY <2>2, <2>3, <2>4, TimeAssumption
    <2>6. <<r, e>> \in Joined(current)
      BY <2>3 DEF Joined
    <2>7. \A x \in lakeExp : <<r, x>> \in Joined(current) => x = e
      BY <2>3 DEF Joined
    <2> QED
      BY <2>1, <2>2, <2>3, <2>4, <2>5, <2>6, <2>7
  <1>2. ASSUME NEW p \in Joined(current)
        PROVE  p[1] \in credited(current) /\ p[2] \in lakeExp /\ <<p[1], p[2]>> \in Joined(current)
    BY DEF Joined
  <1>3. \A genre : genre_conversions(current, genre)
                     = {p[1] : p \in {q \in Joined(current) : q[2].program_genre = genre}}
    BY DEF genre_conversions
  <1>4. window_edge_lags(current)
          = {<<p[1], p[1].event_time - p[2].event_time>> :
               p \in {q \in Joined(current) : /\ q[1].path = "hot"
                                              /\ q[1].event_time >= q[2].event_time}}
    BY DEF window_edge_lags
  <1>5. ASSUME NEW r \in credited(current)
        PROVE  r \in genre_conversions(current, "news") \cup genre_conversions(current, "sports")
    <2>1. PICK e \in lakeExp : <<r, e>> \in Joined(current) /\ e.program_genre \in {"news", "sports"}
      BY <1>1
    <2>2. r \in genre_conversions(current, e.program_genre)
      BY <1>3, <2>1
    <2> QED
      BY <2>1, <2>2
  <1>6. ASSUME NEW genre, NEW r \in genre_conversions(current, genre)
        PROVE  r \in credited(current)
               /\ \E e \in lakeExp : <<r, e>> \in Joined(current) /\ e.program_genre = genre
    <2>1. PICK p \in Joined(current) : r = p[1] /\ p[2].program_genre = genre
      BY <1>3
    <2> QED
      BY <1>2, <2>1
  <1>7. ASSUME NEW r \in genre_conversions(current, "news"),
               r \in genre_conversions(current, "sports")
        PROVE  FALSE
    <2>1. PICK e \in lakeExp : <<r, e>> \in Joined(current) /\ e.program_genre = "news"
      BY <1>6
    <2>2. PICK x \in lakeExp : <<r, x>> \in Joined(current) /\ x.program_genre = "sports"
      BY <1>6, <1>7
    <2>3. e = x
      BY <1>1, <1>6, <2>1, <2>2
    <2>4. "news" # "sports"
      OBVIOUS
    <2> QED
      BY <2>1, <2>2, <2>3, <2>4
  <1>8. ASSUME NEW p \in window_edge_lags(current)
        PROVE  p[1] \in credited(current) /\ p[1].path = "hot" /\ p[2] <= HotWindow
    <2>1. PICK q \in Joined(current) : /\ q[1].path = "hot"
                                       /\ p = <<q[1], q[1].event_time - q[2].event_time>>
      BY <1>4
    <2>2. q[1] \in credited(current) /\ q[2] \in lakeExp /\ <<q[1], q[2]>> \in Joined(current)
      BY <1>2
    <2>3. q[1].event_time - q[2].event_time <= HotWindow
      BY <1>1, <2>1, <2>2
    <2> QED
      BY <2>1, <2>2, <2>3
  <1>9. ASSUME NEW r \in credited(current), r.path = "hot"
        PROVE  \E p \in window_edge_lags(current) : r = p[1]
    <2>1. PICK e \in lakeExp : <<r, e>> \in Joined(current) /\ e.event_time <= r.event_time
                               /\ e.event_time \in Nat /\ r.event_time \in Nat
      BY <1>1
    <2>2. <<r, r.event_time - e.event_time>> \in window_edge_lags(current)
      BY <1>4, <1>9, <2>1
    <2> QED
      BY <2>2
  <1>10. credited(current) = genre_conversions(current, "news")
                               \cup genre_conversions(current, "sports")
    BY <1>5, <1>6
  <1>11. genre_conversions(current, "news") \cap genre_conversions(current, "sports") = {}
    BY <1>7
  <1>12. {p[1] : p \in window_edge_lags(current)} = {r \in credited(current) : r.path = "hot"}
    BY <1>8, <1>9
  <1> QED
    BY <1>8, <1>10, <1>11, <1>12

\* Collected between any two steps, the agent's context adds up: the genres
\* partition the credited rows, and no hot lag exceeds the hot window.
THEOREM TheContextAddsUp ==
    Spec => []ContextAddsUp
  BY RowsAreInOrder, ContextHolds, PTL

\* A row's own columns stand for those of its conversion.
LEMMA TouchesOfRow ==
    ASSUME Inv, NEW r \in lakeAtt
    PROVE  LongTouches(r) = LakeTouches(r)
  BY DEF Inv, RowsOK, RowOK, LongTouches, LakeTouches, Touches, Eligible

\* Passes by days and buckets correct what one pass over the lake would.
LEMMA BucketsHold ==
    Inv => BucketedEqualsSinglePass
  <1> DEFINE version == reconciled_at(lakeExp)
             Fact(r) == <<r.conversion_id, LatestOf(LongTouches(r)),
                          OthersOf(SameHousehold(LongTouches(r)))>>
             Due(current) == {q \in current : /\ q.path = "hot" /\ q.credited = {}
                                              /\ LongTouches(q) # {}}
  <1> SUFFICES ASSUME Inv, NEW current \in Currents(lakeAtt)
               PROVE  {<<q.conversion_id, q.credited, q.assists>> : q \in recovered(current, version)}
                        = {Fact(r) : r \in Due(current)}
    BY Zenon DEF BucketedEqualsSinglePass
  <1>1. current \subseteq lakeAtt
        /\ \A r \in current : /\ r.event_time \in Nat /\ r \in AttributedRows
                              /\ LongTouches(r) = LakeTouches(r)
    <2>1. current \subseteq lakeAtt
      BY ReadingOf
    <2>2. \A r \in lakeAtt : r.event_time \in Nat /\ r \in AttributedRows
      BY DEF Inv, RowsOK, RowOK, AttributedRows
    <2>3. \A r \in lakeAtt : LongTouches(r) = LakeTouches(r)
      BY TouchesOfRow
    <2> QED
      BY <2>1, <2>2, <2>3
  <1>2. WorldOK(world) /\ lakeExp \subseteq Shown(world)
    BY DEF Inv, TopicsOK, RowsOK
  <1>3. Due(current) = {q \in current : Candidate(q) /\ LakeTouches(q) # {}}
    BY <1>1 DEF Candidate
  <1> HIDE DEF version, Due
  <1>4. recovered(current, version) = {Correction(r, version) : r \in Due(current)}
    BY <1>1, <1>2, <1>3, RecoveredRows
  <1>5. ASSUME NEW r \in Due(current)
        PROVE  LET q == Correction(r, version)
               IN <<q.conversion_id, q.credited, q.assists>> = Fact(r)
    <2> DEFINE q == Correction(r, version)
               T == LakeTouches(r)
               t == LatestTouch(T)
    <2>1. r \in AttributedRows /\ LongTouches(r) = T /\ T # {}
      BY <1>1, <1>3
    <2>2. /\ q.conversion_id = r.conversion_id /\ q.credited = {t.exposure_id}
          /\ q.assists = {e.exposure_id : e \in SameHousehold(T)} \ {t.exposure_id}
      BY <2>1, CorrectionFields
    <2>3. LatestOf(T) = {t.exposure_id} /\ LatestOf(SameHousehold(T)) = {t.exposure_id}
      BY <1>2, <2>1, LakeTouchLatest
    <2> HIDE DEF q, t
    <2>4. q.credited = LatestOf(T) /\ q.assists = OthersOf(SameHousehold(T))
      BY <2>2, <2>3 DEF OthersOf
    <2> HIDE DEF T
    <2> QED
      BY <2>1, <2>2, <2>4 DEF q
  <1> HIDE DEF Fact
  <1> QED
    BY <1>4, <1>5

\* The pass by days and buckets finds what a single pass over the whole lake
\* would, whatever the buckets and the length of a day.
THEOREM ThePassIsSingle ==
    Spec => []BucketedEqualsSinglePass
  BY RowsAreInOrder, BucketsHold, PTL

----------------------------------------------------------------------------
(* Runs over complete topics.                                               *)

\* In the whole graph, the households behind a conversion are its candidates,
\* and its own household is one of them.
LEMMA CandidatesBehind ==
    ASSUME WorldOK(world), NEW c
    PROVE  /\ Behind(world.device_graph, c) = Candidates(c)
           /\ IsFiniteSet(Candidates(c)) /\ Candidates(c) \subseteq HouseholdIds
           /\ c \in Made(world) => world.home[c.conversion_id] \in Candidates(c)
  <1> DEFINE g == world.device_graph
  <1>1. IsGraph(g) /\ 1..Len(g) = HouseholdIds
    BY DEF WorldOK, HouseholdIds
  <1>2. Behind(g, c) = Candidates(c)
    BY <1>1 DEF Behind, Known, Listing, Candidates
  <1>3. IsFiniteSet(Candidates(c)) /\ Candidates(c) \subseteq HouseholdIds
    BY <1>1, <1>2, BehindFinite
  <1>4. ASSUME c \in Made(world)  PROVE world.home[c.conversion_id] \in Behind(g, c)
    <2> DEFINE home == world.home[c.conversion_id]
    <2>1. /\ home \in HouseholdIds /\ c.device_id \in {DeviceOf(home), UnknownDevice}
          /\ c.ip \in g[home].ips
      BY <1>4 DEF WorldOK, Grounded
    <2>2. \A h \in 1..Len(g) : g[h].devices = {DeviceOf(h)}
      BY <1>1 DEF IsGraph
    <2> SUFFICES home \in Behind(g, c)
      OBVIOUS
    <2> HIDE DEF home, g
    <2>3. CASE c.device_id = DeviceOf(home)
      <3>1. home \in Known(g, c)
        BY <1>1, <2>1, <2>2, <2>3 DEF Known
      <3> QED
        BY <3>1 DEF Behind
    <2>4. CASE c.device_id = UnknownDevice
      <3>1. \A h \in HouseholdIds : UnknownDevice # DeviceOf(h)
        BY ProducerAssumption DEF HouseholdIds, UnknownDevice, DeviceOf
      <3>2. Known(g, c) = {}
        BY <1>1, <2>2, <2>4, <3>1 DEF Known
      <3>3. home \in Listing(g, c.ip)
        BY <1>1, <2>1 DEF Listing
      <3> QED
        BY <3>2, <3>3 DEF Behind
    <2> QED
      BY <2>1, <2>3, <2>4
  <1> QED
    BY <1>2, <1>3, <1>4

\* The rows of the offline replay: one for a conversion, from its candidates.
LEMMA OfflineRow ==
    ASSUME WorldOK(world), NEW r \in offline_attributed
    PROVE  /\ r.conv \in Made(world) /\ r.conversion_id = r.conv.conversion_id /\ r.path = "hot"
           /\ r = DecidedRow(world.device_graph, Shown(world), r.conv)
           /\ FromCandidates(r)
           /\ Cardinality(Candidates(r.conv)) > 1 => r.credited = {} /\ r.assists = {}
           /\ ~(Cardinality(Candidates(r.conv)) > 1) =>
                 /\ {r.household_id} = Candidates(r.conv)
                 /\ r.credited = LatestOf(Touches(r.conv, Candidates(r.conv), Shown(world), HotWindow))
                 /\ r.assists = OthersOf(Touches(r.conv, Candidates(r.conv), Shown(world), HotWindow))
  <1> DEFINE g == world.device_graph
             E == Shown(world)
  <1>1. PICK c \in Made(world) : Behind(g, c) # {} /\ r = DecidedRow(g, E, c)
    BY OfflineIsDecided DEF DecidedRows
  <1>2. IsDecided(r, g, E, c) /\ IsGraph(g)
    BY <1>1, DecidedFields DEF WorldOK
  <1>3. Behind(g, c) = Candidates(c) /\ IsFiniteSet(Candidates(c))
    BY CandidatesBehind
  <1>4. LowestBehind(g, c) \in Candidates(c)
    BY <1>1, <1>2, <1>3, LowestIsBehind
  <1> DEFINE n == Cardinality(Candidates(c))
             el == HotEligible(g, E, c)
  <1>5. /\ r.conv = c /\ r.conversion_id = c.conversion_id /\ r.path = "hot"
        /\ r.household_id = LowestBehind(g, c) /\ r.candidate_count = n
        /\ r.candidate_households = (IF n > 1 THEN Candidates(c) ELSE {})
        /\ r.credited = IF n > 1 THEN {} ELSE LatestOf(el)
        /\ r.assists = IF n > 1 THEN {} ELSE OthersOf(el)
    BY <1>2, <1>3, Zenon DEF IsDecided
  <1>6. ASSUME ~(n > 1)
        PROVE  /\ {r.household_id} = Candidates(c)
               /\ r.credited = LatestOf(Touches(c, Candidates(c), E, HotWindow))
               /\ r.assists = OthersOf(Touches(c, Candidates(c), E, HotWindow))
    <2>1. Candidates(c) = {LowestBehind(g, c)}
      <3>1. \E x : Candidates(c) = {x}
        BY <1>1, <1>3, <1>6, OneOrMore
      <3> QED
        BY <1>4, <3>1
    <2>2. el = Touches(c, Candidates(c), E, HotWindow)
      BY <2>1 DEF HotEligible, Touches, Eligible
    <2> QED
      BY <1>5, <1>6, <2>1, <2>2
  <1>7. FromCandidates(r)
    BY <1>4, <1>5 DEF FromCandidates
  <1> HIDE DEF n, el
  <1> QED
    BY <1>1, <1>5, <1>6, <1>7 DEF n

\* The whole topics decide what the offline replay does.
LEMMA WholeRunIsOffline ==
    ASSUME Inv, Complete, Elements(exposures) = Shown(world), Elements(conversions) = Made(world),
           NEW dedup
    PROVE  Decide(exposures, conversions, load_graph_index, dedup) = offline_attributed
  <1>1. WorldOK(world) /\ exposures \in Seq(Shown(world)) /\ conversions \in Seq(Made(world))
    BY DEF Inv, TopicsOK, EngineOK
  <1>2. IsGraph(world.device_graph) /\ load_graph_index = from_households(world.device_graph)
    BY <1>1, DrainedLogs DEF Inv, WorldOK, load_graph_index
  <1>3. Decide(exposures, conversions, load_graph_index, dedup)
          = DecidedRows(world.device_graph, Elements(exposures), Elements(conversions))
    BY <1>1, <1>2, RunDecides
  <1> QED
    BY <1>1, <1>3, OfflineIsDecided

\* After a pass, a corrected row is beside every row that could be corrected.
LEMMA PassCorrects ==
    ASSUME Inv, Hot(lakeAtt) \subseteq offline_attributed,
           NEW current \in Currents(lakeAtt), NEW version, NEW r \in lakeAtt, Recoverable(r)
    PROVE  \E q \in lakeAtt \cup recovered(current, version) :
              q.path = "reconciled" /\ q.conversion_id = r.conversion_id
  <1>1. WorldOK(world) /\ lakeExp \subseteq Shown(world)
    BY DEF Inv, TopicsOK, RowsOK
  <1>2. PICK q \in current : q.conversion_id = r.conversion_id /\ q \in lakeAtt
    BY ReadingOf
  <1>3. q \in AttributedRows /\ r \in AttributedRows
    BY <1>2 DEF Inv, RowsOK, RowOK
  <1>4. CASE q.path = "reconciled"
    BY <1>2, <1>4
  <1>5. CASE q.path = "hot"
    <2>1. q \in offline_attributed /\ r \in offline_attributed
      BY <1>2, <1>5 DEF Hot, Recoverable
    <2>2. q.conv = r.conv
      <3>1. q.conv \in Made(world) /\ r.conv \in Made(world)
            /\ q.conv.conversion_id = r.conv.conversion_id
        BY <1>1, <1>2, <2>1, OfflineRow
      <3> QED
        BY <1>1, <3>1, RowsOfTheWorld DEF ById
    <2>3. q = r
      BY <1>1, <2>1, <2>2, OfflineRow
    <2>4. r \in current /\ Candidate(r) /\ LakeTouches(r) # {}
      BY <1>2, <2>3, TouchesOfRow DEF Recoverable, Candidate
    <2>5. \A x \in current : x.event_time \in Nat
      BY ReadingOf DEF Inv, RowsOK, RowOK, AttributedRows
    <2>6. Correction(r, version) \in recovered(current, version)
      BY <1>1, <2>4, <2>5, RecoveredRows
    <2>7. /\ Correction(r, version).path = "reconciled"
          /\ Correction(r, version).conversion_id = r.conversion_id
      BY <1>3, CorrectionFields
    <2> QED
      BY <2>6, <2>7
  <1> QED
    BY <1>3, <1>4, <1>5 DEF AttributedRows

\* Corrections keep to the candidates of their row.
LEMMA CorrectionFromCandidates ==
    ASSUME Inv, NEW r \in lakeAtt, FromCandidates(r), LakeTouches(r) # {}, NEW version
    PROVE  FromCandidates(Correction(r, version))
  <1> DEFINE t == LatestTouch(LakeTouches(r))
  <1>1. r \in AttributedRows /\ WorldOK(world)
    BY DEF Inv, RowsOK, RowOK, TopicsOK
  <1>2. t.household_id \in expand_candidates(r)
    <2>1. t \in LakeTouches(r)
      BY LakeTouchLatest DEF Inv, TopicsOK, RowsOK
    <2> HIDE DEF t
    <2> QED
      BY <2>1 DEF LakeTouches, Touches, Eligible
  <1>3. expand_candidates(r) \subseteq Candidates(r.conv)
    BY DEF expand_candidates, FromCandidates
  <1>4. LET q == Correction(r, version)
        IN /\ q.conv = r.conv /\ q.candidate_count = r.candidate_count
           /\ q.candidate_households = r.candidate_households /\ q.household_id = t.household_id
    BY <1>1, CorrectionFields
  <1> QED
    BY <1>2, <1>3, <1>4 DEF FromCandidates

\* Nothing has run at first.
LEMMA EarlyInit ==
    Init => EarlyInv
  BY DEF Init, EarlyInv, WholeRun, WholeLake, Hot

\* A run that starts when the producer is done decides what the offline replay does,
\* so landing it twice, or after a kill, adds no other hot row.
LEMMA EarlyStep ==
    ASSUME Inv, EarlyInv, [Next]_vars
    PROVE  EarlyInv'
  <1> SUFFICES ASSUME early' = 0  PROVE WholeRun' /\ WholeLake'
    BY DEF EarlyInv
  <1>1. world' = world
    BY DEF Next, vars, topics, Deliver, DrainExposures, DrainConversions, Attribute,
           LandExposures, LandAttributed, KillEngine, Reconcile
  <1>2. /\ Shown(world)' = Shown(world) /\ Made(world)' = Made(world)
        /\ offline_attributed' = offline_attributed
        /\ \A r : FromCandidates(r) => FromCandidates(r)'
    BY <1>1 DEF offline_attributed, offline_resolved, FromCandidates, Candidates
  <1>3. early = 0 /\ (DrainExposures => Complete)
    <2>1. early \in Nat
      BY DEF Inv, TopicsOK
    <2>2. early' = early \/ early' = early + 1
      BY DEF Next, vars, Deliver, DrainExposures, DrainConversions, Attribute,
             LandExposures, LandAttributed, KillEngine, Reconcile
    <2>3. DrainExposures => Complete \/ early' = early + 1
      BY DEF DrainExposures
    <2> QED
      BY <2>1, <2>2, <2>3
  <1>4. WholeRun /\ WholeLake
    BY <1>3 DEF EarlyInv
  <1>5. sent' = sent => Complete' = Complete
    BY <1>1 DEF Complete
  <1>6. ASSUME UNCHANGED <<lakeExp, lakeAtt, last>>, pc' # "landAttributed" \/ pc' = pc
        PROVE  WholeLake'
    BY <1>1, <1>2, <1>4, <1>6 DEF WholeLake, Hot, Recoverable, LongTouches, Touches, expand_candidates
  <1>7. ASSUME NEW t \in Topics, Deliver(t)  PROVE WholeRun' /\ WholeLake'
    <2>1. ~Complete
      <3>1. sent[t] < Len(world[t]) /\ sent[t] \in Nat /\ Len(world[t]) \in Nat
        BY <1>7, LogsAreSequences DEF Deliver, Inv, TopicsOK
      <3>2. sent[t] # Len(world[t])
        BY <3>1
      <3> QED
        BY <3>2 DEF Complete
    <2>2. pc = "idle" /\ lakeExp = {} /\ lakeAtt = {}
      BY <1>4, <2>1 DEF WholeRun
    <2>3. UNCHANGED <<lakeExp, lakeAtt, pc, exposures, conversions, run, last>>
      BY <1>7 DEF Deliver, lake, engine
    <2>4. WholeRun'
      BY <2>2, <2>3 DEF WholeRun
    <2> QED
      BY <1>6, <2>3, <2>4
  <1>8. ASSUME DrainExposures  PROVE WholeRun' /\ WholeLake'
    <2>1. /\ Complete /\ sent' = sent /\ pc' = "conversions" /\ last' = "none"
          /\ UNCHANGED <<lakeExp, lakeAtt, conversions, run>> /\ exposures' = Log("exposures")
      BY <1>3, <1>8 DEF DrainExposures, topics, lake
    <2>2. Elements(exposures)' = Shown(world)
      BY <2>1, DrainedLogs DEF Inv, Elements
    <2>3. WholeRun'
      BY <1>2, <1>5, <2>1, <2>2 DEF WholeRun
    <2>4. WholeLake'
      BY <1>2, <1>4, <2>1 DEF WholeLake, Hot
    <2> QED
      BY <2>3, <2>4
  <1>9. ASSUME DrainConversions  PROVE WholeRun' /\ WholeLake'
    <2>1. /\ pc = "conversions" /\ sent' = sent /\ pc' = "graph" /\ Complete
          /\ UNCHANGED <<lakeExp, lakeAtt, exposures, run, last>>
          /\ conversions' = Log("conversions")
      BY <1>4, <1>9 DEF DrainConversions, topics, lake, WholeRun
    <2>2. Elements(conversions)' = Made(world) /\ Elements(exposures)' = Shown(world)
      BY <1>4, <2>1, DrainedLogs DEF Inv, Elements, WholeRun
    <2>3. WholeRun'
      BY <1>2, <1>5, <2>1, <2>2 DEF WholeRun
    <2> QED
      BY <1>6, <2>1, <2>3
  <1>10. ASSUME Attribute  PROVE WholeRun' /\ WholeLake'
    <2>1. /\ pc = "graph" /\ sent' = sent /\ pc' = "landExposures" /\ Complete
          /\ UNCHANGED <<lakeExp, lakeAtt, exposures, conversions, last>>
      BY <1>4, <1>10 DEF Attribute, topics, lake, WholeRun
    <2>2. Elements(conversions) = Made(world) /\ Elements(exposures) = Shown(world)
      BY <1>4, <2>1 DEF WholeRun
    <2>3. run' = offline_attributed
      <3>1. \E dedup \in Dedup : run' = Decide(exposures, conversions, load_graph_index, dedup)
        BY <1>10 DEF Attribute
      <3> QED
        BY <2>1, <2>2, <3>1, WholeRunIsOffline
    <2>4. Elements(conversions)' = Made(world) /\ Elements(exposures)' = Shown(world)
      BY <2>1, <2>2 DEF Elements
    <2>5. WholeRun'
      BY <1>2, <1>5, <2>1, <2>3, <2>4 DEF WholeRun
    <2> QED
      BY <1>6, <2>1, <2>5
  <1>11. ASSUME LandExposures  PROVE WholeRun' /\ WholeLake'
    <2>1. /\ pc = "landExposures" /\ sent' = sent /\ pc' = "landAttributed" /\ Complete
          /\ UNCHANGED <<lakeAtt, exposures, conversions, run, last>>
          /\ lakeExp' = lakeExp \cup Elements(exposures) /\ last = "none"
      BY <1>4, <1>11 DEF LandExposures, topics, WholeRun, Elements, Inv, EngineOK
    <2>2. /\ Elements(conversions) = Made(world) /\ Elements(exposures) = Shown(world)
          /\ run = offline_attributed
      BY <1>4, <2>1 DEF WholeRun
    <2>3. Elements(conversions)' = Made(world) /\ Elements(exposures)' = Shown(world)
      BY <2>1, <2>2 DEF Elements
    <2>4. lakeExp' = Shown(world)
      BY <2>1, <2>2 DEF Inv, RowsOK
    <2>5. WholeRun'
      BY <1>2, <1>5, <2>1, <2>2, <2>3 DEF WholeRun
    <2>6. WholeLake'
      BY <1>2, <1>4, <2>1, <2>4 DEF WholeLake, Hot
    <2> QED
      BY <2>5, <2>6
  <1>12. ASSUME LandAttributed  PROVE WholeRun' /\ WholeLake'
    <2>1. /\ pc = "landAttributed" /\ sent' = sent /\ pc' = "idle" /\ Complete
          /\ lakeAtt' = lakeAtt \cup run /\ lakeExp' = lakeExp /\ last' = "engine"
          /\ run = offline_attributed /\ lakeExp = Shown(world)
      BY <1>4, <1>12 DEF LandAttributed, EndEngine, topics, WholeRun, WholeLake
    <2>2. \A r \in run : r.path = "hot" /\ FromCandidates(r)
      BY <2>1, OfflineRow DEF Inv, TopicsOK
    <2>3. Hot(lakeAtt)' = offline_attributed
      BY <1>4, <2>1, <2>2 DEF Hot, WholeLake
    <2>4. WholeRun'
      BY <1>5, <2>1 DEF WholeRun
    <2>5. \A r \in lakeAtt' : FromCandidates(r)
      BY <1>4, <2>1, <2>2 DEF WholeLake
    <2>6. WholeLake'
      BY <1>2, <2>1, <2>3, <2>5 DEF WholeLake
    <2> QED
      BY <2>4, <2>6
  <1>13. ASSUME KillEngine  PROVE WholeRun' /\ WholeLake'
    <2>1. /\ sent' = sent /\ pc' = "idle" /\ Complete /\ UNCHANGED <<lakeExp, lakeAtt, last>>
      BY <1>4, <1>13 DEF KillEngine, EndEngine, topics, lake, WholeRun
    <2>2. WholeRun'
      BY <1>5, <2>1 DEF WholeRun
    <2> QED
      BY <1>6, <2>1, <2>2
  <1>14. ASSUME Reconcile  PROVE WholeRun' /\ WholeLake'
    <2>1a. PICK current \in Currents(lakeAtt), served \in SUBSET lakeExp :
             lakeAtt' = lakeAtt \cup recovered(current, reconciled_at(served))
      BY <1>14 DEF Reconcile
    <2> DEFINE version == reconciled_at(served)
    <2> HIDE DEF version
    <2>1. lakeAtt' = lakeAtt \cup recovered(current, version)
      BY <2>1a DEF version
    <2>2. /\ pc = "idle" /\ lakeAtt # {} /\ last' = "reconcile" /\ sent' = sent
          /\ UNCHANGED <<lakeExp, pc, exposures, conversions, run>>
      BY <1>14 DEF Reconcile, engine, topics
    <2>3. Complete /\ lakeExp = Shown(world) /\ WorldOK(world) /\ lakeExp \subseteq Shown(world)
      BY <1>4, <2>2 DEF WholeRun, WholeLake, Inv, TopicsOK
    <2>4. current \subseteq lakeAtt /\ \A r \in lakeAtt : r.event_time \in Nat /\ r \in AttributedRows
      BY ReadingOf DEF Inv, RowsOK, RowOK, AttributedRows
    <2>5. ASSUME NEW q \in recovered(current, version)
          PROVE  q.path = "reconciled" /\ FromCandidates(q)
      <3>1. PICK r \in current : LakeTouches(r) # {} /\ q = Correction(r, version)
        BY <2>3, <2>4, RecoveredRows
      <3>2. q.path = "reconciled"
        BY <2>4, <3>1, CorrectionFields
      <3>3. FromCandidates(r)
        BY <1>4, <2>4 DEF WholeLake
      <3> QED
        BY <2>4, <3>1, <3>2, <3>3, CorrectionFromCandidates
    <2>6. Hot(lakeAtt') = Hot(lakeAtt) /\ Hot(lakeAtt) \subseteq offline_attributed
      BY <1>4, <2>1, <2>5 DEF Hot, WholeLake
    <2>7. ASSUME NEW r \in lakeAtt', Recoverable(r)
          PROVE  \E q \in lakeAtt' : q.path = "reconciled" /\ q.conversion_id = r.conversion_id
      <3>1. r \in lakeAtt
        BY <2>6, <2>7 DEF Recoverable, Hot
      <3> QED
        BY <2>1, <2>6, <2>7, <3>1, PassCorrects
    <2>8. \A r : Recoverable(r)' => Recoverable(r)
      BY <2>2 DEF Recoverable, LongTouches, Touches, expand_candidates
    <2>9. \A r \in lakeAtt' : FromCandidates(r)
      BY <1>4, <2>1, <2>5 DEF WholeLake
    <2>10. WholeRun'
      BY <1>2, <1>4, <1>5, <2>2, <2>3 DEF WholeRun
    <2>11. WholeLake'
      BY <1>2, <2>2, <2>3, <2>6, <2>7, <2>8, <2>9 DEF WholeLake
    <2> QED
      BY <2>10, <2>11
  <1>15. ASSUME UNCHANGED vars  PROVE WholeRun' /\ WholeLake'
    <2>1. UNCHANGED <<sent, lakeExp, lakeAtt, pc, exposures, conversions, run, last>>
      BY <1>15 DEF vars
    <2>2. WholeRun'
      BY <1>2, <1>4, <1>5, <2>1 DEF WholeRun, Elements
    <2> QED
      BY <1>6, <2>1, <2>2
  <1> QED
    BY <1>7, <1>8, <1>9, <1>10, <1>11, <1>12, <1>13, <1>14, <1>15 DEF Next

\* The invariant the three properties of a whole run rest on.
THEOREM IInvHolds ==
    Spec => []IInv
  BY InvInit, EarlyInit, InvStep, EarlyStep, PTL DEF Spec, IInv

\* What a row of the lake is when the topics were complete.
LEMMA WholeRow ==
    ASSUME IInv, early = 0, NEW r \in lakeAtt
    PROVE  /\ WorldOK(world) /\ WholeLake /\ lakeExp = Shown(world)
           /\ RowOK(r, lakeExp) /\ FromCandidates(r)
           /\ r.conv \in Made(world) /\ r.conversion_id = r.conv.conversion_id
           /\ r.path = "hot" => r \in offline_attributed
           /\ r.path \in {"hot", "reconciled"}
           /\ world.home[r.conversion_id] \in Candidates(r.conv)
           /\ IsFiniteSet(Candidates(r.conv))
           /\ Grounded(world, r.conv)
  <1>1. WorldOK(world) /\ WholeLake /\ lakeExp = Shown(world)
    BY DEF IInv, Inv, TopicsOK, EarlyInv, WholeLake
  <1>2. RowOK(r, lakeExp) /\ FromCandidates(r)
    BY <1>1 DEF IInv, Inv, RowsOK, WholeLake
  <1>3. /\ r.conv \in Made(world) /\ r.conversion_id = r.conv.conversion_id
        /\ r.path \in {"hot", "reconciled"}
    BY <1>2 DEF RowOK, AttributedRows
  <1>4. r.path = "hot" => r \in offline_attributed
    BY <1>1 DEF WholeLake, Hot
  <1>5. Grounded(world, r.conv)
    BY <1>1, <1>3 DEF WorldOK
  <1> QED
    BY <1>1, <1>2, <1>3, <1>4, <1>5, CandidatesBehind

\* The three conjuncts from what a whole run decides.
LEMMA DecisionHolds ==
    IInv => LakeHoldsTheDecision
  <1> SUFFICES ASSUME IInv, early = 0  PROVE LakeHoldsTheDecision
    BY DEF LakeHoldsTheDecision
  <1>1. ASSUME NEW r \in {q \in lakeAtt : q.path = "hot"}
        PROVE  LET households == Candidates(r.conv)
               IN IF Cardinality(households) > 1
                  THEN r.credited = {} /\ r.assists = {} /\ r.candidate_households = households
                  ELSE /\ {r.household_id} = households /\ r.candidate_households = {}
                       /\ r.credited = LatestOf(HotTouches(r))
                       /\ r.assists = OthersOf(HotTouches(r))
    <2>1. WorldOK(world) /\ r \in offline_attributed /\ FromCandidates(r)
      BY WholeRow
    <2>2. {world.exposures[i] : i \in DOMAIN world.exposures} = Shown(world)
      <3>1. world.exposures \in Seq(Shown(world))
        BY <2>1 DEF WorldOK, Holds
      <3>2. DOMAIN world.exposures = 1..Len(world.exposures)
        BY <3>1
      <3> QED
        BY <3>2 DEF Shown
    <2>3. r.candidate_households = IF Cardinality(Candidates(r.conv)) > 1
                                   THEN Candidates(r.conv) ELSE {}
      BY <2>1 DEF FromCandidates
    <2>4. HotTouches(r) = Touches(r.conv, Candidates(r.conv), Shown(world), HotWindow)
      BY <2>2, Zenon DEF HotTouches
    <2>5. /\ Cardinality(Candidates(r.conv)) > 1 => r.credited = {} /\ r.assists = {}
          /\ ~(Cardinality(Candidates(r.conv)) > 1) =>
                 /\ {r.household_id} = Candidates(r.conv)
                 /\ r.credited = LatestOf(HotTouches(r)) /\ r.assists = OthersOf(HotTouches(r))
      BY <2>1, <2>4, OfflineRow
    <2> QED
      BY <2>3, <2>5
  <1>2. last = "engine" => {q \in lakeAtt : q.path = "hot"} = offline_attributed
    BY DEF IInv, EarlyInv, WholeLake, Hot
  <1> QED
    BY <1>1, <1>2, Zenon DEF LakeHoldsTheDecision

\* Once the topics are complete the lake holds, for every conversion, the
\* decision of the whole run, whatever was re-sent, killed or run before.
THEOREM TheLakeHoldsTheDecision ==
    Spec => []LakeHoldsTheDecision
  BY IInvHolds, DecisionHolds, PTL

\* What a pass leaves unattributed has no exposure left to be credited with.
LEMMA RecoveryHolds ==
    IInv => ReconcileRecoversAll
  <1> SUFFICES ASSUME IInv, early = 0, last = "reconcile", NEW current \in Currents(lakeAtt)
               PROVE  /\ recovered(current, reconciled_at(lakeExp)) = {}
                      /\ \A r \in current : r.conversion_id \in caused_missed(current) =>
                           \A e \in lakeExp : {e.exposure_id} = world.truth[r.conversion_id]
                              => r.event_time - e.event_time > LongWindow
    BY DEF ReconcileRecoversAll
  <1>1. /\ current \subseteq lakeAtt
        /\ \A r \in current : r \in Tops(lakeAtt, r.conversion_id)
    BY ReadingOf
  <1>2. /\ WorldOK(world) /\ lakeExp \subseteq Shown(world)
        /\ \A r \in lakeAtt : RowOK(r, lakeExp)
    BY DEF IInv, Inv, TopicsOK, RowsOK
  <1>3. \A r \in current : r.event_time \in Nat /\ r \in AttributedRows
    BY <1>1, <1>2 DEF RowOK, AttributedRows
  <1>4. ASSUME NEW r \in current, Candidate(r), LakeTouches(r) # {}  PROVE FALSE
    <2>1. Recoverable(r)
      BY <1>1, <1>4, TouchesOfRow DEF Recoverable, Candidate, IInv
    <2>2. PICK q \in lakeAtt : q.path = "reconciled" /\ q.conversion_id = r.conversion_id
      BY <1>1, <2>1 DEF IInv, EarlyInv, WholeLake
    <2>3. RowOK(r, lakeExp) /\ RowOK(q, lakeExp)
      BY <1>1, <1>2
    <2>4. r.conv = q.conv
      BY <1>2, <2>2, <2>3, RowsOfTheWorld DEF RowOK, ById
    <2>5. r.processed_at = r.ingest_time /\ q.processed_at > q.ingest_time
          /\ q.ingest_time = r.ingest_time
      BY <1>4, <2>2, <2>3, <2>4 DEF RowOK, Candidate
    <2>6. Outranks(q, r)
      BY <2>5 DEF Outranks
    <2>7. ~Outranks(q, r)
      BY <1>1, <2>2 DEF Tops
    <2> QED
      BY <2>6, <2>7
  <1>5. recovered(current, reconciled_at(lakeExp)) = {}
    <2> SUFFICES ASSUME NEW q \in recovered(current, reconciled_at(lakeExp))  PROVE FALSE
      OBVIOUS
    <2>1. PICK r \in current : Candidate(r) /\ LakeTouches(r) # {}
      BY <1>2, <1>3, RecoveredRows
    <2> QED
      BY <1>4, <2>1
  <1>6. ASSUME NEW r \in current, r.conversion_id \in caused_missed(current),
               NEW e \in lakeExp, {e.exposure_id} = world.truth[r.conversion_id]
        PROVE  r.event_time - e.event_time > LongWindow
    <2>1. /\ RowOK(r, lakeExp) /\ FromCandidates(r) /\ r.conv \in Made(world)
          /\ r.conversion_id = r.conv.conversion_id /\ lakeExp = Shown(world)
          /\ world.home[r.conversion_id] \in Candidates(r.conv)
          /\ IsFiniteSet(Candidates(r.conv)) /\ Grounded(world, r.conv)
          /\ r.path \in {"hot", "reconciled"}
      BY <1>1, WholeRow
    <2>2. Candidate(r)
      <3>1. r.credited = {}
        BY <1>6 DEF caused_missed, credited
      <3> QED
        BY <2>1, <3>1 DEF RowOK, Candidate
    <2> DEFINE home == world.home[r.conversion_id]
    <2>3. PICK x \in Shown(world) : /\ x.exposure_id = e.exposure_id /\ x.household_id = home
                                    /\ x.event_time < r.event_time
      BY <1>6, <2>1 DEF Grounded, RowOK
    <2>4. x = e
      BY <1>2, <2>1, <2>3, RowsOfTheWorld DEF ById
    <2>5. home \in expand_candidates(r)
      <3>1. CASE Cardinality(Candidates(r.conv)) > 1
        BY <2>1, <3>1 DEF FromCandidates, expand_candidates
      <3>2. CASE ~(Cardinality(Candidates(r.conv)) > 1)
        <4>1. \E y : Candidates(r.conv) = {y}
          BY <2>1, <3>2, OneOrMore
        <4>2. r.household_id = home
          BY <2>1, <4>1 DEF FromCandidates
        <4> QED
          BY <2>1, <3>2, <4>2 DEF FromCandidates, expand_candidates
      <3> QED
        BY <3>1, <3>2
    <2>6. r.event_time \in Nat /\ e.event_time \in Nat /\ LongWindow \in Nat
      BY <1>2, <1>3, RowsOfTheWorld, TimeAssumption DEF ExposureRows
    <2>7. ASSUME ~(r.event_time - e.event_time > LongWindow)  PROVE FALSE
      <3>1. r.event_time - LongWindow <= e.event_time /\ e.event_time <= r.event_time
        BY <2>3, <2>4, <2>6, <2>7
      <3>2. e \in LakeTouches(r)
        BY <2>3, <2>4, <2>5, <3>1 DEF LakeTouches, Touches, Eligible
      <3> QED
        BY <1>4, <2>2, <3>2
    <2> QED
      BY <2>7
  <1> QED
    BY <1>5, <1>6

\* After a pass nothing caused within the long window is missed, and a second
\* pass finds nothing.
THEOREM ReconciliationRecoversAll ==
    Spec => []ReconcileRecoversAll
  BY IInvHolds, RecoveryHolds, PTL

\* A wrong household has to be a candidate, and the conversion one of several.
LEMMA WrongHolds ==
    IInv => WrongHouseholdsAreAmbiguous
  <1> SUFFICES ASSUME IInv, early = 0, NEW current \in Currents(lakeAtt)
               PROVE  /\ caused_wrong_household(current) \subseteq ambiguous_attributed(current)
                      /\ exact_exposure_correct(current) \subseteq household_correct(current)
                      /\ \A r \in credited(current) :
                           r.household_id # world.home[r.conversion_id] =>
                              /\ r.path = "reconciled"
                              /\ {world.home[r.conversion_id], r.household_id}
                                   \subseteq r.candidate_households
    BY DEF WrongHouseholdsAreAmbiguous
  <1>1. \A r \in credited(current) : r \in lakeAtt /\ r.credited # {}
    BY ReadingOf DEF credited
  <1>2. ASSUME NEW r \in credited(current), r.household_id # world.home[r.conversion_id]
        PROVE  /\ r.path = "reconciled" /\ r.candidate_count > 1
               /\ {world.home[r.conversion_id], r.household_id} \subseteq r.candidate_households
    <2>1. /\ FromCandidates(r) /\ world.home[r.conversion_id] \in Candidates(r.conv)
          /\ IsFiniteSet(Candidates(r.conv)) /\ r.path \in {"hot", "reconciled"}
          /\ r.path = "hot" => r \in offline_attributed
          /\ WorldOK(world)
      BY <1>1, WholeRow
    <2>2. r.household_id \in Candidates(r.conv)
      BY <2>1 DEF FromCandidates
    <2>3. Cardinality(Candidates(r.conv)) > 1
      BY <1>2, <2>1, <2>2, OneOrMore
    <2>4. r.path # "hot"
      BY <1>1, <2>1, <2>3, OfflineRow
    <2> QED
      BY <2>1, <2>2, <2>3, <2>4 DEF FromCandidates
  <1>3. ASSUME NEW r \in caused_wrong_household(current)
        PROVE  r \in ambiguous_attributed(current)
    <2>1. r \in credited(current)
      BY DEF caused_wrong_household
    <2>2. PICK x \in world.truth[r.conversion_id] :
             ~\E e \in lakeExp : e.exposure_id = x /\ e.household_id = r.household_id
      BY DEF caused_wrong_household
    <2>3. /\ Grounded(world, r.conv) /\ lakeExp = Shown(world)
          /\ r.conversion_id = r.conv.conversion_id
      BY <1>1, <2>1, WholeRow
    <2>4. \E e \in Shown(world) : e.exposure_id = x
                                  /\ e.household_id = world.home[r.conversion_id]
      BY <2>2, <2>3 DEF Grounded
    <2>5. r.household_id # world.home[r.conversion_id]
      BY <2>2, <2>3, <2>4
    <2> QED
      BY <1>2, <2>1, <2>5 DEF ambiguous_attributed
  <1>4. ASSUME NEW r \in exact_exposure_correct(current)
        PROVE  r \in household_correct(current)
    <2>1. r \in credited(current) /\ r.credited = world.truth[r.conversion_id]
      BY DEF exact_exposure_correct
    <2>2. RowOK(r, lakeExp) /\ r.credited # {}
      BY <1>1, <2>1, WholeRow
    <2>3. PICK e \in lakeExp : r.credited = {e.exposure_id} /\ e.household_id = r.household_id
      BY <2>2 DEF RowOK, Credits
    <2>4. r \notin caused_wrong_household(current)
      BY <2>1, <2>3 DEF caused_wrong_household
    <2> QED
      BY <2>1, <2>2, <2>4 DEF household_correct
  <1> QED
    BY <1>2, <1>3, <1>4

\* A shared address is the only source of a wrong household, and every wrong
\* match is among the rows the agent's context shows as ambiguous.
THEOREM WrongHouseholdsShareAnAddress ==
    Spec => []WrongHouseholdsAreAmbiguous
  BY IInvHolds, WrongHolds, PTL

----------------------------------------------------------------------------
(* One row for a version and path.                                          *)

\* A conversion is corrected once: its correction outranks every hot row.
OneCorrection ==
    \A r, q \in lakeAtt :
       r.path = "reconciled" /\ q.path = "reconciled" /\ r.conversion_id = q.conversion_id
          => r = q

\* A corrected conversion is current with its correction, and no candidate.
LEMMA OneCorrectionStep ==
    ASSUME Inv, OneCorrection, [Next]_vars
    PROVE  OneCorrection'
  <1>1. ASSUME UNCHANGED lakeAtt  PROVE OneCorrection'
    BY <1>1 DEF OneCorrection
  <1>2. ASSUME LandAttributed  PROVE OneCorrection'
    <2>1. lakeAtt' = lakeAtt \cup run
      BY <1>2 DEF LandAttributed
    <2>2. \A r \in run : r.path = "hot"
      BY DEF Inv, RowsOK
    <2>3. \A r \in lakeAtt' : r.path = "reconciled" => r \in lakeAtt
      BY <2>1, <2>2
    <2> QED
      BY <2>3 DEF OneCorrection
  <1>3. ASSUME Reconcile  PROVE OneCorrection'
    <2>1a. PICK current \in Currents(lakeAtt), served \in SUBSET lakeExp :
             lakeAtt' = lakeAtt \cup recovered(current, reconciled_at(served))
      BY <1>3 DEF Reconcile
    <2> DEFINE version == reconciled_at(served)
    <2> HIDE DEF version
    <2>1. lakeAtt' = lakeAtt \cup recovered(current, version)
      BY <2>1a DEF version
    <2>2. current \subseteq lakeAtt /\ ById(current, "conversion_id")
          /\ \A r \in current : r \in Tops(lakeAtt, r.conversion_id)
      BY ReadingOf
    <2>3. \A r \in lakeAtt : r.event_time \in Nat /\ r \in AttributedRows /\ RowOK(r, lakeExp)
      BY DEF Inv, RowsOK, RowOK, AttributedRows
    <2>4. WorldOK(world) /\ lakeExp \subseteq Shown(world)
      BY DEF Inv, TopicsOK, RowsOK
    <2>5. ASSUME NEW q \in recovered(current, version), NEW r \in lakeAtt, r.path = "reconciled"
          PROVE  r.conversion_id # q.conversion_id
      <3>1. PICK s \in current : Candidate(s) /\ q = Correction(s, version)
        BY <2>2, <2>3, <2>4, RecoveredRows
      <3>2. Candidate(s) /\ q.conversion_id = s.conversion_id /\ s \in lakeAtt
        BY <2>2, <2>3, <3>1, CorrectionFields
      <3>3. ASSUME r.conversion_id = s.conversion_id  PROVE FALSE
        <4>1. r.conv = s.conv
          BY <2>3, <2>4, <3>2, <3>3, RowsOfTheWorld DEF RowOK, ById
        <4>2. r.processed_at > r.ingest_time /\ s.processed_at = s.ingest_time
              /\ r.ingest_time = s.ingest_time
          BY <2>3, <2>5, <3>2, <4>1 DEF RowOK, Candidate
        <4>3. Outranks(r, s)
          BY <4>2 DEF Outranks
        <4> QED
          BY <2>2, <3>1, <3>3, <4>3 DEF Tops
      <3> QED
        BY <3>2, <3>3
    <2>6. ASSUME NEW q \in recovered(current, version), NEW p \in recovered(current, version),
                 q.conversion_id = p.conversion_id
          PROVE  q = p
      <3>1. PICK s \in current : q = Correction(s, version)
        BY <2>2, <2>3, <2>4, RecoveredRows
      <3>2. PICK r \in current : p = Correction(r, version)
        BY <2>2, <2>3, <2>4, RecoveredRows
      <3>3. q.conversion_id = s.conversion_id /\ p.conversion_id = r.conversion_id
        BY <2>2, <2>3, <3>1, <3>2, CorrectionFields
      <3>4. s = r
        BY <2>2, <2>6, <3>3 DEF ById
      <3> QED
        BY <3>1, <3>2, <3>4
    <2> QED
      BY <2>1, <2>5, <2>6 DEF OneCorrection
  <1>4. UNCHANGED lakeAtt \/ LandAttributed \/ Reconcile
    BY DEF Next, vars, lake, Deliver, DrainExposures, DrainConversions, Attribute,
           LandExposures, KillEngine
  <1> QED
    BY <1>1, <1>2, <1>3, <1>4

\* However often jobs run, are killed or start too soon, no conversion is ever
\* corrected twice.
THEOREM CorrectedOnce ==
    Spec => []OneCorrection
  <1>1. Init => OneCorrection
    BY DEF Init, OneCorrection
  <1> QED
    BY <1>1, RowsAreInOrder, OneCorrectionStep, PTL DEF Spec

\* What read_attributed.py says of its tie-break holds where no run was started
\* before the producer was done: that is the one case that breaks it.
THEOREM OneRowUnlessEarly ==
    Spec => [](early = 0 => OneRowPerVersionAndPath)
  <1>1. ASSUME IInv, OneCorrection, early = 0  PROVE OneRowPerVersionAndPath
    <2> SUFFICES ASSUME NEW r \in lakeAtt, NEW q \in lakeAtt,
                        r.conversion_id = q.conversion_id, r.path = q.path
                 PROVE  r = q
      BY DEF OneRowPerVersionAndPath
    <2>1. CASE r.path = "reconciled"
      BY <1>1, <2>1 DEF OneCorrection
    <2>2. CASE r.path = "hot"
      <3>1. /\ r \in offline_attributed /\ q \in offline_attributed /\ WorldOK(world)
            /\ r.conv \in Made(world) /\ q.conv \in Made(world)
            /\ r.conv.conversion_id = q.conv.conversion_id
        BY <1>1, <2>2, WholeRow
      <3>2. r.conv = q.conv
        BY <3>1, RowsOfTheWorld DEF ById
      <3> QED
        BY <3>1, <3>2, OfflineRow
    <2>3. r.path \in {"hot", "reconciled"}
      BY <1>1, WholeRow
    <2> QED
      BY <2>1, <2>2, <2>3
  <1> QED
    BY <1>1, IInvHolds, CorrectedOnce, PTL
=============================================================================
