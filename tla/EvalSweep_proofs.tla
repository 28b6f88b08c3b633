-------------------------- MODULE EvalSweep_proofs --------------------------
(***************************************************************************)
(* Proofs about EvalSweep, for every catalog, run order, number of reps    *)
(* and sweeps, and every use of the stack by hand between them.            *)
(*                                                                         *)
(* The argument.  Each step of stand_up_profile leaves one store clean and *)
(* the next relies on it: after `down` the broker and ClickHouse are       *)
(* empty, after `lake-reset` the scenario's lake is, so the seed, the      *)
(* engine and the reconciliation bring in this profile and nothing else.   *)
(* The operator does not act between those steps, and a completed scenario *)
(* keeps the context it was given until it is published.  As for the file, *)
(* in it, cut or not, the first end sentinel comes after the first start   *)
(* sentinel and no other text comes between the two: the splice then drops *)
(* none, and a prefix, an edit and a new skeleton keep that order.         *)
(***************************************************************************)
EXTENDS EvalSweep, FiniteSetTheorems, SequenceTheorems, WellFoundedInduction, TLAPS

\* The scenario under way is one of the catalog.
UnderWay ==
    sweep.step \notin {"ended", "finally"} => sweep.at \in 1..Len(RunOrder)

\* What each step of stand_up_profile has established for the next.
StoodUp ==
    /\ sweep.step \in {"lake-reset", "up", "seed"} =>
          broker = {} /\ serving = EmptyServing
    /\ sweep.step \in {"up", "seed"} => lake[scenario] = {}
    /\ At("engine") =>
          /\ broker = {scenario} /\ lake[scenario] = {}
          /\ serving = EmptyServing
    /\ At("reconcile") =>
          lake[scenario] = {scenario} /\ serving.holds = {scenario}
    /\ At("collect") => serving = Clean(scenario)
    /\ At("rep") => sweep.ctx = Clean(scenario)

\* The reps of a scenario under way are fewer than EvalReps.
RepsLeft == Len(sweep.reps) < EvalReps

\* What has completed was measured on a clean stack, in full.
MeasuredOnACleanStack ==
    \A n \in DOMAIN results :
       results[n].headline = headline(Clean(n)) /\ Len(results[n].reps) = EvalReps

\* Text that follows a start sentinel follows an end sentinel after it, and an
\* end sentinel follows a start sentinel.
InOrder(text) ==
    /\ \A i, j \in DOMAIN text :
          text[j].is = "start" /\ text[i].is = "text" /\ j < i =>
             \E k \in DOMAIN text : j < k /\ k < i /\ text[k].is = "end"
    /\ \A k \in DOMAIN text : text[k].is = "end" =>
          \E j \in DOMAIN text : j < k /\ text[j].is = "start"

\* Rows of a block that were measured on a clean stack, in full.
CleanRows(rows) ==
    /\ \A n \in DOMAIN rows.headlines : rows.headlines[n] = headline(Clean(n))
    /\ \A n \in DOMAIN rows.diagnosis : rows.diagnosis[n].total = EvalReps
    /\ \A n \in DOMAIN rows.near_miss : rows.near_miss[n].headline = headline(Clean(n))

\* What the file is at any time, when `kept' is what it holds outside the block.
FileOK(text, kept) ==
    /\ IsText(text)
    /\ InOrder(text)
    /\ \A i \in DOMAIN text : text[i].is = "block" => CleanRows(text[i].rows)
    /\ TextOf(text) = kept
    /\ \A i, j \in TextsOf(text) : text[i].place = text[j].place => i = j

\* The inductive invariant.
IInv ==
    /\ TypeOK
    /\ UnderWay
    /\ StoodUp
    /\ RepsLeft
    /\ MeasuredOnACleanStack
    /\ FileOK(doc, others)

----------------------------------------------------------------------------
(* The file.                                                                *)

\* A non-empty set of numbers has a least one.
LEMMA HasLeast ==
    ASSUME NEW S \in SUBSET Nat, S # {}
    PROVE  \E m \in S : \A n \in S : m <= n
  <1> DEFINE Below == {pair \in Nat \X Nat : pair[1] < pair[2]}
  <1>1. IsWellFoundedOn(Below, Nat)
    BY NatLessThanWellFounded, Zenon DEF OpToRel
  <1>2. PICK d \in S : \A e \in S : ~(<<e, d>> \in Below)
    <2> HIDE DEF Below
    <2> QED
      BY <1>1, WFMin
  <1>3. ASSUME NEW e \in S  PROVE d <= e
    <2>1. d \in Nat /\ e \in Nat
      OBVIOUS
    <2>2. e < d => <<e, d>> \in Below
      BY <2>1
    <2>3. ~(e < d)
      BY <1>2, <2>2
    <2> QED
      BY <2>1, <2>3
  <1> QED
    BY <1>3

\* text.index finds the first sentinel.
LEMMA IndexIs ==
    ASSUME NEW text, IsText(text), NEW mark, Has(text, mark)
    PROVE  /\ index(text, mark) \in DOMAIN text /\ text[index(text, mark)].is = mark
           /\ \A j \in DOMAIN text : text[j].is = mark => index(text, mark) <= j
  <1> DEFINE S == {i \in DOMAIN text : text[i].is = mark}
  <1>1. S \in SUBSET Nat /\ S # {}
    BY DEF IsText, Has
  <1>2. \E m \in S : \A n \in S : m <= n
    BY <1>1, HasLeast
  <1> QED
    BY <1>2 DEF index

\* The text before the block, the new block, the text after it.
LEMMA SplicedIs ==
    ASSUME NEW text, IsText(text), InOrder(text), HasBlock(text), NEW rows
    PROVE  LET s == index(text, "start")
               e == index(text, "end")
               new == Spliced(text, Section(rows))
               n == Len(text)
           IN /\ s \in Nat /\ e \in Nat /\ n \in Nat /\ 1 <= s /\ s < e /\ e <= n
              /\ DOMAIN text = 1..n /\ DOMAIN new = 1..(s + 2 + n - e)
              /\ text[s].is = "start" /\ text[e].is = "end"
              /\ \A j \in 1..n : /\ text[j].is = "start" => s <= j
                                 /\ text[j].is = "end" => e <= j
              /\ \A i \in 1..s - 1 : new[i] = text[i]
              /\ new[s] = [is |-> "start"] /\ new[s + 1] = [is |-> "block", rows |-> rows]
              /\ new[s + 2] = [is |-> "end"]
              /\ \A i \in s + 3..s + 2 + n - e : new[i] = text[i - (s + 2) + e]
              /\ IsText(new)
  <1> DEFINE s == index(text, "start")
             e == index(text, "end")
             new == Spliced(text, Section(rows))
             n == Len(text)
             T == {text[i] : i \in DOMAIN text}
                    \cup {[is |-> "start"], [is |-> "block", rows |-> rows], [is |-> "end"]}
             head == SubSeq(text, 1, s - 1)
             tail == SubSeq(text, e + 1, n)
  <1>1. n \in Nat /\ DOMAIN text = 1..n /\ \A i \in 1..n : text[i] \in T
    BY DEF IsText
  <1>2. /\ s \in 1..n /\ e \in 1..n /\ text[s].is = "start" /\ text[e].is = "end"
        /\ \A j \in 1..n : /\ text[j].is = "start" => s <= j
                           /\ text[j].is = "end" => e <= j
    BY <1>1, IndexIs DEF HasBlock
  <1> HIDE DEF s, e
  <1>3. s < e
    <2>1. PICK j \in DOMAIN text : j < e /\ text[j].is = "start"
      BY <1>1, <1>2 DEF InOrder
    <2> QED
      BY <1>1, <1>2, <2>1
  <1>4. \A t \in T : t.is \in {"text", "start", "block", "end"}
    BY DEF IsText
  <1>5. Section(rows) \in Seq(T) /\ Len(Section(rows)) = 3
        /\ Section(rows)[1] = [is |-> "start"]
        /\ Section(rows)[2] = [is |-> "block", rows |-> rows]
        /\ Section(rows)[3] = [is |-> "end"]
    <2>1. Section(rows) = <<[is |-> "start"], [is |-> "block", rows |-> rows], [is |-> "end"]>>
      BY DEF Section
    <2>2. [is |-> "start"] \in T /\ [is |-> "block", rows |-> rows] \in T /\ [is |-> "end"] \in T
      OBVIOUS
    <2> HIDE DEF T
    <2> QED
      BY <2>1, <2>2
  <1> HIDE DEF T, n
  <1>6. /\ head \in Seq(T) /\ Len(head) = s - 1
        /\ \A i \in 1..s - 1 : head[i] = text[i]
    <2>1. \A i \in 1..s - 1 : text[i] \in T
      BY <1>1, <1>2
    <2>2. 1 \in Int /\ s - 1 \in Int
      BY <1>1, <1>2
    <2>3. /\ head \in Seq(T) /\ Len(head) = IF 1 <= s - 1 THEN s - 1 - 1 + 1 ELSE 0
          /\ \A i \in 1..s - 1 - 1 + 1 : head[i] = text[1 + i - 1]
      BY <2>1, <2>2, SubSeqProperties
    <2> HIDE DEF head
    <2> QED
      BY <1>1, <1>2, <2>3
  <1>7. /\ tail \in Seq(T) /\ Len(tail) = n - e
        /\ \A i \in 1..n - e : tail[i] = text[e + i]
    <2>1. \A i \in e + 1..n : text[i] \in T
      BY <1>1, <1>2
    <2>2. e + 1 \in Int /\ n \in Int
      BY <1>1, <1>2
    <2>3. /\ tail \in Seq(T) /\ Len(tail) = IF e + 1 <= n THEN n - (e + 1) + 1 ELSE 0
          /\ \A i \in 1..n - (e + 1) + 1 : tail[i] = text[e + 1 + i - 1]
      BY <2>1, <2>2, SubSeqProperties
    <2> HIDE DEF tail
    <2> QED
      BY <1>1, <1>2, <2>3
  <1> DEFINE front == head \o Section(rows)
  <1>8. new = front \o tail
    BY DEF Spliced, s, e, n
  <1> HIDE DEF head, tail
  <1>9. /\ front \in Seq(T) /\ Len(front) = s - 1 + 3
        /\ \A i \in 1..s - 1 + 3 : front[i] = IF i <= s - 1 THEN head[i] ELSE Section(rows)[i - (s - 1)]
    <2>1. front = head \o Section(rows)
      OBVIOUS
    <2> HIDE DEF front
    <2>2. /\ head \o Section(rows) \in Seq(T)
          /\ Len(head \o Section(rows)) = Len(head) + Len(Section(rows))
          /\ \A i \in 1..Len(head) + Len(Section(rows)) :
                (head \o Section(rows))[i] =
                   IF i <= Len(head) THEN head[i] ELSE Section(rows)[i - Len(head)]
      BY <1>5, <1>6, ConcatProperties
    <2>3. Len(head) = s - 1 /\ Len(Section(rows)) = 3
      BY <1>5, <1>6
    <2> QED
      BY <2>1, <2>2, <2>3
  <1> HIDE DEF front
  <1>10. /\ new \in Seq(T) /\ Len(new) = s + 2 + n - e
         /\ \A i \in 1..s + 2 + n - e :
               new[i] = IF i <= s + 2 THEN front[i] ELSE tail[i - (s + 2)]
    <2>1. /\ front \o tail \in Seq(T) /\ Len(front \o tail) = Len(front) + Len(tail)
          /\ \A i \in 1..Len(front) + Len(tail) :
                (front \o tail)[i] = IF i <= Len(front) THEN front[i] ELSE tail[i - Len(front)]
      BY <1>7, <1>9, ConcatProperties
    <2>2. Len(front) = s + 2 /\ Len(front) + Len(tail) = s + 2 + n - e
      BY <1>1, <1>2, <1>7, <1>9
    <2> HIDE DEF new
    <2> QED
      BY <1>8, <2>1, <2>2
  <1> HIDE DEF new
  <1>11. DOMAIN new = 1..s + 2 + n - e
    BY <1>10
  <1>12. ASSUME NEW i \in 1..s - 1  PROVE new[i] = text[i]
    <2>1. i \in 1..s + 2 + n - e /\ i \in 1..s - 1 + 3 /\ i <= s + 2 /\ i <= s - 1
      BY <1>1, <1>2
    <2>2. new[i] = front[i] /\ front[i] = head[i] /\ head[i] = text[i]
      BY <1>6, <1>9, <1>10, <2>1
    <2> QED
      BY <2>2
  <1>13. /\ new[s] = [is |-> "start"] /\ new[s + 1] = [is |-> "block", rows |-> rows]
         /\ new[s + 2] = [is |-> "end"]
    <2>1. front[s] = Section(rows)[1] /\ front[s + 1] = Section(rows)[2]
          /\ front[s + 2] = Section(rows)[3]
      BY <1>1, <1>2, <1>9
    <2>2. new[s] = front[s] /\ new[s + 1] = front[s + 1] /\ new[s + 2] = front[s + 2]
      BY <1>1, <1>2, <1>3, <1>10
    <2> QED
      BY <1>5, <2>1, <2>2
  <1>14. ASSUME NEW i \in s + 3..s + 2 + n - e  PROVE new[i] = text[i - (s + 2) + e]
    <2>1. i \in 1..s + 2 + n - e /\ ~(i <= s + 2) /\ i - (s + 2) \in 1..n - e
      BY <1>1, <1>2
    <2>2. new[i] = tail[i - (s + 2)] /\ tail[i - (s + 2)] = text[e + (i - (s + 2))]
      BY <1>7, <1>10, <2>1
    <2>3. e + (i - (s + 2)) = i - (s + 2) + e
      BY <1>1, <1>2
    <2> QED
      BY <2>2, <2>3
  <1>15. IsText(new)
    <2>1. \A i \in DOMAIN new : new[i] \in T
      BY <1>10
    <2>2. new \in Seq({new[i] : i \in DOMAIN new})
      BY <1>10, <1>11
    <2> QED
      BY <1>4, <2>1, <2>2 DEF IsText
  <1> QED
    BY <1>1, <1>2, <1>3, <1>11, <1>12, <1>13, <1>14, <1>15 DEF s, e, n, new

\* The splice keeps the text outside the block, and the order.
LEMMA SplicedOK ==
    ASSUME NEW text, NEW kept, FileOK(text, kept), HasBlock(text), NEW rows, CleanRows(rows)
    PROVE  FileOK(Spliced(text, Section(rows)), kept)
  <1> DEFINE s == index(text, "start")
             e == index(text, "end")
             new == Spliced(text, Section(rows))
             n == Len(text)
             N == s + 2 + n - e
             old(i) == IF i < s THEN i ELSE i - (s + 2) + e
  <1>1. /\ s \in Nat /\ e \in Nat /\ n \in Nat /\ 1 <= s /\ s < e /\ e <= n
        /\ DOMAIN text = 1..n /\ DOMAIN new = 1..N
        /\ text[s].is = "start" /\ text[e].is = "end"
        /\ \A j \in 1..n : /\ text[j].is = "start" => s <= j
                           /\ text[j].is = "end" => e <= j
        /\ \A i \in 1..s - 1 : new[i] = text[i]
        /\ new[s] = [is |-> "start"] /\ new[s + 1] = [is |-> "block", rows |-> rows]
        /\ new[s + 2] = [is |-> "end"]
        /\ \A i \in s + 3..N : new[i] = text[i - (s + 2) + e]
        /\ IsText(new)
    BY SplicedIs DEF FileOK
  <1> HIDE DEF s, e, n, new
  \* The pieces of the new text are the new section and pieces of the old one.
  <1>2. ASSUME NEW i \in 1..N
        PROVE  \/ i = s /\ new[i] = [is |-> "start"]
               \/ i = s + 1 /\ new[i] = [is |-> "block", rows |-> rows]
               \/ i = s + 2 /\ new[i] = [is |-> "end"]
               \/ i \notin s..s + 2 /\ old(i) \in 1..n /\ old(i) \notin s..e
                    /\ new[i] = text[old(i)]
    <2>1. CASE i < s
      <3>1. i \in 1..s - 1
        BY <1>1, <2>1
      <3> QED
        BY <1>1, <2>1, <3>1
    <2>2. CASE i \in {s, s + 1, s + 2}
      BY <1>1, <2>2
    <2>3. CASE i > s + 2
      <3>1. i \in s + 3..N /\ i - (s + 2) + e \in e + 1..n
        BY <1>1, <2>3
      <3>2. old(i) = i - (s + 2) + e
        BY <1>1, <2>3
      <3> QED
        BY <1>1, <2>3, <3>1, <3>2
    <2> QED
      BY <1>1, <2>1, <2>2, <2>3
  \* A piece of the old text outside the block is in the new one.
  <1>3. ASSUME NEW j \in 1..n, j \notin s..e
        PROVE  \E i \in 1..N : i \notin s..s + 2 /\ old(i) = j /\ new[i] = text[j]
    <2>1. CASE j < s
      <3>1. j \in 1..s - 1 /\ j \in 1..N /\ old(j) = j /\ j \notin s..s + 2
        BY <1>1, <2>1
      <3> QED
        BY <1>1, <3>1
    <2>2. CASE j > e
      <3> DEFINE i == j - e + (s + 2)
      <3>1. i \in s + 3..N /\ i \in 1..N /\ i \notin s..s + 2 /\ ~(i < s)
            /\ i - (s + 2) + e = j
        BY <1>1, <2>2
      <3> HIDE DEF i
      <3>2. new[i] = text[j] /\ old(i) = j
        BY <1>1, <3>1
      <3> QED
        BY <3>1, <3>2
    <2> QED
      BY <1>1, <1>3, <2>1, <2>2
  \* No text of the old one is in the block.
  <1>4. ASSUME NEW j \in 1..n, text[j].is = "text"  PROVE j \notin s..e
    <2>1. j # s /\ j # e
      BY <1>1, <1>4
    <2>2. ASSUME s < j, j < e  PROVE FALSE
      <3>1. s \in DOMAIN text /\ j \in DOMAIN text
        BY <1>1
      <3>2. PICK k \in DOMAIN text : s < k /\ k < j /\ text[k].is = "end"
        BY <1>1, <1>4, <2>2, <3>1 DEF FileOK, InOrder
      <3> QED
        BY <1>1, <2>2, <3>2
    <2> QED
      BY <1>1, <2>1, <2>2
  <1> DEFINE Outside == {i \in 1..N : i \notin s..s + 2}
  <1>5. \A i, k \in Outside : old(i) < old(k) <=> i < k
    BY <1>1
  <1>6. \A i, k \in Outside : old(i) = old(k) => i = k
    BY <1>1
  <1>7. TextsOf(new) = {i \in Outside : text[old(i)].is = "text"}
    <2>1. ASSUME NEW i \in Outside  PROVE new[i] = text[old(i)]
      <3>1. i \in 1..N /\ i \notin s..s + 2 /\ i # s /\ i # s + 1 /\ i # s + 2
        BY <1>1
      <3> QED
        BY <1>2, <3>1
    <2>2. ASSUME NEW i \in 1..N, new[i].is = "text"  PROVE i \in Outside
      <3>1. [is |-> "start"].is # "text" /\ [is |-> "end"].is # "text"
            /\ [is |-> "block", rows |-> rows].is # "text"
        OBVIOUS
      <3> QED
        BY <1>2, <2>2, <3>1
    <2>3. DOMAIN new = 1..N
      BY <1>1
    <2> HIDE DEF N, old
    <2> QED
      BY <2>1, <2>2, <2>3 DEF TextsOf
  <1> HIDE DEF N, old
  <1>8. TextOf(new) = kept
    <2>1. ASSUME NEW i \in TextsOf(new)  PROVE new[i] \in kept
      <3>1. i \in 1..N /\ old(i) \in 1..n /\ new[i] = text[old(i)] /\ text[old(i)].is = "text"
        BY <1>1, <1>2, <1>7
      <3>2. old(i) \in TextsOf(text)
        BY <1>1, <3>1 DEF TextsOf
      <3> QED
        BY <3>1, <3>2 DEF FileOK, TextOf
    <2>2. ASSUME NEW j \in TextsOf(text)  PROVE text[j] \in TextOf(new)
      <3>1. j \in 1..n /\ text[j].is = "text"
        BY <1>1 DEF TextsOf
      <3>2. PICK i \in 1..N : i \notin s..s + 2 /\ old(i) = j /\ new[i] = text[j]
        BY <1>3, <1>4, <3>1
      <3>3. i \in TextsOf(new)
        BY <1>7, <3>1, <3>2
      <3> QED
        BY <3>2, <3>3 DEF TextOf
    <2> QED
      BY <2>1, <2>2 DEF FileOK, TextOf
  <1>9. \A i, k \in TextsOf(new) : new[i].place = new[k].place => i = k
    <2> SUFFICES ASSUME NEW i \in TextsOf(new), NEW k \in TextsOf(new),
                        new[i].place = new[k].place
                 PROVE  i = k
      OBVIOUS
    <2>1. /\ i \in Outside /\ k \in Outside /\ old(i) \in 1..n /\ old(k) \in 1..n
          /\ new[i] = text[old(i)] /\ new[k] = text[old(k)]
          /\ text[old(i)].is = "text" /\ text[old(k)].is = "text"
      <3>1. ASSUME NEW m \in TextsOf(new)
            PROVE  /\ m \in Outside /\ old(m) \in 1..n /\ new[m] = text[old(m)]
                   /\ text[old(m)].is = "text"
        <4>1. m \in Outside /\ text[old(m)].is = "text"
          BY <1>7
        <4>2. m \in 1..N /\ m # s /\ m # s + 1 /\ m # s + 2
          BY <1>1, <4>1
        <4> QED
          BY <1>2, <4>1, <4>2
      <3> QED
        BY <3>1
    <2>2. old(i) = old(k)
      <3>1. old(i) \in TextsOf(text) /\ old(k) \in TextsOf(text)
            /\ text[old(i)].place = text[old(k)].place
        BY <1>1, <2>1 DEF TextsOf
      <3> QED
        BY <3>1 DEF FileOK
    <2> QED
      BY <1>6, <2>1, <2>2
  <1>10. \A i \in DOMAIN new : new[i].is = "block" => CleanRows(new[i].rows)
    <2> SUFFICES ASSUME NEW i \in 1..N, new[i].is = "block"  PROVE CleanRows(new[i].rows)
      BY <1>1
    <2>1. CASE i = s + 1
      BY <1>1, <2>1
    <2>2. CASE old(i) \in 1..n /\ new[i] = text[old(i)]
      BY <1>1, <2>2 DEF FileOK
    <2> QED
      BY <1>2, <2>1, <2>2
  <1>11. InOrder(new)
    <2> USE <1>1
    <2>0. InOrder(text)
      BY DEF FileOK
    <2>1. ASSUME NEW i \in DOMAIN new, NEW j \in DOMAIN new,
                 new[j].is = "start", new[i].is = "text", j < i
          PROVE  \E k \in DOMAIN new : j < k /\ k < i /\ new[k].is = "end"
      <3>1. i \in 1..N /\ j \in 1..N /\ i \in Outside
            /\ old(i) \in 1..n /\ text[old(i)].is = "text"
        <4>1. i \in TextsOf(new) /\ i \in 1..N /\ j \in 1..N
          BY <2>1 DEF TextsOf
        <4>2. i \in Outside /\ text[old(i)].is = "text"
          BY <1>7, <4>1
        <4>3. i # s /\ i # s + 1 /\ i # s + 2
          BY <4>2
        <4> QED
          BY <1>2, <4>1, <4>2, <4>3
      <3>2. CASE j = s
        <4>1. s + 2 \in DOMAIN new /\ j < s + 2 /\ s + 2 < i
          BY <2>1, <3>1, <3>2 DEF N
        <4>2. new[s + 2].is = "end"
          OBVIOUS
        <4> QED
          BY <4>1, <4>2
      <3>3. CASE j # s
        <4>1. j \in Outside /\ old(j) \in 1..n /\ text[old(j)].is = "start"
              /\ old(j) \notin s..e
          <5>1. j # s + 1 /\ j # s + 2
            BY <2>1
          <5> QED
            BY <1>2, <2>1, <3>1, <3>3, <5>1
        <4>2. old(j) < old(i)
          BY <1>5, <2>1, <3>1, <4>1
        <4>3. PICK m \in 1..n : old(j) < m /\ m < old(i) /\ text[m].is = "end"
          BY <2>0, <3>1, <4>1, <4>2 DEF InOrder
        <4>4. m \notin s..e
          <5>1. e <= m /\ s <= old(j)
            BY <4>1, <4>3
          <5> QED
            BY <4>1, <4>3, <5>1
        <4>5. PICK k \in 1..N : k \notin s..s + 2 /\ old(k) = m /\ new[k] = text[m]
          BY <1>3, <4>4
        <4>6. k \in Outside /\ j < k /\ k < i
          BY <1>5, <3>1, <4>1, <4>3, <4>5
        <4> QED
          BY <4>3, <4>5, <4>6
      <3> QED
        BY <3>2, <3>3
    <2>2. ASSUME NEW k \in DOMAIN new, new[k].is = "end"
          PROVE  \E j \in DOMAIN new : j < k /\ new[j].is = "start"
      <3>1. s \in DOMAIN new /\ new[s].is = "start" /\ k # s /\ k # s + 1
        BY <2>2 DEF N
      <3>2. s < k
        <4>1. SUFFICES ASSUME k < s  PROVE FALSE
          BY <3>1
        <4>2. k \in 1..n /\ k <= s - 1 /\ new[k] = text[k]
          BY <4>1
        <4> QED
          BY <2>2, <4>1, <4>2
      <3> QED
        BY <3>1, <3>2
    <2> QED
      BY <2>1, <2>2 DEF InOrder
  <1> QED
    BY <1>1, <1>8, <1>9, <1>10, <1>11 DEF FileOK, new

\* A prefix of the file keeps the order; what it holds outside the block is its own.
LEMMA CutOK ==
    ASSUME NEW text, NEW kept, FileOK(text, kept), NEW cut \in CutShort(text)
    PROVE  FileOK(cut, TextOf(cut))
  <1>1. PICK n \in 0..Len(text) : cut = SubSeq(text, 1, n)
    BY DEF CutShort
  <1> DEFINE T == {text[i] : i \in DOMAIN text}
  <1>2. Len(text) \in Nat /\ DOMAIN text = 1..Len(text) /\ n \in Nat
    BY DEF FileOK, IsText
  <1>3. /\ cut \in Seq(T) /\ Len(cut) = n /\ \A i \in 1..n : cut[i] = text[i]
    <2>1. \A i \in 1..n : text[i] \in T
      BY <1>2
    <2>2. 1 \in Int /\ n \in Int
      BY <1>2
    <2> HIDE DEF T
    <2>3. /\ cut \in Seq(T) /\ Len(cut) = IF 1 <= n THEN n - 1 + 1 ELSE 0
          /\ \A i \in 1..n - 1 + 1 : cut[i] = text[1 + i - 1]
      BY <1>1, <2>1, <2>2, SubSeqProperties
    <2> QED
      BY <1>2, <2>3
  <1>4. DOMAIN cut = 1..n /\ \A i \in 1..n : i \in DOMAIN text
    BY <1>2, <1>3
  <1>5. IsText(cut)
    <2>1. cut \in Seq({cut[i] : i \in DOMAIN cut})
      BY <1>3, <1>4
    <2> QED
      BY <1>3, <1>4, <2>1 DEF FileOK, IsText
  <1>6. InOrder(cut)
    <2>0. InOrder(text)
      BY DEF FileOK
    <2>1. ASSUME NEW i \in DOMAIN cut, NEW j \in DOMAIN cut,
                 cut[j].is = "start", cut[i].is = "text", j < i
          PROVE  \E k \in DOMAIN cut : j < k /\ k < i /\ cut[k].is = "end"
      <3>1. i \in DOMAIN text /\ j \in DOMAIN text /\ text[j].is = "start"
            /\ text[i].is = "text"
        BY <1>3, <1>4, <2>1
      <3>2. PICK k \in DOMAIN text : j < k /\ k < i /\ text[k].is = "end"
        BY <2>0, <2>1, <3>1 DEF InOrder
      <3>3. k \in 1..n
        BY <1>2, <1>4, <3>2
      <3> QED
        BY <1>3, <1>4, <3>2, <3>3
    <2>2. ASSUME NEW k \in DOMAIN cut, cut[k].is = "end"
          PROVE  \E j \in DOMAIN cut : j < k /\ cut[j].is = "start"
      <3>1. k \in DOMAIN text /\ text[k].is = "end"
        BY <1>3, <1>4, <2>2
      <3>2. PICK j \in DOMAIN text : j < k /\ text[j].is = "start"
        BY <2>0, <3>1 DEF InOrder
      <3>3. j \in 1..n
        BY <1>2, <1>4, <3>2
      <3> QED
        BY <1>3, <1>4, <3>2, <3>3
    <2> QED
      BY <2>1, <2>2 DEF InOrder
  <1>7. \A i \in DOMAIN cut : cut[i].is = "block" => CleanRows(cut[i].rows)
    BY <1>3, <1>4 DEF FileOK
  <1>8. \A i, j \in TextsOf(cut) : cut[i].place = cut[j].place => i = j
    BY <1>3, <1>4 DEF FileOK, TextsOf
  <1> QED
    BY <1>5, <1>6, <1>7, <1>8 DEF FileOK

\* The block of a file nothing was measured for.
LEMMA NothingPublished == CleanRows(NotPublished)
  <1>1. /\ DOMAIN NotPublished.diagnosis = {} /\ DOMAIN NotPublished.near_miss = {}
        /\ DOMAIN NotPublished.headlines = {}
    BY DEF NotPublished
  <1> QED
    BY <1>1 DEF CleanRows

\* The file at first.
LEMMA FirstFile ==
    ASSUME Init
    PROVE  FileOK(doc, others)
  <1> DEFINE page == Page
             block == [is |-> "block", rows |-> NotPublished]
  <1>1. /\ page = <<Text("head", 0), [is |-> "start"], block, [is |-> "end"], Text("tail", 0)>>
        /\ Text("head", 0).is = "text" /\ Text("tail", 0).is = "text"
        /\ Text("head", 0).place # Text("tail", 0).place
    BY DEF Page, Text
  <1>2. block.is = "block" /\ block.rows = NotPublished
    OBVIOUS
  <1> HIDE DEF page, block
  <1>3. /\ DOMAIN page = 1..5 /\ Len(page) = 5
        /\ page[1].is = "text" /\ page[2].is = "start" /\ page[3] = block
        /\ page[4].is = "end" /\ page[5].is = "text" /\ page[1].place # page[5].place
    BY <1>1
  <1>4. page \in Seq({page[i] : i \in DOMAIN page})
    <2> DEFINE T == {page[i] : i \in 1..5}
    <2>1. /\ Text("head", 0) \in T /\ [is |-> "start"] \in T /\ block \in T
          /\ [is |-> "end"] \in T /\ Text("tail", 0) \in T
      BY <1>1
    <2> HIDE DEF T
    <2>2. page \in Seq(T)
      BY <1>1, <2>1
    <2> QED
      BY <1>3, <2>2 DEF T
  <1>5. \A i \in DOMAIN page : i \in {1, 2, 3, 4, 5}
    BY <1>3
  <1>6. IsText(page)
    BY <1>2, <1>3, <1>4, <1>5 DEF IsText
  <1>7. InOrder(page)
    <2>1. \A i, j \in DOMAIN page :
             page[j].is = "start" /\ page[i].is = "text" /\ j < i =>
                4 \in DOMAIN page /\ j < 4 /\ 4 < i /\ page[4].is = "end"
      BY <1>2, <1>3, <1>5
    <2>2. \A k \in DOMAIN page : page[k].is = "end" =>
             2 \in DOMAIN page /\ 2 < k /\ page[2].is = "start"
      BY <1>2, <1>3, <1>5
    <2> QED
      BY <2>1, <2>2 DEF InOrder
  <1>8. \A i \in DOMAIN page : page[i].is = "block" => CleanRows(page[i].rows)
    BY <1>2, <1>3, <1>5, NothingPublished
  <1>9. \A i, j \in TextsOf(page) : page[i].place = page[j].place => i = j
    <2>1. TextsOf(page) \subseteq {1, 5}
      BY <1>2, <1>3, <1>5 DEF TextsOf
    <2> QED
      BY <1>3, <2>1
  <1>10. FileOK(page, TextOf(page))
    BY <1>6, <1>7, <1>8, <1>9 DEF FileOK
  <1> QED
    BY <1>10 DEF Init, page

\* An edit changes the text outside the block and nothing else.
LEMMA EditOK ==
    ASSUME FileOK(doc, others), Edit
    PROVE  FileOK(doc', others')
  <1> DEFINE n == Len(doc)
  <1>1. /\ n \in Nat /\ DOMAIN doc = 1..n
        /\ doc' = [i \in 1..n |-> IF i \in TextsOf(doc) THEN Text(doc[i].place, edits')
                                                      ELSE doc[i]]
        /\ others' = TextOf(doc')
    BY DEF FileOK, IsText, Edit
  <1>2. \A i \in 1..n : /\ doc'[i].is = doc[i].is
                        /\ doc[i].is = "text" => doc'[i].place = doc[i].place
                        /\ doc[i].is # "text" => doc'[i] = doc[i]
    <2> SUFFICES ASSUME NEW i \in 1..n
                 PROVE  /\ doc'[i].is = doc[i].is
                        /\ doc[i].is = "text" => doc'[i].place = doc[i].place
                        /\ doc[i].is # "text" => doc'[i] = doc[i]
      OBVIOUS
    <2>1. CASE doc[i].is = "text"
      <3>1. doc'[i] = Text(doc[i].place, edits')
        BY <1>1, <2>1 DEF TextsOf
      <3> QED
        BY <2>1, <3>1 DEF Text
    <2>2. CASE doc[i].is # "text"
      BY <1>1, <2>2 DEF TextsOf
    <2> QED
      BY <2>1, <2>2
  <1>3. doc' \in Seq({doc'[i] : i \in DOMAIN doc'}) /\ DOMAIN doc' = 1..n
    <2> DEFINE T == {doc'[i] : i \in DOMAIN doc'}
    <2>1. DOMAIN doc' = 1..n /\ doc' = [i \in 1..n |-> doc'[i]]
      BY <1>1
    <2>2. doc' \in [1..n -> T]
      BY <2>1
    <2> HIDE DEF T
    <2>3. doc' \in Seq(T)
      BY <1>1, <2>2
    <2> QED
      BY <2>1, <2>3 DEF T
  <1>4. IsText(doc')
    BY <1>1, <1>2, <1>3 DEF FileOK, IsText
  <1>5. InOrder(doc')
    <2>0. InOrder(doc)
      BY DEF FileOK
    <2>1. DOMAIN doc' = DOMAIN doc /\ \A i \in DOMAIN doc : doc'[i].is = doc[i].is
      BY <1>1, <1>2, <1>3
    <2> QED
      BY <2>0, <2>1 DEF InOrder
  <1>6. \A i \in DOMAIN doc' : doc'[i].is = "block" => CleanRows(doc'[i].rows)
    BY <1>1, <1>2, <1>3 DEF FileOK
  <1>7. \A i, j \in TextsOf(doc') : doc'[i].place = doc'[j].place => i = j
    BY <1>1, <1>2, <1>3 DEF FileOK, TextsOf
  <1> QED
    BY <1>1, <1>4, <1>5, <1>6, <1>7 DEF FileOK

\* A new skeleton at the end of the file.
LEMMA SeedOK ==
    ASSUME FileOK(doc, others), Seed
    PROVE  FileOK(doc', others')
  <1> DEFINE n == Len(doc)
             block == [is |-> "block", rows |-> NotPublished]
             T == {doc[i] : i \in DOMAIN doc} \cup {[is |-> "start"], block, [is |-> "end"]}
  <1>1. n \in Nat /\ DOMAIN doc = 1..n /\ doc \in Seq(T)
        /\ doc' = doc \o Section(NotPublished) /\ others' = others
    <2>1. doc \in Seq({doc[i] : i \in DOMAIN doc})
      BY DEF FileOK, IsText
    <2>2. {doc[i] : i \in DOMAIN doc} \subseteq T
      OBVIOUS
    <2> HIDE DEF T
    <2>3. doc \in Seq(T)
      BY <2>1, <2>2, SeqMonotonic
    <2> QED
      BY <2>1, <2>3 DEF Seed
  <1>2. block.is = "block" /\ block.rows = NotPublished
    OBVIOUS
  <1>3. Section(NotPublished) = <<[is |-> "start"], block, [is |-> "end"]>>
    BY DEF Section
  <1>4. [is |-> "start"] \in T /\ block \in T /\ [is |-> "end"] \in T
    OBVIOUS
  <1>5. \A t \in T : t.is \in {"text", "start", "block", "end"}
    BY <1>2 DEF FileOK, IsText
  <1> HIDE DEF T, block, n
  <1>6. Section(NotPublished) \in Seq(T) /\ Len(Section(NotPublished)) = 3
    BY <1>3, <1>4
  <1>7. /\ doc' \in Seq(T) /\ Len(doc') = n + 3
        /\ \A i \in 1..n + 3 : doc'[i] = IF i <= n THEN doc[i] ELSE Section(NotPublished)[i - n]
    <2> DEFINE section == Section(NotPublished)
    <2>1. doc \in Seq(T) /\ section \in Seq(T) /\ Len(doc) = n /\ Len(section) = 3
          /\ doc' = doc \o section
      BY <1>1, <1>6 DEF n
    <2> HIDE DEF section
    <2>2. /\ doc \o section \in Seq(T) /\ Len(doc \o section) = Len(doc) + Len(section)
          /\ \A i \in 1..Len(doc) + Len(section) :
                (doc \o section)[i] =
                   IF i <= Len(doc) THEN doc[i] ELSE section[i - Len(doc)]
      BY <2>1, ConcatProperties
    <2>3. /\ doc' \in Seq(T) /\ Len(doc') = n + 3
          /\ \A i \in 1..n + 3 : doc'[i] = IF i <= n THEN doc[i] ELSE section[i - n]
      BY <2>1, <2>2
    <2> QED
      BY <2>3 DEF section
  <1>8. /\ DOMAIN doc' = 1..n + 3 /\ \A i \in 1..n : doc'[i] = doc[i]
        /\ doc'[n + 1] = [is |-> "start"] /\ doc'[n + 2] = block /\ doc'[n + 3] = [is |-> "end"]
        /\ \A i \in 1..n + 3 : i \in 1..n \/ i \in {n + 1, n + 2, n + 3}
    <2> DEFINE section == Section(NotPublished)
    <2>1. section[1] = [is |-> "start"] /\ section[2] = block /\ section[3] = [is |-> "end"]
      BY <1>3
    <2>2. \A i \in 1..n + 3 : doc'[i] = IF i <= n THEN doc[i] ELSE section[i - n]
      BY <1>7
    <2> HIDE DEF section
    <2>3. /\ n + 1 \in 1..n + 3 /\ ~(n + 1 <= n) /\ (n + 1) - n = 1
          /\ n + 2 \in 1..n + 3 /\ ~(n + 2 <= n) /\ (n + 2) - n = 2
          /\ n + 3 \in 1..n + 3 /\ ~(n + 3 <= n) /\ (n + 3) - n = 3
          /\ \A i \in 1..n : i \in 1..n + 3 /\ i <= n
          /\ \A i \in 1..n + 3 : i \in 1..n \/ i \in {n + 1, n + 2, n + 3}
      BY <1>1
    <2>4. doc'[n + 1] = section[1] /\ doc'[n + 2] = section[2] /\ doc'[n + 3] = section[3]
      BY <2>2, <2>3
    <2>5. DOMAIN doc' = 1..n + 3
      BY <1>1, <1>7
    <2>6. \A i \in 1..n : doc'[i] = doc[i]
      BY <2>2, <2>3
    <2> QED
      BY <2>1, <2>3, <2>4, <2>5, <2>6
  <1>9. IsText(doc')
    <2> DEFINE U == {doc'[i] : i \in DOMAIN doc'}
    <2>1. doc' \in Seq(U)
      <3>1. \A i \in 1..n + 3 : doc'[i] \in U
        BY <1>8
      <3>2. doc' \in [1..Len(doc') -> T]
        BY <1>7, LenProperties
      <3>3. n + 3 \in Nat
        BY <1>1
      <3> HIDE DEF U
      <3>4. doc' \in [1..n + 3 -> U]
        BY <1>7, <3>1, <3>2
      <3> QED
        BY <3>3, <3>4, SeqDef
    <2>2. \A i \in DOMAIN doc' : doc'[i] \in T
      BY <1>7, <1>8
    <2> QED
      BY <1>5, <2>1, <2>2 DEF IsText
  <1>10. InOrder(doc')
    <2>0. InOrder(doc)
      BY DEF FileOK
    <2>1. ASSUME NEW i \in DOMAIN doc', NEW j \in DOMAIN doc',
                 doc'[j].is = "start", doc'[i].is = "text", j < i
          PROVE  \E k \in DOMAIN doc' : j < k /\ k < i /\ doc'[k].is = "end"
      <3>1. i \in 1..n
        BY <1>2, <1>8, <2>1
      <3>2. j \in 1..n
        BY <1>1, <1>8, <2>1, <3>1
      <3>3. i \in DOMAIN doc /\ j \in DOMAIN doc /\ doc[j].is = "start" /\ doc[i].is = "text"
        BY <1>1, <1>8, <2>1, <3>1, <3>2
      <3>4. PICK k \in DOMAIN doc : j < k /\ k < i /\ doc[k].is = "end"
        BY <2>0, <2>1, <3>3 DEF InOrder
      <3>5. k \in DOMAIN doc' /\ doc'[k] = doc[k]
        BY <1>1, <1>8, <3>4
      <3> QED
        BY <3>4, <3>5
    <2>2. ASSUME NEW k \in DOMAIN doc', doc'[k].is = "end"
          PROVE  \E j \in DOMAIN doc' : j < k /\ doc'[j].is = "start"
      <3>1. CASE k \in 1..n
        <4>1. k \in DOMAIN doc /\ doc[k].is = "end"
          BY <1>1, <1>8, <2>2, <3>1
        <4>2. PICK j \in DOMAIN doc : j < k /\ doc[j].is = "start"
          BY <2>0, <4>1 DEF InOrder
        <4>3. j \in DOMAIN doc' /\ doc'[j] = doc[j]
          BY <1>1, <1>8, <4>2
        <4> QED
          BY <4>2, <4>3
      <3>2. CASE k \notin 1..n
        <4>1. k = n + 3
          BY <1>2, <1>8, <2>2, <3>2
        <4>2. n + 1 \in 1..n + 3 /\ n + 1 < k
          BY <1>1, <4>1
        <4> QED
          BY <1>8, <4>2
      <3> QED
        BY <3>1, <3>2
    <2> QED
      BY <2>1, <2>2 DEF InOrder
  <1>11. \A i \in DOMAIN doc' : doc'[i].is = "block" => CleanRows(doc'[i].rows)
    BY <1>1, <1>2, <1>8, NothingPublished DEF FileOK
  <1>12. TextsOf(doc') = TextsOf(doc) /\ TextsOf(doc) \subseteq 1..n
    BY <1>1, <1>2, <1>8 DEF TextsOf
  <1>13. TextOf(doc') = TextOf(doc)
    BY <1>8, <1>12 DEF TextOf
  <1>14. \A i, j \in TextsOf(doc') : doc'[i].place = doc'[j].place => i = j
    BY <1>8, <1>12 DEF FileOK
  <1> QED
    BY <1>1, <1>9, <1>10, <1>11, <1>13, <1>14 DEF FileOK

----------------------------------------------------------------------------
\* The process when it is idle, at the start of a scenario, or rendering.
LEMMA IdleType ==
    /\ Idle \in [step : {"ended"}, at : {0}, ctx : Contexts, reps : {<<>>}]
    /\ \A at \in 0..Len(RunOrder) :
          [Idle EXCEPT !.step = "down", !.at = at]
             \in [step : {"down"}, at : {at}, ctx : Contexts, reps : {<<>>}]
    /\ [Idle EXCEPT !.step = "finally"]
          \in [step : {"finally"}, at : {0}, ctx : Contexts, reps : {<<>>}]
    /\ <<>> \in Seq(Scored) /\ Len(<<>>) = 0
    /\ 0 \in 0..Len(RunOrder)
  <1>1. Idle = [step |-> "ended", at |-> 0, ctx |-> EmptyServing, reps |-> <<>>]
    BY DEF Idle
  <1>2. EmptyServing \in Contexts
    BY DEF EmptyServing, Contexts
  <1>3. Len(RunOrder) \in Nat
    BY SweepAssumption
  <1>4. <<>> \in Seq(Scored) /\ Len(<<>>) = 0 /\ 0 \in 0..Len(RunOrder)
    BY <1>3
  <1>5. QED
    BY <1>1, <1>2, <1>4

\* The scenario under way is in the catalog.
LEMMA ScenarioType ==
    ASSUME IInv, sweep.step \notin {"ended", "finally"}
    PROVE  scenario \in Scenarios
  BY SweepAssumption DEF IInv, UnderWay, scenario

\* Nothing is under way, completed or published at first.
LEMMA InitIInv ==
    ASSUME Init
    PROVE  IInv
  <1> USE DEF Init
  <1>0. FileOK(doc, others)
    BY FirstFile
  <1>1. sweep = Idle /\ sweep.step = "ended" /\ sweep.reps = <<>>
    BY DEF Idle
  <1>2. TypeOK
    <2>1. serving \in Contexts
      BY DEF Contexts, EmptyServing
    <2>2. IsText(doc)
      BY <1>0 DEF FileOK
    <2>3. broker \subseteq Scenarios
      BY SweepAssumption
    <2>4. sweep \in [step : {"ended"}, at : {0}, ctx : Contexts, reps : {<<>>}]
          /\ 0 \in 0..Len(RunOrder) /\ <<>> \in Seq(Scored)
      <3>1. Idle \in [step : {"ended"}, at : {0}, ctx : Contexts, reps : {<<>>}]
            /\ 0 \in 0..Len(RunOrder) /\ <<>> \in Seq(Scored)
        BY IdleType
      <3>2. QED
        BY <1>1, <3>1
    <2>6. lake \in [Scenarios -> SUBSET Scenarios] /\ DOMAIN results = {}
      OBVIOUS
    <2>7. QED
      BY <2>1, <2>2, <2>3, <2>4, <2>6 DEF TypeOK
  <1>3. UnderWay /\ StoodUp
    BY <1>1 DEF UnderWay, StoodUp, At
  <1>4. RepsLeft
    BY <1>1, SweepAssumption DEF RepsLeft
  <1>5. MeasuredOnACleanStack
    BY DEF MeasuredOnACleanStack
  <1>7. QED
    BY <1>0, <1>2, <1>3, <1>4, <1>5 DEF IInv

----------------------------------------------------------------------------
\* A make target leaves its scenario's context unwritten.
LEMMA GoKeeps ==
    ASSUME IInv, NEW step, Go(step)
    PROVE  /\ sweep'.step = step /\ sweep'.at = sweep.at
           /\ sweep'.ctx = sweep.ctx /\ sweep'.reps = sweep.reps
           /\ sweep' = [step |-> step, at |-> sweep.at, ctx |-> sweep.ctx,
                        reps |-> sweep.reps]
           /\ scenario' = scenario
  BY DEF IInv, TypeOK, Go, scenario

\* ... and the state well-typed.
LEMMA GoTyped ==
    ASSUME IInv, UNCHANGED <<results, doc, others>>,
           NEW step \in {"lake-reset", "up", "seed", "engine", "reconcile", "collect"},
           Go(step), up' \in BOOLEAN, broker' \subseteq Scenarios,
           lake' \in [Scenarios -> SUBSET Scenarios], serving' \in Contexts
    PROVE  TypeOK'
  <1>1. sweep' = [step |-> step, at |-> sweep.at, ctx |-> sweep.ctx,
                  reps |-> sweep.reps]
    BY GoKeeps
  <1>2. sweep'.at \in 0..Len(RunOrder) /\ sweep'.ctx \in Contexts
        /\ sweep'.reps \in Seq(Scored)
    BY <1>1 DEF IInv, TypeOK
  <1>3. QED
    BY <1>1, <1>2 DEF IInv, TypeOK

\* Each step of stand_up_profile hands on a cleaner stack than it found.
LEMMA StandUpIInv ==
    ASSUME IInv, StandUp
    PROVE  IInv'
  <1> USE DEF IInv
  <1>0. UNCHANGED <<results, doc, others>>
    BY DEF StandUp
  <1>1. MeasuredOnACleanStack' /\ FileOK(doc', others')
    BY <1>0 DEF MeasuredOnACleanStack, Clean
  <1>2. SUFFICES TypeOK' /\ UnderWay' /\ StoodUp' /\ RepsLeft'
    BY <1>1
  <1>3. CASE MakeDown
    <2>1. /\ sweep'.step = "lake-reset" /\ serving' = EmptyServing /\ broker' = {}
          /\ up' = FALSE /\ lake' = lake
      BY <1>3, GoKeeps DEF MakeDown, make_down
    <2>2. TypeOK'
      <3>1. serving' \in Contexts
        BY <2>1 DEF Contexts, EmptyServing
      <3>2. QED
        BY <1>0, <1>3, <2>1, <3>1, GoTyped DEF TypeOK, MakeDown
    <2>3. QED
      BY <1>3, <2>1, <2>2, GoKeeps DEF MakeDown, At, UnderWay, StoodUp, RepsLeft
  <1>4. CASE MakeLakeReset
    <2>1. /\ sweep'.step = "up" /\ scenario' = scenario /\ scenario \in Scenarios
          /\ lake' = [lake EXCEPT ![scenario] = {}]
          /\ UNCHANGED <<up, broker, serving>>
      BY <1>4, GoKeeps, ScenarioType DEF MakeLakeReset, make_lake_reset, At
    <2>2. lake' \in [Scenarios -> SUBSET Scenarios] /\ lake'[scenario] = {}
      BY <2>1 DEF TypeOK
    <2>3. TypeOK'
      BY <1>0, <1>4, <2>1, <2>2, GoTyped DEF TypeOK, MakeLakeReset
    <2>4. QED
      BY <1>4, <2>1, <2>2, <2>3, GoKeeps
         DEF MakeLakeReset, At, UnderWay, StoodUp, RepsLeft
  <1>5. CASE MakeUp
    <2>1. /\ sweep'.step = "seed" /\ scenario' = scenario
          /\ up' = TRUE /\ UNCHANGED <<lake, broker, serving>>
      BY <1>5, GoKeeps DEF MakeUp, make_up
    <2>2. TypeOK'
      BY <1>0, <1>5, <2>1, GoTyped DEF TypeOK, MakeUp
    <2>3. QED
      BY <1>5, <2>1, <2>2, GoKeeps DEF MakeUp, At, UnderWay, StoodUp, RepsLeft
  <1>6. CASE MakeSeed
    <2>1. /\ sweep'.step = "engine" /\ scenario' = scenario /\ scenario \in Scenarios
          /\ broker' = broker \cup {scenario} /\ UNCHANGED <<up, lake, serving>>
      BY <1>6, GoKeeps, ScenarioType DEF MakeSeed, make_seed, At
    <2>2. broker = {} /\ serving = EmptyServing /\ lake[scenario] = {}
      BY <1>6 DEF MakeSeed, At, StoodUp
    <2>3. TypeOK'
      BY <1>0, <1>6, <2>1, GoTyped DEF TypeOK, MakeSeed
    <2>4. QED
      BY <1>6, <2>1, <2>2, <2>3, GoKeeps DEF MakeSeed, At, UnderWay, StoodUp, RepsLeft
  <1>7. CASE MakeEngine
    <2>1. /\ sweep'.step = "reconcile" /\ scenario' = scenario /\ scenario \in Scenarios
          /\ lake' = [lake EXCEPT ![scenario] = @ \cup broker]
          /\ UNCHANGED <<up, broker>>
      BY <1>7, GoKeeps, ScenarioType DEF MakeEngine, engine, At
    <2>2. broker = {scenario} /\ lake[scenario] = {} /\ serving = EmptyServing
      BY <1>7 DEF MakeEngine, At, StoodUp
    <2>3. PICK older \in SUBSET lake[scenario] :
             serving' = [serving EXCEPT !.holds = @ \cup broker \cup older]
      BY <1>7 DEF MakeEngine, engine
    <2>4. serving' = [holds |-> {scenario}, restated |-> FALSE]
      BY <2>2, <2>3 DEF EmptyServing
    <2>5. lake' \in [Scenarios -> SUBSET Scenarios] /\ lake'[scenario] = {scenario}
      BY <2>1, <2>2 DEF TypeOK
    <2>6. TypeOK'
      BY <1>0, <1>7, <2>1, <2>4, <2>5, GoTyped DEF TypeOK, MakeEngine, Contexts
    <2>7. QED
      BY <1>7, <2>1, <2>4, <2>5, <2>6, GoKeeps
         DEF MakeEngine, At, UnderWay, StoodUp, RepsLeft
  <1>8. CASE MakeReconcile
    <2>1. /\ sweep'.step = "collect" /\ scenario' = scenario /\ scenario \in Scenarios
          /\ UNCHANGED <<up, broker, lake>>
      BY <1>8, GoKeeps, ScenarioType DEF MakeReconcile, reconcile, At
    <2>2. lake[scenario] = {scenario} /\ serving.holds = {scenario}
      BY <1>8 DEF MakeReconcile, At, StoodUp
    <2>3. PICK older \in SUBSET lake[scenario] :
             serving' = [holds |-> serving.holds \cup older, restated |-> TRUE]
      BY <1>8 DEF MakeReconcile, reconcile
    <2>4. serving' = Clean(scenario)
      BY <2>2, <2>3 DEF Clean
    <2>5. TypeOK'
      BY <1>0, <1>8, <2>1, <2>4, GoTyped DEF TypeOK, MakeReconcile, Contexts, Clean
    <2>6. QED
      BY <1>8, <2>1, <2>4, <2>5, GoKeeps
         DEF MakeReconcile, At, UnderWay, StoodUp, RepsLeft, Clean
  <1>9. QED
    BY <1>3, <1>4, <1>5, <1>6, <1>7, <1>8 DEF StandUp

----------------------------------------------------------------------------
\* Once the process is rendering or idle, nothing is asked of the stack.
LEMMA RestIInv ==
    ASSUME IInv, TypeOK',
           sweep'.step \in {"ended", "finally"}, sweep'.reps = <<>>,
           MeasuredOnACleanStack', FileOK(doc', others')
    PROVE  IInv'
  <1>1. UnderWay' /\ StoodUp'
    BY DEF UnderWay, StoodUp, At
  <1>2. RepsLeft'
    BY SweepAssumption DEF RepsLeft
  <1>3. QED
    BY <1>1, <1>2 DEF IInv

\* The context all the reps are given is that of the clean stack.
LEMMA CollectIInv ==
    ASSUME IInv, Collect
    PROVE  IInv'
  <1>1. /\ sweep' = [step |-> "rep", at |-> sweep.at, ctx |-> serving,
                     reps |-> sweep.reps]
        /\ scenario' = scenario /\ UNCHANGED <<stack, results, doc, others>>
        /\ sweep.step = "collect"
    BY DEF IInv, TypeOK, Collect, scenario, At
  <1>2. TypeOK'
    BY <1>1 DEF IInv, TypeOK, stack
  <1>3. UnderWay' /\ StoodUp' /\ RepsLeft'
    BY <1>1 DEF IInv, UnderWay, StoodUp, RepsLeft, At
  <1>4. QED
    BY <1>1, <1>2, <1>3
       DEF IInv, MeasuredOnACleanStack, Clean

\* A rep is added to the scenario, or completes it with EvalReps of them.
LEMMA RepIInv ==
    ASSUME IInv, NEW f \in Findings(scenario), Rep(f)
    PROVE  IInv'
  <1> DEFINE reps == Append(sweep.reps, [finding |-> f, outcome |-> score_rep(scenario, f)])
  <1>1. /\ sweep.step = "rep" /\ scenario \in Scenarios /\ sweep.at \in 1..Len(RunOrder)
        /\ sweep.ctx = Clean(scenario) /\ sweep.ctx \in Contexts
        /\ UNCHANGED <<stack, doc, others>>
    BY ScenarioType DEF IInv, TypeOK, UnderWay, StoodUp, Rep, At
  <1>2. reps \in Seq(Scored) /\ Len(reps) = Len(sweep.reps) + 1
    <2>1. score_rep(scenario, f) \in Outcomes
      BY DEF score_rep, Outcomes
    <2>2. f \in [verdict : {"CONFIDENT", "AMBIGUOUS_NEEDS_HUMAN"}, expected : BOOLEAN]
      BY DEF Findings
    <2>3. [finding |-> f, outcome |-> score_rep(scenario, f)] \in Scored
      BY <2>1, <2>2 DEF Scored
    <2>4. sweep.reps \in Seq(Scored)
      BY DEF IInv, TypeOK
    <2>5. QED
      BY <2>3, <2>4
  <1>3. FileOK(doc', others')
    BY <1>1 DEF IInv
  <1>4. CASE Len(reps) < EvalReps
    <2>1. /\ sweep' = [step |-> "rep", at |-> sweep.at, ctx |-> sweep.ctx, reps |-> reps]
          /\ scenario' = scenario /\ results' = results
      BY <1>1, <1>4 DEF Rep, IInv, TypeOK, scenario
    <2>2. TypeOK'
      BY <1>1, <1>2, <2>1 DEF IInv, TypeOK, stack
    <2>3. UnderWay' /\ StoodUp' /\ RepsLeft' /\ MeasuredOnACleanStack'
      BY <1>1, <1>4, <2>1 DEF IInv, UnderWay, StoodUp, RepsLeft, At,
                              MeasuredOnACleanStack, Clean
    <2>4. QED
      BY <1>3, <2>2, <2>3 DEF IInv
  <1>5. CASE ~(Len(reps) < EvalReps)
    <2>1. Len(reps) = EvalReps
      BY <1>2, <1>5, SweepAssumption DEF IInv, RepsLeft, TypeOK
    <2>2. /\ results' = [n \in DOMAIN results \cup {scenario} |->
                           IF n = scenario THEN [headline |-> headline(sweep.ctx), reps |-> reps]
                                           ELSE results[n]]
          /\ sweep' = IF sweep.at < Len(RunOrder)
                      THEN [Idle EXCEPT !.step = "down", !.at = sweep.at + 1]
                      ELSE [Idle EXCEPT !.step = "finally"]
      BY <1>5 DEF Rep
    <2>3. MeasuredOnACleanStack'
      BY <1>1, <2>1, <2>2 DEF IInv, MeasuredOnACleanStack, Clean
    <2>4. \A n \in DOMAIN results' :
             n \in Scenarios /\ results'[n] \in [headline : Headlines, reps : Seq(Scored)]
      BY <1>1, <1>2, <2>2 DEF IInv, TypeOK, headline, Headlines, Contexts
    <2>5. CASE sweep.at < Len(RunOrder)
      <3>1. sweep.at + 1 \in 1..Len(RunOrder) /\ sweep.at + 1 \in 0..Len(RunOrder)
        BY <1>1, <2>5, SweepAssumption
      <3>2. sweep' \in [step : {"down"}, at : {sweep.at + 1}, ctx : Contexts, reps : {<<>>}]
            /\ <<>> \in Seq(Scored) /\ Len(<<>>) = 0
        BY <2>2, <2>5, <3>1, IdleType
      <3>3. TypeOK'
        BY <1>1, <2>4, <3>1, <3>2 DEF IInv, TypeOK, stack
      <3>4. UnderWay' /\ StoodUp' /\ RepsLeft'
        BY <3>1, <3>2, SweepAssumption DEF UnderWay, StoodUp, RepsLeft, At
      <3>5. QED
        BY <1>3, <2>3, <3>3, <3>4 DEF IInv
    <2>6. CASE ~(sweep.at < Len(RunOrder))
      <3>1. sweep' \in [step : {"finally"}, at : {0}, ctx : Contexts, reps : {<<>>}]
            /\ <<>> \in Seq(Scored) /\ 0 \in 0..Len(RunOrder)
        BY <2>2, <2>6, IdleType DEF IInv, TypeOK
      <3>2. TypeOK'
        BY <1>1, <2>4, <3>1 DEF IInv, TypeOK, stack
      <3>3. QED
        BY <1>3, <2>3, <3>1, <3>2, RestIInv
    <2>7. QED
      BY <2>5, <2>6
  <1>6. QED
    BY <1>4, <1>5

\* The published rows are those of the completed scenarios.
LEMMA RenderedRows ==
    ASSUME IInv
    PROVE  CleanRows(render_section)
  BY DEF IInv, MeasuredOnACleanStack, render_section, headline_table, CleanRows,
         fault_diagnosis_table, near_miss_table, Diagnosis

\* The text that a sweep writes.
LEMMA NewTextOK ==
    ASSUME IInv, Writes
    PROVE  FileOK(NewText, others)
  BY RenderedRows, SplicedOK DEF IInv, Writes, NewText

\* Writing publishes what was measured; not writing publishes nothing.
LEMMA FinallyIInv ==
    ASSUME IInv, WriteNothing \/ write_results
    PROVE  IInv'
  <1>1. UNCHANGED <<stack, results>> /\ MeasuredOnACleanStack'
    BY DEF IInv, WriteNothing, write_results, MeasuredOnACleanStack, Clean
  <1>2. sweep' \in [step : {"ended"}, at : {0}, ctx : Contexts, reps : {<<>>}]
        /\ <<>> \in Seq(Scored) /\ 0 \in 0..Len(RunOrder)
    BY IdleType DEF WriteNothing, write_results, IInv, TypeOK
  <1>3. FileOK(doc', others')
    BY NewTextOK DEF WriteNothing, write_results, IInv
  <1>4. TypeOK'
    BY <1>1, <1>2, <1>3 DEF IInv, TypeOK, stack, FileOK
  <1>5. QED
    BY <1>1, <1>2, <1>3, <1>4, RestIInv

\* A failure and a kill leave what was measured and published clean: a kill
\* publishes nothing but what the sweep was writing.
LEMMA InterruptIInv ==
    ASSUME IInv, Raise \/ Kill
    PROVE  IInv'
  <1>1. UNCHANGED results /\ MeasuredOnACleanStack'
    BY DEF IInv, Raise, Kill, MeasuredOnACleanStack, Clean
  <1>2. CASE Raise
    <2>1. sweep' \in [step : {"finally"}, at : {0}, ctx : Contexts, reps : {<<>>}]
          /\ <<>> \in Seq(Scored) /\ 0 \in 0..Len(RunOrder)
      BY <1>2, IdleType DEF Raise, IInv, TypeOK
    <2>2. lake' \in [Scenarios -> SUBSET Scenarios]
          /\ UNCHANGED <<up, broker, serving, doc, others>>
      BY <1>2 DEF Raise, IInv, TypeOK
    <2>3. TypeOK' /\ FileOK(doc', others')
      BY <1>1, <2>1, <2>2 DEF IInv, TypeOK
    <2>4. QED
      BY <1>1, <2>1, <2>3, RestIInv
  <1>3. CASE Kill
    <2>1. sweep' \in [step : {"ended"}, at : {0}, ctx : Contexts, reps : {<<>>}]
          /\ <<>> \in Seq(Scored) /\ 0 \in 0..Len(RunOrder)
      BY <1>3, IdleType DEF Kill, IInv, TypeOK
    <2>2. UNCHANGED stack
      BY <1>3 DEF Kill
    <2>3. FileOK(doc', others')
      <3>1. CASE UNCHANGED <<doc, others>>
        BY <3>1 DEF IInv
      <3>2. CASE Writes /\ doc' \in CutShort(NewText) /\ others' = TextOf(doc')
        BY <3>2, NewTextOK, CutOK
      <3>3. QED
        BY <1>3, <3>1, <3>2 DEF Kill
    <2>4. TypeOK'
      BY <1>1, <2>1, <2>2, <2>3 DEF IInv, TypeOK, stack, FileOK
    <2>5. QED
      BY <1>1, <2>1, <2>3, <2>4, RestIInv
  <1>4. QED
    BY <1>2, <1>3

\* A sweep starts with nothing completed.
LEMMA StartIInv ==
    ASSUME IInv, StartSweep
    PROVE  IInv'
  <1>1. Len(RunOrder) \in Nat /\ 1 \in 1..Len(RunOrder) /\ 1 \in 0..Len(RunOrder)
    BY SweepAssumption
  <1>2. sweep' \in [step : {"down"}, at : {1}, ctx : Contexts, reps : {<<>>}]
        /\ <<>> \in Seq(Scored) /\ Len(<<>>) = 0
    BY <1>1, IdleType DEF StartSweep
  <1>3. UNCHANGED <<stack, doc, others>> /\ results' = <<>> /\ DOMAIN results' = {}
    BY DEF StartSweep
  <1>4. TypeOK'
    BY <1>1, <1>2, <1>3 DEF IInv, TypeOK, stack
  <1>5. UnderWay' /\ StoodUp' /\ RepsLeft' /\ MeasuredOnACleanStack'
    BY <1>1, <1>2, <1>3, SweepAssumption
       DEF UnderWay, StoodUp, RepsLeft, At, MeasuredOnACleanStack
  <1>6. QED
    BY <1>3, <1>4, <1>5 DEF IInv

\* The operator changes the stack only while no scenario relies on it.
LEMMA OperateIInv ==
    ASSUME IInv, Operate
    PROVE  IInv'
  <1>1. UNCHANGED <<sweep, results, doc, others>> /\ sweep.step = "ended"
    BY DEF Operate, Working, At
  <1>2. OperatorProfiles \subseteq Scenarios
    BY SweepAssumption
  <1>3. up' \in BOOLEAN /\ broker' \subseteq Scenarios
        /\ lake' \in [Scenarios -> SUBSET Scenarios] /\ serving' \in Contexts
    <2>1. CASE make_down
      BY <2>1 DEF make_down, IInv, TypeOK, Contexts, EmptyServing
    <2>2. CASE make_up
      BY <2>2 DEF make_up, IInv, TypeOK
    <2>3. ASSUME NEW p \in OperatorProfiles, make_lake_reset(p) \/ make_seed(p)
          PROVE  up' \in BOOLEAN /\ broker' \subseteq Scenarios
                 /\ lake' \in [Scenarios -> SUBSET Scenarios] /\ serving' \in Contexts
      BY <1>2, <2>3 DEF make_lake_reset, make_seed, IInv, TypeOK
    <2>4. ASSUME NEW p \in OperatorProfiles, engine(p) \/ reconcile(p)
          PROVE  up' \in BOOLEAN /\ broker' \subseteq Scenarios
                 /\ lake' \in [Scenarios -> SUBSET Scenarios] /\ serving' \in Contexts
      <3>1. p \in Scenarios /\ lake[p] \subseteq Scenarios
            /\ serving.holds \subseteq Scenarios /\ broker \subseteq Scenarios
        BY <1>2 DEF IInv, TypeOK, Contexts
      <3>2. CASE engine(p)
        <4>1. PICK older \in SUBSET lake[p] :
                 serving' = [serving EXCEPT !.holds = @ \cup broker \cup older]
          BY <3>2 DEF engine
        <4>2. serving' = [holds |-> serving.holds \cup broker \cup older,
                          restated |-> serving.restated]
          BY <4>1 DEF IInv, TypeOK, Contexts
        <4>3. serving' \in Contexts
          BY <3>1, <4>2 DEF IInv, TypeOK, Contexts
        <4>4. QED
          BY <3>1, <3>2, <4>3 DEF engine, IInv, TypeOK
      <3>3. CASE reconcile(p)
        BY <3>1, <3>3 DEF reconcile, IInv, TypeOK, Contexts
      <3>4. QED
        BY <2>4, <3>2, <3>3
    <2>5. QED
      BY <2>1, <2>2, <2>3, <2>4 DEF Operate
  <1>4. TypeOK'
    BY <1>1, <1>3 DEF IInv, TypeOK
  <1>5. UnderWay' /\ StoodUp' /\ RepsLeft'
    BY <1>1 DEF IInv, UnderWay, StoodUp, RepsLeft, At
  <1>6. QED
    BY <1>1, <1>4, <1>5 DEF IInv, MeasuredOnACleanStack, Clean

\* Others write the file without touching the sweep.
LEMMA FileIInv ==
    ASSUME IInv, Edit \/ Seed
    PROVE  IInv'
  <1>1. UNCHANGED <<stack, sweep, results>>
    BY DEF Edit, Seed
  <1>2. FileOK(doc', others')
    BY EditOK, SeedOK DEF IInv
  <1>3. TypeOK'
    BY <1>1, <1>2 DEF IInv, TypeOK, stack, FileOK
  <1>4. UnderWay' /\ StoodUp' /\ RepsLeft' /\ MeasuredOnACleanStack'
    BY <1>1 DEF IInv, UnderWay, StoodUp, RepsLeft, At, scenario, stack,
                MeasuredOnACleanStack, Clean
  <1>5. QED
    BY <1>2, <1>3, <1>4 DEF IInv

LEMMA NextIInv ==
    ASSUME IInv, [Next]_vars
    PROVE  IInv'
  <1>1. CASE Step
    <2>1. CASE At("rep") /\ \E f \in Findings(scenario) : Rep(f)
      BY <2>1, RepIInv
    <2>2. QED
      BY <1>1, <2>1, StandUpIInv, CollectIInv, FinallyIInv DEF Step
  <1>2. CASE UNCHANGED vars
    BY <1>2 DEF vars, stack, IInv, TypeOK, UnderWay, StoodUp, RepsLeft, scenario, At,
                MeasuredOnACleanStack, Clean
  <1>3. QED
    BY <1>1, <1>2, InterruptIInv, StartIInv, OperateIInv, FileIInv DEF Next

LEMMA SpecIInv == Spec => []IInv
  <1>1. Init => IInv
    BY InitIInv
  <1>2. IInv /\ [Next]_vars => IInv'
    BY NextIInv
  <1>3. QED
    BY <1>1, <1>2, PTL DEF Spec

----------------------------------------------------------------------------
\* Every state of the sweep, the stack and the file is of its type.
THEOREM TypeCorrect == Spec => []TypeOK
  <1>1. IInv => TypeOK
    BY DEF IInv
  <1>2. QED
    BY <1>1, SpecIInv, PTL

\* Every published row was measured, in full, on tables that held its own
\* profile's rows and nothing else, in whatever state the stack was found.
THEOREM PublishedClean == Spec => []PublishedOnACleanStack
  <1>1. IInv => PublishedOnACleanStack
    BY DEF IInv, FileOK, CleanRows, PublishedOnACleanStack
  <1>2. QED
    BY <1>1, SpecIInv, PTL

\* The splice drops no text and doubles none, whatever kills, edits and skeletons
\* have made of the file: only a kill in a write loses some.
THEOREM RestOfTheFileKept == Spec => []OtherSectionsKept
  <1>1. IInv => OtherSectionsKept
    BY DEF IInv, FileOK, OtherSectionsKept
  <1>2. QED
    BY <1>1, SpecIInv, PTL

----------------------------------------------------------------------------
(* The scores.  A rep is recorded with a finding its scenario may have and  *)
(* the outcome of that finding, and nothing rewrites it: what the tables    *)
(* count is then a matter of score_rep alone.                               *)

\* A rep that scenario n may record.
IsRepOf(rep, n) == rep.finding \in Findings(n) /\ rep.outcome = score_rep(n, rep.finding)

\* Every rep, under way or completed, is scored as its own scenario wants.
ScoredByScenario ==
    /\ \A i \in DOMAIN sweep.reps : IsRepOf(sweep.reps[i], scenario)
    /\ \A n \in DOMAIN results :
          \A i \in DOMAIN results[n].reps : IsRepOf(results[n].reps[i], n)

\* The invariant after a step, rep by rep.
LEMMA ScoredAfter ==
    ASSUME \A i \in DOMAIN sweep'.reps : IsRepOf(sweep'.reps[i], scenario'),
           \A n \in DOMAIN results' :
              \A i \in DOMAIN results'[n].reps : IsRepOf(results'[n].reps[i], n)
    PROVE  ScoredByScenario'
  BY DEF ScoredByScenario, IsRepOf, score_rep, Findings, is_abstention

LEMMA InitScored ==
    ASSUME Init
    PROVE  ScoredByScenario
  BY DEF Init, Idle, ScoredByScenario

\* A rep is scored when it is recorded.
LEMMA RepScored ==
    ASSUME IInv, ScoredByScenario, NEW f \in Findings(scenario), Rep(f)
    PROVE  ScoredByScenario'
  <1> DEFINE rep == [finding |-> f, outcome |-> score_rep(scenario, f)]
             reps == Append(sweep.reps, rep)
  <1>1. \A i \in DOMAIN reps : IsRepOf(reps[i], scenario)
    <2>1. IsRepOf(rep, scenario)
      BY DEF IsRepOf
    <2>2. sweep.reps \in Seq(Scored)
      BY DEF IInv, TypeOK
    <2> HIDE DEF rep
    <2>3. QED
      BY <2>1, <2>2 DEF ScoredByScenario
  <1>2. CASE Len(reps) < EvalReps
    <2>1. sweep'.reps = reps /\ scenario' = scenario /\ results' = results
      BY <1>2 DEF Rep, IInv, TypeOK, scenario
    <2> HIDE DEF reps
    <2>2. QED
      BY <1>1, <2>1, ScoredAfter DEF ScoredByScenario
  <1>3. CASE ~(Len(reps) < EvalReps)
    <2>1. /\ results' = [n \in DOMAIN results \cup {scenario} |->
                           IF n = scenario THEN [headline |-> headline(sweep.ctx), reps |-> reps]
                                           ELSE results[n]]
          /\ sweep' \in {[Idle EXCEPT !.step = "down", !.at = sweep.at + 1],
                         [Idle EXCEPT !.step = "finally"]}
      BY <1>3 DEF Rep
    <2>2. sweep'.reps = <<>>
      BY <2>1 DEF Idle
    <2> HIDE DEF reps
    <2>3. \A n \in DOMAIN results' :
             results'[n].reps = IF n = scenario THEN reps ELSE results[n].reps
      BY <2>1
    <2>4. DOMAIN results' = DOMAIN results \cup {scenario}
      BY <2>1
    <2>5. ASSUME NEW n \in DOMAIN results', NEW i \in DOMAIN results'[n].reps
          PROVE  IsRepOf(results'[n].reps[i], n)
      BY <1>1, <2>3, <2>4 DEF ScoredByScenario
    <2>6. QED
      BY <2>2, <2>5, ScoredAfter
  <1>4. QED
    BY <1>2, <1>3

\* No other step records one.
LEMMA NextScored ==
    ASSUME IInv, ScoredByScenario, [Next]_vars
    PROVE  ScoredByScenario'
  <1>1. CASE UNCHANGED results /\ sweep'.reps = sweep.reps /\ sweep'.at = sweep.at
    BY <1>1, ScoredAfter DEF ScoredByScenario, scenario
  <1>2. CASE results' \in {results, <<>>} /\ sweep'.reps = <<>>
    BY <1>2, ScoredAfter DEF ScoredByScenario
  <1>3. CASE At("rep") /\ \E f \in Findings(scenario) : Rep(f)
    BY <1>3, RepScored
  <1>4. CASE StandUp \/ Collect \/ Operate \/ Edit \/ Seed \/ UNCHANGED vars
    <2>1. UNCHANGED results
      BY <1>4 DEF StandUp, Collect, Operate, Edit, Seed, vars
    <2>2. sweep'.reps = sweep.reps /\ sweep'.at = sweep.at
      <3>1. CASE Collect
        BY <3>1 DEF Collect, IInv, TypeOK
      <3>2. CASE StandUp
        BY <3>2, GoKeeps DEF StandUp, MakeDown, MakeLakeReset, MakeUp,
                             MakeSeed, MakeEngine, MakeReconcile
      <3>3. CASE Operate \/ Edit \/ Seed \/ UNCHANGED vars
        BY <3>3 DEF Operate, Edit, Seed, vars
      <3>4. QED
        BY <1>4, <3>1, <3>2, <3>3
    <2>3. QED
      BY <1>1, <2>1, <2>2
  <1>5. CASE WriteNothing \/ write_results \/ Raise \/ Kill \/ StartSweep
    <2>1. Idle.reps = <<>> /\ [Idle EXCEPT !.step = "finally"].reps = <<>>
          /\ [Idle EXCEPT !.step = "down", !.at = 1].reps = <<>>
      BY DEF Idle
    <2>2. results' \in {results, <<>>} /\ sweep'.reps = <<>>
      BY <1>5, <2>1 DEF WriteNothing, write_results, Raise, Kill, StartSweep
    <2>3. QED
      BY <1>2, <2>2
  <1>6. QED
    BY <1>3, <1>4, <1>5 DEF Next, Step

\* Of some of the reps of a completed scenario, the others are EvalReps minus
\* their number.
LEMMA TheOtherReps ==
    ASSUME IInv, NEW n \in DOMAIN results,
           NEW A \in SUBSET DOMAIN results[n].reps
    PROVE  Cardinality(DOMAIN results[n].reps \ A) = EvalReps - Cardinality(A)
           /\ Cardinality(A) \in Nat
  <1>1. results[n].reps \in Seq(Scored) /\ Len(results[n].reps) = EvalReps
    BY DEF IInv, TypeOK, MeasuredOnACleanStack
  <1>2. DOMAIN results[n].reps = 1..EvalReps /\ EvalReps \in Nat /\ EvalReps > 0
    BY <1>1, SweepAssumption
  <1>3. IsFiniteSet(1..EvalReps) /\ Cardinality(1..EvalReps) = EvalReps
    BY <1>2, FS_Interval
  <1>4. Cardinality((1..EvalReps) \ A)
          = Cardinality(1..EvalReps) - Cardinality((1..EvalReps) \cap A)
    BY <1>3, FS_Difference
  <1>5. (1..EvalReps) \cap A = A
    BY <1>2
  <1>6. IsFiniteSet(A)
    BY <1>2, <1>3, FS_Subset
  <1>7. QED
    BY <1>2, <1>3, <1>4, <1>5, <1>6, FS_CardinalityType

\* What score_rep makes of a rep, by the kind of its scenario.
LEMMA ScoreOf ==
    ASSUME IInv, ScoredByScenario, NEW n \in DOMAIN results,
           NEW i \in DOMAIN results[n].reps
    PROVE  LET rep == results[n].reps[i]
               confident == rep.finding.verdict = "CONFIDENT"
               correct == rep.outcome \in {"correct_diagnosis", "correct_abstention"}
           IN /\ Kind[n] = "fault_recall" =>
                    (correct <=> confident /\ rep.finding.expected)
              /\ Kind[n] # "fault_recall" =>
                    (correct <=> ~(confident /\ ~rep.finding.expected))
              /\ Kind[n] = "control" =>
                    (rep.outcome = "false_positive" <=> confident)
  <1>1. n \in Scenarios
    BY DEF IInv, TypeOK
  <1>2. Kind[n] \in {"fault_recall", "negative_confirmation",
                     "capability_boundary", "control"}
    BY <1>1, SweepAssumption
  <1> DEFINE f == results[n].reps[i].finding
  <1>4. f \in Findings(n) /\ results[n].reps[i].outcome = score_rep(n, f)
    BY DEF ScoredByScenario, IsRepOf
  <1>5. /\ f.verdict \in {"CONFIDENT", "AMBIGUOUS_NEEDS_HUMAN"}
        /\ f.expected \in BOOLEAN
        /\ f.expected => Kind[n] \in {"fault_recall", "negative_confirmation"}
    BY <1>4 DEF Findings
  <1>6. QED
    BY <1>2, <1>4, <1>5 DEF score_rep, is_abstention

\* The tables count what the findings were.
LEMMA ScoresAddUp ==
    ASSUME IInv, ScoredByScenario
    PROVE  EscalationIsNeverADiagnosis
  <1> DEFINE Correct(n) == {i \in DOMAIN results[n].reps :
                              results[n].reps[i].outcome
                                 \in {"correct_diagnosis", "correct_abstention"}}
             False_(n) == {i \in DOMAIN results[n].reps :
                              results[n].reps[i].outcome = "false_positive"}
             Named(n) == {i \in Confident(n) : results[n].reps[i].finding.expected}
  <1>1. ASSUME NEW n \in DOMAIN results
        PROVE  EvalReps - fault_diagnosis_table[n].correct
                 = IF Kind[n] = "fault_recall"
                   THEN EvalReps - Cardinality(Named(n))
                   ELSE Cardinality(Confident(n) \ Named(n))
    <2> USE <1>1
    <2>1. fault_diagnosis_table[n].correct = Cardinality(Correct(n))
      BY DEF fault_diagnosis_table, Diagnosis, OutcomesOf
    <2>2. CASE Kind[n] = "fault_recall"
      <3>1. Correct(n) = Named(n)
        BY <2>2, ScoreOf DEF Confident
      <3>2. QED
        BY <2>1, <2>2, <3>1
    <2>3. CASE Kind[n] # "fault_recall"
      <3>1. Confident(n) \ Named(n) = DOMAIN results[n].reps \ Correct(n)
        BY <2>3, ScoreOf DEF Confident
      <3>2. Cardinality(DOMAIN results[n].reps \ Correct(n))
              = EvalReps - Cardinality(Correct(n))
        BY TheOtherReps
      <3>3. QED
        BY <2>1, <2>3, <3>1, <3>2
    <2>4. QED
      BY <2>2, <2>3
  <1>2. \A n \in Controls : False_(n) = Confident(n)
    BY ScoreOf DEF Controls, Confident
  <1>3. {{n} \X False_(n) : n \in Controls} = {{n} \X Confident(n) : n \in Controls}
    <2> HIDE DEF False_
    <2>1. QED
      BY <1>2
  <1>4. false_positive_counts.n
          = Cardinality(UNION {{n} \X Confident(n) : n \in Controls})
    BY <1>3 DEF false_positive_counts
  <1>5. QED
    BY <1>1, <1>4 DEF EscalationIsNeverADiagnosis, Controls

\* An escalation is never read as a diagnosis, right or wrong: a scenario that
\* wants one is missed by all but the confident findings that name it, every
\* other by the confident findings alone, and the false positives are the
\* confident findings of the controls.
THEOREM EscalationsScoredApart == Spec => []EscalationIsNeverADiagnosis
  <1>1. Init => IInv /\ ScoredByScenario
    BY InitIInv, InitScored
  <1>2. IInv /\ ScoredByScenario /\ [Next]_vars => (IInv /\ ScoredByScenario)'
    BY NextIInv, NextScored
  <1>3. IInv /\ ScoredByScenario => EscalationIsNeverADiagnosis
    BY ScoresAddUp
  <1>4. QED
    BY <1>1, <1>2, <1>3, PTL DEF Spec
=============================================================================
