-------------------------- MODULE Migration_proofs --------------------------
(***************************************************************************)
(* Proofs about Migration with one applier at a time, for any table, any   *)
(* twins and any number of kills.                                          *)
(*                                                                         *)
(* The argument.  The live table is changed by two things: a merge, which  *)
(* drops a row only when its twin stays, and EXCHANGE, which puts the      *)
(* scratch table in its place.  So from the copy to the exchange the       *)
(* scratch table must serve every snapshot too: it is empty when the copy  *)
(* begins, because the attempt created it itself, and a merge of either    *)
(* table keeps every key.  A killed attempt may leave anything in the      *)
(* scratch table: the next one never gets past its own drop with it.       *)
(*                                                                         *)
(* One applier is needed: of two, one may drop the scratch table and       *)
(* create an empty one between the count and the exchange of the other.    *)
(***************************************************************************)
EXTENDS Migration, FiniteSetTheorems, SequenceTheorems, TLAPS

\* At most one process applies the DDL.
OneApplier == \A p, q \in Appliers : p = q

Labels == {"idle", "drop", "alter", "create", "copy", "countOld", "countNew",
           "exchange", "dropOld"}

Tables == [versioned : BOOLEAN, column : BOOLEAN, rows : Seq(Rows)]

TypeOK ==
    /\ live \in Tables
    /\ scratch # NoTable => scratch \in Tables
    /\ pc \in [Appliers -> Labels]

AllKeys == {KeyOf[r] : r \in Rows}

\* The attempt copies into the empty table it created, ...
CopiesIntoEmpty ==
    \A p \in Appliers : At(p, "copy") /\ scratch # NoTable => scratch.rows = <<>>

\* ... and exchanges a table that serves every snapshot.
CopyServesAll ==
    \A p \in Appliers :
       pc[p] \in {"countOld", "countNew", "exchange"} /\ scratch # NoTable
          => KeysOf(scratch) = AllKeys

\* The inductive invariant.
IInv ==
    /\ TypeOK
    /\ EverySnapshotServed
    /\ CopiesIntoEmpty
    /\ CopyServesAll

----------------------------------------------------------------------------
\* A sequence without its i-th element is one shorter, and the others keep their
\* order.
Without(s, i) == SubSeq(s, 1, i - 1) \o SubSeq(s, i + 1, Len(s))

LEMMA WithoutOne ==
    ASSUME NEW S, NEW s \in Seq(S), NEW i \in 1..Len(s)
    PROVE  /\ Without(s, i) \in Seq(S) /\ Len(Without(s, i)) = Len(s) - 1
           /\ \A j \in 1..(i - 1) : Without(s, i)[j] = s[j]
           /\ \A j \in i..(Len(s) - 1) : Without(s, i)[j] = s[j + 1]
  <1> DEFINE a == SubSeq(s, 1, i - 1)
             b == SubSeq(s, i + 1, Len(s))
             t == Without(s, i)
             n == Len(s)
  <1>1. n \in Nat /\ i \in 1..n
    OBVIOUS
  <1>2. /\ a \in Seq(S) /\ Len(a) = i - 1
        /\ \A j \in 1..(i - 1) : a[j] = s[j]
    BY <1>1
  <1>3. /\ b \in Seq(S) /\ Len(b) = n - i
        /\ \A j \in 1..(n - i) : b[j] = s[i + j]
    BY <1>1
  <1>4. t = a \o b
    BY DEF Without
  <1> HIDE DEF a, b, t, n
  <1>5. /\ a \o b \in Seq(S) /\ Len(a \o b) = Len(a) + Len(b)
        /\ \A j \in 1..(Len(a) + Len(b)) :
              (a \o b)[j] = IF j <= Len(a) THEN a[j] ELSE b[j - Len(a)]
    BY <1>2, <1>3, ConcatProperties, Zenon
  <1>6. /\ t \in Seq(S) /\ Len(t) = (i - 1) + (n - i)
        /\ \A j \in 1..((i - 1) + (n - i)) :
              t[j] = IF j <= i - 1 THEN a[j] ELSE b[j - (i - 1)]
    BY <1>2, <1>3, <1>4, <1>5, Zenon
  <1>7. Len(t) = n - 1
    BY <1>1, <1>6
  <1>8. ASSUME NEW j \in 1..(i - 1)
        PROVE  t[j] = s[j]
    <2>1. j \in 1..((i - 1) + (n - i)) /\ j <= i - 1
      BY <1>1
    <2>2. t[j] = a[j]
      BY <1>6, <2>1
    <2>3. QED
      BY <1>2, <2>2
  <1>9. ASSUME NEW j \in i..(n - 1)
        PROVE  t[j] = s[j + 1]
    <2>1. /\ j \in 1..((i - 1) + (n - i)) /\ ~(j <= i - 1)
          /\ j - (i - 1) \in 1..(n - i) /\ i + (j - (i - 1)) = j + 1
      BY <1>1
    <2>2. t[j] = b[j - (i - 1)]
      BY <1>6, <2>1
    <2>3. b[j - (i - 1)] = s[i + (j - (i - 1))]
      BY <1>3, <2>1
    <2>4. QED
      BY <2>1, <2>2, <2>3
  <1>10. QED
    BY <1>6, <1>7, <1>8, <1>9 DEF t, n

\* A merge of twins loses no key.
LEMMA MergedKeeps ==
    ASSUME NEW table \in Tables, NEW merged \in Merged(table)
    PROVE  merged \in Tables /\ KeysOf(merged) = KeysOf(table)
  <1> DEFINE s == table.rows
             t == merged.rows
  <1>1. PICK i \in DOMAIN s :
           /\ \E k \in DOMAIN s : k # i /\ KeyOf[s[k]] = KeyOf[s[i]]
           /\ merged = [table EXCEPT !.rows = SubSeq(@, 1, i - 1)
                                                \o SubSeq(@, i + 1, Len(@))]
    BY DEF Merged
  <1>2. PICK k \in DOMAIN s : k # i /\ KeyOf[s[k]] = KeyOf[s[i]]
    BY <1>1
  <1>3. s \in Seq(Rows) /\ DOMAIN s = 1..Len(s) /\ Len(s) \in Nat /\ i \in 1..Len(s)
    BY DEF Tables
  <1>4. t = Without(s, i)
    BY <1>1 DEF Tables, Without
  <1>5. /\ t \in Seq(Rows) /\ Len(t) = Len(s) - 1
        /\ \A j \in 1..(i - 1) : t[j] = s[j]
        /\ \A j \in i..(Len(s) - 1) : t[j] = s[j + 1]
    BY <1>3, <1>4, WithoutOne
  <1>6. DOMAIN t = 1..(Len(s) - 1)
    BY <1>3, <1>5
  <1>7. merged \in Tables
    <2>1. merged = [versioned |-> table.versioned, column |-> table.column, rows |-> t]
      BY <1>1, <1>4 DEF Tables
    <2>2. QED
      BY <1>5, <2>1 DEF Tables
  <1> HIDE DEF s, t
  <1>8. ASSUME NEW j \in DOMAIN t
        PROVE  \E l \in DOMAIN s : KeyOf[t[j]] = KeyOf[s[l]]
    <2>1. CASE j < i
      BY <1>3, <1>5, <1>6, <2>1
    <2>2. CASE j >= i
      <3>1. j + 1 \in DOMAIN s /\ t[j] = s[j + 1]
        BY <1>3, <1>5, <1>6, <2>2
      <3>2. QED
        BY <3>1
    <2>3. QED
      BY <1>3, <1>6, <2>1, <2>2
  <1>9. ASSUME NEW l \in DOMAIN s, l # i
        PROVE  \E j \in DOMAIN t : KeyOf[s[l]] = KeyOf[t[j]]
    <2>1. CASE l < i
      <3>1. l \in DOMAIN t /\ t[l] = s[l]
        BY <1>3, <1>5, <1>6, <2>1
      <3>2. QED
        BY <3>1
    <2>2. CASE l > i
      <3>1. l - 1 \in DOMAIN t /\ t[l - 1] = s[l]
        BY <1>3, <1>5, <1>6, <2>2
      <3>2. QED
        BY <3>1
    <2>3. QED
      BY <1>3, <1>9, <2>1, <2>2
  <1>10. ASSUME NEW l \in DOMAIN s
         PROVE  \E j \in DOMAIN t : KeyOf[s[l]] = KeyOf[t[j]]
    BY <1>2, <1>9
  <1>11. KeysOf(merged) = KeysOf(table)
    BY <1>8, <1>10 DEF KeysOf, s, t
  <1>12. QED
    BY <1>7, <1>11

----------------------------------------------------------------------------
\* The live table holds every row at first, and no copy is under way.
LEMMA InitIInv ==
    ASSUME Init
    PROVE  IInv
  <1>1. /\ live.rows \in [1..Cardinality(Rows) -> Rows]
        /\ \A r \in Rows : \E i \in DOMAIN live.rows : live.rows[i] = r
        /\ live \in [versioned : {FALSE}, column : {FALSE},
                     rows : [1..Cardinality(Rows) -> Rows]]
    BY DEF Init
  <1>2. live.rows \in Seq(Rows)
    BY <1>1, RowsAssumption, FS_CardinalityType
  <1>3. TypeOK
    BY <1>1, <1>2 DEF Init, TypeOK, Tables, Labels
  <1>4. EverySnapshotServed
    BY <1>1 DEF EverySnapshotServed, KeysOf
  <1>5. CopiesIntoEmpty /\ CopyServesAll
    BY DEF Init, CopiesIntoEmpty, CopyServesAll, At
  <1>6. QED
    BY <1>3, <1>4, <1>5 DEF IInv

\* A step that keeps the keys of the live table serves what was served, ...
LEMMA LiveKept ==
    ASSUME EverySnapshotServed, KeysOf(live') = KeysOf(live)
    PROVE  EverySnapshotServed'
  BY DEF EverySnapshotServed, KeysOf

\* ... and one that leaves both tables is as safe as the labels it goes to.
LEMMA TablesKept ==
    ASSUME IInv, UNCHANGED <<live, scratch>>, pc' \in [Appliers -> Labels],
           \A q \in Appliers :
              /\ pc'[q] = "copy" => pc[q] = "copy"
              /\ pc'[q] \in {"countOld", "countNew", "exchange"}
                    => pc[q] \in {"countOld", "countNew", "exchange"}
    PROVE  IInv'
  <1>1. TypeOK'
    BY DEF IInv, TypeOK, Tables, Labels
  <1>2. EverySnapshotServed'
    BY LiveKept DEF IInv
  <1>3. CopiesIntoEmpty'
    BY DEF IInv, CopiesIntoEmpty, At
  <1>4. CopyServesAll'
    BY DEF IInv, CopyServesAll, KeysOf, AllKeys
  <1>5. QED
    BY <1>1, <1>2, <1>3, <1>4 DEF IInv

\* A step of the only applier, seen from its label.
LEMMA OnlyApplier ==
    ASSUME OneApplier, TypeOK, NEW p \in Appliers, NEW label \in Labels, GoTo(p, label)
    PROVE  pc' \in [Appliers -> Labels] /\ \A q \in Appliers : pc'[q] = label
  BY DEF OneApplier, TypeOK, GoTo

\* No statement of the migration loses a snapshot.
LEMMA MigrateIInv ==
    ASSUME IInv, OneApplier, NEW p \in Appliers, Migrate(p)
    PROVE  IInv'
  <1> USE DEF IInv
  <1>1. CASE Guard(p) \/ CountOld(p) \/ CountNew(p)
    <2>1. UNCHANGED <<live, scratch>>
      BY <1>1 DEF Guard, CountOld, CountNew
    <2>2. \E label \in {"idle", "drop", "countNew", "exchange"} :
             /\ GoTo(p, label)
             /\ label \in {"countNew", "exchange"} => pc[p] \in {"countOld", "countNew"}
      BY <1>1 DEF Guard, CountOld, CountNew, At
    <2>3. PICK label \in {"idle", "drop", "countNew", "exchange"} :
             /\ GoTo(p, label)
             /\ label \in {"countNew", "exchange"} => pc[p] \in {"countOld", "countNew"}
      BY <2>2
    <2>4. label \in Labels
      BY DEF Labels
    <2>5. pc' \in [Appliers -> Labels] /\ \A q \in Appliers : pc'[q] = label
      BY <2>3, <2>4, OnlyApplier
    <2>6. \A q \in Appliers :
             /\ pc'[q] # "copy"
             /\ pc'[q] \in {"countOld", "countNew", "exchange"}
                   => pc[q] \in {"countOld", "countNew", "exchange"}
      BY <2>3, <2>5 DEF OneApplier
    <2>7. QED
      BY <2>1, <2>5, <2>6, TablesKept
  <1>2. CASE DropLeftover(p) \/ DropOld(p)
    <2>1. scratch' = NoTable /\ UNCHANGED live /\ pc' \in [Appliers -> Labels]
      BY <1>2, OnlyApplier DEF DropLeftover, DropOld, Labels
    <2>2. EverySnapshotServed'
      BY <2>1, LiveKept
    <2>3. QED
      BY <2>1, <2>2 DEF TypeOK, CopiesIntoEmpty, CopyServesAll, Tables, Labels
  <1>3. CASE AddColumn(p)
    <2>1. /\ live' = [versioned |-> live.versioned, column |-> TRUE, rows |-> live.rows]
          /\ UNCHANGED scratch
          /\ pc' \in [Appliers -> Labels] /\ \A q \in Appliers : pc'[q] = "create"
      BY <1>3, OnlyApplier DEF AddColumn, TypeOK, Tables, Labels
    <2>2. EverySnapshotServed'
      BY <2>1, LiveKept DEF KeysOf
    <2>3. QED
      BY <2>1, <2>2 DEF TypeOK, CopiesIntoEmpty, CopyServesAll, At, Tables, Labels
  <1>4. CASE Create(p)
    <2>1. CASE scratch = NoTable
      <3>1. /\ scratch' = [versioned |-> TRUE, column |-> live.column, rows |-> <<>>]
            /\ UNCHANGED live
            /\ pc' \in [Appliers -> Labels] /\ \A q \in Appliers : pc'[q] = "copy"
        BY <1>4, <2>1, OnlyApplier DEF Create, Labels
      <3>2. scratch' \in Tables
        BY <3>1 DEF TypeOK, Tables
      <3>3. EverySnapshotServed'
        BY <3>1, LiveKept
      <3>4. QED
        BY <3>1, <3>2, <3>3 DEF TypeOK, CopiesIntoEmpty, CopyServesAll, At, Tables, Labels
    <2>2. CASE scratch # NoTable
      <3>1. /\ UNCHANGED <<live, scratch>>
            /\ pc' \in [Appliers -> Labels] /\ \A q \in Appliers : pc'[q] = "idle"
        BY <1>4, <2>2, OnlyApplier DEF Create, Labels
      <3>2. QED
        BY <3>1, TablesKept
    <2>3. QED
      BY <2>1, <2>2
  <1>5. CASE Copy(p)
    <2>1. CASE scratch # NoTable
      <3>1. scratch \in Tables /\ live \in Tables /\ scratch.rows = <<>>
        BY <1>5, <2>1 DEF TypeOK, CopiesIntoEmpty, Copy, At
      <3>2. <<>> \o live.rows = live.rows
        BY <3>1 DEF Tables
      <3>3. /\ scratch' = [versioned |-> scratch.versioned, column |-> scratch.column,
                           rows |-> live.rows]
            /\ UNCHANGED live
            /\ pc' \in [Appliers -> Labels] /\ \A q \in Appliers : pc'[q] = "countOld"
        BY <1>5, <2>1, <3>1, <3>2, OnlyApplier DEF Copy, Tables, Labels
      <3>4. scratch' \in Tables
        BY <3>1, <3>3 DEF Tables
      <3>5. CopyServesAll'
        BY <3>3 DEF CopyServesAll, EverySnapshotServed, KeysOf, AllKeys
      <3>6. EverySnapshotServed'
        BY <3>3, LiveKept
      <3>7. QED
        BY <3>3, <3>4, <3>5, <3>6 DEF TypeOK, CopiesIntoEmpty, At, Tables, Labels
    <2>2. CASE scratch = NoTable
      <3>1. /\ UNCHANGED <<live, scratch>>
            /\ pc' \in [Appliers -> Labels] /\ \A q \in Appliers : pc'[q] = "idle"
        BY <1>5, <2>2, OnlyApplier DEF Copy, Labels
      <3>2. QED
        BY <3>1, TablesKept
    <2>3. QED
      BY <2>1, <2>2
  <1>6. CASE Exchange(p)
    <2>1. CASE scratch # NoTable
      <3>1. /\ live' = scratch /\ scratch' = live
            /\ pc' \in [Appliers -> Labels] /\ \A q \in Appliers : pc'[q] = "dropOld"
        BY <1>6, <2>1, OnlyApplier DEF Exchange, Labels
      <3>2. scratch \in Tables /\ KeysOf(scratch) = AllKeys
        BY <1>6, <2>1 DEF TypeOK, CopyServesAll, Exchange, At
      <3>3. EverySnapshotServed'
        BY <3>1, <3>2 DEF EverySnapshotServed, KeysOf, AllKeys
      <3>4. QED
        BY <3>1, <3>2, <3>3 DEF TypeOK, CopiesIntoEmpty, CopyServesAll, At, Tables, Labels
    <2>2. CASE scratch = NoTable
      <3>1. /\ UNCHANGED <<live, scratch>>
            /\ pc' \in [Appliers -> Labels] /\ \A q \in Appliers : pc'[q] = "idle"
        BY <1>6, <2>2, OnlyApplier DEF Exchange, Labels
      <3>2. QED
        BY <3>1, TablesKept
    <2>3. QED
      BY <2>1, <2>2
  <1>7. QED
    BY <1>1, <1>2, <1>3, <1>4, <1>5, <1>6 DEF Migrate

\* A kill leaves the tables as they are, and no attempt relies on them.
LEMMA KillIInv ==
    ASSUME IInv, OneApplier, NEW p \in Appliers, Kill(p)
    PROVE  IInv'
  <1>1. /\ UNCHANGED <<live, scratch>>
        /\ pc' \in [Appliers -> Labels] /\ \A q \in Appliers : pc'[q] = "idle"
    BY OnlyApplier DEF IInv, Kill, Labels
  <1>2. QED
    BY <1>1, TablesKept

\* The background merger keeps every key of either table.
LEMMA MergeIInv ==
    ASSUME IInv, MergeLive \/ MergeScratch
    PROVE  IInv'
  <1>1. CASE MergeLive
    <2>1. /\ live' \in Tables /\ KeysOf(live') = KeysOf(live)
          /\ UNCHANGED <<scratch, pc>>
      BY <1>1, MergedKeeps DEF MergeLive, IInv, TypeOK
    <2>2. EverySnapshotServed'
      BY <2>1, LiveKept DEF IInv
    <2>3. QED
      BY <2>1, <2>2 DEF IInv, TypeOK, CopiesIntoEmpty, CopyServesAll, KeysOf, At, Tables,
                        Labels, AllKeys
  <1>2. CASE MergeScratch
    <2>1. scratch # NoTable /\ scratch \in Tables /\ UNCHANGED <<live, pc>>
      BY <1>2 DEF MergeScratch, IInv, TypeOK
    <2>2. scratch' \in Tables /\ KeysOf(scratch') = KeysOf(scratch)
      BY <1>2, <2>1, MergedKeeps DEF MergeScratch
    <2>3. scratch.rows # <<>>
      BY <1>2 DEF MergeScratch, Merged
    <2>4. CopiesIntoEmpty'
      BY <2>1, <2>3 DEF IInv, CopiesIntoEmpty, At
    <2>5. CopyServesAll'
      BY <2>1, <2>2 DEF IInv, CopyServesAll, KeysOf, AllKeys
    <2>6. EverySnapshotServed'
      BY <2>1, LiveKept DEF IInv
    <2>7. QED
      BY <2>1, <2>2, <2>4, <2>5, <2>6 DEF IInv, TypeOK, Tables, Labels
  <1>3. QED
    BY <1>1, <1>2

LEMMA NextIInv ==
    ASSUME IInv, OneApplier, [Next]_vars
    PROVE  IInv'
  <1>1. CASE UNCHANGED vars
    BY <1>1, TablesKept DEF vars, IInv, TypeOK
  <1>2. QED
    BY <1>1, MigrateIInv, KillIInv, MergeIInv DEF Next

----------------------------------------------------------------------------
\* With one applier at a time, whatever is killed, refused or merged and
\* whenever, a query of the live table finds every snapshot.
THEOREM NoSnapshotLost ==
    ASSUME OneApplier
    PROVE  Spec => []EverySnapshotServed
  <1>1. Init => IInv
    BY InitIInv
  <1>2. IInv /\ [Next]_vars => IInv'
    BY OneApplier, NextIInv
  <1>3. IInv => EverySnapshotServed
    BY DEF IInv
  <1>4. QED
    BY <1>1, <1>2, <1>3, PTL DEF Spec
=============================================================================
