-------------------------- MODULE LakeTable_proofs --------------------------
(***************************************************************************)
(* Proofs about LakeTable, for every set of writers, every partitioning of *)
(* an append and any number of appends, maintenance passes and resets.     *)
(*                                                                         *)
(* The argument.  A handle is a past state of the table it was opened on   *)
(* (HandlesArePast): when it is still at the head it has the head's files, *)
(* so what compaction computes from the handle is right for the table it   *)
(* commits to, and when it is not the commit fails.  A file holds rows of  *)
(* its partition only (FilesByPartition), so one file per partition of a   *)
(* day neither loses nor doubles a row, and an append writes rows no file  *)
(* has (Numbered).  What a reader opened is therefore all that had landed  *)
(* by then, append by append (Whole).                                      *)
(***************************************************************************)
EXTENDS LakeTable, FiniteSetTheorems, TLAPS

Partitions == Nat \X Nat

LandedRows == Nat \X Partitions

Files == [partition : Partitions, rows : SUBSET LandedRows]

Tables == [life : Nat, head : Nat, layout : Layouts, files : SUBSET Files,
           history : SUBSET Nat]

Opened(p) == pc[p] \in {"append", "compact", "scan"}

Typed ==
    /\ lives \in Nat /\ landings \in Nat
    /\ table # None => table \in Tables
    /\ landed \subseteq LandedRows
    /\ pc \in [Processes -> {"idle", "append", "compact", "scan", "rmtree"}]
    /\ DOMAIN handle = Processes /\ DOMAIN left = Processes
    /\ \A p \in Processes : Opened(p) => handle[p] \in Tables

\* No handle is ahead of the table, and one at its head has its files and at
\* least its snapshots.
HandlesArePast ==
    /\ table # None => table.life <= lives
    /\ \A p \in Processes : Opened(p) =>
          /\ handle[p].life <= lives
          /\ table # None /\ table.life = handle[p].life =>
                /\ handle[p].head <= table.head
                /\ handle[p].head = table.head =>
                      /\ handle[p].files = table.files
                      /\ table.history \subseteq handle[p].history

\* The snapshots are commits of the past, the head among them.
SnapshotsArePast ==
    /\ table # None =>
          /\ \A s \in table.history : s <= table.head
          /\ table.head > 0 => table.head \in table.history
    /\ \A p \in Processes : Opened(p) =>
          \A s \in handle[p].history : s <= handle[p].head

FilesByPartition ==
    table # None => \A f \in table.files : \A r \in f.rows : r[2] = f.partition

Numbered == \A r \in landed : r[1] <= landings

\* Of every append either all its rows or none.
Whole(rows) ==
    \A r \in rows : \E l \in Landings : /\ r[2] \in l
                                        /\ {<<r[1], p>> : p \in l} \subseteq rows

\* What each process took from the table when it opened it.
OpenedWhole ==
    /\ \A w \in Writers : pc[w] = "append" => left[w] \in Landings
    /\ pc["reader"] = "scan" =>
          Rows(handle["reader"].files) = left["reader"] /\ Whole(left["reader"])
    /\ pc["maintain"] = "compact" =>
          days_with_small_files(handle["maintain"].files) \subseteq left["maintain"]

\* The inductive invariant.
IInv ==
    /\ Typed
    /\ HandlesArePast
    /\ SnapshotsArePast
    /\ FilesByPartition
    /\ Numbered
    /\ Whole(landed)
    /\ OpenedWhole
    /\ RowsKept
    /\ ReadIsWhole

----------------------------------------------------------------------------
\* The processes that are not writers are three.
LEMMA ProcessNames ==
    /\ Writers \subseteq Processes
    /\ "maintain" \in Processes /\ "reader" \in Processes /\ "reset" \in Processes
    /\ \A w \in Writers : w # "maintain" /\ w # "reader" /\ w # "reset"
  BY LandingsAssumption DEF Processes

\* No process has opened a table, and nothing has landed.
LEMMA InitIInv ==
    ASSUME Init
    PROVE  IInv
  <1> USE DEF Init
  <1>1. \A p \in Processes : pc[p] = "idle"
    OBVIOUS
  <1>2. pc["reader"] = "idle" /\ pc["maintain"] = "idle"
        /\ \A w \in Writers : pc[w] = "idle"
    BY <1>1, ProcessNames
  <1>3. Typed
    BY <1>1 DEF Typed, Opened
  <1>4. HandlesArePast /\ SnapshotsArePast /\ FilesByPartition /\ Numbered
    BY <1>1 DEF HandlesArePast, SnapshotsArePast, FilesByPartition, Numbered, Opened
  <1>5. Whole(landed) /\ OpenedWhole
    BY <1>2 DEF Whole, OpenedWhole
  <1>6. RowsKept /\ ReadIsWhole
    BY DEF RowsKept, ReadIsWhole
  <1>7. QED
    BY <1>3, <1>4, <1>5, <1>6 DEF IInv

\* A process that ends without touching the table: an operation that was
\* refused, failed, aborted or killed.
LEMMA EndIInv ==
    ASSUME IInv, NEW p \in Processes, NEW outcome,
           outcome \notin {"rows", "removed"}, End(p, outcome),
           UNCHANGED <<table, lives, landings, landed>>
    PROVE  IInv'
  <1> USE DEF IInv, End, Goto
  <1>1. /\ pc' \in [Processes -> {"idle", "append", "compact", "scan", "rmtree"}]
        /\ DOMAIN handle' = Processes /\ DOMAIN left' = Processes
        /\ pc'[p] = "idle"
        /\ \A q \in Processes : q # p =>
              pc'[q] = pc[q] /\ handle'[q] = handle[q] /\ left'[q] = left[q]
    BY DEF Typed
  <1>2. Typed'
    BY <1>1 DEF Typed, Opened
  <1>3. HandlesArePast' /\ SnapshotsArePast'
    BY <1>1 DEF HandlesArePast, SnapshotsArePast, Opened
  <1>4. OpenedWhole'
    BY <1>1, ProcessNames DEF OpenedWhole, Whole
  <1>5. ReadIsWhole'
    BY DEF ReadIsWhole
  <1>6. FilesByPartition' /\ Numbered' /\ Whole(landed)' /\ RowsKept'
    BY DEF FilesByPartition, Numbered, Whole, RowsKept
  <1>7. QED
    BY <1>2, <1>3, <1>4, <1>5, <1>6

\* A process opens the table, which is created when it is missing.
LEMMA OpensIInv ==
    ASSUME IInv, NEW p \in Processes, NEW layout \in Layouts, NEW next, NEW todo,
           Opens(p, layout, next),
           \/ p \in Writers /\ next = "append" /\ todo \in Landings
           \/ /\ p = "maintain" /\ next = "compact"
              /\ todo = days_with_small_files(table'.files)
           \/ p = "reader" /\ next = "scan" /\ todo = landed',
           left' = [left EXCEPT ![p] = todo], landings' = landings
    PROVE  IInv'
  <1> USE DEF IInv, Opens, Goto, NoReport
  <1>1. /\ pc' \in [Processes -> {"idle", "append", "compact", "scan", "rmtree"}]
        /\ DOMAIN handle' = Processes /\ DOMAIN left' = Processes
        /\ pc'[p] = next /\ handle'[p] = table' /\ left'[p] = todo
        /\ \A q \in Processes : q # p =>
              pc'[q] = pc[q] /\ handle'[q] = handle[q] /\ left'[q] = left[q]
    BY DEF Typed
  <1>2. /\ table' \in Tables /\ table'.life <= lives' /\ lives <= lives'
        /\ lives' \in Nat
        /\ \A s \in table'.history : s <= table'.head
        /\ table'.head > 0 => table'.head \in table'.history
        /\ Rows(table'.files) = landed'
        /\ \A f \in table'.files : \A r \in f.rows : r[2] = f.partition
        /\ \A f, g \in table'.files : f # g => f.rows \cap g.rows = {}
        /\ landed' \subseteq landed
        /\ Whole(landed')
    <2>1. CASE table = None /\ lives' = lives + 1 /\ table' = Created(layout)
               /\ landed' = {}
      <3>1. Created(layout) \in Tables
        BY DEF Created, Tables, Typed
      <3>2. /\ Created(layout).life = lives + 1 /\ Created(layout).head = 0
            /\ Created(layout).files = {} /\ Created(layout).history = {}
        BY DEF Created
      <3>3. Rows({}) = {} /\ Whole({})
        BY DEF Rows, Whole
      <3>4. QED
        BY <2>1, <3>1, <3>2, <3>3 DEF Typed
    <2>2. CASE table # None /\ UNCHANGED <<lives, table, landed>>
      BY <2>2 DEF Typed, HandlesArePast, SnapshotsArePast, FilesByPartition, RowsKept
    <2>3. QED
      BY <2>1, <2>2
  <1>3. \A q \in Processes : Opened(q)' => q = p \/ Opened(q)
    BY <1>1 DEF Opened
  <1>4. Typed'
    BY <1>1, <1>2, <1>3 DEF Typed
  <1>5. HandlesArePast'
    <2> SUFFICES ASSUME NEW q \in Processes, Opened(q)'
                 PROVE  /\ handle'[q].life <= lives'
                        /\ table'.life = handle'[q].life =>
                              /\ handle'[q].head <= table'.head
                              /\ handle'[q].head = table'.head =>
                                    /\ handle'[q].files = table'.files
                                    /\ table'.history \subseteq handle'[q].history
      BY <1>2 DEF HandlesArePast
    <2>1. CASE q = p
      BY <2>1, <1>1, <1>2 DEF Tables
    <2>2. CASE q # p
      <3>1. Opened(q) /\ handle'[q] = handle[q] /\ handle[q] \in Tables
        BY <2>2, <1>1, <1>3 DEF Typed
      <3>2. CASE table = None /\ lives' = lives + 1 /\ table' = Created(layout)
        <4>1. table'.life = lives + 1
          BY <3>2 DEF Created
        <4>2. handle[q].life <= lives /\ handle[q].life \in Nat /\ lives \in Nat
          BY <3>1 DEF HandlesArePast, Tables, Typed
        <4>3. QED
          BY <3>1, <3>2, <4>1, <4>2
      <3>3. CASE table # None /\ UNCHANGED <<lives, table>>
        BY <3>1, <3>3 DEF HandlesArePast
      <3>4. QED
        BY <3>2, <3>3
    <2>3. QED
      BY <2>1, <2>2
  <1>6. SnapshotsArePast'
    BY <1>1, <1>2, <1>3 DEF SnapshotsArePast
  <1>7. OpenedWhole'
    <2>1. \A w \in Writers : pc'[w] = "append" => left'[w] \in Landings
      BY <1>1, ProcessNames DEF OpenedWhole
    <2>2. pc'["reader"] = "scan" =>
             Rows(handle'["reader"].files) = left'["reader"] /\ Whole(left'["reader"])
      BY <1>1, <1>2, ProcessNames DEF OpenedWhole
    <2>3. pc'["maintain"] = "compact" =>
             days_with_small_files(handle'["maintain"].files) \subseteq left'["maintain"]
      BY <1>1, ProcessNames DEF OpenedWhole
    <2>4. QED
      BY <2>1, <2>2, <2>3 DEF OpenedWhole, Whole
  <1>8. FilesByPartition' /\ RowsKept' /\ Whole(landed)' /\ Numbered'
    BY <1>2 DEF FilesByPartition, RowsKept, Whole, Numbered
  <1>9. ReadIsWhole'
    BY DEF ReadIsWhole
  <1>10. QED
    BY <1>4, <1>5, <1>6, <1>7, <1>8, <1>9

\* A commit leaves every other handle behind.
LEMMA CommitIInv ==
    ASSUME IInv, NEW p \in Processes, NEW files \in SUBSET Files,
           Opened(p), AtHead(p), table' = Committed(files),
           UNCHANGED lives, Typed',
           \A q \in Processes : q # p => pc'[q] = pc[q] /\ handle'[q] = handle[q],
           pc'[p] = "idle" \/ handle'[p] = table'
    PROVE  HandlesArePast' /\ SnapshotsArePast'
  <1> USE DEF IInv
  <1>1. /\ table \in Tables /\ table' \in Tables
        /\ table'.life = table.life /\ table'.head = table.head + 1
        /\ table'.files = files
        /\ table'.history = table.history \cup {table.head + 1}
    <2>1. table \in Tables
      BY DEF AtHead, Typed
    <2>2. table.head + 1 \in Nat /\ table.history \cup {table.head + 1} \in SUBSET Nat
      BY <2>1 DEF Tables
    <2>3. QED
      BY <2>1, <2>2 DEF Committed, Tables
  <1>2. \A q \in Processes : Opened(q)' =>
           \/ handle'[q] = table'
           \/ /\ Opened(q) /\ handle'[q] = handle[q] /\ handle[q] \in Tables
    BY DEF Opened, Typed
  <1>3. HandlesArePast'
    <2>1. table'.life <= lives'
      BY <1>1 DEF HandlesArePast, AtHead
    <2> SUFFICES ASSUME NEW q \in Processes, Opened(q)'
                 PROVE  /\ handle'[q].life <= lives'
                        /\ table'.life = handle'[q].life =>
                              /\ handle'[q].head <= table'.head
                              /\ handle'[q].head = table'.head =>
                                    /\ handle'[q].files = table'.files
                                    /\ table'.history \subseteq handle'[q].history
      BY <2>1 DEF HandlesArePast
    <2>2. CASE handle'[q] = table'
      BY <2>1, <2>2, <1>1 DEF Tables
    <2>3. CASE Opened(q) /\ handle'[q] = handle[q] /\ handle[q] \in Tables
      <3>1. handle[q].life <= lives
            /\ (table.life = handle[q].life => handle[q].head <= table.head)
        BY <2>3 DEF HandlesArePast, AtHead
      <3>2. handle[q].head \in Nat /\ table.head \in Nat
        BY <2>3, <1>1 DEF Tables
      <3>3. QED
        BY <2>3, <3>1, <3>2, <1>1
    <2>4. QED
      BY <1>2, <2>2, <2>3
  <1>4. SnapshotsArePast'
    <2>1. /\ \A s \in table'.history : s <= table'.head
          /\ table'.head \in table'.history
      <3>1. \A s \in table.history : s <= table.head /\ s \in Nat
        BY <1>1 DEF SnapshotsArePast, AtHead, Tables
      <3>2. QED
        BY <3>1, <1>1 DEF Tables
    <2>2. \A q \in Processes : Opened(q)' => \A s \in handle'[q].history : s <= handle'[q].head
      BY <1>2, <2>1 DEF SnapshotsArePast
    <2>3. QED
      BY <2>1, <2>2 DEF SnapshotsArePast
  <1>5. QED
    BY <1>3, <1>4

\* What a file holds, and the rows of a set of files.
LEMMA FileFields ==
    \A p, rows : FileOf(p, rows).partition = p /\ FileOf(p, rows).rows = rows
  BY DEF FileOf

LEMMA InRows ==
    \A files, r : r \in Rows(files) <=> \E f \in files : r \in f.rows
  BY DEF Rows

\* The rows of two sets of files.
LEMMA RowsUnion ==
    ASSUME NEW A, NEW B
    PROVE  Rows(A \cup B) = Rows(A) \cup Rows(B)
  BY DEF Rows

\* One append: rows of a number of their own, in all the partitions at once.
LEMMA AppendIInv ==
    ASSUME IInv, NEW w \in Writers, Append(w)
    PROVE  IInv'
  <1> DEFINE l == left[w]
             new == {FileOf(p, {<<landings + 1, p>>}) : p \in l}
  <1> USE DEF IInv
  <1>1. /\ pc[w] = "append" /\ AtHead(w) /\ table' = Committed(table.files \cup new)
        /\ landed' = landed \cup Rows(new)
        /\ landings' = landings + 1 /\ lives' = lives
        /\ End(w, "landed")
    BY DEF Append
  <1>2. w \in Processes /\ Opened(w) /\ l \in Landings
    BY <1>1, ProcessNames DEF Opened, OpenedWhole
  <1>3. l \subseteq Partitions /\ landings + 1 \in Nat
    BY <1>2, LandingsAssumption DEF Partitions, Typed
  <1>4. /\ new \subseteq Files
        /\ \A f \in new : \E p \in l : f.partition = p /\ f.rows = {<<landings + 1, p>>}
        /\ \A p \in l : \E f \in new : f.partition = p /\ f.rows = {<<landings + 1, p>>}
        /\ \A f, g \in new : f.partition = g.partition => f = g
    <2>1. \A p \in l : {<<landings + 1, p>>} \in SUBSET LandedRows
      BY <1>3 DEF LandedRows
    <2>2. \A p \in l : FileOf(p, {<<landings + 1, p>>}) \in Files
      BY <2>1, <1>3 DEF FileOf, Files
    <2>3. new \subseteq Files
      BY <2>2
    <2>4. ASSUME NEW f \in new
          PROVE  \E p \in l : f.partition = p /\ f.rows = {<<landings + 1, p>>}
      <3>1. PICK p \in l : f = FileOf(p, {<<landings + 1, p>>})
        OBVIOUS
      <3>2. QED
        BY <3>1, FileFields
    <2>5. ASSUME NEW p \in l
          PROVE  \E f \in new : f.partition = p /\ f.rows = {<<landings + 1, p>>}
      <3>1. FileOf(p, {<<landings + 1, p>>}) \in new
        OBVIOUS
      <3>2. QED
        BY <3>1, FileFields
    <2>6. ASSUME NEW f \in new, NEW g \in new, f.partition = g.partition
          PROVE  f = g
      <3>1. PICK p \in l : f = FileOf(p, {<<landings + 1, p>>})
        OBVIOUS
      <3>2. PICK q \in l : g = FileOf(q, {<<landings + 1, q>>})
        OBVIOUS
      <3>3. p = q
        BY <2>6, <3>1, <3>2, FileFields
      <3>4. QED
        BY <3>1, <3>2, <3>3
    <2>7. QED
      BY <2>3, <2>4, <2>5, <2>6
  <1> HIDE DEF new
  <1>5. Rows(new) = {<<landings + 1, p>> : p \in l}
    <2>1. ASSUME NEW r \in Rows(new)
          PROVE  r \in {<<landings + 1, p>> : p \in l}
      BY <1>4, InRows
    <2>2. ASSUME NEW p \in l
          PROVE  <<landings + 1, p>> \in Rows(new)
      BY <1>4, InRows
    <2>3. QED
      BY <2>1, <2>2
  <1>6. /\ table \in Tables /\ table.files \cup new \in SUBSET Files
        /\ table' \in Tables /\ table'.files = table.files \cup new
    <2>1. table \in Tables
      BY <1>1 DEF AtHead, Typed
    <2>2. table.head + 1 \in Nat /\ table.history \cup {table.head + 1} \in SUBSET Nat
          /\ table.files \cup new \in SUBSET Files
      BY <2>1, <1>4 DEF Tables
    <2>3. QED
      BY <2>1, <2>2, <1>1 DEF Committed, Tables
  <1>7. /\ pc' \in [Processes -> {"idle", "append", "compact", "scan", "rmtree"}]
        /\ DOMAIN handle' = Processes /\ DOMAIN left' = Processes
        /\ pc'[w] = "idle"
        /\ \A q \in Processes : q # w =>
              pc'[q] = pc[q] /\ handle'[q] = handle[q] /\ left'[q] = left[q]
    BY <1>1, <1>2 DEF Typed, End, Goto
  <1>8. Typed'
    <2>1. Rows(new) \subseteq LandedRows
      <3>1. \A p \in l : <<landings + 1, p>> \in LandedRows
        BY <1>3 DEF LandedRows
      <3>2. QED
        BY <3>1, <1>5
    <2>2. QED
      BY <2>1, <1>1, <1>3, <1>6, <1>7 DEF Typed, Opened
  <1>9. HandlesArePast' /\ SnapshotsArePast'
    BY <1>1, <1>2, <1>6, <1>7, <1>8, CommitIInv
  <1>10. FilesByPartition'
    <2>1. \A f \in new : \A r \in f.rows : r[2] = f.partition
      BY <1>4
    <2>2. \A f \in table.files : \A r \in f.rows : r[2] = f.partition
      BY <1>1 DEF FilesByPartition, AtHead
    <2>3. QED
      BY <2>1, <2>2, <1>6 DEF FilesByPartition
  <1>11. Numbered'
    <2>1. \A r \in Rows(new) : r[1] = landings + 1
      BY <1>5
    <2>2. \A r \in landed : r[1] \in Nat /\ r[1] <= landings
      BY DEF Numbered, Typed, LandedRows
    <2>3. QED
      BY <2>1, <2>2, <1>1, <1>3 DEF Numbered, Typed
  <1>12. Whole(landed)'
    <2> SUFFICES ASSUME NEW r \in landed'
                 PROVE  \E m \in Landings :
                           r[2] \in m /\ {<<r[1], p>> : p \in m} \subseteq landed'
      BY DEF Whole
    <2>1. CASE r \in landed
      BY <2>1, <1>1 DEF Whole
    <2>2. CASE r \in Rows(new)
      <3>1. PICK p \in l : r = <<landings + 1, p>>
        BY <2>2, <1>5
      <3>2. r[2] \in l /\ {<<r[1], q>> : q \in l} \subseteq landed'
        BY <3>1, <1>1, <1>5
      <3>3. QED
        BY <3>2, <1>2
    <2>3. QED
      BY <2>1, <2>2, <1>1
  <1>13. RowsKept'
    <2>1. Rows(table'.files) = landed'
      BY <1>1, <1>6, RowsUnion DEF RowsKept, AtHead
    <2>2. \A f \in table.files, g \in new : f.rows \cap g.rows = {}
      <3>1. \A f \in table.files : f.rows \subseteq landed
        BY <1>1 DEF RowsKept, Rows, AtHead
      <3>2. \A r \in landed : r[1] # landings + 1
        BY DEF Numbered, Typed, LandedRows
      <3>3. \A g \in new : \A r \in g.rows : r[1] = landings + 1
        BY <1>4
      <3>4. QED
        BY <3>1, <3>2, <3>3
    <2>3. \A f, g \in new : f # g => f.rows \cap g.rows = {}
      <3>1. \A g \in new : \A r \in g.rows : r[2] = g.partition
        BY <1>4
      <3>2. QED
        BY <3>1, <1>4
    <2>4. \A f, g \in table.files : f # g => f.rows \cap g.rows = {}
      BY <1>1 DEF RowsKept, AtHead
    <2>5. \A f, g \in table'.files : f # g => f.rows \cap g.rows = {}
      BY <2>2, <2>3, <2>4, <1>6
    <2>6. QED
      BY <2>1, <2>5 DEF RowsKept
  <1>14. OpenedWhole'
    BY <1>7, ProcessNames DEF OpenedWhole, Whole
  <1>15. ReadIsWhole'
    BY <1>1 DEF ReadIsWhole, End
  <1>16. QED
    BY <1>8, <1>9, <1>10, <1>11, <1>12, <1>13, <1>14, <1>15

\* A day is rewritten as one file to a partition.
LEMMA OverwriteDayIInv ==
    ASSUME IInv, OverwriteDay
    PROVE  IInv'
  <1> DEFINE old == handle["maintain"].files
             day == NextDay
             scanned == {f \in old : f.partition[1] = day}
             new == {FileOf(p, Rows(FilesIn(scanned, p))) :
                       p \in {f.partition : f \in scanned}}
             others == old \ day_filter(old, day)
  <1> USE DEF IInv
  <1>1. /\ pc["maintain"] = "compact" /\ AtHead("maintain")
        /\ table' = Committed(others \cup new)
        /\ handle' = [handle EXCEPT !["maintain"] = table']
        /\ left' = [left EXCEPT !["maintain"] = @ \ {day}]
        /\ NoReport /\ UNCHANGED <<pc, lives, landings, landed>>
    BY DEF OverwriteDay
  <1>2. "maintain" \in Processes /\ Opened("maintain") /\ handle["maintain"] \in Tables
    BY <1>1, ProcessNames DEF Opened, Typed
  <1>3. table \in Tables /\ old = table.files /\ old \subseteq Files
    BY <1>1, <1>2 DEF AtHead, Typed, HandlesArePast, Tables
  <1>4. others = {f \in old : f.partition[1] # day}
    BY DEF day_filter
  <1>5. \A f \in old : f.partition \in Partitions /\ f.rows \subseteq LandedRows
                       /\ \A r \in f.rows : r[2] = f.partition
    BY <1>1, <1>3 DEF FilesByPartition, AtHead, Files
  <1>6. \A g \in new : /\ g.partition[1] = day
                       /\ g.rows = Rows(FilesIn(scanned, g.partition))
                       /\ g \in Files
    <2> SUFFICES ASSUME NEW g \in new
                 PROVE  /\ g.partition[1] = day
                        /\ g.rows = Rows(FilesIn(scanned, g.partition))
                        /\ g \in Files
      OBVIOUS
    <2>1. PICK f \in scanned : g = FileOf(f.partition, Rows(FilesIn(scanned, f.partition)))
      OBVIOUS
    <2>2. Rows(FilesIn(scanned, f.partition)) \in SUBSET LandedRows
      BY <1>5, InRows DEF FilesIn
    <2>3. f \in old /\ f.partition[1] = day /\ f.partition \in Partitions
      BY <1>5
    <2>4. g \in Files
      BY <2>1, <2>2, <2>3 DEF Files, FileOf
    <2>5. QED
      BY <2>1, <2>3, <2>4, FileFields
  <1>60. \A f \in scanned :
            \E g \in new : /\ g.partition = f.partition
                           /\ g.rows = Rows(FilesIn(scanned, f.partition))
    <2> SUFFICES ASSUME NEW f \in scanned
                 PROVE  \E g \in new : /\ g.partition = f.partition
                                       /\ g.rows = Rows(FilesIn(scanned, f.partition))
      OBVIOUS
    <2>1. FileOf(f.partition, Rows(FilesIn(scanned, f.partition))) \in new
      OBVIOUS
    <2>2. QED
      BY <2>1, FileFields
  <1>61. \A f, g \in new : f.partition = g.partition => f = g
    <2> SUFFICES ASSUME NEW f \in new, NEW g \in new, f.partition = g.partition
                 PROVE  f = g
      OBVIOUS
    <2>1. PICK p : f = FileOf(p, Rows(FilesIn(scanned, p)))
      OBVIOUS
    <2>2. PICK q : g = FileOf(q, Rows(FilesIn(scanned, q)))
      OBVIOUS
    <2>3. p = q
      BY <2>1, <2>2, FileFields
    <2>4. QED
      BY <2>1, <2>2, <2>3
  <1> HIDE DEF new
  <1>7. \A g \in new : \A r \in g.rows : r[2] = g.partition
    <2>1. \A p : \A r \in Rows(FilesIn(scanned, p)) : r[2] = p
      BY <1>5, InRows DEF FilesIn
    <2>2. QED
      BY <2>1, <1>6
  <1>8. Rows(new) = Rows(scanned)
    <2>1. ASSUME NEW r \in Rows(new)
          PROVE  r \in Rows(scanned)
      <3>1. PICK g \in new : r \in g.rows
        BY InRows
      <3>2. r \in Rows(FilesIn(scanned, g.partition))
        BY <3>1, <1>6
      <3>3. PICK f \in FilesIn(scanned, g.partition) : r \in f.rows
        BY <3>2, InRows
      <3>4. f \in scanned
        BY DEF FilesIn
      <3>5. QED
        BY <3>3, <3>4, InRows
    <2>2. ASSUME NEW r \in Rows(scanned)
          PROVE  r \in Rows(new)
      <3>1. PICK f \in scanned : r \in f.rows
        BY InRows
      <3>2. r \in Rows(FilesIn(scanned, f.partition))
        BY <3>1, InRows DEF FilesIn
      <3>3. PICK g \in new : g.rows = Rows(FilesIn(scanned, f.partition))
        BY <1>60
      <3>4. r \in g.rows
        BY <3>2, <3>3
      <3>5. QED
        BY <3>4, InRows
    <2>3. QED
      BY <2>1, <2>2
  <1>9. /\ others \cup new \in SUBSET Files
        /\ table' \in Tables /\ table'.files = others \cup new
    <2>1. table.head + 1 \in Nat /\ table.history \cup {table.head + 1} \in SUBSET Nat
      BY <1>3 DEF Tables
    <2>2. others \cup new \in SUBSET Files
      BY <1>3, <1>6
    <2>3. QED
      BY <2>1, <2>2, <1>1, <1>3 DEF Committed, Tables
  <1>10. /\ DOMAIN handle' = Processes /\ DOMAIN left' = Processes
         /\ handle'["maintain"] = table' /\ left'["maintain"] = left["maintain"] \ {day}
         /\ \A q \in Processes : q # "maintain" =>
               handle'[q] = handle[q] /\ left'[q] = left[q]
    BY <1>1, <1>2 DEF Typed
  <1>11. Typed'
    BY <1>1, <1>9, <1>10 DEF Typed, Opened
  <1>12. HandlesArePast' /\ SnapshotsArePast'
    BY <1>1, <1>2, <1>9, <1>10, <1>11, CommitIInv
  <1>13. FilesByPartition'
    BY <1>5, <1>7, <1>9 DEF FilesByPartition
  <1>14. RowsKept'
    <2>1. Rows(table'.files) = landed'
      <3>1. old = others \cup scanned
        BY <1>4
      <3>2. Rows(others \cup new) = Rows(others \cup scanned)
        <4>1. Rows(others \cup new) = Rows(others) \cup Rows(new)
          BY RowsUnion
        <4>2. Rows(others \cup scanned) = Rows(others) \cup Rows(scanned)
          BY RowsUnion
        <4>3. QED
          BY <4>1, <4>2, <1>8
      <3>3. QED
        BY <3>1, <3>2, <1>1, <1>3, <1>9 DEF RowsKept, AtHead
    <2>2. \A f, g \in others : f # g => f.rows \cap g.rows = {}
      BY <1>1, <1>3, <1>4 DEF RowsKept, AtHead
    <2>3. \A f \in others, g \in new : f.rows \cap g.rows = {}
      <3>1. \A f \in others : f.partition[1] # day /\ \A r \in f.rows : r[2] = f.partition
        BY <1>4, <1>5
      <3>2. \A g \in new : g.partition[1] = day
        BY <1>6
      <3>3. QED
        BY <3>1, <3>2, <1>7
    <2>4. \A f, g \in new : f # g => f.rows \cap g.rows = {}
      BY <1>7, <1>61
    <2>5. \A f, g \in table'.files : f # g => f.rows \cap g.rows = {}
      BY <2>2, <2>3, <2>4, <1>9
    <2>6. QED
      BY <2>1, <2>5 DEF RowsKept
  <1>15. OpenedWhole'
    <2>1. days_with_small_files(table'.files)
             \subseteq days_with_small_files(old) \ {day}
      <3> SUFFICES ASSUME NEW f \in others \cup new,
                          Cardinality(FilesIn(others \cup new, f.partition)) > 1
                   PROVE  /\ f.partition[1] # day
                          /\ f.partition[1] \in days_with_small_files(old)
        BY <1>9 DEF days_with_small_files
      <3>1. CASE f \in new
        <4>1. FilesIn(others \cup new, f.partition) = {f}
          <5>1. \A g \in others : g.partition # f.partition
            BY <3>1, <1>4, <1>6
          <5>2. \A g \in new : g.partition = f.partition => g = f
            BY <3>1, <1>61
          <5>3. QED
            BY <3>1, <5>1, <5>2 DEF FilesIn
        <4>2. Cardinality(FilesIn(others \cup new, f.partition)) = 1
          BY <4>1, FS_Singleton
        <4>3. QED
          BY <4>2
      <3>2. CASE f \in others
        <4>1. FilesIn(others \cup new, f.partition) = FilesIn(old, f.partition)
          BY <3>2, <1>4, <1>6 DEF FilesIn
        <4>2. f \in old /\ f.partition[1] # day
          BY <3>2, <1>4
        <4>3. QED
          BY <4>1, <4>2 DEF days_with_small_files
      <3>3. QED
        BY <3>1, <3>2
    <2>2. days_with_small_files(handle'["maintain"].files) \subseteq left'["maintain"]
      BY <2>1, <1>1, <1>10 DEF OpenedWhole
    <2>3. QED
      BY <2>2, <1>1, <1>10, ProcessNames DEF OpenedWhole, Whole
  <1>16. ReadIsWhole' /\ Numbered' /\ Whole(landed)'
    BY <1>1 DEF ReadIsWhole, NoReport, Numbered, Whole
  <1>17. QED
    BY <1>11, <1>12, <1>13, <1>14, <1>15, <1>16

\* Snapshots older than the handle's head go; no file does.
LEMMA ExpireSnapshotsIInv ==
    ASSUME IInv, ExpireSnapshots
    PROVE  IInv'
  <1> DEFINE h == handle["maintain"]
  <1> USE DEF IInv
  <1>1. /\ pc["maintain"] = "compact" /\ table # None /\ table.life = h.life
        /\ table' = [table EXCEPT !.history = @ \ Expired(h.history)]
        /\ End("maintain", "maintained")
        /\ UNCHANGED <<lives, landings, landed>>
    BY DEF ExpireSnapshots
  <1>2. "maintain" \in Processes /\ Opened("maintain") /\ h \in Tables /\ table \in Tables
    BY <1>1, ProcessNames DEF Opened, Typed
  <1>3. /\ table' \in Tables
        /\ table'.life = table.life /\ table'.head = table.head
        /\ table'.files = table.files
        /\ table'.history = table.history \ (h.history \ {h.head})
    BY <1>1, <1>2 DEF Tables, Expired
  <1>4. /\ pc' \in [Processes -> {"idle", "append", "compact", "scan", "rmtree"}]
        /\ DOMAIN handle' = Processes /\ DOMAIN left' = Processes
        /\ pc'["maintain"] = "idle"
        /\ \A q \in Processes : q # "maintain" =>
              pc'[q] = pc[q] /\ handle'[q] = handle[q] /\ left'[q] = left[q]
    BY <1>1, <1>2 DEF Typed, End, Goto
  <1>5. Typed'
    BY <1>1, <1>3, <1>4 DEF Typed, Opened
  <1>6. \A q \in Processes : Opened(q)' =>
           Opened(q) /\ handle'[q] = handle[q] /\ handle[q] \in Tables
    BY <1>4 DEF Opened, Typed
  <1>7. HandlesArePast'
    BY <1>1, <1>3, <1>6 DEF HandlesArePast
  <1>8. SnapshotsArePast'
    <2>1. table.head > 0 => table.head \notin h.history \ {h.head}
      <3>1. h.head <= table.head /\ h.head \in Nat /\ table.head \in Nat
        BY <1>1, <1>2 DEF HandlesArePast, Tables
      <3>2. \A s \in h.history : s <= h.head /\ s \in Nat
        BY <1>2 DEF SnapshotsArePast, Tables
      <3>3. QED
        BY <3>1, <3>2
    <2>2. /\ \A s \in table'.history : s <= table'.head
          /\ table'.head > 0 => table'.head \in table'.history
      BY <2>1, <1>1, <1>3 DEF SnapshotsArePast
    <2>3. QED
      BY <2>2, <1>6 DEF SnapshotsArePast
  <1>9. FilesByPartition' /\ RowsKept' /\ Numbered' /\ Whole(landed)'
    BY <1>1, <1>3 DEF FilesByPartition, RowsKept, Numbered, Whole
  <1>10. OpenedWhole'
    BY <1>4, ProcessNames DEF OpenedWhole, Whole
  <1>11. ReadIsWhole'
    BY <1>1 DEF ReadIsWhole, End
  <1>12. QED
    BY <1>5, <1>7, <1>8, <1>9, <1>10, <1>11

\* The reader returns what its handle holds.
LEMMA ScanIInv ==
    ASSUME IInv, Scan
    PROVE  IInv'
  <1> USE DEF IInv
  <1>1. /\ pc["reader"] = "scan" /\ "reader" \in Processes
        /\ UNCHANGED <<table, lives, landings, landed>>
        /\ report'.says = "rows" /\ report'.by = "reader"
        /\ report'.saw = Rows(handle["reader"].files)
        /\ report'.promised = left["reader"]
    BY ProcessNames DEF Scan
  <1>2. /\ pc' \in [Processes -> {"idle", "append", "compact", "scan", "rmtree"}]
        /\ DOMAIN handle' = Processes /\ DOMAIN left' = Processes
        /\ pc'["reader"] = "idle"
        /\ \A q \in Processes : q # "reader" =>
              pc'[q] = pc[q] /\ handle'[q] = handle[q] /\ left'[q] = left[q]
    BY <1>1 DEF Scan, Typed, Goto
  <1>3. Typed' /\ HandlesArePast' /\ SnapshotsArePast'
    BY <1>1, <1>2 DEF Typed, HandlesArePast, SnapshotsArePast, Opened
  <1>4. FilesByPartition' /\ RowsKept' /\ Numbered' /\ Whole(landed)'
    BY <1>1 DEF FilesByPartition, RowsKept, Numbered, Whole
  <1>5. OpenedWhole'
    BY <1>2, ProcessNames DEF OpenedWhole, Whole
  <1>6. ReadIsWhole'
    BY <1>1 DEF ReadIsWhole, OpenedWhole, Whole
  <1>7. QED
    BY <1>3, <1>4, <1>5, <1>6

\* The steps of lake-reset: the answer, the directory, the catalog.
LEMMA ResetIInv ==
    ASSUME IInv, ConfirmReset \/ RemoveFiles \/ RemoveCatalog \/ Removed
    PROVE  IInv'
  <1> USE DEF IInv
  <1>1. /\ pc' \in [Processes -> {"idle", "append", "compact", "scan", "rmtree"}]
        /\ DOMAIN handle' = Processes /\ DOMAIN left' = Processes
        /\ pc["reset"] \in {"idle", "rmtree"} /\ pc'["reset"] \in {"idle", "rmtree"}
        /\ \A q \in Processes : q # "reset" =>
              pc'[q] = pc[q] /\ handle'[q] = handle[q] /\ left'[q] = left[q]
    BY DEF ConfirmReset, RemoveFiles, RemoveCatalog, Removed, End, Goto, Typed
  <1>2. /\ UNCHANGED <<lives, landings>>
        /\ \/ UNCHANGED <<table, landed>>
           \/ table' = None /\ landed' = {}
    BY DEF ConfirmReset, RemoveFiles, RemoveCatalog, Removed
  <1>3. \A q \in Processes : Opened(q)' => Opened(q) /\ handle'[q] = handle[q]
    BY <1>1 DEF Opened
  <1>4. Typed' /\ HandlesArePast' /\ SnapshotsArePast'
    BY <1>1, <1>2, <1>3 DEF Typed, HandlesArePast, SnapshotsArePast
  <1>5. FilesByPartition' /\ RowsKept' /\ Numbered' /\ Whole(landed)'
    BY <1>2 DEF FilesByPartition, RowsKept, Numbered, Whole
  <1>6. OpenedWhole'
    BY <1>1, ProcessNames DEF OpenedWhole, Whole
  <1>7. ReadIsWhole'
    BY DEF ReadIsWhole, ConfirmReset, RemoveFiles, RemoveCatalog, Removed, End, NoReport
  <1>8. QED
    BY <1>4, <1>5, <1>6, <1>7

----------------------------------------------------------------------------
\* Every step of every process keeps the invariant.
LEMMA NextIInv ==
    ASSUME IInv, [Next]_vars
    PROVE  IInv'
  <1>1. ASSUME NEW layout \in Layouts, NEW w \in Writers, OpenToLand(w, layout)
        PROVE  IInv'
    <2>1. PICK l \in Landings : left' = [left EXCEPT ![w] = l]
      BY <1>1 DEF OpenToLand
    <2>2. QED
      BY <1>1, <2>1, OpensIInv, ProcessNames DEF OpenToLand
  <1>2. ASSUME NEW layout \in Layouts, OpenToMaintain(layout)
        PROVE  IInv'
    BY <1>2, OpensIInv, ProcessNames DEF OpenToMaintain
  <1>3. ASSUME NEW layout \in Layouts, OpenToRead(layout)
        PROVE  IInv'
    BY <1>3, OpensIInv, ProcessNames DEF OpenToRead
  <1>4. ASSUME NEW layout \in Layouts, NEW p \in Processes, RefuseLayout(p, layout)
        PROVE  IInv'
    BY <1>4, EndIInv DEF RefuseLayout
  <1>5. CASE \E w \in Writers : Append(w)
    BY <1>5, AppendIInv
  <1>6. CASE OverwriteDay \/ ExpireSnapshots \/ Scan
    BY <1>6, OverwriteDayIInv, ExpireSnapshotsIInv, ScanIInv
  <1>7. CASE AbortReset
    BY <1>7, EndIInv, ProcessNames DEF AbortReset
  <1>8. CASE ConfirmReset \/ RemoveFiles \/ RemoveCatalog \/ Removed
    BY <1>8, ResetIInv
  <1>9. ASSUME NEW p \in Processes, CommitFails(p) \/ Fail(p)
        PROVE  IInv'
    BY <1>9, EndIInv DEF CommitFails, Fail
  <1>10. CASE UNCHANGED vars
    BY <1>10 DEF vars, IInv, Typed, HandlesArePast, SnapshotsArePast, FilesByPartition,
         Numbered, Whole, OpenedWhole, RowsKept, ReadIsWhole, Opened
  <1>11. QED
    BY <1>1, <1>2, <1>3, <1>4, <1>5, <1>6, <1>7, <1>8, <1>9, <1>10 DEF Next

\* The invariant holds of every state of every behaviour.
LEMMA Invariant == Spec => []IInv
  <1>1. Init => IInv
    BY InitIInv
  <1>2. IInv /\ [Next]_vars => IInv'
    BY NextIInv
  <1>3. QED
    BY <1>1, <1>2, PTL DEF Spec

\* No append, compaction, reset or kill loses a landed row or doubles one.
THEOREM EveryRowKept == Spec => []RowsKept
  <1>1. IInv => RowsKept
    BY DEF IInv
  <1>2. QED
    BY <1>1, Invariant, PTL

\* A read that succeeds returns all that had landed when it opened the table,
\* and of every append all or nothing.
THEOREM EveryReadIsWhole == Spec => []ReadIsWhole
  <1>1. IInv => ReadIsWhole
    BY DEF IInv
  <1>2. QED
    BY <1>1, Invariant, PTL

\* A maintenance pass that nobody overtook leaves one file to a partition, and
\* the head as the only snapshot.
THEOREM MaintenanceDoesSettle == Spec => MaintenanceSettles
  <1> DEFINE Settled ==
               report'.says = "maintained" /\ pc["maintain"] # "idle" /\ AtHead("maintain") =>
                  /\ days_with_small_files(table'.files) = {}
                  /\ table'.head > 0 => table'.history = {table'.head}
  <1>1. ASSUME IInv, Next
        PROVE  Settled
    <2> USE <1>1 DEF IInv
    <2>1. CASE ExpireSnapshots
      <3> DEFINE h == handle["maintain"]
      <3> SUFFICES ASSUME AtHead("maintain")
                   PROVE  /\ days_with_small_files(table'.files) = {}
                          /\ table'.head > 0 => table'.history = {table'.head}
        OBVIOUS
      <3>1. /\ pc["maintain"] = "compact" /\ left["maintain"] = {} /\ table # None
            /\ table' = [table EXCEPT !.history = @ \ Expired(h.history)]
            /\ "maintain" \in Processes /\ Opened("maintain")
        BY <2>1, ProcessNames DEF ExpireSnapshots, Opened
      <3>2. /\ table \in Tables
            /\ table'.head = table.head /\ table'.files = table.files
            /\ table'.history = table.history \ (h.history \ {h.head})
        BY <3>1 DEF Typed, Tables, Expired
      <3>3. h.files = table.files /\ h.head = table.head /\ table.history \subseteq h.history
        BY <3>1 DEF AtHead, HandlesArePast
      <3>4. days_with_small_files(h.files) = {}
        BY <3>1 DEF OpenedWhole
      <3>5. table.head > 0 => table.head \in table.history
        BY <3>1 DEF SnapshotsArePast
      <3>6. QED
        BY <3>2, <3>3, <3>4, <3>5
    <2>2. CASE ~ExpireSnapshots
      <3>1. \A w \in Writers : Append(w) => report'.says # "maintained"
        BY DEF Append, End
      <3>2. \A layout \in Layouts, w \in Writers :
               OpenToLand(w, layout) => report'.says # "maintained"
        BY DEF OpenToLand, Opens, NoReport
      <3>3. \A layout \in Layouts :
               OpenToMaintain(layout) \/ OpenToRead(layout) => report'.says # "maintained"
        BY DEF OpenToMaintain, OpenToRead, Opens, NoReport
      <3>4. \A p \in Processes : \A layout \in Layouts :
               RefuseLayout(p, layout) => report'.says # "maintained"
        BY DEF RefuseLayout, End
      <3>5. AbortReset \/ ConfirmReset \/ RemoveFiles \/ RemoveCatalog \/ Removed
               => report'.says # "maintained"
        BY DEF AbortReset, ConfirmReset, RemoveFiles, RemoveCatalog, Removed, End, NoReport
      <3>6. OverwriteDay \/ Scan => report'.says # "maintained"
        BY DEF OverwriteDay, Scan, NoReport
      <3>7. \A p \in Processes : CommitFails(p) \/ Fail(p) => report'.says # "maintained"
        BY DEF CommitFails, Fail, End
      <3>8. QED
        BY <1>1, <2>2, <3>1, <3>2, <3>3, <3>4, <3>5, <3>6, <3>7 DEF Next
    <2>3. QED
      BY <2>1, <2>2
  <1>2. IInv /\ [Next]_vars => [Settled]_vars
    BY <1>1
  <1>3. Spec => [][Settled]_vars
    BY <1>2, Invariant, PTL DEF Spec
  <1>4. QED
    BY <1>3 DEF MaintenanceSettles
=============================================================================
