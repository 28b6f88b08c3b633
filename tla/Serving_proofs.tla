--------------------------- MODULE Serving_proofs ---------------------------
(***************************************************************************)
(* Proofs about Serving, for every topic, calendar and set of regimes.     *)
(*                                                                         *)
(* The argument.  A row of the lake is the hot row of its conversion or a  *)
(* correction of it, and a correction of a conversion is landed once: the  *)
(* next reconciliation finds it current (MadeBy, CorrectedOnce).  So a     *)
(* conversion has one credit for good, and every log one current row.      *)
(* A load goes through its days one by one, and each step leaves fewer     *)
(* days that may hold an unserved row (LoadUnderWay): those of the engine  *)
(* and of a replay are the days of the whole lake, whatever was served     *)
(* before.  The other jobs load only the days they touched, so what they   *)
(* promise needs that nothing else was unserved when they began            *)
(* (ServedBetween), or at least that every conversion was (EverServed).    *)
(***************************************************************************)
EXTENDS Serving, FiniteSetTheorems, WellFoundedInduction, TLAPS

LoadSteps == {"insertExposures", "dirtyExposures", "dirtyCredits", "insertAttributed",
              "dirtyAttributed", "refresh", "stamp"}

TableSteps == {"exposures_landed", "attributed_conversions", "eval_meta",
               "campaign_hourly", "rollup_dirty", "rollup_refreshed"}

StepsOf(j) ==
    CASE j = "idle"      -> {"none"}
      [] j = "engine"    -> {"landExposures", "landAttributed", "mark"} \cup LoadSteps
      [] j = "reconcile" -> {"recover", "snapshotPre", "snapshotPost", "mark"}
                               \cup LoadSteps
      [] j = "dagster"   -> {"recoverDay", "snapshotPre", "snapshotPost"} \cup LoadSteps
      [] j = "load"      -> {"begin"} \cup LoadSteps
      [] j = "replay"    -> {"mark"} \cup TableSteps \cup LoadSteps

AttributedRows == [conv : Conversions, credited : SUBSET Exposures,
                   path : {"hot", "reconciled"}, processed_at : Nat]

DataOK ==
    /\ regime \in Regimes
    /\ lakeExp \subseteq Exposures /\ chExp \subseteq lakeExp
    /\ lakeAtt \subseteq AttributedRows /\ chAtt \subseteq lakeAtt

ControlOK ==
    /\ job \in {"idle"} \cup (JobNames \ {"down"})
    /\ step \in StepsOf(job)
    /\ todo \subseteq Days /\ touched \subseteq Days

\* A row of the lake is the hot row of its conversion, or a correction of one
\* that the hot path left without credit.
MadeBy ==
    \A r \in lakeAtt :
       /\ HotRow(r.conv) \in lakeAtt
       /\ \/ r = HotRow(r.conv)
          \/ /\ r.path = "reconciled" /\ HotCredit[r.conv] = {}
             /\ r.credited = LongCredit[r.conv]

\* Of the corrections of a conversion one is not below its hot row.
CorrectedOnce ==
    \A q, r \in lakeAtt :
       (/\ q.path = "reconciled" /\ r.path = "reconciled" /\ q.conv = r.conv
        /\ q.processed_at >= ConvIngest[q.conv]
        /\ r.processed_at >= ConvIngest[r.conv])
          => q = r

\* Nothing is served that a hot row supersedes.
ServedAboveHot == \A r \in chAtt : r.processed_at >= ConvIngest[r.conv]

\* The exposure a conversion is credited to, whichever path finds it.
CreditOf(c) == IF HotCredit[c] # {} THEN HotCredit[c] ELSE LongCredit[c]

\* The rollup counts a conversion under the key of its one credit only.
CountedByCredit ==
    \A k \in Keys : \A c \in hourly[k].conversions :
       c \in Conversions /\ \E e \in CreditOf(c) : ExpKey[e] = k

----------------------------------------------------------------------------
(* What a load has still to do: outside the given days every exposure and   *)
(* every row of the lake is served.                                         *)

Unserved(expDays, attDays) ==
    /\ \A e \in lakeExp : e \in chExp \/ ExpDay[e] \in expDays
    /\ \A r \in lakeAtt :
          \/ ConvDay[r.conv] \in attDays
          \/ \E s \in chAtt : s.conv = r.conv /\ s.processed_at >= r.processed_at

\* Jobs that must leave the whole lake served.
Promised == job \in {"engine", "replay"} \/ Undisturbed

LoadUnderWay ==
    Promised =>
       /\ step = "insertExposures" => Unserved(todo, todo)
       /\ step \in {"dirtyExposures", "dirtyCredits", "insertAttributed"}
             => Unserved(todo \ {day}, todo)
       /\ step = "dirtyAttributed" => Unserved(todo \ {day}, todo \ {day})
       /\ step \in {"refresh", "stamp", "snapshotPre", "snapshotPost", "mark"}
             => Unserved({}, {})

ServedBetween ==
    Undisturbed =>
       /\ step \in {"none", "recover", "begin"} => Unserved({}, {})
       /\ step = "recoverDay" => Unserved({}, touched)

\* A replay has all days of the lake before it, and the engine all exposures.
WholeLakeAhead ==
    /\ step \in TableSteps => lake_days \subseteq todo
    /\ step = "landAttributed" => lakeExp = Exposures
    /\ job = "idle" /\ last \in {"engine", "replay"} => Unserved({}, {})

ConversionsServed ==
    /\ lakeExp \subseteq chExp
    /\ \A r \in lakeAtt : \E s \in chAtt : s.conv = r.conv

\* Unless a load of the whole lake is under way, every conversion is served.
EverServed ==
    OnlyReconcileDisturbed /\ job \notin {"engine", "replay"} => ConversionsServed

CorrectionsAbove ==
    OnlyReconcileDisturbed =>
       \A r \in lakeAtt : r.path = "reconciled" => ConvIngest[r.conv] < r.processed_at

TablesInv == DataOK /\ MadeBy /\ CorrectedOnce /\ ServedAboveHot /\ CountedByCredit

JobsInv == ControlOK /\ LoadUnderWay /\ ServedBetween /\ WholeLakeAhead /\ EverServed

\* The inductive invariant.
IInv == TablesInv /\ JobsInv /\ CorrectionsAbove

----------------------------------------------------------------------------
(* Greatest and least members.                                              *)

\* A non-empty set of numbers has a least one.
LEMMA FirstOf ==
    ASSUME NEW S \in SUBSET Nat, S # {}
    PROVE  First(S) \in S
  <1> DEFINE Below == {pair \in Nat \X Nat : pair[1] < pair[2]}
  <1>1. IsWellFoundedOn(Below, Nat)
    BY NatLessThanWellFounded, Zenon DEF OpToRel
  <1>2. PICK d \in S : \A e \in S : ~(<<e, d>> \in Below)
    <2> HIDE DEF Below
    <2> QED
      BY <1>1, WFMin
  <1>3. ASSUME NEW e \in S  PROVE d <= e
    <2>1. d \in Nat /\ e \in Nat
      OBVIOUS
    <2>2. e < d => <<e, d>> \in Below
      BY <2>1
    <2>3. ~(e < d)
      BY <1>2, <2>2
    <2> QED
      BY <2>1, <2>3
  <1> QED
    BY <1>3 DEF First

\* A finite one has a greatest: its least cofinal subset has one member.
LEMMA HasGreatest ==
    ASSUME NEW S \in SUBSET Nat, IsFiniteSet(S), S # {}
    PROVE  \E m \in S : \A n \in S : n <= m
  <1> DEFINE Cofinal == {T \in SUBSET S : \A n \in S : \E m \in T : n <= m}
  <1>1. S \in Cofinal
    OBVIOUS
  <1>2. Cofinal \subseteq FiniteSubsetsOf(S)
    BY FS_FiniteSubsetsOfFinite
  <1>3. PICK T \in Cofinal : \A U \in Cofinal : ~(<<U, T>> \in StrictSubsetOrdering(S))
    <2> HIDE DEF Cofinal
    <2> QED
      BY <1>1, <1>2, FS_StrictSubsetOrderingWellFounded, WFMin
  <1>4. T \subseteq S /\ \A n \in S : \E m \in T : n <= m
    OBVIOUS
  <1>5. PICK m \in T : TRUE
    BY <1>4
  <1>6. ASSUME NEW a \in T, NEW b \in T, a < b  PROVE FALSE
    <2>1. T \ {a} \in Cofinal
      <3>1. ASSUME NEW n \in S  PROVE \E k \in T \ {a} : n <= k
        <4>1. PICK k \in T : n <= k
          BY <1>4
        <4>2. CASE k # a
          BY <4>1, <4>2
        <4>3. CASE k = a
          <5>1. n <= b /\ b \in T \ {a}
            BY <1>4, <1>6, <4>1, <4>3
          <5> QED
            BY <5>1
        <4> QED
          BY <4>2, <4>3
      <3> QED
        BY <1>4, <3>1
    <2> HIDE DEF Cofinal
    <2>2. <<T \ {a}, T>> \in StrictSubsetOrdering(S)
      BY <1>4, <1>6 DEF StrictSubsetOrdering
    <2> QED
      BY <1>3, <2>1, <2>2
  <1>7. \A n \in S : n <= m
    <2> SUFFICES ASSUME NEW n \in S  PROVE n <= m
      OBVIOUS
    <2>1. PICK k \in T : n <= k
      BY <1>4
    <2>2. ~(m < k)
      BY <1>6
    <2> QED
      BY <1>4, <2>1, <2>2
  <1> QED
    BY <1>4, <1>7

LEMMA GreatestOf ==
    ASSUME NEW S \in SUBSET Nat, IsFiniteSet(S)
    PROVE  /\ Greatest(S) \in Nat /\ \A n \in S : n <= Greatest(S)
           /\ S # {} => Greatest(S) \in S
  <1>1. CASE S = {}
    BY <1>1 DEF Greatest
  <1>2. CASE S # {}
    <2>1. \E m \in S : \A n \in S : n <= m
      BY <1>2, HasGreatest
    <2> QED
      BY <1>2, <2>1 DEF Greatest
  <1> QED
    BY <1>1, <1>2

\* The ingest times of a set of rows are a finite set of numbers.
LEMMA IngestTimes ==
    ASSUME DataOK
    PROVE  /\ \A E \in SUBSET chExp :
                 LET T == {ExpIngest[e] : e \in E} IN T \in SUBSET Nat /\ IsFiniteSet(T)
           /\ LET T == {ConvIngest[r.conv] : r \in chAtt}
              IN T \in SUBSET Nat /\ IsFiniteSet(T)
  <1> USE TopicAssumption
  <1>1. ASSUME NEW E \in SUBSET chExp
        PROVE  LET T == {ExpIngest[e] : e \in E} IN T \in SUBSET Nat /\ IsFiniteSet(T)
    <2> DEFINE T == {ExpIngest[e] : e \in E}
               f == [e \in E |-> ExpIngest[e]]
    <2>1. E \subseteq Exposures /\ IsFiniteSet(E)
      BY FS_Subset DEF DataOK
    <2>2. T \in SUBSET Nat
      BY <2>1
    <2>3. f \in Surjection(E, T)
      BY DEF Surjection
    <2>4. IsFiniteSet(T)
      BY <2>1, <2>3, FS_Surjection
    <2> QED
      BY <2>2, <2>4
  <1>2. LET T == {ConvIngest[r.conv] : r \in chAtt} IN T \in SUBSET Nat /\ IsFiniteSet(T)
    <2> DEFINE T == {ConvIngest[r.conv] : r \in chAtt}
               U == {ConvIngest[c] : c \in Conversions}
               f == [c \in Conversions |-> ConvIngest[c]]
    <2>1. T \subseteq U /\ U \in SUBSET Nat
      BY DEF DataOK, AttributedRows
    <2>2. f \in Surjection(Conversions, U)
      BY DEF Surjection
    <2>3. IsFiniteSet(U)
      BY <2>2, FS_Surjection
    <2>4. IsFiniteSet(T)
      BY <2>1, <2>3, FS_Subset
    <2> QED
      BY <2>1, <2>4
  <1> QED
    BY <1>1, <1>2

\* A correction lies strictly above the ingest time of everything served.
LEMMA AboveAllServed ==
    ASSUME DataOK
    PROVE  /\ reconciled_at \in Nat
           /\ \A r \in chAtt : ConvIngest[r.conv] < reconciled_at
  <1> DEFINE T == {ExpIngest[e] : e \in chExp}
             U == {ConvIngest[r.conv] : r \in chAtt}
  <1>1. T \in SUBSET Nat /\ IsFiniteSet(T)
    BY IngestTimes
  <1>2. U \in SUBSET Nat /\ IsFiniteSet(U)
    BY IngestTimes
  <1>3. (T \cup U) \in SUBSET Nat /\ IsFiniteSet(T \cup U)
    BY <1>1, <1>2, FS_Union
  <1>4. max_ingest = Greatest(T \cup U)
    BY DEF max_ingest
  <1>5. \A r \in chAtt : ConvIngest[r.conv] \in U
    OBVIOUS
  <1> HIDE DEF T, U
  <1>6. max_ingest \in Nat /\ \A n \in T \cup U : n <= max_ingest
    BY <1>3, <1>4, GreatestOf
  <1> QED
    <2>1. Delta \in Nat \ {0}
      BY TopicAssumption
    <2>2. \A r \in chAtt : ConvIngest[r.conv] \in Nat /\ ConvIngest[r.conv] <= max_ingest
      BY <1>2, <1>5, <1>6
    <2> QED
      BY <1>6, <2>1, <2>2 DEF reconciled_at

----------------------------------------------------------------------------
(* What a step may do to the tables.                                        *)

Lands ==
    \/ lakeExp' = lakeExp /\ lakeAtt' = lakeAtt
    \/ /\ chExp' = chExp /\ chAtt' = chAtt /\ hourly' = hourly
       /\ \/ lakeExp' = Exposures /\ lakeAtt' = lakeAtt
          \/ /\ lakeExp' = lakeExp
             /\ lakeAtt' = lakeAtt \cup {HotRow(c) : c \in Conversions}
          \/ /\ lakeExp' = lakeExp /\ job \in {"reconcile", "dagster"}
             /\ \E days \in SUBSET Days : lakeAtt' = lakeAtt \cup recover(days)

Serves ==
    /\ \/ chExp' = chExp \/ chExp' = {}
       \/ \E rows \in SUBSET lakeExp : chExp' = chExp \cup rows
    /\ \/ chAtt' = chAtt \/ chAtt' = {}
       \/ \E rows \in SUBSET Current(lakeAtt) : chAtt' = Replace(chAtt, rows)
    /\ \/ hourly' = hourly \/ hourly' = [k \in Keys |-> NoRollupRow]
       \/ \E keys \in SUBSET Keys :
             hourly' = [k \in Keys |-> IF k \in keys THEN Recomputed(k) ELSE hourly[k]]

LEMMA CalendarDays ==
    ASSUME DataOK
    PROVE  KnownDays \subseteq Days
  BY JobAssumption DEF DataOK, KnownDays, Regime

\* Each step appends to the lake, or writes the serving tables from it.
LEMMA TablesWritten ==
    ASSUME DataOK, [Next]_vars
    PROVE  regime' = regime /\ Lands /\ Serves
  <1> USE DEF Lands, Serves
  <1>1. CASE \/ StartEngine \/ StartReconcile \/ StartDagster \/ StartDagsterPartition
             \/ StartLoad \/ StartReplay \/ UnknownPartition \/ EveryDayReconciled
             \/ LoadDays \/ NothingDirty \/ Crash
    BY <1>1 DEF StartEngine, StartReconcile, StartDagster, StartDagsterPartition,
       StartLoad, StartReplay, UnknownPartition, EveryDayReconciled, LoadDays,
       NothingDirty, Crash, Start, lake, serving
  <1>2. CASE LandExposures
    BY <1>2 DEF LandExposures, serving
  <1>3. CASE LandAttributed
    BY <1>3 DEF LandAttributed, serving
  <1>4. CASE Reconcile
    BY <1>4 DEF Reconcile, Running, serving
  <1>5. CASE ReconcileDay
    BY <1>5, CalendarDays DEF ReconcileDay, Running, serving
  <1>6. CASE \E i \in DOMAIN SERVING_TABLES : Truncate(i)
    BY <1>6 DEF Truncate, lake
  <1>7. CASE Down
    BY <1>7 DEF Down, lake
  <1>8. CASE InsertExposures \/ CrashInExposures
    BY <1>8 DEF InsertExposures, CrashInExposures, LakeExposures, lake, rollup
  <1>9. CASE InsertAttributed \/ CrashInAttributed
    <2>1. read_current \subseteq Current(lakeAtt)
      BY DEF read_current
    <2> QED
      BY <1>9, <2>1 DEF InsertAttributed, CrashInAttributed, lake, rollup
  <1>10. CASE DirtyFromExposures \/ DirtyFromExposureCredits \/ DirtyFromAttributed
             \/ StampRefreshed
    BY <1>10 DEF DirtyFromExposures, DirtyFromExposureCredits, DirtyFromAttributed,
       StampRefreshed, lake
  <1>11. CASE Refresh
    <2> DEFINE keys == {k \in Keys : \E v \in dirty_keys : v[1] = k}
    <2>1. hourly' = [k \in Keys |-> IF k \in keys THEN Recomputed(k) ELSE hourly[k]]
      BY <1>11 DEF Refresh
    <2> QED
      BY <1>11, <2>1 DEF Refresh, lake
  <1>12. CASE SnapshotPre \/ SnapshotPost \/ WriteMarker
    BY <1>12 DEF SnapshotPre, SnapshotPost, WriteMarker, lake, rollup
  <1>13. CASE UNCHANGED vars
    BY <1>13 DEF vars
  <1> QED
    BY <1>1, <1>2, <1>3, <1>4, <1>5, <1>6, <1>7, <1>8, <1>9, <1>10, <1>11, <1>12, <1>13
    DEF Next

----------------------------------------------------------------------------
(* Rows.                                                                    *)

LEMMA HotRows ==
    ASSUME NEW c \in Conversions
    PROVE  /\ HotRow(c) \in AttributedRows /\ HotRow(c).conv = c
           /\ HotRow(c).path = "hot" /\ HotRow(c).processed_at = ConvIngest[c]
           /\ HotRow(c).credited = HotCredit[c] /\ ConvIngest[c] \in Nat
  BY TopicAssumption DEF HotRow, AttributedRows

\* What reconciliation lands for a conversion is made of its hot row, which is
\* current and without credit.
LEMMA Recovered ==
    ASSUME DataOK, MadeBy, NEW days \in SUBSET Days, NEW r \in recover(days)
    PROVE  /\ r \in AttributedRows /\ r.path = "reconciled"
           /\ r.processed_at = reconciled_at /\ r.credited = LongCredit[r.conv]
           /\ HotRow(r.conv) \in Current(lakeAtt) /\ HotCredit[r.conv] = {}
           /\ ConvDay[r.conv] \in days
  <1>1. PICK q \in lake_candidates(days) :
           r = [conv |-> q.conv, credited |-> LongCredit[q.conv], path |-> "reconciled",
                processed_at |-> reconciled_at]
    BY DEF recover
  <1>2. /\ q \in Current(lakeAtt) /\ q.credited = {} /\ q.path = "hot"
        /\ ConvDay[q.conv] \in days
    BY DEF lake_candidates
  <1>3. q \in lakeAtt /\ q \in AttributedRows /\ q.conv \in Conversions
    BY <1>2 DEF Current, DataOK, AttributedRows
  <1>4. q = HotRow(q.conv)
    BY <1>2, <1>3 DEF MadeBy
  <1>5. HotCredit[q.conv] = {}
    BY <1>2, <1>3, <1>4, HotRows
  <1>6. LongCredit[q.conv] \in SUBSET Exposures /\ reconciled_at \in Nat
    BY <1>3, AboveAllServed, TopicAssumption
  <1> QED
    BY <1>1, <1>2, <1>3, <1>4, <1>5, <1>6 DEF AttributedRows

\* A conversion of the lake has a current row, at least as high as any.
LEMMA HasCurrent ==
    ASSUME DataOK, MadeBy, CorrectedOnce, NEW r \in lakeAtt
    PROVE  \E q \in Current(lakeAtt) :
              q.conv = r.conv /\ q.processed_at >= r.processed_at
  <1> DEFINE c == r.conv
             h == HotRow(c)
             IsHigh(p) == p.conv = c /\ p.path = "reconciled"
                          /\ p.processed_at >= ConvIngest[c]
  <1>1. /\ c \in Conversions
        /\ \A q \in lakeAtt : q \in AttributedRows /\ q.processed_at \in Nat
    BY DEF DataOK, AttributedRows
  <1>2. /\ h \in lakeAtt /\ h.conv = c /\ h.path = "hot"
        /\ h.processed_at = ConvIngest[c] /\ ConvIngest[c] \in Nat
    BY <1>1, HotRows DEF MadeBy
  <1>3. \A q \in lakeAtt : q.conv = c => q = h \/ q.path = "reconciled"
    BY DEF MadeBy
  <1> HIDE DEF c, h
  <1>4. SUFFICES \E q \in Current(lakeAtt) : q.conv = c
    BY <1>1 DEF c, Current, Supersedes
  <1>5. CASE \E p \in lakeAtt : IsHigh(p)
    <2>1. PICK p \in lakeAtt : IsHigh(p)
      BY <1>5
    <2>2. ASSUME NEW q \in lakeAtt, q.conv = p.conv  PROVE Supersedes(p, q)
      <3>1. CASE q = h
        BY <1>1, <1>2, <2>1, <3>1 DEF Supersedes
      <3>2. CASE q.path = "reconciled" /\ q.processed_at >= ConvIngest[c]
        <4>1. q = p
          BY <2>1, <2>2, <3>2 DEF CorrectedOnce
        <4> QED
          BY <2>1, <4>1 DEF Supersedes
      <3>3. CASE ~(q.processed_at >= ConvIngest[c])
        BY <1>1, <1>2, <2>1, <3>3 DEF Supersedes
      <3> QED
        BY <1>3, <2>1, <2>2, <3>1, <3>2, <3>3
    <2> QED
      BY <2>1, <2>2 DEF Current
  <1>6. CASE ~\E p \in lakeAtt : IsHigh(p)
    <2>1. ASSUME NEW q \in lakeAtt, q.conv = h.conv  PROVE Supersedes(h, q)
      <3>1. q = h \/ ~(q.processed_at >= ConvIngest[c])
        BY <1>2, <1>3, <1>6, <2>1
      <3> QED
        BY <1>1, <1>2, <3>1 DEF Supersedes
    <2> QED
      BY <1>2, <2>1 DEF Current
  <1> QED
    BY <1>5, <1>6

\* A replacing insert keeps, for each row of the table and each row inserted, a
\* row of its conversion at least as high.
LEMMA NothingLowered ==
    ASSUME NEW table, NEW rows,
           \A r \in table \cup rows : r.processed_at \in Nat
    PROVE  \A r \in table \cup rows : \E s \in Replace(table, rows) :
              s.conv = r.conv /\ s.processed_at >= r.processed_at
  <1> DEFINE Lost(r) == \E q \in table : q.conv = r.conv
                                         /\ q.processed_at > r.processed_at
             won == {r \in rows : ~Lost(r)}
  <1>1. Replace(table, rows) = {q \in table : \A r \in won : r.conv # q.conv} \cup won
    BY DEF Replace
  <1>2. ASSUME NEW r \in table
        PROVE  \E s \in Replace(table, rows) :
                  s.conv = r.conv /\ s.processed_at >= r.processed_at
    <2>1. CASE \E w \in won : w.conv = r.conv
      <3>1. PICK w \in won : w.conv = r.conv
        BY <2>1
      <3>2. w \in rows /\ ~(r.processed_at > w.processed_at)
        BY <3>1
      <3> QED
        BY <1>1, <3>1, <3>2
    <2>2. CASE ~\E w \in won : w.conv = r.conv
      BY <1>1, <2>2
    <2> QED
      BY <2>1, <2>2
  <1>3. ASSUME NEW r \in rows
        PROVE  \E s \in Replace(table, rows) :
                  s.conv = r.conv /\ s.processed_at >= r.processed_at
    <2>1. CASE ~Lost(r)
      BY <1>1, <2>1
    <2>2. CASE Lost(r)
      <3>1. PICK q \in table : q.conv = r.conv /\ q.processed_at > r.processed_at
        BY <2>2
      <3>2. PICK s \in Replace(table, rows) :
               s.conv = q.conv /\ s.processed_at >= q.processed_at
        BY <1>2
      <3>3. s \in table \cup rows
        BY <1>1
      <3> QED
        BY <3>1, <3>2, <3>3
    <2> QED
      BY <2>1, <2>2
  <1> QED
    BY <1>2, <1>3

----------------------------------------------------------------------------
(* The invariants of the tables.                                            *)

LEMMA ReplacedFrom ==
    ASSUME NEW table, NEW rows  PROVE Replace(table, rows) \subseteq table \cup rows
  BY DEF Replace

LEMMA DataNext ==
    ASSUME TablesInv, [Next]_vars  PROVE DataOK'
  <1> USE DEF TablesInv
  <1>1. regime' = regime /\ Lands /\ Serves
    BY TablesWritten
  <1>2. lakeExp \subseteq lakeExp' /\ lakeExp' \subseteq Exposures
    BY <1>1 DEF Lands, DataOK
  <1>3. lakeAtt \subseteq lakeAtt' /\ lakeAtt' \subseteq AttributedRows
    <2>1. \A c \in Conversions : HotRow(c) \in AttributedRows
      BY HotRows
    <2>2. \A days \in SUBSET Days : recover(days) \subseteq AttributedRows
      BY Recovered
    <2> QED
      BY <1>1, <2>1, <2>2 DEF Lands, DataOK
  <1>4. chExp' \subseteq lakeExp'
    BY <1>1, <1>2 DEF Lands, Serves, DataOK
  <1>5. chAtt' \subseteq lakeAtt'
    <2>1. \A rows \in SUBSET Current(lakeAtt) : Replace(chAtt, rows) \subseteq lakeAtt
      <3>1. chAtt \subseteq lakeAtt /\ Current(lakeAtt) \subseteq lakeAtt
        BY DEF DataOK, Current
      <3> QED
        BY <3>1, ReplacedFrom
    <2>2. chAtt' \subseteq lakeAtt
      BY <1>1, <2>1 DEF Serves, DataOK
    <2> QED
      BY <1>3, <2>2
  <1> QED
    BY <1>1, <1>2, <1>3, <1>4, <1>5 DEF DataOK

LEMMA LakeNext ==
    ASSUME TablesInv, [Next]_vars  PROVE MadeBy' /\ CorrectedOnce'
  <1> USE DEF TablesInv
  <1>1. regime' = regime /\ Lands
    BY TablesWritten
  <1>2. CASE lakeAtt' = lakeAtt
    BY <1>2 DEF MadeBy, CorrectedOnce
  <1>3. CASE lakeAtt' = lakeAtt \cup {HotRow(c) : c \in Conversions}
    <2>1. ASSUME NEW r \in lakeAtt'
          PROVE  r \in lakeAtt \/ (r.path = "hot" /\ r = HotRow(r.conv))
      <3>1. CASE r \notin lakeAtt
        <4>1. PICK c \in Conversions : r = HotRow(c)
          BY <1>3, <3>1
        <4>2. r.conv = c /\ r.path = "hot"
          BY <4>1, HotRows
        <4> QED
          BY <4>1, <4>2
      <3> QED
        BY <3>1, Zenon
    <2>2. lakeAtt \subseteq lakeAtt'
      BY <1>3
    <2>3. MadeBy'
      BY <2>1, <2>2 DEF MadeBy
    <2>4. CorrectedOnce'
      BY <2>1 DEF CorrectedOnce
    <2> QED
      BY <2>3, <2>4
  <1>4. CASE \E days \in SUBSET Days : lakeAtt' = lakeAtt \cup recover(days)
    <2>1. PICK days \in SUBSET Days : lakeAtt' = lakeAtt \cup recover(days)
      BY <1>4
    <2>2. ASSUME NEW r \in recover(days)
          PROVE  /\ r \in AttributedRows /\ r.path = "reconciled"
                 /\ r.processed_at = reconciled_at /\ r.credited = LongCredit[r.conv]
                 /\ HotRow(r.conv) \in Current(lakeAtt) /\ HotCredit[r.conv] = {}
      BY Recovered
    <2>3. MadeBy'
      BY <2>1, <2>2 DEF MadeBy, Current
    <2>4. ASSUME NEW q \in lakeAtt, NEW r \in recover(days),
                 q.conv = r.conv, q.path = "reconciled"
          PROVE  ~(q.processed_at >= ConvIngest[q.conv])
      <3>1. Supersedes(HotRow(r.conv), q)
        <4>1. HotRow(r.conv).conv = q.conv
          BY <2>4 DEF HotRow
        <4> QED
          BY <2>2, <4>1 DEF Current
      <3>2. q.conv \in Conversions /\ q.processed_at \in Nat
        BY DEF DataOK, AttributedRows
      <3>3. HotRow(q.conv).path = "hot" /\ HotRow(q.conv).processed_at = ConvIngest[q.conv]
            /\ ConvIngest[q.conv] \in Nat
        BY <3>2, HotRows
      <3> QED
        BY <2>4, <3>1, <3>2, <3>3 DEF Supersedes
    <2>5. ASSUME NEW q \in recover(days), NEW r \in recover(days), q.conv = r.conv
          PROVE  q = r
      BY <2>2, <2>5 DEF AttributedRows
    <2>6. ASSUME NEW q \in lakeAtt', NEW r \in lakeAtt',
                 q.path = "reconciled", r.path = "reconciled", q.conv = r.conv,
                 q.processed_at >= ConvIngest[q.conv],
                 r.processed_at >= ConvIngest[r.conv]
          PROVE  q = r
      <3>1. CASE q \in lakeAtt /\ r \in lakeAtt
        BY <2>6, <3>1 DEF CorrectedOnce
      <3>2. CASE q \in recover(days)
        BY <2>1, <2>4, <2>5, <2>6, <3>2
      <3>3. CASE r \in recover(days)
        BY <2>1, <2>4, <2>5, <2>6, <3>3
      <3> QED
        BY <2>1, <3>1, <3>2, <3>3
    <2>7. CorrectedOnce'
      BY <2>6 DEF CorrectedOnce
    <2> QED
      BY <2>3, <2>7
  <1> QED
    BY <1>1, <1>2, <1>3, <1>4 DEF Lands

\* What is current is at least as high as the hot row of its conversion.
LEMMA CurrentAboveHot ==
    ASSUME DataOK, MadeBy, NEW q \in Current(lakeAtt)
    PROVE  q.processed_at >= ConvIngest[q.conv]
  <1>1. q \in lakeAtt /\ q \in AttributedRows /\ q.conv \in Conversions
    BY DEF Current, DataOK, AttributedRows
  <1>2. HotRow(q.conv) \in lakeAtt /\ HotRow(q.conv).conv = q.conv
    BY <1>1, HotRows DEF MadeBy
  <1>3. Supersedes(q, HotRow(q.conv))
    BY <1>2 DEF Current
  <1> QED
    BY <1>1, <1>3, HotRows DEF Supersedes, AttributedRows

LEMMA ServedNext ==
    ASSUME TablesInv, [Next]_vars  PROVE ServedAboveHot'
  <1> USE DEF TablesInv
  <1>1. Serves
    BY TablesWritten
  <1>2. CASE chAtt' = chAtt \/ chAtt' = {}
    BY <1>2 DEF ServedAboveHot
  <1>3. CASE \E rows \in SUBSET Current(lakeAtt) : chAtt' = Replace(chAtt, rows)
    <2>1. chAtt' \subseteq chAtt \cup Current(lakeAtt)
      BY <1>3, ReplacedFrom
    <2> QED
      BY <2>1, CurrentAboveHot DEF ServedAboveHot
  <1> QED
    BY <1>1, <1>2, <1>3 DEF Serves

\* A row of the lake with a credit has the credit of its conversion.
LEMMA OneCredit ==
    ASSUME DataOK, MadeBy, NEW r \in lakeAtt, r.credited # {}
    PROVE  r.conv \in Conversions /\ r.credited = CreditOf(r.conv)
  <1>1. r.conv \in Conversions
    BY DEF DataOK, AttributedRows
  <1> QED
    BY <1>1, HotRows DEF MadeBy, CreditOf

LEMMA RollupNext ==
    ASSUME TablesInv, [Next]_vars  PROVE CountedByCredit'
  <1> USE DEF TablesInv
  <1>1. Serves
    BY TablesWritten
  <1>2. CASE hourly' = hourly
    BY <1>2 DEF CountedByCredit
  <1>3. CASE hourly' = [k \in Keys |-> NoRollupRow]
    BY <1>3 DEF CountedByCredit, NoRollupRow
  <1>4. CASE \E keys \in SUBSET Keys :
               hourly' = [k \in Keys |-> IF k \in keys THEN Recomputed(k) ELSE hourly[k]]
    <2>1. ASSUME NEW k \in Keys, NEW c \in Rebuilt(k).conversions
          PROVE  c \in Conversions /\ \E e \in CreditOf(c) : ExpKey[e] = k
      <3>1. PICK r \in CreditedTo(k) : c = r.conv
        BY DEF Rebuilt
      <3>2. r \in chAtt /\ r \in lakeAtt /\ r.credited \cap ExposuresOf(k) # {}
        BY DEF CreditedTo, DataOK
      <3>3. PICK e \in r.credited : e \in ExposuresOf(k)
        BY <3>2
      <3>4. ExpKey[e] = k
        BY <3>3 DEF ExposuresOf
      <3>5. c \in Conversions /\ r.credited = CreditOf(c)
        BY <3>1, <3>2, <3>3, OneCredit
      <3> QED
        BY <3>3, <3>4, <3>5
    <2>2. ASSUME NEW k \in Keys, NEW c \in Recomputed(k).conversions
          PROVE  c \in Conversions /\ \E e \in CreditOf(c) : ExpKey[e] = k
      BY <2>1 DEF Recomputed, CountedByCredit
    <2>3. ASSUME NEW k \in Keys, NEW c \in hourly'[k].conversions
          PROVE  c \in Recomputed(k).conversions \/ c \in hourly[k].conversions
      BY <1>4
    <2> QED
      BY <2>2, <2>3 DEF CountedByCredit
  <1> QED
    BY <1>1, <1>2, <1>3, <1>4 DEF Serves

LEMMA TablesInit ==
    ASSUME Init  PROVE TablesInv
  <1>1. DataOK
    BY DEF Init, DataOK
  <1>2. MadeBy /\ CorrectedOnce /\ ServedAboveHot
    BY DEF Init, MadeBy, CorrectedOnce, ServedAboveHot
  <1>3. CountedByCredit
    BY DEF Init, CountedByCredit, NoRollupRow
  <1> QED
    BY <1>1, <1>2, <1>3 DEF TablesInv

LEMMA TablesKept == Spec => []TablesInv
  <1>1. Init => TablesInv
    BY TablesInit
  <1>2. TablesInv /\ [Next]_vars => TablesInv'
    BY DataNext, LakeNext, ServedNext, RollupNext DEF TablesInv
  <1> QED
    BY <1>1, <1>2, PTL DEF Spec

\* No conversion is ever counted under two rollup keys, whatever jobs run, are
\* killed or are refused, and whatever part of a load they got through: the key
\* it is counted under is that of the one credit either path can give it.
THEOREM CountedOnce == Spec => []NoDoubleCount
  <1>1. ASSUME TablesInv  PROVE NoDoubleCount
    <2>1. ASSUME NEW j \in Keys, NEW k \in Keys, j # k,
                 NEW c \in hourly[j].conversions, c \in hourly[k].conversions
          PROVE  FALSE
      <3>1. c \in Conversions
        BY <1>1, <2>1 DEF TablesInv, CountedByCredit
      <3>2. PICK d \in CreditOf(c) : ExpKey[d] = j
        BY <1>1, <2>1 DEF TablesInv, CountedByCredit
      <3>3. PICK e \in CreditOf(c) : ExpKey[e] = k
        BY <1>1, <2>1 DEF TablesInv, CountedByCredit
      <3>4. d = e
        BY <3>1, <3>2, <3>3, TopicAssumption DEF CreditOf
      <3> QED
        BY <2>1, <3>2, <3>3, <3>4
    <2> QED
      BY <2>1 DEF NoDoubleCount
  <1> QED
    BY <1>1, TablesKept, PTL

\* A served credit is never replaced by another: a row that could replace it is
\* the current one of its conversion, and that is the credited row itself.
LEMMA CreditKept ==
    ASSUME TablesInv, [Next]_vars, NEW r \in chAtt, r.credited # {}, chAtt' # {}
    PROVE  r \in chAtt'
  <1> USE DEF TablesInv
  <1>1. Serves
    BY TablesWritten
  <1>2. CASE chAtt' = chAtt
    BY <1>2
  <1>3. ASSUME NEW rows \in SUBSET Current(lakeAtt), chAtt' = Replace(chAtt, rows)
        PROVE  r \in chAtt'
    <2>1. r \in lakeAtt /\ r \in AttributedRows /\ r.conv \in Conversions
      BY DEF DataOK, AttributedRows
    <2>2. ASSUME NEW q \in rows, q.conv = r.conv  PROVE q = r
      <3>1. /\ q \in Current(lakeAtt) /\ q \in lakeAtt /\ q \in AttributedRows
            /\ Supersedes(q, r)
        BY <2>1, <2>2 DEF Current, DataOK
      <3>2. q.processed_at >= ConvIngest[q.conv] /\ r.processed_at >= ConvIngest[r.conv]
        BY <3>1, CurrentAboveHot DEF ServedAboveHot
      <3>3. CASE r = HotRow(r.conv)
        <4>1. HotCredit[r.conv] # {}
          BY <2>1, <3>3, HotRows
        <4> QED
          BY <2>2, <3>1, <3>3, <4>1 DEF MadeBy
      <3>4. CASE r.path = "reconciled" /\ q.path = "reconciled"
        BY <2>1, <2>2, <3>1, <3>2, <3>4 DEF CorrectedOnce
      <3>5. CASE r.path = "reconciled" /\ q = HotRow(q.conv)
        <4>1. /\ q.path = "hot" /\ q.processed_at = ConvIngest[r.conv]
              /\ ConvIngest[r.conv] \in Nat /\ r.processed_at \in Nat
          BY <2>1, <2>2, <3>5, HotRows DEF AttributedRows
        <4> QED
          BY <3>1, <3>2, <3>5, <4>1 DEF Supersedes
      <3> QED
        BY <2>1, <3>1, <3>3, <3>4, <3>5 DEF MadeBy
    <2> QED
      BY <1>3, <2>2 DEF Replace
  <1> QED
    BY <1>1, <1>2, <1>3 DEF Serves

\* Until its table is truncated, no step replaces the row of an attributed
\* conversion.
THEOREM CreditsAreFinal == Spec => CreditIsFinal
  <1>1. ASSUME TablesInv, [Next]_vars
        PROVE  \A r \in chAtt : r.credited # {} /\ chAtt' # {} => r \in chAtt'
    BY <1>1, CreditKept
  <1>2. TablesInv /\ [Next]_vars =>
           [\A r \in chAtt : r.credited # {} /\ chAtt' # {} => r \in chAtt']_vars
    BY <1>1
  <1> QED
    BY <1>2, TablesKept, PTL DEF Spec, CreditIsFinal

----------------------------------------------------------------------------
(* Where a step leaves the job.                                             *)

\* Unserved, after the step.
UnservedAfter(expDays, attDays) ==
    /\ \A e \in lakeExp' : e \in chExp' \/ ExpDay[e] \in expDays
    /\ \A r \in lakeAtt' :
          \/ ConvDay[r.conv] \in attDays
          \/ \E s \in chAtt' : s.conv = r.conv /\ s.processed_at >= r.processed_at

Stays(s) == step' = s /\ job' = job /\ touched' = touched /\ last' = last

Ends(outcome) ==
    job' = "idle" /\ step' = "none" /\ todo' = {} /\ touched' = {} /\ last' = outcome

LoadReturns ==
    \/ job \in {"engine", "replay"} /\ Stays("mark") /\ todo' = todo
    \/ job \in {"reconcile", "dagster"} /\ Stays("snapshotPre") /\ todo' = todo
    \/ job = "load" /\ Ends("load")

LoadBegins(days) ==
    \/ days = {} /\ LoadReturns
    \/ ~(days \subseteq KnownDays) /\ Ends("refused")
    \/ days # {} /\ days \subseteq KnownDays /\ Stays("insertExposures") /\ todo' = days

LEMMA Returning ==
    ASSUME ControlOK, job # "idle", AfterLoad  PROVE LoadReturns
  <1>1. job \in {"engine", "replay", "reconcile", "dagster", "load"}
    BY DEF ControlOK, JobNames
  <1>2. CASE job \in {"engine", "replay"}
    BY <1>2 DEF AfterLoad, LoadReturns, GoTo, Stays
  <1>3. CASE job \in {"reconcile", "dagster"}
    BY <1>3 DEF AfterLoad, LoadReturns, GoTo, Stays
  <1>4. CASE job = "load"
    BY <1>4 DEF AfterLoad, LoadReturns, End, Ends
  <1> QED
    BY <1>1, <1>2, <1>3, <1>4

LEMMA Beginning ==
    ASSUME ControlOK, job # "idle", NEW days, BeginLoad(days)  PROVE LoadBegins(days)
  BY Returning DEF BeginLoad, LoadBegins, End, Ends, Stays

\* The job of a step.
LEMMA JobOf ==
    ASSUME ControlOK
    PROVE  /\ job = "idle" <=> step = "none"
           /\ step = "mark" => job \in {"engine", "reconcile", "replay"}
           /\ step \in {"snapshotPre", "snapshotPost"} => job \in {"reconcile", "dagster"}
           /\ step \in LoadSteps => LoadSteps \subseteq StepsOf(job)
           /\ step \in TableSteps => job = "replay"
  BY DEF ControlOK, StepsOf, LoadSteps, TableSteps, JobNames

\* The invariants of the next state, in terms of UnservedAfter.
LEMMA AfterStep ==
    /\ Unserved(todo, todo)' <=> UnservedAfter(todo', todo')
    /\ Unserved(todo \ {day}, todo)' <=> UnservedAfter(todo' \ {day'}, todo')
    /\ Unserved(todo \ {day}, todo \ {day})'
          <=> UnservedAfter(todo' \ {day'}, todo' \ {day'})
    /\ Unserved({}, {})' <=> UnservedAfter({}, {})
    /\ Unserved({}, touched)' <=> UnservedAfter({}, touched')
  BY DEF Unserved, UnservedAfter

\* What is unserved only shrinks while the lake rests and the tables grow.
LEMMA Carried ==
    ASSUME TablesInv, lakeExp' = lakeExp, lakeAtt' = lakeAtt, chExp \subseteq chExp',
           \/ chAtt' = chAtt
           \/ \E rows \in SUBSET Current(lakeAtt) : chAtt' = Replace(chAtt, rows)
    PROVE  /\ \A expDays, attDays :
                 Unserved(expDays, attDays) => UnservedAfter(expDays, attDays)
           /\ ConversionsServed => ConversionsServed'
  <1>1. ASSUME NEW s \in chAtt
        PROVE  \E t \in chAtt' : t.conv = s.conv /\ t.processed_at >= s.processed_at
    <2>1. \A r \in lakeAtt : r.processed_at \in Nat
      BY DEF TablesInv, DataOK, AttributedRows
    <2>2. chAtt \subseteq lakeAtt /\ Current(lakeAtt) \subseteq lakeAtt
      BY DEF TablesInv, DataOK, Current
    <2>3. CASE chAtt' = chAtt
      BY <2>1, <2>2, <2>3
    <2>4. ASSUME NEW rows \in SUBSET Current(lakeAtt), chAtt' = Replace(chAtt, rows)
          PROVE  \E t \in chAtt' : t.conv = s.conv /\ t.processed_at >= s.processed_at
      <3>1. \A r \in chAtt \cup rows : r.processed_at \in Nat
        BY <2>1, <2>2
      <3> QED
        BY <2>4, <3>1, NothingLowered
    <2> QED
      BY <2>3, <2>4
  <1>2. ASSUME NEW r \in lakeAtt, NEW s \in chAtt,
               s.conv = r.conv, s.processed_at >= r.processed_at
        PROVE  \E t \in chAtt' : t.conv = r.conv /\ t.processed_at >= r.processed_at
    <2>1. PICK t \in chAtt' : t.conv = s.conv /\ t.processed_at >= s.processed_at
      BY <1>1
    <2>2. /\ r.processed_at \in Nat /\ s.processed_at \in Nat
          /\ t.processed_at \in Nat
      <3>1. t \in lakeAtt
        BY ReplacedFrom DEF TablesInv, DataOK, Current
      <3> QED
        BY <3>1 DEF TablesInv, DataOK, AttributedRows
    <2> QED
      BY <1>2, <2>1, <2>2
  <1>3. ASSUME NEW expDays, NEW attDays, Unserved(expDays, attDays)
        PROVE  UnservedAfter(expDays, attDays)
    BY <1>2, <1>3 DEF Unserved, UnservedAfter
  <1>4. ASSUME ConversionsServed  PROVE ConversionsServed'
    BY <1>1, <1>4 DEF ConversionsServed
  <1> QED
    BY <1>3, <1>4

LEMMA RegimeStays ==
    ASSUME regime' = regime
    PROVE  /\ Undisturbed' <=> Undisturbed
           /\ OnlyReconcileDisturbed' <=> OnlyReconcileDisturbed
           /\ Undisturbed \/ OnlyReconcileDisturbed => KnownDays = Days
  BY DEF Undisturbed, OnlyReconcileDisturbed, NeverKilled, OnlyReconcileKilled,
     WholeCalendar, NeverDropped, KnownDays

\* Where a load begins: at its first day, at its end when it has none, or at a
\* refusal, which only a short calendar gives.
LEMMA LoadStarts ==
    ASSUME IInv, regime' = regime, job # "idle",
           NEW days \in SUBSET Days, LoadBegins(days),
           Promised => UnservedAfter(days, days),
           OnlyReconcileDisturbed /\ job \notin {"engine", "replay"} => ConversionsServed'
    PROVE  JobsInv'
  <1>1. /\ Undisturbed' <=> Undisturbed
        /\ OnlyReconcileDisturbed' <=> OnlyReconcileDisturbed
        /\ Undisturbed \/ OnlyReconcileDisturbed => KnownDays = Days
    BY RegimeStays
  <1>2. ControlOK /\ todo \subseteq Days /\ touched \subseteq Days
    BY DEF IInv, JobsInv, ControlOK
  <1>3. CASE days = {} /\ LoadReturns
    <2>1. CASE job \in {"engine", "replay"} /\ Stays("mark") /\ todo' = todo
      <3>1. ControlOK'
        BY <1>2, <2>1 DEF ControlOK, Stays, StepsOf, JobNames
      <3>2. UnservedAfter({}, {})
        BY <1>3, <2>1 DEF Promised
      <3> QED
        BY <2>1, <3>1, <3>2, AfterStep DEF JobsInv, LoadUnderWay, ServedBetween,
           WholeLakeAhead, EverServed, Stays, TableSteps
    <2>2. CASE job \in {"reconcile", "dagster"} /\ Stays("snapshotPre") /\ todo' = todo
      <3>1. ControlOK'
        BY <1>2, <2>2 DEF ControlOK, Stays, StepsOf, JobNames
      <3>2. Promised' => UnservedAfter({}, {})
        BY <1>1, <1>3, <2>2 DEF Promised, Stays
      <3> QED
        BY <1>1, <2>2, <3>1, <3>2, AfterStep DEF JobsInv, LoadUnderWay, ServedBetween,
           WholeLakeAhead, EverServed, Stays, TableSteps
    <2>3. CASE job = "load" /\ Ends("load")
      <3>1. ControlOK'
        BY <2>3 DEF ControlOK, Ends, StepsOf
      <3>2. Undisturbed' => UnservedAfter({}, {})
        BY <1>1, <1>3 DEF Promised
      <3> QED
        BY <1>1, <2>3, <3>1, <3>2, AfterStep DEF JobsInv, LoadUnderWay, ServedBetween,
           WholeLakeAhead, EverServed, Ends, TableSteps
    <2> QED
      BY <1>3, <2>1, <2>2, <2>3 DEF LoadReturns
  <1>4. CASE ~(days \subseteq KnownDays) /\ Ends("refused")
    <2>1. ControlOK'
      BY <1>4 DEF ControlOK, Ends, StepsOf
    <2>2. ~Undisturbed' /\ ~OnlyReconcileDisturbed'
      BY <1>1, <1>4
    <2> QED
      BY <1>4, <2>1, <2>2 DEF JobsInv, LoadUnderWay, ServedBetween, WholeLakeAhead,
         EverServed, Ends, TableSteps
  <1>5. CASE Stays("insertExposures") /\ todo' = days
    <2>1. ControlOK'
      BY <1>2, <1>5 DEF ControlOK, Stays, StepsOf, LoadSteps, JobNames
    <2>2. Promised' => UnservedAfter(todo', todo')
      BY <1>1, <1>5 DEF Promised, Stays
    <2> QED
      BY <1>1, <1>5, <2>1, <2>2, AfterStep DEF JobsInv, LoadUnderWay, ServedBetween,
         WholeLakeAhead, EverServed, Stays, TableSteps
  <1> QED
    BY <1>3, <1>4, <1>5 DEF LoadBegins

----------------------------------------------------------------------------
(* The invariants of the jobs, action by action.                            *)

\* A step that leaves every table alone leaves what is unserved alone.
LEMMA NothingMoved ==
    ASSUME TablesInv, UNCHANGED <<lake, serving>>
    PROVE  /\ regime' = regime /\ lake_days' = lake_days /\ lakeExp' = lakeExp
           /\ \A expDays, attDays :
                 Unserved(expDays, attDays) => UnservedAfter(expDays, attDays)
           /\ ConversionsServed => ConversionsServed'
  <1>1. /\ regime' = regime /\ lakeExp' = lakeExp /\ lakeAtt' = lakeAtt
        /\ chExp' = chExp /\ chAtt' = chAtt
    BY DEF lake, serving
  <1> QED
    BY <1>1, Carried DEF lake_days

LEMMA Idle ==
    ASSUME IInv, job = "idle"
    PROVE  /\ Undisturbed => Unserved({}, {})
           /\ OnlyReconcileDisturbed => ConversionsServed
  BY JobOf DEF IInv, JobsInv, ServedBetween, EverServed

LEMMA StartsNext ==
    ASSUME IInv,
           \/ StartEngine \/ StartReconcile \/ StartDagster \/ StartDagsterPartition
           \/ StartLoad \/ StartReplay
    PROVE  JobsInv'
  <1> USE DEF IInv, JobsInv
  <1>1. ASSUME NEW j, NEW s, NEW days, Start(j, s, days)
        PROVE  /\ job = "idle" /\ UNCHANGED <<lake, serving>> /\ j \in regime.jobs
               /\ job' = j /\ step' = s /\ todo' = days
               /\ touched' = touched /\ last' = last
    BY <1>1 DEF Start
  <1>2. /\ touched \subseteq Days /\ KnownDays \subseteq Days
        /\ \A days \in regime.loads \cup SUBSET regime.partitions : days \subseteq Days
    BY CalendarDays, JobAssumption DEF TablesInv, DataOK, ControlOK, Regime, KnownDays
  <1>3. touched_days(lake_candidates(Days)) \subseteq Days
    BY DEF touched_days, lake_candidates
  <1>4. CASE StartEngine
    <2>1. /\ UNCHANGED <<lake, serving>> /\ touched' = touched /\ last' = last
          /\ job' = "engine" /\ step' = "landExposures" /\ todo' = {}
      BY <1>1, <1>4 DEF StartEngine
    <2> QED
      BY <1>2, <2>1 DEF ControlOK, StepsOf, JobNames, LoadUnderWay, ServedBetween,
         WholeLakeAhead, EverServed, TableSteps
  <1>5. CASE StartReplay
    <2>1. /\ UNCHANGED <<lake, serving>> /\ touched' = touched /\ last' = last
          /\ job' = "replay" /\ step' = "exposures_landed" /\ todo' = lake_days
          /\ lake_days \subseteq KnownDays
      BY <1>1, <1>5 DEF StartReplay, SERVING_TABLES
    <2> QED
      BY <1>2, <2>1, NothingMoved DEF ControlOK, StepsOf, JobNames, TableSteps,
         LoadUnderWay, ServedBetween, WholeLakeAhead, EverServed
  <1>6. ASSUME UNCHANGED <<lake, serving>>, job = "idle",
               touched' = touched, last' = last, todo' \subseteq Days,
               \/ job' = "reconcile" /\ step' = "recover"
               \/ job' = "dagster" /\ step' = "recoverDay"
               \/ job' = "load" /\ step' = "begin"
        PROVE  JobsInv'
    <2>1. ControlOK'
      BY <1>2, <1>6 DEF ControlOK, StepsOf, JobNames
    <2>2. /\ Undisturbed => Unserved({}, {}) /\ Unserved({}, touched)
          /\ OnlyReconcileDisturbed => ConversionsServed
      BY <1>6, Idle DEF Unserved
    <2>3. /\ Undisturbed' => UnservedAfter({}, {}) /\ UnservedAfter({}, touched')
          /\ OnlyReconcileDisturbed' => ConversionsServed'
      BY <1>6, <2>2, NothingMoved, RegimeStays
    <2> QED
      BY <1>6, <2>1, <2>3, AfterStep DEF LoadUnderWay, ServedBetween, WholeLakeAhead,
         EverServed, TableSteps
  <1>7. CASE StartReconcile
    BY <1>1, <1>6, <1>7 DEF StartReconcile
  <1>8. CASE StartDagster
    BY <1>1, <1>3, <1>6, <1>8 DEF StartDagster
  <1>9. CASE StartDagsterPartition
    <2>1. PICK d \in regime.partitions : Start("dagster", "recoverDay", {d})
      BY <1>9 DEF StartDagsterPartition
    <2>2. {d} \subseteq Days
      BY <1>2
    <2> QED
      BY <1>1, <1>6, <2>1, <2>2
  <1>10. CASE StartLoad
    <2>1. PICK days \in regime.loads : Start("load", "begin", days)
      BY <1>10 DEF StartLoad
    <2>2. days \subseteq Days
      BY <1>2
    <2> QED
      BY <1>1, <1>6, <2>1, <2>2
  <1> QED
    BY <1>4, <1>5, <1>7, <1>8, <1>9, <1>10

LEMMA LandingNext ==
    ASSUME IInv, LandExposures \/ LandAttributed  PROVE JobsInv'
  <1> USE DEF IInv, JobsInv
  <1>1. CASE LandExposures
    <2>1. /\ regime' = regime /\ job = "engine" /\ job' = "engine"
          /\ step' = "landAttributed" /\ lakeExp' = Exposures
          /\ todo' = todo /\ touched' = touched /\ last' = last
      BY <1>1 DEF LandExposures, Running, GoTo
    <2> QED
      BY <2>1 DEF ControlOK, StepsOf, JobNames, LoadUnderWay, ServedBetween,
         WholeLakeAhead, EverServed, TableSteps
  <1>2. CASE LandAttributed
    <2> DEFINE days == {ExpDay[e] : e \in Exposures}
                          \cup touched_days({HotRow(c) : c \in Conversions})
    <2>1. /\ regime' = regime /\ job = "engine" /\ step = "landAttributed"
          /\ BeginLoad(days) /\ lakeExp' = lakeExp
          /\ lakeAtt' = lakeAtt \cup {HotRow(c) : c \in Conversions}
      BY <1>2 DEF LandAttributed, Running
    <2>2. \A c \in Conversions : HotRow(c).conv = c /\ ConvDay[c] \in days
      BY HotRows DEF touched_days
    <2>3. days \in SUBSET Days
      BY HotRows, TopicAssumption DEF touched_days
    <2>4. UnservedAfter(days, days)
      <3>1. \A e \in lakeExp' : ExpDay[e] \in days
        BY <2>1 DEF WholeLakeAhead
      <3>2. \A r \in lakeAtt' : r.conv \in Conversions
        BY <2>1, HotRows DEF TablesInv, DataOK, AttributedRows
      <3> QED
        BY <2>2, <3>1, <3>2 DEF UnservedAfter
    <2> HIDE DEF days
    <2>5. LoadBegins(days)
      BY <2>1, Beginning
    <2> QED
      BY <2>1, <2>3, <2>4, <2>5, LoadStarts
  <1> QED
    BY <1>1, <1>2

\* Corrections leave only their own days unserved, and no conversion.
LEMMA Correcting ==
    ASSUME IInv, NEW days \in SUBSET Days,
           lakeExp' = lakeExp, chExp' = chExp, chAtt' = chAtt,
           lakeAtt' = lakeAtt \cup recover(days)
    PROVE  /\ touched_days(recover(days)) \subseteq Days
           /\ \A old : Unserved({}, old)
                 => UnservedAfter({}, old \cup touched_days(recover(days)))
           /\ ConversionsServed => ConversionsServed'
  <1>1. ASSUME NEW r \in recover(days)
        PROVE  /\ r.conv \in Conversions /\ ConvDay[r.conv] \in touched_days(recover(days))
               /\ ConvDay[r.conv] \in Days
               /\ HotRow(r.conv) \in lakeAtt /\ HotRow(r.conv).conv = r.conv
    BY Recovered, HotRows DEF IInv, TablesInv, AttributedRows, Current, touched_days
  <1>2. touched_days(recover(days)) \subseteq Days
    BY <1>1 DEF touched_days
  <1>3. ASSUME NEW old, Unserved({}, old)
        PROVE  UnservedAfter({}, old \cup touched_days(recover(days)))
    BY <1>1, <1>3 DEF Unserved, UnservedAfter
  <1>4. ASSUME ConversionsServed  PROVE ConversionsServed'
    <2>1. ASSUME NEW r \in lakeAtt'  PROVE \E s \in chAtt' : s.conv = r.conv
      <3>1. \E q \in lakeAtt : q.conv = r.conv
        BY <1>1
      <3> QED
        BY <1>4, <3>1 DEF ConversionsServed
    <2> QED
      BY <1>4, <2>1 DEF ConversionsServed
  <1> QED
    BY <1>2, <1>3, <1>4

LEMMA ReconcileNext ==
    ASSUME IInv, Reconcile \/ ReconcileDay  PROVE JobsInv'
  <1> USE DEF IInv, JobsInv
  <1>1. CASE Reconcile
    <2> DEFINE days == touched_days(recover(Days))
    <2>1. /\ regime' = regime /\ job = "reconcile" /\ step = "recover"
          /\ BeginLoad(days) /\ lakeExp' = lakeExp /\ chExp' = chExp /\ chAtt' = chAtt
          /\ lakeAtt' = lakeAtt \cup recover(Days)
      BY <1>1 DEF Reconcile, Running, serving
    <2>2. /\ days \in SUBSET Days
          /\ Unserved({}, {}) => UnservedAfter({}, {} \cup days)
          /\ ConversionsServed => ConversionsServed'
      BY <2>1, Correcting
    <2> HIDE DEF days
    <2>3. Promised => UnservedAfter(days, days)
      <3>1. Promised => UnservedAfter({}, days)
        BY <2>1, <2>2 DEF Promised, ServedBetween
      <3> QED
        BY <3>1 DEF UnservedAfter
    <2>4. OnlyReconcileDisturbed => ConversionsServed'
      BY <2>1, <2>2 DEF EverServed
    <2>5. LoadBegins(days)
      BY <2>1, Beginning
    <2> QED
      BY <2>1, <2>2, <2>3, <2>4, <2>5, LoadStarts
  <1>2. CASE ReconcileDay
    <2> DEFINE days == {First(todo)}
               found == touched_days(recover(days))
    <2>1. /\ regime' = regime /\ job = "dagster" /\ step = "recoverDay"
          /\ lakeExp' = lakeExp /\ chExp' = chExp /\ chAtt' = chAtt
          /\ lakeAtt' = lakeAtt \cup recover(days)
          /\ touched' = touched \cup found /\ todo' = todo \ days
          /\ job' = job /\ step' = step /\ last' = last
      BY <1>2 DEF ReconcileDay, Running, serving
    <2>2. days \in SUBSET Days
      BY <1>2, CalendarDays DEF ReconcileDay, TablesInv
    <2> HIDE DEF days
    <2>3. /\ found \subseteq Days
          /\ Unserved({}, touched) => UnservedAfter({}, touched \cup found)
          /\ ConversionsServed => ConversionsServed'
      BY <2>1, <2>2, Correcting
    <2> HIDE DEF found
    <2>4. Undisturbed' => UnservedAfter({}, touched')
      BY <2>1, <2>3, RegimeStays DEF ServedBetween
    <2>5. OnlyReconcileDisturbed' => ConversionsServed'
      BY <2>1, <2>3, RegimeStays DEF EverServed
    <2>6. ControlOK'
      BY <2>1, <2>3 DEF ControlOK
    <2> QED
      BY <2>1, <2>4, <2>5, <2>6, AfterStep DEF LoadUnderWay, ServedBetween,
         WholeLakeAhead, EverServed, TableSteps
  <1> QED
    BY <1>1, <1>2

LEMMA OtherBeginningsNext ==
    ASSUME IInv, EveryDayReconciled \/ UnknownPartition \/ LoadDays  PROVE JobsInv'
  <1> USE DEF IInv, JobsInv
  <1>1. CASE EveryDayReconciled
    <2>1. /\ UNCHANGED <<lake, serving>> /\ job = "dagster" /\ step = "recoverDay"
          /\ BeginLoad(touched)
      BY <1>1 DEF EveryDayReconciled, Running
    <2>2. touched \in SUBSET Days
      BY DEF ControlOK
    <2>3. Promised => UnservedAfter(touched, touched)
      <3>1. Promised => Unserved(touched, touched)
        BY <2>1 DEF Promised, ServedBetween, Unserved
      <3> QED
        BY <2>1, <3>1, NothingMoved
    <2>4. OnlyReconcileDisturbed => ConversionsServed'
      BY <2>1, NothingMoved DEF EverServed
    <2>5. LoadBegins(touched)
      BY <2>1, Beginning
    <2> QED
      BY <2>1, <2>2, <2>3, <2>4, <2>5, NothingMoved, LoadStarts
  <1>2. CASE LoadDays
    <2>1. /\ UNCHANGED <<lake, serving>> /\ job = "load" /\ step = "begin"
          /\ BeginLoad(todo)
      BY <1>2 DEF LoadDays, Running
    <2>2. todo \in SUBSET Days
      BY DEF ControlOK
    <2>3. Promised => UnservedAfter(todo, todo)
      <3>1. Promised => Unserved(todo, todo)
        BY <2>1 DEF Promised, ServedBetween, Unserved
      <3> QED
        BY <2>1, <3>1, NothingMoved
    <2>4. OnlyReconcileDisturbed => ConversionsServed'
      BY <2>1, NothingMoved DEF EverServed
    <2>5. LoadBegins(todo)
      BY <2>1, Beginning
    <2> QED
      BY <2>1, <2>2, <2>3, <2>4, <2>5, NothingMoved, LoadStarts
  <1>3. CASE UnknownPartition
    <2>1. /\ UNCHANGED <<lake, serving>> /\ Ends("refused")
          /\ todo # {} /\ First(todo) \notin KnownDays
      BY <1>3 DEF UnknownPartition, End, Ends
    <2>2. First(todo) \in Days
      BY <2>1, FirstOf, TopicAssumption DEF ControlOK
    <2>3. ~Undisturbed' /\ ~OnlyReconcileDisturbed'
      BY <2>1, <2>2, NothingMoved, RegimeStays
    <2> QED
      BY <2>1, <2>3 DEF Ends, ControlOK, StepsOf, LoadUnderWay, ServedBetween,
         WholeLakeAhead, EverServed, TableSteps
  <1> QED
    BY <1>1, <1>2, <1>3

LEMMA TruncateNext ==
    ASSUME IInv, NEW i \in DOMAIN SERVING_TABLES, Truncate(i)  PROVE JobsInv'
  <1> USE DEF IInv, JobsInv
  <1>1. /\ i \in 1..6 /\ \A n \in 1..6 : SERVING_TABLES[n] \in TableSteps
        /\ Len(SERVING_TABLES) = 6
    BY DEF SERVING_TABLES, TableSteps
  <1>2. /\ regime' = regime /\ lakeExp' = lakeExp /\ lakeAtt' = lakeAtt
        /\ job = "replay" /\ step \in TableSteps /\ lake_days \subseteq todo
    BY <1>1 DEF Truncate, Running, WholeLakeAhead, lake
  <1>3. CASE i < 6
    <2>1. /\ job' = job /\ touched' = touched /\ last' = last /\ todo' = todo
          /\ step' \in TableSteps
      BY <1>1, <1>3 DEF Truncate, GoTo
    <2>2. lake_days' = lake_days
      BY <1>2 DEF lake_days
    <2>3. ControlOK'
      BY <1>2, <2>1 DEF ControlOK, StepsOf, JobNames
    <2> QED
      BY <1>2, <2>1, <2>2, <2>3 DEF TableSteps, LoadUnderWay, ServedBetween,
         WholeLakeAhead, EverServed
  <1>4. CASE i = 6
    <2>1. BeginLoad(todo) /\ todo \in SUBSET Days
      BY <1>1, <1>4 DEF Truncate, ControlOK
    <2>2. LoadBegins(todo)
      BY <1>2, <2>1, Beginning
    <2>3. UnservedAfter(todo, todo)
      BY <1>2 DEF UnservedAfter, lake_days
    <2> QED
      BY <1>2, <2>1, <2>2, <2>3, LoadStarts
  <1> QED
    BY <1>1, <1>3, <1>4

LEMMA DownNext ==
    ASSUME IInv, Down  PROVE JobsInv'
  <1>1. /\ regime' = regime /\ job = "idle" /\ step = "none"
        /\ job' = job /\ step' = step /\ todo' = todo /\ touched' = touched
        /\ last' = "down"
    BY JobOf DEF IInv, JobsInv, Down, lake
  <1>2. ~Undisturbed' /\ ~OnlyReconcileDisturbed'
    BY <1>1 DEF Down, Undisturbed, OnlyReconcileDisturbed, NeverDropped
  <1> QED
    BY <1>1, <1>2 DEF IInv, JobsInv, ControlOK, LoadUnderWay, ServedBetween,
       WholeLakeAhead, EverServed, TableSteps

\* A load step that is followed by another.
LEMMA LoadGoesOn ==
    ASSUME IInv, step \in LoadSteps, NEW s \in LoadSteps, Stays(s),
           todo' \subseteq todo, regime' = regime,
           ConversionsServed => ConversionsServed', LoadUnderWay'
    PROVE  JobsInv'
  <1> USE DEF IInv, JobsInv
  <1>1. job # "idle" /\ LoadSteps \subseteq StepsOf(job)
    BY JobOf DEF LoadSteps
  <1>2. ControlOK'
    BY <1>1 DEF ControlOK, Stays
  <1>3. OnlyReconcileDisturbed' => OnlyReconcileDisturbed
    BY RegimeStays
  <1> QED
    BY <1>1, <1>2, <1>3 DEF Stays, LoadSteps, TableSteps, ServedBetween,
       WholeLakeAhead, EverServed

\* A load of the rows of a day leaves none of them unserved.
LEMMA RowsInserted ==
    ASSUME TablesInv, lakeExp' = lakeExp, lakeAtt' = lakeAtt, chExp' = chExp,
           chAtt' = Replace(chAtt, read_current)
    PROVE  /\ \A expDays, attDays :
                 Unserved(expDays, attDays) => UnservedAfter(expDays, attDays \ {day})
           /\ ConversionsServed => ConversionsServed'
  <1>1. read_current \in SUBSET Current(lakeAtt)
    BY DEF read_current
  <1>2. /\ \A expDays, attDays :
              Unserved(expDays, attDays) => UnservedAfter(expDays, attDays)
        /\ ConversionsServed => ConversionsServed'
    BY <1>1, Carried
  <1>3. ASSUME NEW r \in lakeAtt, ConvDay[r.conv] = day
        PROVE  \E s \in chAtt' : s.conv = r.conv /\ s.processed_at >= r.processed_at
    <2>1. PICK q \in Current(lakeAtt) :
             q.conv = r.conv /\ q.processed_at >= r.processed_at
      BY HasCurrent DEF TablesInv
    <2>2. q \in read_current
      BY <1>3, <2>1 DEF read_current
    <2>3. \A t \in lakeAtt : t.processed_at \in Nat
      BY DEF TablesInv, DataOK, AttributedRows
    <2>4. chAtt \cup read_current \subseteq lakeAtt
      BY <1>1 DEF TablesInv, DataOK, Current
    <2>5. PICK s \in chAtt' : s.conv = q.conv /\ s.processed_at >= q.processed_at
      BY <2>2, <2>3, <2>4, NothingLowered
    <2>6. s \in lakeAtt /\ q \in lakeAtt
      BY <2>2, <2>4, ReplacedFrom
    <2> QED
      BY <2>1, <2>3, <2>5, <2>6
  <1>4. ASSUME NEW expDays, NEW attDays, UnservedAfter(expDays, attDays)
        PROVE  UnservedAfter(expDays, attDays \ {day})
    BY <1>3, <1>4 DEF UnservedAfter
  <1> QED
    BY <1>2, <1>4

LEMMA InsertsNext ==
    ASSUME IInv, InsertExposures \/ InsertAttributed  PROVE JobsInv'
  <1> USE DEF IInv, JobsInv
  <1>1. CASE InsertExposures
    <2>1. /\ step = "insertExposures" /\ Stays("dirtyExposures") /\ todo' = todo
          /\ regime' = regime /\ lakeExp' = lakeExp /\ lakeAtt' = lakeAtt
          /\ chAtt' = chAtt /\ chExp' = chExp \cup LakeExposures
      BY <1>1 DEF InsertExposures, GoTo, Stays, lake
    <2>2. Unserved(todo, todo) => UnservedAfter(todo \ {day}, todo)
      BY <2>1 DEF Unserved, UnservedAfter, LakeExposures
    <2>3. ConversionsServed => ConversionsServed'
      BY <2>1, Carried
    <2>4. day' = day /\ (Promised' => Promised)
      BY <2>1, RegimeStays DEF day, Promised, Stays
    <2>5. LoadUnderWay'
      BY <2>1, <2>2, <2>4, AfterStep DEF LoadUnderWay, Stays
    <2> QED
      BY <2>1, <2>3, <2>5, LoadGoesOn DEF LoadSteps
  <1>2. CASE InsertAttributed
    <2>1. /\ step = "insertAttributed" /\ Stays("dirtyAttributed") /\ todo' = todo
          /\ regime' = regime /\ lakeExp' = lakeExp /\ lakeAtt' = lakeAtt
          /\ chExp' = chExp /\ chAtt' = Replace(chAtt, read_current)
      BY <1>2 DEF InsertAttributed, GoTo, Stays, lake
    <2>2. /\ Unserved(todo \ {day}, todo) => UnservedAfter(todo \ {day}, todo \ {day})
          /\ ConversionsServed => ConversionsServed'
      BY <2>1, RowsInserted
    <2>3. day' = day /\ (Promised' => Promised)
      BY <2>1, RegimeStays DEF day, Promised, Stays
    <2>4. LoadUnderWay'
      BY <2>1, <2>2, <2>3, AfterStep DEF LoadUnderWay, Stays
    <2> QED
      BY <2>1, <2>2, <2>4, LoadGoesOn DEF LoadSteps
  <1> QED
    BY <1>1, <1>2

\* The steps of a load that write the rollup tables only.
LEMMA DirtyNext ==
    ASSUME IInv,
           \/ DirtyFromExposures \/ DirtyFromExposureCredits \/ DirtyFromAttributed
           \/ Refresh
    PROVE  JobsInv'
  <1> USE DEF IInv, JobsInv
  <1>1. /\ regime' = regime /\ lakeExp' = lakeExp /\ lakeAtt' = lakeAtt
        /\ chExp' = chExp /\ chAtt' = chAtt
    BY DEF DirtyFromExposures, DirtyFromExposureCredits, DirtyFromAttributed, Refresh, lake
  <1>2. /\ \A expDays, attDays :
              Unserved(expDays, attDays) => UnservedAfter(expDays, attDays)
        /\ ConversionsServed => ConversionsServed'
    BY <1>1, Carried
  <1>3. job' = job => (Promised' => Promised)
    BY <1>1, RegimeStays DEF Promised
  <1>4. todo' = todo => day' = day
    BY DEF day
  <1>5. CASE DirtyFromExposures
    <2>1. step = "dirtyExposures" /\ Stays("dirtyCredits") /\ todo' = todo
      BY <1>5 DEF DirtyFromExposures, GoTo, Stays
    <2>2. LoadUnderWay'
      BY <1>2, <1>3, <1>4, <2>1, AfterStep DEF LoadUnderWay, Stays
    <2> QED
      BY <1>1, <1>2, <2>1, <2>2, LoadGoesOn DEF LoadSteps
  <1>6. CASE DirtyFromExposureCredits
    <2>1. step = "dirtyCredits" /\ Stays("insertAttributed") /\ todo' = todo
      BY <1>6 DEF DirtyFromExposureCredits, GoTo, Stays
    <2>2. LoadUnderWay'
      BY <1>2, <1>3, <1>4, <2>1, AfterStep DEF LoadUnderWay, Stays
    <2> QED
      BY <1>1, <1>2, <2>1, <2>2, LoadGoesOn DEF LoadSteps
  <1>7. CASE DirtyFromAttributed
    <2>1. /\ step = "dirtyAttributed" /\ todo' = todo \ {day}
          /\ \/ todo' = {} /\ Stays("refresh")
             \/ Stays("insertExposures")
      BY <1>7 DEF DirtyFromAttributed, NextDay, Stays
    <2>2. Promised' => UnservedAfter(todo', todo')
      BY <1>2, <1>3, <2>1 DEF LoadUnderWay, Stays
    <2>3. LoadUnderWay'
      BY <2>1, <2>2, AfterStep DEF LoadUnderWay, Stays
    <2> QED
      BY <1>1, <1>2, <2>1, <2>3, LoadGoesOn DEF LoadSteps
  <1>8. CASE Refresh
    <2>1. step = "refresh" /\ Stays("stamp") /\ todo' = todo
      BY <1>8 DEF Refresh, Stays
    <2>2. LoadUnderWay'
      BY <1>2, <1>3, <2>1, AfterStep DEF LoadUnderWay, Stays
    <2> QED
      BY <1>1, <1>2, <2>1, <2>2, LoadGoesOn DEF LoadSteps
  <1> QED
    BY <1>5, <1>6, <1>7, <1>8

LEMMA LoadEndsNext ==
    ASSUME IInv, NothingDirty \/ StampRefreshed  PROVE JobsInv'
  <1> USE DEF IInv, JobsInv
  <1>1. /\ regime' = regime /\ lakeExp' = lakeExp /\ lakeAtt' = lakeAtt
        /\ chExp' = chExp /\ chAtt' = chAtt /\ step \in {"refresh", "stamp"} /\ AfterLoad
    BY DEF NothingDirty, StampRefreshed, lake, serving
  <1>2. job # "idle"
    BY <1>1, JobOf
  <1>3. /\ Unserved({}, {}) => UnservedAfter({}, {})
        /\ ConversionsServed => ConversionsServed'
    BY <1>1, Carried
  <1>4. Promised => UnservedAfter({}, {})
    BY <1>1, <1>3 DEF LoadUnderWay
  <1>5. OnlyReconcileDisturbed /\ job \notin {"engine", "replay"} => ConversionsServed'
    BY <1>3 DEF EverServed
  <1>6. LoadBegins({})
    BY <1>1, <1>2, Returning DEF LoadBegins
  <1> QED
    BY <1>1, <1>2, <1>4, <1>5, <1>6, LoadStarts

LEMMA FinalizeNext ==
    ASSUME IInv, SnapshotPre \/ SnapshotPost \/ WriteMarker  PROVE JobsInv'
  <1> USE DEF IInv, JobsInv
  <1>1. /\ regime' = regime /\ lakeExp' = lakeExp /\ lakeAtt' = lakeAtt
        /\ chExp' = chExp /\ chAtt' = chAtt
        /\ step \in {"snapshotPre", "snapshotPost", "mark"}
    BY DEF SnapshotPre, SnapshotPost, WriteMarker, lake
  <1>2. /\ Unserved({}, {}) => UnservedAfter({}, {})
        /\ ConversionsServed => ConversionsServed'
        /\ UnservedAfter({}, {}) => ConversionsServed'
    BY <1>1, Carried DEF UnservedAfter, ConversionsServed
  <1>3. Promised => UnservedAfter({}, {})
    BY <1>1, <1>2 DEF LoadUnderWay
  <1>4. /\ Undisturbed' => UnservedAfter({}, {})
        /\ OnlyReconcileDisturbed' => ConversionsServed'
    BY <1>1, <1>2, <1>3, RegimeStays DEF Promised, EverServed
  <1>5. /\ step = "mark" => job \in {"engine", "reconcile", "replay"}
        /\ step # "mark" => job \in {"reconcile", "dagster"}
    BY <1>1, JobOf
  <1>6. CASE /\ job \in {"reconcile", "dagster"} /\ job' = job
             /\ todo' = todo /\ touched' = touched /\ last' = last
             /\ \/ step' = "snapshotPost"
                \/ job = "reconcile" /\ step' = "mark"
    <2>1. ControlOK'
      BY <1>6 DEF ControlOK, StepsOf, JobNames
    <2>2. Promised' => UnservedAfter({}, {})
      BY <1>4, <1>6 DEF Promised
    <2> QED
      BY <1>4, <1>6, <2>1, <2>2, AfterStep DEF LoadUnderWay, ServedBetween,
         WholeLakeAhead, EverServed, TableSteps
  <1>7. CASE Ends(job) \/ Ends("dagster")
    <2>1. ControlOK'
      BY <1>7 DEF Ends, ControlOK, StepsOf
    <2>2. last' \in {"engine", "replay"} => UnservedAfter({}, {})
      BY <1>3, <1>7 DEF Ends, Promised
    <2> QED
      BY <1>4, <1>7, <2>1, <2>2, AfterStep DEF Ends, LoadUnderWay, ServedBetween,
         WholeLakeAhead, EverServed, TableSteps
  <1>8. CASE SnapshotPre
    BY <1>5, <1>6, <1>8 DEF SnapshotPre, GoTo
  <1>9. CASE SnapshotPost
    BY <1>5, <1>6, <1>7, <1>9 DEF SnapshotPost, GoTo, End, Ends
  <1>10. CASE WriteMarker
    BY <1>7, <1>10 DEF WriteMarker, End, Ends
  <1> QED
    BY <1>8, <1>9, <1>10

\* A kill leaves the served rows of the lake served, and happens to a
\* reconciliation only where no other job may be killed.
LEMMA KillsNext ==
    ASSUME IInv, Crash \/ CrashInExposures \/ CrashInAttributed  PROVE JobsInv'
  <1> USE DEF IInv, JobsInv
  <1>1. /\ job \in Killable /\ Ends("crashed")
        /\ regime' = regime /\ lakeExp' = lakeExp /\ lakeAtt' = lakeAtt
    BY DEF Crash, CrashInExposures, CrashInAttributed, lake, End, Ends
  <1>2. /\ chExp \subseteq chExp'
        /\ \/ chAtt' = chAtt
           \/ \E rows \in SUBSET Current(lakeAtt) : chAtt' = Replace(chAtt, rows)
    <2>1. SUBSET read_current \subseteq SUBSET Current(lakeAtt)
      BY DEF read_current
    <2> QED
      BY <2>1 DEF Crash, CrashInExposures, CrashInAttributed, serving
  <1>3. ConversionsServed => ConversionsServed'
    BY <1>1, <1>2, Carried
  <1>4. ~Undisturbed' /\ (OnlyReconcileDisturbed' => job = "reconcile")
    BY <1>1, RegimeStays DEF Undisturbed, OnlyReconcileDisturbed, NeverKilled,
       OnlyReconcileKilled, Killable
  <1>5. OnlyReconcileDisturbed' => ConversionsServed'
    BY <1>1, <1>3, <1>4, RegimeStays DEF EverServed
  <1>6. ControlOK'
    BY <1>1 DEF Ends, ControlOK, StepsOf
  <1> QED
    BY <1>1, <1>4, <1>5, <1>6 DEF Ends, LoadUnderWay, ServedBetween, WholeLakeAhead,
       EverServed, TableSteps

LEMMA StutterNext ==
    ASSUME IInv, UNCHANGED vars  PROVE JobsInv'
  <1>1. UNCHANGED <<lake, serving>> /\ UNCHANGED <<job, step, todo, touched, last>>
    BY DEF vars, lake, serving
  <1> QED
    BY <1>1 DEF IInv, JobsInv, ControlOK, LoadUnderWay, ServedBetween, WholeLakeAhead,
       EverServed, Unserved, ConversionsServed, Promised, Undisturbed, NeverKilled,
       OnlyReconcileDisturbed, OnlyReconcileKilled, WholeCalendar, NeverDropped,
       day, lake_days, lake, serving

\* A correction is stamped above everything served, so above the hot row of a
\* conversion that is served.
LEMMA CorrectionsNext ==
    ASSUME IInv, [Next]_vars  PROVE CorrectionsAbove'
  <1> USE DEF IInv, TablesInv
  <1>1. regime' = regime /\ Lands
    BY TablesWritten
  <1>2. OnlyReconcileDisturbed' <=> OnlyReconcileDisturbed
    BY <1>1, RegimeStays
  <1>3. CASE lakeAtt' = lakeAtt
    BY <1>2, <1>3 DEF CorrectionsAbove
  <1>4. CASE lakeAtt' = lakeAtt \cup {HotRow(c) : c \in Conversions}
    <2>1. \A r \in {HotRow(c) : c \in Conversions} : r.path = "hot"
      BY HotRows
    <2> QED
      BY <1>2, <1>4, <2>1 DEF CorrectionsAbove
  <1>5. ASSUME job \in {"reconcile", "dagster"}, NEW days \in SUBSET Days,
               lakeAtt' = lakeAtt \cup recover(days)
        PROVE  CorrectionsAbove'
    <2>1. ASSUME OnlyReconcileDisturbed, NEW r \in recover(days)
          PROVE  ConvIngest[r.conv] < r.processed_at
      <3>1. /\ HotRow(r.conv) \in lakeAtt /\ HotRow(r.conv).conv = r.conv
            /\ r.processed_at = reconciled_at
        BY Recovered, HotRows DEF Current, AttributedRows
      <3>2. ConversionsServed
        BY <1>5, <2>1 DEF JobsInv, EverServed
      <3>3. PICK s \in chAtt : s.conv = r.conv
        BY <3>1, <3>2 DEF ConversionsServed
      <3> QED
        BY <3>1, <3>3, AboveAllServed
    <2> QED
      BY <1>2, <1>5, <2>1 DEF CorrectionsAbove
  <1> QED
    BY <1>1, <1>3, <1>4, <1>5 DEF Lands

LEMMA InvInit ==
    ASSUME Init  PROVE IInv
  <1>1. TablesInv
    BY TablesInit
  <1>2. /\ job = "idle" /\ step = "none" /\ todo = {} /\ touched = {} /\ last = "none"
        /\ lakeExp = {} /\ lakeAtt = {}
    BY DEF Init
  <1>3. JobsInv
    BY <1>2 DEF JobsInv, ControlOK, StepsOf, LoadUnderWay, ServedBetween, WholeLakeAhead,
       EverServed, Unserved, ConversionsServed, TableSteps
  <1>4. CorrectionsAbove
    BY <1>2 DEF CorrectionsAbove
  <1> QED
    BY <1>1, <1>3, <1>4 DEF IInv

LEMMA InvNext ==
    ASSUME IInv, [Next]_vars  PROVE IInv'
  <1>1. TablesInv'
    BY DataNext, LakeNext, ServedNext, RollupNext DEF IInv, TablesInv
  <1>2. JobsInv'
    BY StartsNext, LandingNext, ReconcileNext, OtherBeginningsNext, TruncateNext,
       DownNext, InsertsNext, DirtyNext, LoadEndsNext, FinalizeNext, KillsNext,
       StutterNext DEF Next
  <1>3. CorrectionsAbove'
    BY CorrectionsNext
  <1> QED
    BY <1>1, <1>2, <1>3 DEF IInv

LEMMA Invariance == Spec => []IInv
  BY InvInit, InvNext, PTL DEF Spec

\* A completed engine run or replay leaves the whole lake served, whatever was
\* killed, refused or dropped before it, and so does a completed reconciliation
\* when nothing is killed or dropped and the calendar is whole.
THEOREM CompletedJobsServeTheLake == Spec => []CompletedJobServesLake
  <1>1. ASSUME IInv  PROVE CompletedJobServesLake
    <2> USE DEF IInv, TablesInv, JobsInv
    <2>1. Unserved({}, {}) => LakeIsServed
      BY <1>1 DEF Unserved, LakeIsServed, DataOK
    <2>2. Completed({"engine", "replay"}) => Unserved({}, {})
      BY <1>1 DEF Completed, WholeLakeAhead
    <2>3. Undisturbed /\ job = "idle" => Unserved({}, {})
      BY <1>1, Idle
    <2> QED
      BY <2>1, <2>2, <2>3 DEF CompletedJobServesLake, ReconcileConverges, Completed,
         Undisturbed
  <1> QED
    BY <1>1, Invariance, PTL

\* A correction in the lake supersedes the hot row it corrects.
THEOREM CorrectionsWin == Spec => []CorrectionWins
  <1>1. ASSUME IInv  PROVE CorrectionWins
    <2>1. ASSUME OnlyReconcileDisturbed, NEW r \in lakeAtt, r.path = "reconciled",
                 NEW q \in lakeAtt, q.conv = r.conv, q.path = "hot"
          PROVE  q.processed_at < r.processed_at
      <3>1. ConvIngest[r.conv] < r.processed_at
        BY <1>1, <2>1 DEF IInv, CorrectionsAbove
      <3>2. q.conv \in Conversions /\ q = HotRow(q.conv)
        BY <1>1, <2>1 DEF IInv, TablesInv, DataOK, AttributedRows, MadeBy
      <3> QED
        BY <2>1, <3>1, <3>2, HotRows
    <2> QED
      BY <2>1 DEF CorrectionWins, OnlyReconcileDisturbed
  <1> QED
    BY <1>1, Invariance, PTL

\* While the marker stands between jobs, the lake is served under it.
THEOREM MarkerIsHonest == Spec => []MarkerHonest
  <1>1. ASSUME IInv  PROVE MarkerHonest
    BY <1>1, Idle DEF MarkerHonest, ConversionsServed, OnlyReconcileDisturbed
  <1> QED
    BY <1>1, Invariance, PTL


----------------------------------------------------------------------------
(***************************************************************************)
(* That the incremental rollup of Serving is the full rebuild, that its    *)
(* gate passes, and that reconciliation leaves both reports, for every     *)
(* topic. The first two hold when no partition is reconciled apart on a    *)
(* whole calendar: two such passes share a version, and the second does    *)
(* not make its keys dirty.                                                *)
(*                                                                         *)
(* The argument. While the volume is whole, a correction is stamped above  *)
(* every time in the topics, all corrections with the same stamp           *)
(* (LakeByPhase), and all of them are landed before any is loaded          *)
(* (AllOrNone). So what a key should hold changes at most once after the   *)
(* first load, to a version above all it had. A load records for its keys  *)
(* the versions of what it inserts (LoadRecords), so a key the refresh     *)
(* passes over is stamped with the version of what it should hold, and     *)
(* holds it already (StampsTell). For the gate, keys also carry a stamp    *)
(* that was recorded (Stamped).                                            *)
(*                                                                         *)
(* A report carries the version of the rows it counts: that of the topics, *)
(* or that of a correction which is served (SnapshotVersions). So no       *)
(* report that stands is above the one a reconciliation writes, and what   *)
(* is written stays until something else is served (SnapshotsStand).       *)
(***************************************************************************)

\* reconcile-dagster runs over every candidate day of a whole calendar.
NoPartitions == \A g \in Regimes : g.calendar = Days => g.partitions = {}

\* The behaviours RollupEqualsRebuild is about.
Guarded == OnlyReconcileDisturbed /\ (NeverKilled \/ "load" \notin regime.jobs)

----------------------------------------------------------------------------
(* The lake while the volume is whole.                                      *)

Times == {ExpIngest[e] : e \in Exposures} \cup {ConvIngest[c] : c \in Conversions}

Latest == Greatest(Times)

AllHot == {HotRow(c) : c \in Conversions}

Missed == {c \in Conversions : HotCredit[c] = {} /\ LongCredit[c] # {}}

Correction(c) == [conv |-> c, credited |-> LongCredit[c], path |-> "reconciled",
                  processed_at |-> Latest + Delta]

AllCorrections == {Correction(c) : c \in Missed}

LakeByPhase ==
    OnlyReconcileDisturbed =>
       /\ lakeAtt \subseteq AllHot \cup AllCorrections
       /\ \/ lakeExp = {} /\ lakeAtt = {}
          \/ lakeExp = Exposures /\ lakeAtt = {} /\ step = "landAttributed"
          \/ lakeExp = Exposures /\ AllHot \subseteq lakeAtt

NoneCorrected == lakeAtt \subseteq AllHot

AllCorrected == AllCorrections \subseteq lakeAtt

AllOrNone ==
    OnlyReconcileDisturbed =>
       /\ step # "recoverDay" => NoneCorrected \/ AllCorrected
       /\ step = "recoverDay" =>
             \/ lakeAtt = {}
             \/ \A c \in Missed : Correction(c) \in lakeAtt \/ ConvDay[c] \in todo

----------------------------------------------------------------------------
(* What a load has still to record: the version of every exposure outside   *)
(* expDays, and of every credit whose exposure is outside creditDays and    *)
(* its conversion outside attDays, is within that of its key.               *)

Unrecorded(expDays, creditDays, attDays) ==
    /\ \A e \in lakeExp : ExpDay[e] \in expDays \/ ExpIngest[e] <= dirty[ExpKey[e]]
    /\ \A r \in lakeAtt : \A e \in r.credited :
          \/ ExpDay[e] \in creditDays
          \/ ConvDay[r.conv] \in attDays
          \/ r.processed_at <= dirty[ExpKey[e]]

Owed(expDays, attDays) ==
    Unserved(expDays, attDays) /\ Unrecorded(expDays, expDays, attDays)

LoadRecords ==
    Guarded =>
       /\ step = "insertExposures" => Owed(todo, todo)
       /\ step = "dirtyExposures" =>
             Unserved(todo \ {day}, todo) /\ Unrecorded(todo, todo, todo)
       /\ step = "dirtyCredits" =>
             Unserved(todo \ {day}, todo) /\ Unrecorded(todo \ {day}, todo, todo)
       /\ step = "insertAttributed" => Owed(todo \ {day}, todo)
       /\ step = "dirtyAttributed" =>
             /\ Unserved(todo \ {day}, todo \ {day})
             /\ Unrecorded(todo \ {day}, todo \ {day}, todo)
       /\ step \in {"refresh", "stamp"} => Owed({}, {})

\* Between loads nothing is owed, unless a killed reconciliation left it so; the
\* next ones have nothing to load then.
RecordedBetween ==
    Guarded =>
       /\ (step \in {"none", "recover", "begin", "snapshotPre", "snapshotPost", "mark"}
             /\ (NeverKilled \/ NoneCorrected)) => Owed({}, {})
       /\ step = "recoverDay" =>
             \/ Owed({}, touched)
             \/ touched = {} /\ AllCorrected /\ ~NeverKilled /\ ~NoneCorrected
       /\ (job = "reconcile" /\ step \in LoadSteps) => ~NoneCorrected

----------------------------------------------------------------------------
(* What the rollup should hold.                                             *)

RollupOf(k, exposures, rows) ==
    LET credits == {r \in rows : \E e \in r.credited : ExpKey[e] = k}
    IN [exposures   |-> {e \in exposures : ExpKey[e] = k},
        conversions |-> {r.conv : r \in credits},
        version     |-> Greatest({ExpIngest[e] : e \in {x \in exposures : ExpKey[x] = k}}
                           \cup {r.processed_at : r \in credits})]

LakeRollup(k) == RollupOf(k, lakeExp, lakeAtt)

\* No stamp and no row of the rollup is ahead of the lake, and a stamp of what
\* the key should hold means that it holds it.
StampsTell ==
    Guarded =>
       \A k \in Keys :
          /\ dirty[k] <= LakeRollup(k).version
          /\ refreshed[k] <= LakeRollup(k).version
          /\ refreshed[k] <= Latest \/ AllCorrected
          /\ ~(AllHot \subseteq lakeAtt) => refreshed[k] = 0
          /\ \/ hourly[k] = NoRollupRow
             \/ hourly[k].version \in 1 .. LakeRollup(k).version
          /\ (step \notin {"rollup_dirty", "rollup_refreshed"} /\ refreshed[k] # 0
                /\ refreshed[k] = LakeRollup(k).version)
                => hourly[k] = LakeRollup(k)

RollupTyped ==
    Guarded =>
       /\ dirty \in [Keys -> Nat] /\ refreshed \in [Keys -> Nat]
       /\ DOMAIN hourly = Keys
       /\ job = "idle" => touched = {}
       /\ job = "load" => "load" \in regime.jobs
       /\ step = "stamp" => \A v \in stamps : v[2] = dirty[v[1]]

\* Where the rollup is the rebuild.
FreshBetween ==
    /\ Guarded /\ step = "stamp" => RollupIsFresh
    /\ Guarded /\ job \in {"engine", "replay"} /\ step = "mark" => RollupIsFresh
    /\ Guarded /\ job = "idle" /\ last \in {"engine", "replay"} => RollupIsFresh
    /\ (Undisturbed /\ step \in {"none", "recover", "begin", "recoverDay",
                                  "snapshotPre", "snapshotPost", "mark"})
          => RollupIsFresh

RollupInv ==
    /\ IInv
    /\ LakeByPhase /\ AllOrNone
    /\ RollupTyped
    /\ LoadRecords /\ RecordedBetween
    /\ StampsTell
    /\ FreshBetween

----------------------------------------------------------------------------
(* Versions.                                                                *)

Versions == Times \cup {Latest + Delta}

\* Every time of the topics is at most Latest, and only corrections are above it.
LEMMA TimesBounded ==
    /\ Latest \in Nat /\ \A t \in Times : t \in Nat /\ t <= Latest
    /\ Delta \in Nat /\ Delta > 0
    /\ Versions \in SUBSET Nat /\ IsFiniteSet(Versions)
  <1> DEFINE E == {ExpIngest[e] : e \in Exposures}
             C == {ConvIngest[c] : c \in Conversions}
             f == [e \in Exposures |-> ExpIngest[e]]
             g == [c \in Conversions |-> ConvIngest[c]]
  <1>1. E \in SUBSET Nat /\ C \in SUBSET Nat /\ Delta \in Nat /\ Delta > 0
    BY TopicAssumption
  <1>2. f \in Surjection(Exposures, E) /\ g \in Surjection(Conversions, C)
    BY DEF Surjection
  <1>3. IsFiniteSet(E) /\ IsFiniteSet(C)
    BY <1>2, FS_Surjection, TopicAssumption
  <1>4. Times \in SUBSET Nat /\ IsFiniteSet(Times)
    BY <1>1, <1>3, FS_Union DEF Times
  <1>5. Latest \in Nat /\ \A t \in Times : t <= Latest
    BY <1>4, GreatestOf DEF Latest
  <1>6. IsFiniteSet(Versions)
    BY <1>4, FS_Singleton, FS_Union DEF Versions
  <1> QED
    BY <1>1, <1>4, <1>5, <1>6 DEF Versions

\* The greatest of some versions.
LEMMA VersionOf ==
    ASSUME NEW S \in SUBSET Versions
    PROVE  /\ Greatest(S) \in Nat /\ \A n \in S : n <= Greatest(S)
           /\ S # {} => Greatest(S) \in S
           /\ S = {} => Greatest(S) = 0
  <1>1. S \in SUBSET Nat /\ IsFiniteSet(S)
    BY TimesBounded, FS_Subset
  <1> QED
    BY <1>1, GreatestOf DEF Greatest

----------------------------------------------------------------------------
(* Rows of the lake while the volume is whole.                              *)

LEMMA GuardedVolume == Guarded => OnlyReconcileDisturbed
  BY DEF Guarded

LEMMA RowMade ==
    ASSUME NEW r \in AllHot \cup AllCorrections
    PROVE  /\ r.conv \in Conversions /\ r.credited \subseteq Exposures
           /\ r.processed_at \in Versions /\ r.processed_at > 0
           /\ \/ r = HotRow(r.conv) /\ r.path = "hot" /\ r.processed_at <= Latest
              \/ /\ r = Correction(r.conv) /\ r.path = "reconciled" /\ r.conv \in Missed
                 /\ r.processed_at = Latest + Delta
  <1>1. CASE r \in AllHot
    <2>1. PICK c \in Conversions : r = HotRow(c)
      BY <1>1 DEF AllHot
    <2>2. ConvIngest[c] \in Times /\ ConvIngest[c] > 0 /\ HotCredit[c] \subseteq Exposures
      BY TopicAssumption DEF Times
    <2> QED
      BY <2>1, <2>2, HotRows, TimesBounded DEF Versions
  <1>2. CASE r \in AllCorrections
    <2>1. PICK c \in Missed : r = Correction(c)
      BY <1>2 DEF AllCorrections
    <2>2. /\ c \in Conversions /\ LongCredit[c] \subseteq Exposures
          /\ Latest + Delta > 0 /\ Latest + Delta \in Versions
      BY TopicAssumption, TimesBounded DEF Missed, Versions
    <2>3. /\ r.conv = c /\ r.credited = LongCredit[c] /\ r.path = "reconciled"
          /\ r.processed_at = Latest + Delta
      BY <2>1 DEF Correction
    <2> QED
      BY <2>1, <2>2, <2>3
  <1> QED
    BY <1>1, <1>2

LEMMA LakeRow ==
    ASSUME LakeByPhase, OnlyReconcileDisturbed, NEW r \in lakeAtt
    PROVE  /\ r.conv \in Conversions /\ r.credited \subseteq Exposures
           /\ r.processed_at \in Versions /\ r.processed_at > 0
           /\ lakeExp = Exposures
           /\ \/ r = HotRow(r.conv) /\ r.path = "hot" /\ r.processed_at <= Latest
              \/ /\ r = Correction(r.conv) /\ r.path = "reconciled" /\ r.conv \in Missed
                 /\ r.processed_at = Latest + Delta
  BY RowMade DEF LakeByPhase

\* A row with a credit that is served is served by itself.
LEMMA CreditServed ==
    ASSUME IInv, LakeByPhase, OnlyReconcileDisturbed,
           NEW r \in lakeAtt, r.credited # {},
           NEW s \in chAtt, s.conv = r.conv, s.processed_at >= r.processed_at
    PROVE  r \in chAtt
  <1>1. s \in lakeAtt
    BY DEF IInv, TablesInv, DataOK
  <1>2. CASE r = HotRow(r.conv)
    <2>1. HotCredit[r.conv] # {}
      BY <1>2, LakeRow, HotRows
    <2>2. s = HotRow(s.conv)
      BY <1>1, <2>1, LakeRow DEF Missed
    <2> QED
      BY <1>2, <2>2
  <1>3. CASE r = Correction(r.conv) /\ r.processed_at = Latest + Delta
    <2>1. ~(s.processed_at <= Latest)
      BY <1>1, <1>3, LakeRow, TimesBounded DEF Versions
    <2>2. s = Correction(s.conv)
      BY <1>1, <2>1, LakeRow
    <2> QED
      BY <1>3, <2>2
  <1> QED
    BY <1>2, <1>3, LakeRow

\* When the lake is served, the rebuild is what the lake says.
LEMMA Settled ==
    ASSUME IInv, LakeByPhase, OnlyReconcileDisturbed, Unserved({}, {}), NEW k \in Keys
    PROVE  Rebuilt(k) = LakeRollup(k)
  <1>1. chExp = lakeExp /\ lakeExp \subseteq Exposures /\ chAtt \subseteq lakeAtt
    BY DEF Unserved, IInv, TablesInv, DataOK
  <1>2. ExposuresOf(k) = {e \in lakeExp : ExpKey[e] = k}
    BY <1>1 DEF ExposuresOf
  <1>3. CreditedTo(k) = {r \in lakeAtt : \E e \in r.credited : ExpKey[e] = k}
    <2>1. ASSUME NEW r \in lakeAtt
          PROVE  (\E e \in r.credited : ExpKey[e] = k) <=> r.credited \cap ExposuresOf(k) # {}
      BY <1>1, <1>2, LakeRow
    <2>2. ASSUME NEW r \in lakeAtt, r.credited # {}  PROVE r \in chAtt
      BY <2>2, CreditServed DEF Unserved
    <2> QED
      BY <1>1, <2>1, <2>2 DEF CreditedTo
  <1> QED
    BY <1>2, <1>3 DEF Rebuilt, LakeRollup, RollupOf

----------------------------------------------------------------------------
(* What reconciliation lands while the volume is whole.                     *)

\* Unless a load of the whole lake is under way, all times of the topics are
\* served, once they are landed.
LEMMA LatestServed ==
    ASSUME IInv, OnlyReconcileDisturbed, job \notin {"engine", "replay"},
           lakeExp = Exposures, AllHot \subseteq lakeAtt
    PROVE  /\ chExp = Exposures /\ max_ingest = Latest
           /\ \A c \in Conversions : \E r \in chAtt : r.conv = c
  <1>1. ConversionsServed
    BY DEF IInv, JobsInv, EverServed
  <1>2. chExp = Exposures /\ chAtt \subseteq lakeAtt
    BY <1>1 DEF ConversionsServed, IInv, TablesInv, DataOK
  <1>3. \A r \in chAtt : r.conv \in Conversions
    BY <1>2 DEF IInv, TablesInv, DataOK, AttributedRows
  <1>4. \A c \in Conversions : \E r \in chAtt : r.conv = c
    BY <1>1, HotRows DEF ConversionsServed, AllHot
  <1>5. {ConvIngest[r.conv] : r \in chAtt} = {ConvIngest[c] : c \in Conversions}
    BY <1>3, <1>4
  <1> QED
    BY <1>2, <1>4, <1>5 DEF max_ingest, Latest, Times

\* So the corrections are stamped alike.
LEMMA StampedAlike ==
    ASSUME IInv, OnlyReconcileDisturbed, job \in {"reconcile", "dagster"},
           lakeExp = Exposures, AllHot \subseteq lakeAtt
    PROVE  reconciled_at = Latest + Delta
  BY LatestServed DEF reconciled_at

\* A pass over some days lands the corrections of those days that are not there.
LEMMA WhatIsRecovered ==
    ASSUME IInv, LakeByPhase, OnlyReconcileDisturbed,
           job \in {"reconcile", "dagster"}, step # "landAttributed",
           NEW days \in SUBSET Days
    PROVE  /\ \A r \in recover(days) :
                 r \in AllCorrections /\ r = Correction(r.conv) /\ r \notin lakeAtt
           /\ lakeAtt # {} =>
                 \A c \in Missed : ConvDay[c] \in days =>
                    Correction(c) \in lakeAtt \cup recover(days)
           /\ lakeAtt = {} => recover(days) = {}
  <1>1. CASE lakeAtt = {}
    BY <1>1 DEF recover, lake_candidates, Current
  <1>2. CASE lakeAtt # {}
    <2>1. lakeExp = Exposures /\ AllHot \subseteq lakeAtt
      BY <1>2 DEF LakeByPhase
    <2>2. reconciled_at = Latest + Delta
      BY <2>1, StampedAlike
    <2>3. ASSUME NEW r \in recover(days)
          PROVE  r \in AllCorrections /\ r = Correction(r.conv) /\ r \notin lakeAtt
      <3>1. PICK q \in lake_candidates(days) :
               /\ r = [conv |-> q.conv, credited |-> LongCredit[q.conv],
                       path |-> "reconciled", processed_at |-> reconciled_at]
               /\ LongCredit[q.conv] # {}
        BY DEF recover
      <3>2. q \in Current(lakeAtt) /\ q \in lakeAtt /\ q.credited = {} /\ q.path = "hot"
        BY <3>1 DEF lake_candidates, Current
      <3>3. q.conv \in Conversions /\ q = HotRow(q.conv)
        BY <3>2, LakeRow
      <3>4. HotCredit[q.conv] = {} /\ q.processed_at \in Versions /\ q.processed_at <= Latest
        BY <3>2, <3>3, HotRows, LakeRow
      <3>5. q.conv \in Missed /\ r = Correction(q.conv) /\ r.conv = q.conv
        BY <2>2, <3>1, <3>3, <3>4 DEF Missed, Correction
      <3>6. r \notin lakeAtt
        <4>1. r.processed_at = Latest + Delta /\ r.path = "reconciled"
          BY <2>2, <3>1
        <4>2. q.processed_at \in Nat /\ Latest \in Nat /\ Delta \in Nat /\ Delta > 0
          BY <3>4, TimesBounded
        <4>3. ~Supersedes(q, r)
          BY <3>4, <4>1, <4>2 DEF Supersedes
        <4> QED
          BY <3>2, <3>5, <4>3 DEF Current
      <3> QED
        BY <3>5, <3>6 DEF AllCorrections
    <2>4. ASSUME NEW c \in Missed, ConvDay[c] \in days, Correction(c) \notin lakeAtt
          PROVE  Correction(c) \in recover(days)
      <3>1. c \in Conversions /\ HotCredit[c] = {} /\ LongCredit[c] # {}
        BY DEF Missed
      <3>2. HotRow(c) \in lakeAtt
        BY <2>1, <3>1 DEF AllHot
      <3>3. HotRow(c).conv = c /\ HotRow(c).credited = {} /\ HotRow(c).path = "hot"
        BY <3>1, HotRows
      <3>4. ASSUME NEW q \in lakeAtt, q.conv = c  PROVE Supersedes(HotRow(c), q)
        <4>1. q = HotRow(c)
          BY <2>4, <3>4, LakeRow
        <4> QED
          BY <3>3, <4>1 DEF Supersedes
      <3>5. HotRow(c) \in lake_candidates(days)
        BY <2>4, <3>2, <3>3, <3>4 DEF lake_candidates, Current
      <3>6. LongCredit[c] \subseteq lakeExp
        BY <2>1, <3>1, TopicAssumption
      <3> QED
        BY <2>2, <3>1, <3>3, <3>5, <3>6 DEF recover, Correction
    <2> QED
      BY <1>2, <2>3, <2>4
  <1> QED
    BY <1>1, <1>2

----------------------------------------------------------------------------
(* The lake, step by step.                                                  *)

\* What cannot happen while the volume is whole.
LEMMA NeverHere ==
    ASSUME IInv, OnlyReconcileDisturbed
    PROVE  /\ ~Down /\ ~UnknownPartition
           /\ Crash \/ CrashInExposures \/ CrashInAttributed
                 => job = "reconcile" /\ ~NeverKilled
  <1>1. ~Down
    BY DEF Down, OnlyReconcileDisturbed, NeverDropped
  <1>2. ~UnknownPartition
    <2>1. ASSUME todo # {}  PROVE First(todo) \in KnownDays
      BY <2>1, FirstOf, TopicAssumption
         DEF IInv, JobsInv, ControlOK, OnlyReconcileDisturbed, WholeCalendar, KnownDays
    <2> QED
      BY <2>1 DEF UnknownPartition
  <1>3. ASSUME Crash \/ CrashInExposures \/ CrashInAttributed
        PROVE  job = "reconcile" /\ ~NeverKilled
    BY <1>3 DEF Crash, CrashInExposures, CrashInAttributed, Killable,
       OnlyReconcileDisturbed, OnlyReconcileKilled, NeverKilled
  <1> QED
    BY <1>1, <1>2, <1>3

LEMMA NoPartitionPass ==
    ASSUME NoPartitions, IInv, OnlyReconcileDisturbed  PROVE ~StartDagsterPartition
  BY DEF StartDagsterPartition, NoPartitions, IInv, TablesInv, DataOK,
     OnlyReconcileDisturbed, WholeCalendar

\* A step that leaves the lake alone goes on with what is landed, and leaves a
\* pass over the days only when every day is done.
LEMMA LakeMoves ==
    ASSUME IInv, OnlyReconcileDisturbed, [Next]_vars
    PROVE  \/ LandExposures \/ LandAttributed \/ Reconcile \/ ReconcileDay
           \/ /\ lakeExp' = lakeExp /\ lakeAtt' = lakeAtt
              /\ step = "landAttributed" => step' = step
              /\ step' = "recoverDay" =>
                    \/ StartDagster \/ StartDagsterPartition
                    \/ step = "recoverDay" /\ todo' = todo
              /\ step = "recoverDay" /\ step' # step => todo = {}
  <1> USE DEF IInv, JobsInv
  <1> DEFINE Rests ==
        /\ lakeExp' = lakeExp /\ lakeAtt' = lakeAtt
        /\ step = "landAttributed" => step' = step
        /\ step' = "recoverDay" =>
              \/ StartDagster \/ StartDagsterPartition
              \/ step = "recoverDay" /\ todo' = todo
        /\ step = "recoverDay" /\ step' # step => todo = {}
  <1>1. CASE StartEngine \/ StartReconcile \/ StartDagster \/ StartDagsterPartition
                \/ StartLoad \/ StartReplay
    <2>1. job = "idle" /\ UNCHANGED lake
      BY <1>1 DEF StartEngine, StartReconcile, StartDagster, StartDagsterPartition,
         StartLoad, StartReplay, Start
    <2>2. StartDagster \/ StartDagsterPartition \/ step' # "recoverDay"
      BY <1>1 DEF StartEngine, StartReconcile, StartLoad, StartReplay, Start,
         SERVING_TABLES
    <2> QED
      BY <2>1, <2>2, JobOf DEF lake
  <1>2. CASE EveryDayReconciled \/ LoadDays \/ NothingDirty \/ StampRefreshed
    <2>1. /\ UNCHANGED lake /\ job # "idle" /\ step # "landAttributed"
          /\ step = "recoverDay" => todo = {}
          /\ AfterLoad \/ \E days \in {touched, todo} : BeginLoad(days)
      BY <1>2, JobOf DEF EveryDayReconciled, LoadDays, NothingDirty, StampRefreshed,
         Running, lake
    <2>2. LoadReturns \/ \E days \in {touched, todo} : LoadBegins(days)
      BY <2>1, Returning, Beginning
    <2> QED
      BY <2>1, <2>2 DEF LoadReturns, LoadBegins, Stays, Ends, lake
  <1>3. CASE \E i \in DOMAIN SERVING_TABLES : Truncate(i)
    <2>1. PICK i \in 1..6 : Truncate(i)
      BY <1>3 DEF SERVING_TABLES
    <2>2. \A n \in 1..6 : SERVING_TABLES[n] \in TableSteps
      BY DEF SERVING_TABLES, TableSteps
    <2>3. /\ UNCHANGED lake /\ job = "replay" /\ step \in TableSteps
          /\ step' \in TableSteps \/ BeginLoad(todo)
      BY <2>1, <2>2 DEF Truncate, Running, GoTo, SERVING_TABLES
    <2>4. step' \in TableSteps \/ LoadBegins(todo)
      BY <2>3, Beginning
    <2> QED
      BY <2>3, <2>4 DEF LoadReturns, LoadBegins, Stays, Ends, TableSteps, lake
  <1>4. CASE \/ InsertExposures \/ DirtyFromExposures \/ DirtyFromExposureCredits
             \/ InsertAttributed \/ DirtyFromAttributed \/ Refresh
             \/ SnapshotPre \/ SnapshotPost \/ WriteMarker
    BY <1>4 DEF InsertExposures, DirtyFromExposures, DirtyFromExposureCredits,
       InsertAttributed, DirtyFromAttributed, Refresh, SnapshotPre, SnapshotPost,
       WriteMarker, GoTo, NextDay, End, lake
  <1>5. CASE Crash \/ CrashInExposures \/ CrashInAttributed
    <2>1. job = "reconcile" /\ UNCHANGED lake /\ step' = "none"
      BY <1>5, NeverHere DEF Crash, CrashInExposures, CrashInAttributed, End
    <2> QED
      BY <2>1 DEF ControlOK, StepsOf, LoadSteps, lake
  <1>6. CASE UNCHANGED vars
    BY <1>6 DEF vars
  <1> QED
    BY <1>1, <1>2, <1>3, <1>4, <1>5, <1>6, NeverHere DEF Next

\* How the lake grows.
LEMMA LakeGrows ==
    ASSUME IInv, LakeByPhase, OnlyReconcileDisturbed, [Next]_vars
    PROVE  /\ regime' = regime
           /\ lakeExp' = lakeExp \/ (lakeExp' = Exposures /\ LandExposures)
           /\ lakeAtt \subseteq lakeAtt'
           /\ \A r \in lakeAtt' \ lakeAtt :
                 \/ LandAttributed /\ r \in AllHot
                 \/ (Reconcile \/ ReconcileDay) /\ r \in AllCorrections
  <1>1. regime' = regime
    BY TablesWritten DEF IInv, TablesInv
  <1>2. CASE LandExposures
    BY <1>1, <1>2 DEF LandExposures
  <1>3. CASE LandAttributed
    BY <1>1, <1>3 DEF LandAttributed, AllHot
  <1>4. ASSUME NEW days \in SUBSET Days, job \in {"reconcile", "dagster"},
               step # "landAttributed"
        PROVE  recover(days) \subseteq AllCorrections
    BY <1>4, WhatIsRecovered
  <1>5. CASE Reconcile
    BY <1>1, <1>4, <1>5 DEF Reconcile, Running
  <1>6. CASE ReconcileDay
    <2>1. {First(todo)} \in SUBSET Days
      BY <1>6, CalendarDays DEF ReconcileDay, IInv, TablesInv
    <2> QED
      BY <1>1, <1>4, <1>6, <2>1 DEF ReconcileDay, Running
  <1> QED
    BY <1>1, <1>2, <1>3, <1>5, <1>6, LakeMoves

LEMMA PhaseNext ==
    ASSUME IInv, LakeByPhase, [Next]_vars
    PROVE  LakeByPhase'
  <1> SUFFICES ASSUME OnlyReconcileDisturbed
               PROVE  /\ lakeAtt' \subseteq AllHot \cup AllCorrections
                      /\ \/ lakeExp' = {} /\ lakeAtt' = {}
                         \/ /\ lakeExp' = Exposures /\ lakeAtt' = {}
                            /\ step' = "landAttributed"
                         \/ lakeExp' = Exposures /\ AllHot \subseteq lakeAtt'
    <2>1. OnlyReconcileDisturbed' => OnlyReconcileDisturbed
      BY TablesWritten, RegimeStays DEF IInv, TablesInv
    <2> QED
      BY <2>1 DEF LakeByPhase, AllHot, AllCorrections, Missed, Correction, HotRow, Latest,
         Times, Greatest
  <1>1. lakeAtt' \subseteq AllHot \cup AllCorrections
    BY LakeGrows DEF LakeByPhase
  <1>2. CASE LandExposures
    <2>1. /\ lakeExp' = Exposures /\ lakeAtt' = lakeAtt /\ step' = "landAttributed"
          /\ step # "landAttributed"
      BY <1>2 DEF LandExposures, Running, GoTo
    <2> QED
      BY <1>1, <2>1 DEF LakeByPhase
  <1>3. CASE LandAttributed
    <2>1. lakeExp' = Exposures /\ AllHot \subseteq lakeAtt'
      BY <1>3 DEF LandAttributed, Running, AllHot, IInv, JobsInv, WholeLakeAhead
    <2> QED
      BY <1>1, <2>1
  <1>4. ASSUME step # "landAttributed", job \in {"reconcile", "dagster"},
               lakeExp' = lakeExp,
               NEW days \in SUBSET Days, lakeAtt' = lakeAtt \cup recover(days)
        PROVE  \/ lakeExp' = {} /\ lakeAtt' = {}
               \/ lakeExp' = Exposures /\ AllHot \subseteq lakeAtt'
    BY <1>4, WhatIsRecovered DEF LakeByPhase
  <1>5. CASE Reconcile
    BY <1>1, <1>4, <1>5 DEF Reconcile, Running
  <1>6. CASE ReconcileDay
    <2>1. {First(todo)} \in SUBSET Days
      BY <1>6, CalendarDays DEF ReconcileDay, IInv, TablesInv
    <2> QED
      BY <1>1, <1>4, <1>6, <2>1 DEF ReconcileDay, Running
  <1>7. CASE /\ lakeExp' = lakeExp /\ lakeAtt' = lakeAtt
             /\ step = "landAttributed" => step' = step
    BY <1>1, <1>7 DEF LakeByPhase
  <1> QED
    BY <1>2, <1>3, <1>5, <1>6, <1>7, LakeMoves

LEMMA AllOrNoneNext ==
    ASSUME NoPartitions, IInv, LakeByPhase, AllOrNone, [Next]_vars
    PROVE  AllOrNone'
  <1> DEFINE None == lakeAtt' \subseteq AllHot
             All  == AllCorrections \subseteq lakeAtt'
             Ahead == \/ lakeAtt' = {}
                      \/ \A c \in Missed : Correction(c) \in lakeAtt' \/ ConvDay[c] \in todo'
  <1> SUFFICES ASSUME OnlyReconcileDisturbed
               PROVE  /\ step' # "recoverDay" => None \/ All
                      /\ step' = "recoverDay" => Ahead
    <2>1. OnlyReconcileDisturbed' => OnlyReconcileDisturbed
      BY TablesWritten, RegimeStays DEF IInv, TablesInv
    <2> QED
      BY <2>1 DEF AllOrNone, NoneCorrected, AllCorrected, AllHot, AllCorrections, Missed,
         Correction, HotRow, Latest, Times, Greatest
  <1>1. CASE LandExposures
    <2>1. lakeAtt' = lakeAtt /\ step' = "landAttributed" /\ step = "landExposures"
      BY <1>1 DEF LandExposures, Running, GoTo
    <2> QED
      BY <2>1 DEF AllOrNone, NoneCorrected, AllCorrected
  <1>2. CASE LandAttributed
    <2>1. /\ lakeAtt' = lakeAtt \cup AllHot /\ step = "landAttributed" /\ job = "engine"
          /\ \E days : BeginLoad(days)
      BY <1>2 DEF LandAttributed, Running, AllHot
    <2>2. step' # "recoverDay"
      BY <2>1, Beginning DEF IInv, JobsInv, LoadBegins, LoadReturns, Stays, Ends
    <2> QED
      BY <2>1, <2>2 DEF AllOrNone, NoneCorrected, AllCorrected
  <1>3. CASE Reconcile
    <2>1. /\ lakeAtt' = lakeAtt \cup recover(Days) /\ step = "recover"
          /\ job = "reconcile" /\ \E days : BeginLoad(days)
      BY <1>3 DEF Reconcile, Running
    <2>2. step' # "recoverDay"
      BY <2>1, Beginning DEF IInv, JobsInv, LoadBegins, LoadReturns, Stays, Ends
    <2>3. \A c \in Missed : ConvDay[c] \in Days
      BY TopicAssumption DEF Missed
    <2>4. CASE lakeAtt # {}
      <3>1. \A c \in Missed : Correction(c) \in lakeAtt'
        BY <2>1, <2>3, <2>4, WhatIsRecovered
      <3> QED
        BY <2>2, <3>1 DEF AllCorrections
    <2>5. CASE lakeAtt = {}
      BY <2>1, <2>2, <2>5, WhatIsRecovered
    <2> QED
      BY <2>4, <2>5
  <1>4. CASE ReconcileDay
    <2>1. /\ lakeAtt' = lakeAtt \cup recover({First(todo)}) /\ step = "recoverDay"
          /\ job = "dagster" /\ step' = step /\ todo' = todo \ {First(todo)}
      BY <1>4 DEF ReconcileDay, Running
    <2>2. {First(todo)} \in SUBSET Days
      BY <1>4, CalendarDays DEF ReconcileDay, IInv, TablesInv
    <2>3. CASE lakeAtt # {}
      <3>1. \A c \in Missed : ConvDay[c] = First(todo) => Correction(c) \in lakeAtt'
        BY <2>1, <2>2, <2>3, WhatIsRecovered
      <3> QED
        BY <2>1, <2>3, <3>1 DEF AllOrNone
    <2>4. CASE lakeAtt = {}
      BY <2>1, <2>2, <2>4, WhatIsRecovered
    <2> QED
      BY <2>3, <2>4
  <1>5. CASE StartDagster
    <2>1. /\ job = "idle" /\ lakeAtt' = lakeAtt /\ step' = "recoverDay"
          /\ todo' = touched_days(lake_candidates(Days))
      BY <1>5 DEF StartDagster, Start, lake
    <2>2. ASSUME lakeAtt # {}, NEW c \in Missed, Correction(c) \notin lakeAtt
          PROVE  ConvDay[c] \in todo'
      <3>1. step # "landAttributed"
        BY <2>1, JobOf DEF IInv, JobsInv
      <3>2. c \in Conversions /\ HotRow(c) \in lakeAtt /\ HotCredit[c] = {}
        BY <2>2, <3>1 DEF LakeByPhase, AllHot, Missed
      <3>3. ASSUME NEW q \in lakeAtt, q.conv = c  PROVE Supersedes(HotRow(c), q)
        <4>1. q = HotRow(c)
          BY <2>2, <3>3, LakeRow
        <4> QED
          BY <3>2, <4>1, HotRows DEF Supersedes
      <3>4. HotRow(c) \in lake_candidates(Days)
        BY <3>2, <3>3, HotRows, TopicAssumption DEF lake_candidates, Current
      <3> QED
        BY <2>1, <3>2, <3>4, HotRows DEF touched_days
    <2> QED
      BY <2>1, <2>2
  <1>6. CASE /\ lakeAtt' = lakeAtt
             /\ step' = "recoverDay" => (step = "recoverDay" /\ todo' = todo)
             /\ step = "recoverDay" /\ step' # step => todo = {}
    <2>1. CASE step' = "recoverDay"
      BY <1>6, <2>1 DEF AllOrNone
    <2>2. CASE step' # "recoverDay" /\ step # "recoverDay"
      BY <1>6, <2>2 DEF AllOrNone, NoneCorrected, AllCorrected
    <2>3. CASE step' # "recoverDay" /\ step = "recoverDay"
      BY <1>6, <2>3 DEF AllOrNone, AllCorrections
    <2> QED
      BY <2>1, <2>2, <2>3
  <1> QED
    BY <1>1, <1>2, <1>3, <1>4, <1>5, <1>6, LakeMoves, NoPartitionPass

----------------------------------------------------------------------------
(* The rollup the lake calls for.                                           *)

TopicRows == AllHot \cup AllCorrections

\* The version of a key is the greatest time among its rows, and 0 when it has
\* none.
IsVersion(v, k, E, L) ==
    /\ v \in Nat
    /\ \A e \in E : ExpKey[e] = k => ExpIngest[e] <= v
    /\ \A r \in L : \A e \in r.credited : ExpKey[e] = k => r.processed_at <= v
    /\ \/ v = 0
       \/ \E e \in E : ExpKey[e] = k /\ ExpIngest[e] = v
       \/ \E r \in L : \E e \in r.credited : ExpKey[e] = k /\ r.processed_at = v
    /\ v = 0 => RollupOf(k, E, L) = NoRollupRow

LEMMA VersionOfRollup ==
    ASSUME NEW k \in Keys, NEW E \in SUBSET Exposures, NEW L \in SUBSET TopicRows
    PROVE  IsVersion(RollupOf(k, E, L).version, k, E, L)
  <1> DEFINE X == {x \in E : ExpKey[x] = k}
             C == {r \in L : \E e \in r.credited : ExpKey[e] = k}
             S == {ExpIngest[e] : e \in X} \cup {r.processed_at : r \in C}
             v == RollupOf(k, E, L).version
  <1>1. /\ v = Greatest(S)
        /\ RollupOf(k, E, L) =
              [exposures |-> X, conversions |-> {r.conv : r \in C}, version |-> v]
    BY DEF RollupOf
  <1>2. \A e \in E : ExpIngest[e] \in Versions /\ ExpIngest[e] > 0
    BY TopicAssumption DEF Versions, Times
  <1>3. \A r \in L : r.processed_at \in Versions /\ r.processed_at > 0
    BY RowMade DEF TopicRows
  <1>4. S \in SUBSET Versions
    BY <1>2, <1>3
  <1>5. /\ v \in Nat /\ \A n \in S : n <= v
        /\ S # {} => v \in S
        /\ S = {} => v = 0
    <2> HIDE DEF S
    <2> QED
      BY <1>1, <1>4, VersionOf
  <1>6. v \in S => \/ \E e \in E : ExpKey[e] = k /\ ExpIngest[e] = v
                   \/ \E r \in L : \E e \in r.credited :
                         ExpKey[e] = k /\ r.processed_at = v
    OBVIOUS
  <1>7. v = 0 => RollupOf(k, E, L) = NoRollupRow
    <2>1. \A n \in S : n > 0
      BY <1>2, <1>3
    <2>2. v = 0 => S = {}
      BY <1>5, <2>1
    <2>3. S = {} => X = {} /\ C = {}
      OBVIOUS
    <2> QED
      BY <1>1, <2>2, <2>3 DEF NoRollupRow
  <1> QED
    BY <1>5, <1>6, <1>7 DEF IsVersion

LEMMA RollupGrows ==
    ASSUME NEW k \in Keys, NEW D \in SUBSET Exposures, NEW M \in SUBSET TopicRows,
           NEW E \in SUBSET D, NEW L \in SUBSET M
    PROVE  RollupOf(k, E, L).version <= RollupOf(k, D, M).version
  <1> DEFINE v == RollupOf(k, E, L).version
             w == RollupOf(k, D, M).version
  <1>1. E \in SUBSET Exposures /\ L \in SUBSET TopicRows
    OBVIOUS
  <1>2. IsVersion(v, k, E, L) /\ IsVersion(w, k, D, M)
    BY <1>1, VersionOfRollup
  <1> HIDE DEF v, w
  <1>3. v <= w
    BY <1>2 DEF IsVersion
  <1> QED
    BY <1>3 DEF v, w

\* What is landed, as the arguments of the lemmas above.
LEMMA Landed ==
    ASSUME LakeByPhase, OnlyReconcileDisturbed
    PROVE  lakeExp \in SUBSET Exposures /\ lakeAtt \in SUBSET TopicRows
  BY DEF LakeByPhase, TopicRows

LEMMA LakeVersion ==
    ASSUME LakeByPhase, OnlyReconcileDisturbed, NEW k \in Keys
    PROVE  /\ IsVersion(LakeRollup(k).version, k, lakeExp, lakeAtt)
           /\ LakeRollup(k).version = 0 => LakeRollup(k) = NoRollupRow
  <1>1. IsVersion(LakeRollup(k).version, k, lakeExp, lakeAtt)
    BY Landed, VersionOfRollup DEF LakeRollup
  <1> QED
    BY <1>1 DEF IsVersion, LakeRollup

\* Nothing is stamped before the hot rows are in, and what a reconciliation adds
\* to a key carries it above any stamp of it.
LEMMA StampsUnderLandings ==
    ASSUME IInv, LakeByPhase, LakeByPhase', RollupTyped, StampsTell,
           [Next]_vars, UNCHANGED rollup,
           step \in {"rollup_dirty", "rollup_refreshed"}
              => step' \in {"rollup_dirty", "rollup_refreshed"}
    PROVE  StampsTell'
  <1> SUFFICES ASSUME Guarded', NEW k \in Keys
               PROVE  LET new == RollupOf(k, lakeExp', lakeAtt')
                      IN /\ dirty[k] <= new.version /\ refreshed[k] <= new.version
                         /\ refreshed[k] <= Latest \/ AllCorrections \subseteq lakeAtt'
                         /\ ~(AllHot \subseteq lakeAtt') => refreshed[k] = 0
                         /\ \/ hourly[k] = NoRollupRow
                            \/ hourly[k].version \in 1 .. new.version
                         /\ (step \notin {"rollup_dirty", "rollup_refreshed"}
                               /\ refreshed[k] # 0 /\ refreshed[k] = new.version)
                               => hourly[k] = new
    BY DEF StampsTell, LakeRollup, AllCorrected, rollup
  <1> DEFINE old == RollupOf(k, lakeExp, lakeAtt)
             new == RollupOf(k, lakeExp', lakeAtt')
  <1>1. Guarded /\ OnlyReconcileDisturbed /\ OnlyReconcileDisturbed'
    BY TablesWritten, RegimeStays DEF Guarded, NeverKilled, IInv, TablesInv
  <1>2. /\ lakeExp \in SUBSET Exposures /\ lakeAtt \in SUBSET TopicRows
        /\ lakeExp' \in SUBSET Exposures /\ lakeAtt' \in SUBSET TopicRows
        /\ lakeExp \subseteq lakeExp' /\ lakeAtt \subseteq lakeAtt'
    BY <1>1, LakeGrows DEF LakeByPhase, TopicRows
  <1>3. /\ old.version \in Nat /\ new.version \in Nat /\ old.version <= new.version
        /\ \A r \in lakeAtt' : \A e \in r.credited :
              ExpKey[e] = k => r.processed_at <= new.version
    <2>1. old.version <= new.version
      BY <1>2, RollupGrows
    <2>2. /\ IsVersion(old.version, k, lakeExp, lakeAtt)
          /\ IsVersion(new.version, k, lakeExp', lakeAtt')
      BY <1>2, VersionOfRollup
    <2> HIDE DEF old, new
    <2> QED
      BY <2>1, <2>2 DEF IsVersion
  <1>4. /\ dirty[k] \in Nat /\ dirty[k] <= old.version
        /\ refreshed[k] \in Nat /\ refreshed[k] <= old.version
        /\ refreshed[k] <= Latest \/ AllCorrections \subseteq lakeAtt
        /\ ~(AllHot \subseteq lakeAtt) => refreshed[k] = 0
        /\ \/ hourly[k] = NoRollupRow
           \/ hourly[k].version \in 1 .. old.version
        /\ (step \notin {"rollup_dirty", "rollup_refreshed"} /\ refreshed[k] # 0
              /\ refreshed[k] = old.version)
              => hourly[k] = old
    BY <1>1 DEF RollupTyped, StampsTell, LakeRollup, AllCorrected
  <1> HIDE DEF old, new
  <1>5. ASSUME refreshed[k] # 0, refreshed[k] = new.version  PROVE new = old
    <2>1. AllHot \subseteq lakeAtt
      BY <1>4, <1>5
    <2>2. lakeExp = Exposures
      <3>1. CASE lakeExp = {} /\ lakeAtt = {}
        <4>1. IsVersion(old.version, k, {}, {})
          BY <1>2, <3>1, VersionOfRollup DEF old
        <4> QED
          BY <1>4, <1>5, <4>1 DEF IsVersion
      <3> QED
        BY <1>1, <3>1 DEF LakeByPhase
    <2>3. ASSUME NEW r \in lakeAtt', r \notin lakeAtt, NEW e \in r.credited,
                 ExpKey[e] = k
          PROVE  FALSE
      <3>1. r \in AllCorrections
        BY <1>1, <2>1, <2>3, LakeGrows
      <3>2. r.processed_at = Latest + Delta
        BY <3>1 DEF AllCorrections, Correction
      <3>3. refreshed[k] <= Latest
        BY <1>4, <2>3, <3>1
      <3>4. r.processed_at <= new.version
        BY <1>3, <2>3
      <3> QED
        BY <1>4, <1>5, <3>2, <3>3, <3>4, TimesBounded
    <2>4. lakeExp' = lakeExp
      BY <1>2, <2>2
    <2>5. {r \in lakeAtt' : \E e \in r.credited : ExpKey[e] = k}
             = {r \in lakeAtt : \E e \in r.credited : ExpKey[e] = k}
      BY <1>2, <2>3
    <2> QED
      BY <2>4, <2>5 DEF old, new, RollupOf
  <1>6. \/ hourly[k] = NoRollupRow
        \/ hourly[k].version \in 1 .. new.version
    BY <1>3, <1>4
  <1> QED
    BY <1>2, <1>3, <1>4, <1>5, <1>6 DEF old, new

\* When a load has recorded all it owes, a key is stamped with what it should
\* hold, and holds it unless it is dirty.
LEMMA SettledStamps ==
    ASSUME IInv, LakeByPhase, RollupTyped, StampsTell, Guarded, Owed({}, {}),
           step \notin {"rollup_dirty", "rollup_refreshed"}, NEW k \in Keys
    PROVE  /\ Rebuilt(k) = LakeRollup(k) /\ dirty[k] = LakeRollup(k).version
           /\ dirty[k] = 0 \/ dirty[k] = refreshed[k] => hourly[k] = LakeRollup(k)
           /\ dirty[k] # 0 => Recomputed(k) = LakeRollup(k)
  <1> DEFINE new == LakeRollup(k)
             v == new.version
  <1>1. OnlyReconcileDisturbed /\ Unserved({}, {}) /\ Unrecorded({}, {}, {})
    BY DEF Guarded, Owed
  <1>2. Rebuilt(k) = new
    BY <1>1, Settled
  <1>3. /\ v \in Nat
        /\ \/ v = 0
           \/ \E e \in lakeExp : ExpKey[e] = k /\ ExpIngest[e] = v
           \/ \E r \in lakeAtt : \E e \in r.credited : ExpKey[e] = k /\ r.processed_at = v
        /\ v = 0 => new = NoRollupRow
    <2>1. IsVersion(v, k, lakeExp, lakeAtt) /\ (v = 0 => new = NoRollupRow)
      BY <1>1, LakeVersion
    <2> HIDE DEF v, new
    <2> QED
      BY <2>1 DEF IsVersion
  <1>4. /\ dirty[k] \in Nat /\ dirty[k] <= v
        /\ refreshed[k] \in Nat
        /\ \/ hourly[k] = NoRollupRow
           \/ hourly[k].version \in 1 .. v
        /\ refreshed[k] # 0 /\ refreshed[k] = v => hourly[k] = new
    BY DEF RollupTyped, StampsTell
  <1> HIDE DEF v
  <1>5. dirty[k] = v
    <2>1. CASE \E e \in lakeExp : ExpKey[e] = k /\ ExpIngest[e] = v
      BY <1>1, <1>3, <1>4, <2>1 DEF Unrecorded
    <2>2. CASE \E r \in lakeAtt : \E e \in r.credited :
                  ExpKey[e] = k /\ r.processed_at = v
      BY <1>1, <1>3, <1>4, <2>2 DEF Unrecorded
    <2> QED
      BY <1>3, <1>4, <2>1, <2>2
  <1>6. dirty[k] = 0 \/ dirty[k] = refreshed[k] => hourly[k] = new
    BY <1>3, <1>4, <1>5
  <1>7. dirty[k] # 0 => Recomputed(k) = new
    <2>1. ~(v < hourly[k].version)
      <3>1. NoRollupRow.version = 0
        BY DEF NoRollupRow
      <3> QED
        BY <1>3, <1>4, <3>1
    <2>2. new.version = v
      BY DEF v
    <2> HIDE DEF new
    <2> QED
      BY <1>2, <1>5, <2>1, <2>2 DEF Recomputed
  <1> QED
    BY <1>2, <1>5, <1>6, <1>7 DEF v

\* The times a load records for a key are of rows of the lake under it.
LEMMA RecordedFromLake ==
    ASSUME IInv, LakeByPhase, OnlyReconcileDisturbed, NEW k \in Keys,
           NEW E \in SUBSET ExposuresOf(k), NEW C \in SUBSET CreditedTo(k),
           NEW S, S = {ExpIngest[e] : e \in E} \/ S = {r.processed_at : r \in C}
    PROVE  /\ Greatest(S) \in Nat /\ Greatest(S) <= LakeRollup(k).version
           /\ \A n \in S : n \in Nat /\ n <= Greatest(S)
  <1> DEFINE v == LakeRollup(k).version
  <1>1. /\ v \in Nat
        /\ \A e \in lakeExp : ExpKey[e] = k => ExpIngest[e] <= v
        /\ \A r \in lakeAtt : \A e \in r.credited : ExpKey[e] = k => r.processed_at <= v
    <2>1. IsVersion(v, k, lakeExp, lakeAtt)
      BY LakeVersion
    <2> HIDE DEF v
    <2> QED
      BY <2>1 DEF IsVersion
  <1> HIDE DEF v
  <1>2. ASSUME NEW n \in S  PROVE n \in Versions /\ n <= v
    <2>1. chExp \subseteq lakeExp /\ chAtt \subseteq lakeAtt /\ lakeExp \subseteq Exposures
      BY DEF IInv, TablesInv, DataOK
    <2>2. CASE \E e \in E : n = ExpIngest[e]
      BY <1>1, <2>1, <2>2 DEF ExposuresOf, Versions, Times
    <2>3. CASE \E r \in C : n = r.processed_at
      <3>1. PICK r \in C : n = r.processed_at
        BY <2>3
      <3>2. r \in lakeAtt /\ \E e \in r.credited : ExpKey[e] = k
        BY <2>1 DEF CreditedTo, ExposuresOf
      <3> QED
        BY <1>1, <3>1, <3>2, LakeRow
    <2> QED
      BY <2>2, <2>3
  <1>3. S \in SUBSET Versions
    BY <1>2
  <1>4. /\ Greatest(S) \in Nat /\ \A n \in S : n <= Greatest(S)
        /\ S # {} => Greatest(S) \in S
        /\ S = {} => Greatest(S) = 0
    BY <1>3, VersionOf
  <1> QED
    BY <1>1, <1>2, <1>3, <1>4, TimesBounded DEF v

\* A step that records versions raises those of its keys to what it records, and
\* none above the lake's.
LEMMA Recording ==
    ASSUME IInv, LakeByPhase, RollupTyped, StampsTell, Guarded,
           DirtyFromExposures \/ DirtyFromExposureCredits \/ DirtyFromAttributed
    PROVE  /\ dirty' \in [Keys -> Nat]
           /\ \A k \in Keys : dirty[k] <= dirty'[k] /\ dirty'[k] <= LakeRollup(k).version
           /\ DirtyFromExposures =>
                 \A k \in Keys : \A e \in ExposuresOf(k) :
                    ExpDay[e] = day => ExpIngest[e] <= dirty'[k]
           /\ DirtyFromExposureCredits =>
                 \A k \in Keys : \A r \in CreditedTo(k) :
                    \A e \in r.credited \cap ExposuresOf(k) :
                       ExpDay[e] = day => r.processed_at <= dirty'[k]
           /\ DirtyFromAttributed =>
                 \A k \in Keys : \A r \in CreditedTo(k) :
                    ConvDay[r.conv] = day => r.processed_at <= dirty'[k]
  <1>1. /\ OnlyReconcileDisturbed /\ dirty \in [Keys -> Nat]
        /\ \A k \in Keys : dirty[k] <= LakeRollup(k).version
    BY DEF Guarded, RollupTyped, StampsTell
  <1>2. ASSUME NEW version, Record(version),
               \A k \in Keys : /\ version[k] \in Nat
                               /\ version[k] <= LakeRollup(k).version
        PROVE  /\ dirty' \in [Keys -> Nat]
               /\ \A k \in Keys : /\ dirty[k] <= dirty'[k] /\ version[k] <= dirty'[k]
                                  /\ dirty'[k] <= LakeRollup(k).version
    BY <1>1, <1>2 DEF Record, Larger
  <1>3. CASE DirtyFromExposures
    <2> DEFINE E(k) == {x \in ExposuresOf(k) : ExpDay[x] = day}
               S(k) == {ExpIngest[e] : e \in E(k)}
               version == [k \in Keys |-> Greatest(S(k))]
    <2>1. Record(version)
      BY <1>3 DEF DirtyFromExposures
    <2>2. ASSUME NEW k \in Keys
          PROVE  /\ Greatest(S(k)) \in Nat /\ Greatest(S(k)) <= LakeRollup(k).version
                 /\ \A n \in S(k) : n <= Greatest(S(k))
      <3>1. E(k) \in SUBSET ExposuresOf(k)
        OBVIOUS
      <3> QED
        BY <1>1, <3>1, RecordedFromLake
    <2>3. \A k \in Keys : version[k] = Greatest(S(k))
      OBVIOUS
    <2>4. \A k \in Keys : \A e \in ExposuresOf(k) :
             ExpDay[e] = day => ExpIngest[e] \in S(k) /\ ExpIngest[e] \in Nat
      BY TopicAssumption DEF ExposuresOf, IInv, TablesInv, DataOK
    <2> HIDE DEF S, version
    <2>5. /\ dirty' \in [Keys -> Nat]
          /\ \A k \in Keys : /\ dirty[k] <= dirty'[k] /\ version[k] <= dirty'[k]
                             /\ dirty'[k] <= LakeRollup(k).version
      BY <1>2, <2>1, <2>2, <2>3
    <2>6. ASSUME NEW k \in Keys, NEW e \in ExposuresOf(k), ExpDay[e] = day
          PROVE  ExpIngest[e] <= dirty'[k]
      BY <2>2, <2>3, <2>4, <2>5, <2>6
    <2>7. ~DirtyFromExposureCredits /\ ~DirtyFromAttributed
      BY <1>3 DEF DirtyFromExposures, DirtyFromExposureCredits, DirtyFromAttributed
    <2> QED
      BY <2>5, <2>6, <2>7
  <1>4. CASE DirtyFromExposureCredits
    <2> DEFINE C(k) == {q \in CreditedTo(k) :
                          \E e \in q.credited \cap ExposuresOf(k) : ExpDay[e] = day}
               S(k) == {r.processed_at : r \in C(k)}
               version == [k \in Keys |-> Greatest(S(k))]
    <2>1. Record(version)
      BY <1>4 DEF DirtyFromExposureCredits
    <2>2. ASSUME NEW k \in Keys
          PROVE  /\ Greatest(S(k)) \in Nat /\ Greatest(S(k)) <= LakeRollup(k).version
                 /\ \A n \in S(k) : n \in Nat /\ n <= Greatest(S(k))
      <3>1. C(k) \in SUBSET CreditedTo(k)
        OBVIOUS
      <3> QED
        BY <1>1, <3>1, RecordedFromLake
    <2>3. \A k \in Keys : version[k] = Greatest(S(k))
      OBVIOUS
    <2>4. \A k \in Keys : \A r \in CreditedTo(k) :
             \A e \in r.credited \cap ExposuresOf(k) :
                ExpDay[e] = day => r.processed_at \in S(k)
      OBVIOUS
    <2> HIDE DEF S, version
    <2>5. /\ dirty' \in [Keys -> Nat]
          /\ \A k \in Keys : /\ dirty[k] <= dirty'[k] /\ version[k] <= dirty'[k]
                             /\ dirty'[k] <= LakeRollup(k).version
      BY <1>2, <2>1, <2>2, <2>3
    <2>6. ASSUME NEW k \in Keys, NEW r \in CreditedTo(k),
                 NEW e \in r.credited \cap ExposuresOf(k), ExpDay[e] = day
          PROVE  r.processed_at <= dirty'[k]
      BY <2>2, <2>3, <2>4, <2>5, <2>6
    <2>7. ~DirtyFromExposures /\ ~DirtyFromAttributed
      BY <1>4 DEF DirtyFromExposures, DirtyFromExposureCredits, DirtyFromAttributed
    <2> QED
      BY <2>5, <2>6, <2>7
  <1>5. CASE DirtyFromAttributed
    <2> DEFINE C(k) == {q \in CreditedTo(k) : ConvDay[q.conv] = day}
               S(k) == {r.processed_at : r \in C(k)}
               version == [k \in Keys |-> Greatest(S(k))]
    <2>1. Record(version)
      BY <1>5 DEF DirtyFromAttributed
    <2>2. ASSUME NEW k \in Keys
          PROVE  /\ Greatest(S(k)) \in Nat /\ Greatest(S(k)) <= LakeRollup(k).version
                 /\ \A n \in S(k) : n \in Nat /\ n <= Greatest(S(k))
      <3>1. C(k) \in SUBSET CreditedTo(k)
        OBVIOUS
      <3> QED
        BY <1>1, <3>1, RecordedFromLake
    <2>3. \A k \in Keys : version[k] = Greatest(S(k))
      OBVIOUS
    <2>4. \A k \in Keys : \A r \in CreditedTo(k) :
             ConvDay[r.conv] = day => r.processed_at \in S(k)
      OBVIOUS
    <2> HIDE DEF S, version
    <2>5. /\ dirty' \in [Keys -> Nat]
          /\ \A k \in Keys : /\ dirty[k] <= dirty'[k] /\ version[k] <= dirty'[k]
                             /\ dirty'[k] <= LakeRollup(k).version
      BY <1>2, <2>1, <2>2, <2>3
    <2>6. ASSUME NEW k \in Keys, NEW r \in CreditedTo(k), ConvDay[r.conv] = day
          PROVE  r.processed_at <= dirty'[k]
      BY <2>2, <2>3, <2>4, <2>5, <2>6
    <2>7. ~DirtyFromExposures /\ ~DirtyFromExposureCredits
      BY <1>5 DEF DirtyFromExposures, DirtyFromExposureCredits, DirtyFromAttributed
    <2> QED
      BY <2>5, <2>6, <2>7
  <1> QED
    BY <1>3, <1>4, <1>5

----------------------------------------------------------------------------
(* The stamps, step by step.                                                *)

LEMMA GuardedStays ==
    ASSUME regime' = regime
    PROVE  (Guarded' <=> Guarded) /\ (NeverKilled' <=> NeverKilled)
  BY RegimeStays DEF Guarded, NeverKilled

LEMMA RecordsNext ==
    ASSUME IInv, LakeByPhase, RollupTyped, StampsTell,
           DirtyFromExposures \/ DirtyFromExposureCredits \/ DirtyFromAttributed
    PROVE  RollupTyped' /\ StampsTell'
  <1>1. /\ regime' = regime /\ lakeExp' = lakeExp /\ lakeAtt' = lakeAtt
        /\ hourly' = hourly /\ refreshed' = refreshed
        /\ job' = job /\ step' # "stamp" /\ touched' = touched /\ step \in LoadSteps
    BY DEF DirtyFromExposures, DirtyFromExposureCredits, DirtyFromAttributed, lake, GoTo,
       NextDay, LoadSteps
  <1>2. step \notin {"rollup_dirty", "rollup_refreshed"} /\ job # "idle"
    BY <1>1, JobOf DEF LoadSteps, IInv, JobsInv
  <1>3. CASE ~Guarded
    BY <1>1, <1>3, GuardedStays DEF RollupTyped, StampsTell
  <1>4. CASE Guarded
    <2>1. /\ dirty' \in [Keys -> Nat]
          /\ \A k \in Keys : dirty'[k] <= LakeRollup(k).version
      BY <1>4, Recording
    <2>2. \A k \in Keys : LakeRollup(k)' = LakeRollup(k)
      BY <1>1 DEF LakeRollup
    <2>3. RollupTyped'
      BY <1>1, <1>2, <1>4, <2>1 DEF RollupTyped
    <2>4. AllCorrected' <=> AllCorrected
      BY <1>1 DEF AllCorrected
    <2>5. StampsTell'
      BY <1>1, <1>2, <1>4, <2>1, <2>2, <2>4 DEF StampsTell
    <2> QED
      BY <2>3, <2>5
  <1> QED
    BY <1>3, <1>4

\* The refresh leaves every key with what it should hold.
LEMMA RefreshNext ==
    ASSUME IInv, LakeByPhase, RollupTyped, StampsTell, LoadRecords, Refresh
    PROVE  RollupTyped' /\ StampsTell' /\ (Guarded => RollupIsFresh')
  <1>1. /\ regime' = regime /\ lakeExp' = lakeExp /\ lakeAtt' = lakeAtt
        /\ chExp' = chExp /\ chAtt' = chAtt /\ dirty' = dirty /\ refreshed' = refreshed
        /\ job' = job /\ step = "refresh" /\ step' = "stamp" /\ touched' = touched
        /\ stamps' = dirty_keys
        /\ hourly' = [k \in Keys |-> IF \E v \in dirty_keys : v[1] = k
                                     THEN Recomputed(k) ELSE hourly[k]]
    BY DEF Refresh, lake
  <1>2. job # "idle"
    BY <1>1, JobOf DEF IInv, JobsInv
  <1>3. CASE ~Guarded
    BY <1>1, <1>3, GuardedStays DEF RollupTyped, StampsTell
  <1>4. CASE Guarded
    <2>1. Owed({}, {})
      BY <1>1, <1>4 DEF LoadRecords
    <2>2. ASSUME NEW k \in Keys
          PROVE  /\ Rebuilt(k) = LakeRollup(k) /\ dirty[k] = LakeRollup(k).version
                 /\ dirty[k] = 0 \/ dirty[k] = refreshed[k] => hourly[k] = LakeRollup(k)
                 /\ dirty[k] # 0 => Recomputed(k) = LakeRollup(k)
      BY <1>1, <1>4, <2>1, SettledStamps
    <2>3. ASSUME NEW k \in Keys  PROVE hourly'[k] = LakeRollup(k)
      <3>1. (\E v \in dirty_keys : v[1] = k) <=> dirty[k] # 0 /\ dirty[k] # refreshed[k]
        <4>1. ASSUME NEW v \in dirty_keys, v[1] = k
              PROVE  dirty[k] # 0 /\ dirty[k] # refreshed[k]
          BY <4>1 DEF dirty_keys
        <4>2. dirty[k] # 0 /\ dirty[k] # refreshed[k] => <<k, dirty[k]>> \in dirty_keys
          BY DEF dirty_keys
        <4> QED
          BY <4>1, <4>2
      <3> QED
        BY <1>1, <2>2, <3>1
    <2>4. \A k \in Keys : LakeRollup(k)' = LakeRollup(k) /\ Rebuilt(k)' = Rebuilt(k)
      BY <1>1 DEF LakeRollup, Rebuilt, ExposuresOf, CreditedTo
    <2>5. RollupTyped'
      <3>1. \A v \in stamps' : v[2] = dirty[v[1]]
        BY <1>1 DEF dirty_keys
      <3> QED
        BY <1>1, <1>2, <1>4, <3>1 DEF RollupTyped
    <2>6. ASSUME NEW k \in Keys
          PROVE  hourly'[k] = NoRollupRow \/ hourly'[k].version \in 1 .. LakeRollup(k).version
      <3>1. LakeRollup(k).version \in Nat
        BY <1>4, <2>2 DEF RollupTyped
      <3>2. LakeRollup(k).version = 0 => LakeRollup(k) = NoRollupRow
        BY <1>4, LakeVersion DEF Guarded
      <3> QED
        BY <2>3, <3>1, <3>2
    <2>7. AllCorrected' <=> AllCorrected
      BY <1>1 DEF AllCorrected
    <2>8. StampsTell'
      BY <1>1, <1>4, <2>3, <2>4, <2>6, <2>7 DEF StampsTell
    <2>9. RollupIsFresh'
      BY <2>2, <2>3, <2>4 DEF RollupIsFresh
    <2> QED
      BY <2>5, <2>8, <2>9
  <1> QED
    BY <1>3, <1>4

\* The stamps of the refresh are the versions of what it left.
LEMMA StampNext ==
    ASSUME IInv, LakeByPhase, AllOrNone, RollupTyped, StampsTell, LoadRecords,
           FreshBetween, StampRefreshed
    PROVE  RollupTyped' /\ StampsTell'
  <1>1. /\ regime' = regime /\ lakeExp' = lakeExp /\ lakeAtt' = lakeAtt
        /\ chExp' = chExp /\ chAtt' = chAtt /\ dirty' = dirty /\ hourly' = hourly
        /\ step = "stamp" /\ AfterLoad
        /\ refreshed' = [k \in Keys |->
              Greatest({refreshed[k]} \cup {v[2] : v \in {w \in stamps : w[1] = k}})]
    BY DEF StampRefreshed, lake
  <1>2. job # "idle"
    BY <1>1, JobOf DEF IInv, JobsInv
  <1>3. /\ step' # "stamp"
        /\ job' = "idle" => touched' = {}
        /\ job' = "load" => job = "load"
    <2>1. LoadReturns
      BY <1>1, <1>2, Returning DEF IInv, JobsInv
    <2> QED
      BY <1>2, <2>1 DEF LoadReturns, Stays, Ends
  <1>4. CASE ~Guarded
    BY <1>1, <1>4, GuardedStays DEF RollupTyped, StampsTell
  <1>5. CASE Guarded
    <2>1. Owed({}, {}) /\ RollupIsFresh /\ OnlyReconcileDisturbed
      BY <1>1, <1>5 DEF LoadRecords, FreshBetween, Guarded
    <2>2. ASSUME NEW k \in Keys
          PROVE  /\ dirty[k] \in Nat /\ dirty[k] = LakeRollup(k).version
                 /\ hourly[k] = LakeRollup(k)
                 /\ refreshed[k] \in Nat /\ refreshed[k] <= LakeRollup(k).version
      <3>1. Rebuilt(k) = LakeRollup(k) /\ dirty[k] = LakeRollup(k).version
        BY <1>1, <1>5, <2>1, SettledStamps
      <3> QED
        BY <1>5, <2>1, <3>1 DEF RollupIsFresh, RollupTyped, StampsTell
    <2>3. ASSUME NEW k \in Keys
          PROVE  refreshed'[k] \in {refreshed[k], dirty[k]}
      <3> DEFINE T == {refreshed[k]} \cup {v[2] : v \in {w \in stamps : w[1] = k}}
      <3>1. T \subseteq {refreshed[k], dirty[k]}
        BY <1>1, <1>5 DEF RollupTyped
      <3>2. IsFiniteSet(T)
        <4>1. IsFiniteSet({refreshed[k], dirty[k]})
          <5>1. {refreshed[k], dirty[k]} = {refreshed[k]} \cup {dirty[k]}
            OBVIOUS
          <5>2. IsFiniteSet({refreshed[k]})
            BY FS_Singleton
          <5> QED
            BY <5>1, <5>2, FS_AddElement
        <4> HIDE DEF T
        <4> QED
          BY <3>1, <4>1, FS_Subset
      <3>3. T \in SUBSET Nat
        BY <2>2, <3>1
      <3>4. T # {} /\ refreshed'[k] = Greatest(T)
        BY <1>1
      <3> HIDE DEF T
      <3> QED
        BY <3>1, <3>2, <3>3, <3>4, GreatestOf
    <2>4. refreshed' \in [Keys -> Nat]
      <3> HIDE DEF Greatest
      <3>1. \A k \in Keys : refreshed'[k] \in Nat
        BY <2>2, <2>3
      <3> QED
        BY <1>1, <3>1
    <2>5. RollupTyped'
      BY <1>1, <1>3, <1>5, <2>4 DEF RollupTyped
    <2>6. \A k \in Keys : LakeRollup(k)' = LakeRollup(k)
      BY <1>1 DEF LakeRollup
    <2>7. AllCorrected' <=> AllCorrected
      BY <1>1 DEF AllCorrected
    <2>8. ASSUME NEW k \in Keys
          PROVE  /\ refreshed'[k] <= LakeRollup(k).version
                 /\ refreshed'[k] <= Latest \/ AllCorrected
                 /\ ~(AllHot \subseteq lakeAtt) => refreshed'[k] = 0
      <3> DEFINE v == LakeRollup(k).version
      <3>1. /\ v \in Nat /\ dirty[k] = v /\ refreshed[k] <= v /\ refreshed[k] \in Nat
            /\ refreshed'[k] \in {refreshed[k], v}
        BY <2>2, <2>3
      <3>2. /\ \/ v = 0
               \/ \E e \in lakeExp : ExpKey[e] = k /\ ExpIngest[e] = v
               \/ \E r \in lakeAtt : \E e \in r.credited :
                     ExpKey[e] = k /\ r.processed_at = v
        <4>1. IsVersion(v, k, lakeExp, lakeAtt)
          BY <2>1, LakeVersion
        <4> HIDE DEF v
        <4> QED
          BY <4>1 DEF IsVersion
      <3> HIDE DEF v
      <3>3. NoneCorrected => v <= Latest
        <4>1. \A e \in lakeExp : ExpIngest[e] <= Latest
          BY <2>1, Landed, TimesBounded DEF Times
        <4>2. NoneCorrected => \A r \in lakeAtt : r.processed_at <= Latest
          BY HotRows, TimesBounded DEF NoneCorrected, AllHot, Times
        <4> QED
          BY <3>1, <3>2, <4>1, <4>2, TimesBounded
      <3>4. NoneCorrected \/ AllCorrected
        BY <1>1, <2>1 DEF AllOrNone
      <3>5. ASSUME ~(AllHot \subseteq lakeAtt)  PROVE v = 0
        <4>1. lakeExp = {} /\ lakeAtt = {}
          BY <1>1, <2>1, <3>5 DEF LakeByPhase
        <4> QED
          BY <3>2, <4>1
      <3>6. /\ refreshed[k] <= Latest \/ AllCorrected
            /\ ~(AllHot \subseteq lakeAtt) => refreshed[k] = 0
        BY <1>5 DEF StampsTell
      <3> QED
        BY <3>1, <3>3, <3>4, <3>5, <3>6 DEF v
    <2>9. StampsTell'
      BY <1>1, <1>5, <2>2, <2>6, <2>7, <2>8 DEF StampsTell
    <2> QED
      BY <2>5, <2>9
  <1> QED
    BY <1>4, <1>5

\* A replay empties the rollup before its stamps, so that no stamp is left that
\* an empty row could be taken to match.
LEMMA TruncatesNext ==
    ASSUME IInv, LakeByPhase, RollupTyped, StampsTell,
           NEW i \in DOMAIN SERVING_TABLES, Truncate(i)
    PROVE  RollupTyped' /\ StampsTell'
  <1>1. /\ i \in 1..6 /\ Len(SERVING_TABLES) = 6
        /\ SERVING_TABLES[1] = "exposures_landed"
        /\ SERVING_TABLES[2] = "attributed_conversions"
        /\ SERVING_TABLES[3] = "eval_meta" /\ SERVING_TABLES[4] = "campaign_hourly"
        /\ SERVING_TABLES[5] = "rollup_dirty" /\ SERVING_TABLES[6] = "rollup_refreshed"
    BY DEF SERVING_TABLES
  <1>2. /\ regime' = regime /\ lakeExp' = lakeExp /\ lakeAtt' = lakeAtt
        /\ job = "replay" /\ step = SERVING_TABLES[i]
        /\ hourly' = IF step = "campaign_hourly"
                     THEN [k \in Keys |-> NoRollupRow] ELSE hourly
        /\ dirty' = IF step = "rollup_dirty" THEN [k \in Keys |-> 0] ELSE dirty
        /\ refreshed' = IF step = "rollup_refreshed"
                        THEN [k \in Keys |-> 0] ELSE refreshed
    BY DEF Truncate, Running, lake
  <1>3. \/ i < 6 /\ step' = SERVING_TABLES[i + 1] /\ job' = job
        \/ i = 6 /\ LoadBegins(todo)
    BY <1>1, <1>2, Beginning DEF Truncate, GoTo, IInv, JobsInv
  <1>4. /\ step' # "stamp"
        /\ job' = "idle" => touched' = {}
        /\ job' # "load"
        /\ i = 6 \/ i < 4 => step' \notin {"rollup_dirty", "rollup_refreshed"}
        /\ i = 4 => step' = "rollup_dirty"
        /\ i = 5 => step' = "rollup_refreshed"
    BY <1>1, <1>2, <1>3 DEF LoadBegins, LoadReturns, Stays, Ends
  <1>5. CASE ~Guarded
    BY <1>2, <1>5, GuardedStays DEF RollupTyped, StampsTell
  <1>6. CASE Guarded
    <2>1. RollupTyped'
      BY <1>2, <1>4, <1>6 DEF RollupTyped
    <2>2. \A k \in Keys : LakeRollup(k)' = LakeRollup(k)
      BY <1>2 DEF LakeRollup
    <2>3. AllCorrected' <=> AllCorrected
      BY <1>2 DEF AllCorrected
    <2>4. ASSUME NEW k \in Keys
          PROVE  /\ LakeRollup(k).version \in Nat /\ Latest \in Nat
                 /\ dirty[k] \in Nat /\ refreshed[k] \in Nat
      BY <1>6, LakeVersion, TimesBounded DEF IsVersion, Guarded, RollupTyped
    <2>5. ASSUME NEW k \in Keys
          PROVE  LET v == LakeRollup(k).version
                 IN /\ dirty'[k] <= v /\ refreshed'[k] <= v
                    /\ refreshed'[k] <= Latest \/ AllCorrected
                    /\ ~(AllHot \subseteq lakeAtt) => refreshed'[k] = 0
                    /\ hourly'[k] = NoRollupRow \/ hourly'[k].version \in 1 .. v
                    /\ (step' \notin {"rollup_dirty", "rollup_refreshed"}
                          /\ refreshed'[k] # 0 /\ refreshed'[k] = v)
                          => hourly'[k] = LakeRollup(k)
      <3> DEFINE v == LakeRollup(k).version
      <3>1. /\ dirty[k] <= v /\ refreshed[k] <= v
            /\ refreshed[k] <= Latest \/ AllCorrected
            /\ ~(AllHot \subseteq lakeAtt) => refreshed[k] = 0
            /\ hourly[k] = NoRollupRow \/ hourly[k].version \in 1 .. v
            /\ (step \notin {"rollup_dirty", "rollup_refreshed"}
                  /\ refreshed[k] # 0 /\ refreshed[k] = v)
                  => hourly[k] = LakeRollup(k)
        BY <1>6 DEF StampsTell
      <3>2. v \in Nat /\ Latest \in Nat /\ dirty[k] \in Nat /\ refreshed[k] \in Nat
        BY <2>4
      <3> HIDE DEF v
      <3>3. CASE i < 4
        <4>1. /\ hourly' = hourly /\ dirty' = dirty /\ refreshed' = refreshed
              /\ step \notin {"rollup_dirty", "rollup_refreshed"}
          BY <1>1, <1>2, <3>3
        <4> QED
          BY <3>1, <4>1 DEF v
      <3>4. CASE i = 4
        <4>1. /\ hourly'[k] = NoRollupRow /\ dirty' = dirty /\ refreshed' = refreshed
          BY <1>1, <1>2, <3>4
        <4> QED
          BY <1>4, <3>1, <3>4, <4>1 DEF v
      <3>5. CASE i = 5
        <4>1. /\ hourly' = hourly /\ dirty'[k] = 0 /\ refreshed' = refreshed
          BY <1>1, <1>2, <3>5
        <4> QED
          BY <1>4, <3>1, <3>2, <3>5, <4>1 DEF v
      <3>6. CASE i = 6
        <4>1. /\ hourly' = hourly /\ dirty' = dirty /\ refreshed'[k] = 0
          BY <1>1, <1>2, <3>6
        <4> QED
          BY <3>1, <3>2, <4>1 DEF v
      <3> QED
        BY <1>1, <3>3, <3>4, <3>5, <3>6
    <2>6. StampsTell'
      BY <1>2, <1>6, <2>2, <2>3, <2>5 DEF StampsTell
    <2> QED
      BY <2>1, <2>6
  <1> QED
    BY <1>5, <1>6

\* The steps that write neither the rollup nor its stamps.
Apart ==
    \/ StartEngine \/ StartReconcile \/ StartDagster \/ StartLoad \/ StartReplay
    \/ LandExposures \/ LandAttributed \/ Reconcile \/ ReconcileDay
    \/ EveryDayReconciled \/ LoadDays \/ InsertExposures \/ InsertAttributed
    \/ NothingDirty \/ SnapshotPre \/ SnapshotPost \/ WriteMarker
    \/ Crash \/ CrashInExposures \/ CrashInAttributed \/ UNCHANGED vars

LEMMA ApartOf ==
    ASSUME IInv, OnlyReconcileDisturbed, Apart
    PROVE  /\ UNCHANGED rollup
           /\ step \in {"rollup_dirty", "rollup_refreshed"} => step' = step
           /\ job' = "idle" => touched' = {} \/ (job = "idle" /\ touched' = touched)
           /\ step' = "stamp" => step = "stamp" /\ stamps' = stamps
           /\ job' = "load" => job = "load" \/ "load" \in regime.jobs
  <1> USE DEF IInv, JobsInv
  <1>1. CASE StartEngine \/ StartReconcile \/ StartDagster \/ StartLoad \/ StartReplay
    <2>1. /\ job = "idle" /\ UNCHANGED rollup /\ step' # "stamp"
          /\ job' \in regime.jobs /\ job' # "idle"
      BY <1>1 DEF StartEngine, StartReconcile, StartDagster, StartLoad, StartReplay, Start,
         serving, rollup, SERVING_TABLES
    <2> QED
      BY <2>1, JobOf
  <1>2. CASE LandExposures \/ ReconcileDay
    BY <1>2 DEF LandExposures, ReconcileDay, Running, GoTo, serving, rollup
  <1>3. CASE LandAttributed \/ Reconcile \/ EveryDayReconciled \/ LoadDays
    <2>1. /\ UNCHANGED rollup /\ job # "idle" /\ \E days : BeginLoad(days)
          /\ step \notin {"rollup_dirty", "rollup_refreshed"}
      BY <1>3 DEF LandAttributed, Reconcile, EveryDayReconciled, LoadDays, Running,
         serving, rollup
    <2>2. \E days : LoadBegins(days)
      BY <2>1, Beginning
    <2> QED
      BY <2>1, <2>2 DEF LoadBegins, LoadReturns, Stays, Ends
  <1>4. CASE InsertExposures \/ InsertAttributed \/ SnapshotPre
    <2>1. /\ UNCHANGED rollup /\ job' = job
          /\ step \in LoadSteps \cup {"snapshotPre"}
          /\ step' \in {"dirtyExposures", "dirtyAttributed", "snapshotPost"}
      BY <1>4 DEF InsertExposures, InsertAttributed, SnapshotPre, GoTo, LoadSteps
    <2> QED
      BY <2>1, JobOf DEF LoadSteps
  <1>5. CASE NothingDirty
    <2>1. UNCHANGED rollup /\ step = "refresh" /\ AfterLoad
      BY <1>5 DEF NothingDirty, serving, rollup
    <2>2. LoadReturns /\ job # "idle"
      BY <2>1, JobOf, Returning
    <2> QED
      BY <2>1, <2>2 DEF LoadReturns, Stays, Ends
  <1>6. CASE SnapshotPost \/ WriteMarker
    <2>1. /\ UNCHANGED rollup /\ step \in {"snapshotPost", "mark"}
          /\ step' \in {"none", "mark"} /\ job' \in {job, "idle"}
          /\ job' = "idle" => touched' = {} \/ job = "idle"
      BY <1>6 DEF SnapshotPost, WriteMarker, GoTo, End
    <2> QED
      BY <2>1, JobOf
  <1>7. CASE Crash \/ CrashInExposures \/ CrashInAttributed
    <2>1. /\ UNCHANGED rollup /\ step' = "none" /\ touched' = {}
          /\ job = "reconcile" /\ job' = "idle"
      BY <1>7, NeverHere DEF Crash, CrashInExposures, CrashInAttributed, End, serving,
         rollup
    <2> QED
      BY <2>1 DEF ControlOK, StepsOf, LoadSteps
  <1>8. CASE UNCHANGED vars
    BY <1>8 DEF vars, rollup
  <1> QED
    BY <1>1, <1>2, <1>3, <1>4, <1>5, <1>6, <1>7, <1>8 DEF Apart

LEMMA ApartNext ==
    ASSUME IInv, LakeByPhase, LakeByPhase', RollupTyped, StampsTell,
           [Next]_vars, Apart
    PROVE  RollupTyped' /\ StampsTell'
  <1>1. regime' = regime
    BY TablesWritten DEF IInv, TablesInv
  <1>2. CASE ~Guarded
    BY <1>1, <1>2, GuardedStays DEF RollupTyped, StampsTell
  <1>3. CASE Guarded
    <2>1. /\ UNCHANGED rollup
          /\ step \in {"rollup_dirty", "rollup_refreshed"} => step' = step
          /\ job' = "idle" => touched' = {} \/ (job = "idle" /\ touched' = touched)
          /\ step' = "stamp" => step = "stamp" /\ stamps' = stamps
          /\ job' = "load" => job = "load" \/ "load" \in regime.jobs
      BY <1>3, ApartOf DEF Guarded
    <2>2. RollupTyped'
      BY <1>1, <1>3, <2>1 DEF RollupTyped, rollup
    <2>3. StampsTell'
      BY <2>1, StampsUnderLandings
    <2> QED
      BY <2>2, <2>3
  <1> QED
    BY <1>2, <1>3

LEMMA StampsNext ==
    ASSUME NoPartitions, IInv, LakeByPhase, LakeByPhase', AllOrNone, RollupTyped,
           StampsTell, LoadRecords, FreshBetween, [Next]_vars
    PROVE  RollupTyped' /\ StampsTell'
  <1>1. CASE ~Guarded
    <2>1. regime' = regime
      BY TablesWritten DEF IInv, TablesInv
    <2> QED
      BY <1>1, <2>1, GuardedStays DEF RollupTyped, StampsTell
  <1>2. CASE Guarded
    <2>1. ~Down /\ ~UnknownPartition /\ ~StartDagsterPartition
      BY <1>2, NeverHere, NoPartitionPass DEF Guarded
    <2> QED
      BY <2>1, ApartNext, RecordsNext, RefreshNext, StampNext, TruncatesNext
         DEF Next, Apart
  <1> QED
    BY <1>1, <1>2

----------------------------------------------------------------------------
(* What a load has recorded, step by step.                                  *)

\* Unrecorded and Owed, after the step.
UnrecordedAfter(expDays, creditDays, attDays) ==
    /\ \A e \in lakeExp' : ExpDay[e] \in expDays \/ ExpIngest[e] <= dirty'[ExpKey[e]]
    /\ \A r \in lakeAtt' : \A e \in r.credited :
          \/ ExpDay[e] \in creditDays
          \/ ConvDay[r.conv] \in attDays
          \/ r.processed_at <= dirty'[ExpKey[e]]

OwedAfter(expDays, attDays) ==
    UnservedAfter(expDays, attDays) /\ UnrecordedAfter(expDays, expDays, attDays)

\* The invariants of the next state, in these terms.
LEMMA AfterRecording ==
    /\ Unrecorded(todo, todo, todo)' <=> UnrecordedAfter(todo', todo', todo')
    /\ Unrecorded(todo \ {day}, todo, todo)'
          <=> UnrecordedAfter(todo' \ {day'}, todo', todo')
    /\ Unrecorded(todo \ {day}, todo \ {day}, todo)'
          <=> UnrecordedAfter(todo' \ {day'}, todo' \ {day'}, todo')
    /\ Owed(todo, todo)' <=> OwedAfter(todo', todo')
    /\ Owed(todo \ {day}, todo)' <=> OwedAfter(todo' \ {day'}, todo')
    /\ Owed({}, {})' <=> OwedAfter({}, {})
    /\ Owed({}, touched)' <=> OwedAfter({}, touched')
    /\ NoneCorrected' <=> lakeAtt' \subseteq AllHot
    /\ AllCorrected' <=> AllCorrections \subseteq lakeAtt'
  BY DEF Unserved, UnservedAfter, Unrecorded, UnrecordedAfter, Owed, OwedAfter,
     NoneCorrected, AllCorrected

\* What is recorded stays so while the lake rests and no stamp falls.
LEMMA RecordsCarried ==
    ASSUME LakeByPhase, OnlyReconcileDisturbed, lakeExp' = lakeExp, lakeAtt' = lakeAtt,
           \A k \in Keys : /\ dirty[k] \in Nat /\ dirty'[k] \in Nat
                           /\ dirty[k] <= dirty'[k]
    PROVE  \A expDays, creditDays, attDays :
              Unrecorded(expDays, creditDays, attDays)
                 => UnrecordedAfter(expDays, creditDays, attDays)
  <1>1. \A e \in lakeExp : ExpKey[e] \in Keys /\ ExpIngest[e] \in Nat
    BY Landed, TopicAssumption
  <1>2. \A r \in lakeAtt : /\ r.processed_at \in Nat
                           /\ \A e \in r.credited : ExpKey[e] \in Keys
    BY LakeRow, TopicAssumption, TimesBounded
  <1>3. ASSUME NEW expDays, NEW creditDays, NEW attDays,
               Unrecorded(expDays, creditDays, attDays)
        PROVE  UnrecordedAfter(expDays, creditDays, attDays)
    <2>1. ASSUME NEW e \in lakeExp, ExpDay[e] \notin expDays
          PROVE  ExpIngest[e] <= dirty'[ExpKey[e]]
      <3>1. ExpIngest[e] <= dirty[ExpKey[e]]
        BY <1>3, <2>1 DEF Unrecorded
      <3> QED
        BY <1>1, <3>1
    <2>2. ASSUME NEW r \in lakeAtt, NEW e \in r.credited, ExpDay[e] \notin creditDays,
                 ConvDay[r.conv] \notin attDays
          PROVE  r.processed_at <= dirty'[ExpKey[e]]
      <3>1. r.processed_at <= dirty[ExpKey[e]]
        BY <1>3, <2>2 DEF Unrecorded
      <3> QED
        BY <1>2, <3>1
    <2> QED
      BY <2>1, <2>2 DEF UnrecordedAfter
  <1> QED
    BY <1>3

\* What is owed stays so while the tables rest.
LEMMA OwedRests ==
    ASSUME TablesInv, lakeExp' = lakeExp, lakeAtt' = lakeAtt, chExp' = chExp,
           chAtt' = chAtt, dirty' = dirty
    PROVE  \A expDays, attDays : Owed(expDays, attDays) => OwedAfter(expDays, attDays)
  <1>1. ASSUME NEW expDays, NEW attDays, Owed(expDays, attDays)
        PROVE  OwedAfter(expDays, attDays)
    <2>1. UnservedAfter(expDays, attDays)
      BY <1>1, Carried DEF Owed
    <2>2. UnrecordedAfter(expDays, expDays, attDays)
      BY <1>1 DEF Owed, Unrecorded, UnrecordedAfter
    <2> QED
      BY <2>1, <2>2 DEF OwedAfter
  <1> QED
    BY <1>1

\* More days may be owed than are.
LEMMA OwedAtMost ==
    ASSUME NEW expDays, NEW attDays, OwedAfter({}, attDays) \/ OwedAfter({}, {})
    PROVE  OwedAfter(attDays, attDays) /\ OwedAfter({}, attDays)
  BY DEF OwedAfter, UnservedAfter, UnrecordedAfter

\* Where a load begins, when it owes at most its own days.
LEMMA RecordsStart ==
    ASSUME IInv, regime' = regime, job # "idle", NEW days \in SUBSET Days,
           LoadBegins(days),
           Guarded => \/ OwedAfter(days, days)
                      \/ days = {} /\ ~NeverKilled /\ ~(lakeAtt' \subseteq AllHot),
           Guarded /\ job = "reconcile" /\ days # {} => ~(lakeAtt' \subseteq AllHot)
    PROVE  LoadRecords' /\ RecordedBetween'
  <1>1. (Guarded' <=> Guarded) /\ (NeverKilled' <=> NeverKilled)
    BY GuardedStays
  <1>2. CASE ~Guarded
    BY <1>1, <1>2 DEF LoadRecords, RecordedBetween
  <1>3. CASE Guarded
    <2>1. days \subseteq KnownDays
      BY <1>3, RegimeStays DEF Guarded
    <2>2. CASE days = {} /\ LoadReturns
      <3>1. step' \in {"mark", "snapshotPre", "none"}
        BY <2>2 DEF LoadReturns, Stays, Ends
      <3>2. NeverKilled' \/ NoneCorrected' => OwedAfter({}, {})
        BY <1>1, <1>3, <2>2, AfterRecording
      <3>3. LoadRecords'
        BY <3>1 DEF LoadRecords
      <3>4. RecordedBetween'
        BY <3>1, <3>2, AfterRecording DEF RecordedBetween, LoadSteps
      <3> QED
        BY <3>3, <3>4
    <2>3. CASE days # {} /\ Stays("insertExposures") /\ todo' = days
      <3>1. step' = "insertExposures" /\ job' = job
        BY <2>3 DEF Stays
      <3>2. OwedAfter(todo', todo')
        BY <1>3, <2>3
      <3>3. job' = "reconcile" => ~NoneCorrected'
        BY <1>3, <2>3, <3>1, AfterRecording
      <3>4. LoadRecords'
        BY <3>1, <3>2, AfterRecording DEF LoadRecords
      <3>5. RecordedBetween'
        BY <3>1, <3>3 DEF RecordedBetween
      <3> QED
        BY <3>4, <3>5
    <2> QED
      BY <2>1, <2>2, <2>3 DEF LoadBegins
  <1> QED
    BY <1>2, <1>3

LEMMA RecordsAtStarts ==
    ASSUME IInv, AllOrNone, RollupTyped, LoadRecords, RecordedBetween,
           StartEngine \/ StartReconcile \/ StartDagster \/ StartLoad \/ StartReplay
    PROVE  LoadRecords' /\ RecordedBetween'
  <1>1. /\ job = "idle" /\ step = "none" /\ UNCHANGED <<lake, serving>>
        /\ touched' = touched
        /\ \/ job' = "engine" /\ step' = "landExposures"
           \/ job' = "replay" /\ step' = "exposures_landed"
           \/ job' = "reconcile" /\ step' = "recover"
           \/ job' = "load" /\ step' = "begin"
           \/ job' = "dagster" /\ step' = "recoverDay"
    BY JobOf DEF StartEngine, StartReconcile, StartDagster, StartLoad, StartReplay, Start,
       SERVING_TABLES, IInv, JobsInv
  <1>2. /\ regime' = regime /\ lakeExp' = lakeExp /\ lakeAtt' = lakeAtt
        /\ chExp' = chExp /\ chAtt' = chAtt /\ dirty' = dirty
    BY <1>1 DEF lake, serving
  <1>3. (Guarded' <=> Guarded) /\ (NeverKilled' <=> NeverKilled)
    BY <1>2, GuardedStays
  <1>4. CASE ~Guarded
    BY <1>3, <1>4 DEF LoadRecords, RecordedBetween
  <1>5. CASE Guarded
    <2>1. NeverKilled \/ NoneCorrected => OwedAfter({}, {})
      BY <1>1, <1>2, <1>5, OwedRests DEF RecordedBetween, IInv
    <2>2. touched' = {} /\ (NoneCorrected \/ AllCorrected)
      BY <1>1, <1>5 DEF RollupTyped, AllOrNone, Guarded
    <2>3. /\ NoneCorrected' <=> NoneCorrected
          /\ AllCorrected' <=> AllCorrected
      BY <1>2, AfterRecording DEF NoneCorrected, AllCorrected
    <2>4. LoadRecords'
      BY <1>1 DEF LoadRecords
    <2>5. RecordedBetween'
      BY <1>1, <1>3, <2>1, <2>2, <2>3, AfterRecording DEF RecordedBetween, LoadSteps
    <2> QED
      BY <2>4, <2>5
  <1> QED
    BY <1>4, <1>5

LEMMA RecordsAtLandings ==
    ASSUME IInv, LandExposures \/ LandAttributed
    PROVE  LoadRecords' /\ RecordedBetween'
  <1> USE DEF IInv, JobsInv
  <1>1. CASE LandExposures
    <2>1. job' = "engine" /\ step' = "landAttributed"
      BY <1>1 DEF LandExposures, Running, GoTo
    <2> QED
      BY <2>1 DEF LoadRecords, RecordedBetween
  <1>2. CASE LandAttributed
    <2> DEFINE days == {ExpDay[e] : e \in Exposures}
                          \cup touched_days({HotRow(c) : c \in Conversions})
    <2>1. /\ regime' = regime /\ job = "engine" /\ BeginLoad(days)
          /\ lakeExp' = lakeExp /\ lakeAtt' = lakeAtt \cup {HotRow(c) : c \in Conversions}
      BY <1>2 DEF LandAttributed, Running
    <2>2. \A c \in Conversions : HotRow(c).conv = c /\ ConvDay[c] \in days
      BY HotRows DEF touched_days
    <2>3. days \in SUBSET Days
      BY HotRows, TopicAssumption DEF touched_days
    <2>4. OwedAfter(days, days)
      <3>1. \A e \in lakeExp' : ExpDay[e] \in days
        BY <2>1 DEF TablesInv, DataOK
      <3>2. \A r \in lakeAtt' : r.conv \in Conversions
        BY <2>1, HotRows DEF TablesInv, DataOK, AttributedRows
      <3> QED
        BY <2>2, <3>1, <3>2 DEF OwedAfter, UnservedAfter, UnrecordedAfter
    <2> HIDE DEF days
    <2>5. LoadBegins(days)
      BY <2>1, Beginning
    <2> QED
      BY <2>1, <2>3, <2>4, <2>5, RecordsStart
  <1> QED
    BY <1>1, <1>2

\* A pass lands what it owes the load: corrections of the days it touched.
LEMMA RecordsUnderCorrections ==
    ASSUME IInv, NEW days \in SUBSET Days,
           lakeExp' = lakeExp, chExp' = chExp, chAtt' = chAtt, dirty' = dirty,
           lakeAtt' = lakeAtt \cup recover(days)
    PROVE  \A old : Owed({}, old) => OwedAfter({}, old \cup touched_days(recover(days)))
  <1>1. \A r \in recover(days) : ConvDay[r.conv] \in touched_days(recover(days))
    BY DEF touched_days
  <1>2. ASSUME NEW old, Owed({}, old)
        PROVE  OwedAfter({}, old \cup touched_days(recover(days)))
    <2>1. UnservedAfter({}, old \cup touched_days(recover(days)))
      BY <1>2, Correcting DEF Owed
    <2>2. UnrecordedAfter({}, {}, old \cup touched_days(recover(days)))
      BY <1>1, <1>2 DEF Owed, Unrecorded, UnrecordedAfter
    <2> QED
      BY <2>1, <2>2 DEF OwedAfter
  <1> QED
    BY <1>2

LEMMA RecordsAtReconcile ==
    ASSUME NoPartitions, IInv, LakeByPhase, AllOrNone, LoadRecords, RecordedBetween,
           Reconcile
    PROVE  LoadRecords' /\ RecordedBetween'
  <1> USE DEF IInv, JobsInv
  <1> DEFINE days == touched_days(recover(Days))
  <1>1. /\ regime' = regime /\ job = "reconcile" /\ step = "recover"
        /\ BeginLoad(days) /\ lakeExp' = lakeExp /\ chExp' = chExp /\ chAtt' = chAtt
        /\ dirty' = dirty /\ lakeAtt' = lakeAtt \cup recover(Days)
    BY DEF Reconcile, Running, serving
  <1>2. days \in SUBSET Days
    BY <1>1, Correcting
  <1>3. LoadBegins(days)
    BY <1>1, Beginning
  <1>4. Guarded => OnlyReconcileDisturbed
    BY GuardedVolume
  <1>5. ASSUME Guarded, days # {}  PROVE ~(lakeAtt' \subseteq AllHot)
    <2>1. PICK r \in recover(Days) : TRUE
      BY <1>5 DEF touched_days
    <2>2. r \in AllCorrections
      BY <1>1, <1>4, <1>5, WhatIsRecovered
    <2>3. r.path = "reconciled"
      BY <2>2 DEF AllCorrections, Correction
    <2>4. r \notin AllHot
      BY <2>3, HotRows DEF AllHot
    <2> QED
      BY <1>1, <2>4
  <1>6. ASSUME Guarded, NeverKilled \/ NoneCorrected  PROVE OwedAfter(days, days)
    <2>1. Owed({}, {})
      BY <1>1, <1>6 DEF RecordedBetween
    <2>2. OwedAfter({}, {} \cup days)
      BY <1>1, <2>1, RecordsUnderCorrections
    <2> HIDE DEF days
    <2> QED
      BY <2>2, OwedAtMost
  <1>7. ASSUME Guarded, ~(NeverKilled \/ NoneCorrected)
        PROVE  days = {} /\ ~NeverKilled /\ ~(lakeAtt' \subseteq AllHot)
    <2>1. AllCorrected
      BY <1>1, <1>4, <1>7 DEF AllOrNone
    <2>2. recover(Days) = {}
      <3>1. \A r \in recover(Days) : r \in AllCorrections /\ r \notin lakeAtt
        BY <1>1, <1>4, <1>7, WhatIsRecovered
      <3> QED
        BY <2>1, <3>1 DEF AllCorrected
    <2> QED
      BY <1>1, <1>7, <2>2 DEF touched_days, NoneCorrected
  <1> HIDE DEF days
  <1> QED
    BY <1>1, <1>2, <1>3, <1>5, <1>6, <1>7, RecordsStart

LEMMA RecordsAtReconcileDay ==
    ASSUME NoPartitions, IInv, LakeByPhase, AllOrNone, LoadRecords, RecordedBetween,
           ReconcileDay
    PROVE  LoadRecords' /\ RecordedBetween'
  <1> USE DEF IInv, JobsInv
  <1> DEFINE days == {First(todo)}
             found == touched_days(recover(days))
  <1>1. /\ regime' = regime /\ job = "dagster" /\ step = "recoverDay"
        /\ lakeExp' = lakeExp /\ chExp' = chExp /\ chAtt' = chAtt /\ dirty' = dirty
        /\ lakeAtt' = lakeAtt \cup recover(days)
        /\ touched' = touched \cup found /\ job' = job /\ step' = step
    BY DEF ReconcileDay, Running, serving
  <1>2. days \in SUBSET Days
    BY CalendarDays DEF ReconcileDay, TablesInv
  <1>3. (Guarded' <=> Guarded) /\ (NeverKilled' <=> NeverKilled)
    BY <1>1, GuardedStays
  <1>4. CASE ~Guarded
    BY <1>3, <1>4 DEF LoadRecords, RecordedBetween
  <1>5. CASE Guarded
    <2>1. Owed({}, touched) => OwedAfter({}, touched')
      BY <1>1, <1>2, RecordsUnderCorrections
    <2>2. ASSUME touched = {}, AllCorrected, ~NeverKilled, ~NoneCorrected
          PROVE  /\ touched' = {} /\ AllCorrections \subseteq lakeAtt'
                 /\ ~(lakeAtt' \subseteq AllHot)
      <3>1. \A r \in recover(days) : r \in AllCorrections /\ r \notin lakeAtt
        BY <1>1, <1>2, <1>5, GuardedVolume, WhatIsRecovered
      <3>2. recover(days) = {}
        BY <2>2, <3>1 DEF AllCorrected
      <3> QED
        BY <1>1, <2>2, <3>2 DEF touched_days, NoneCorrected, AllCorrected
    <2>3. \/ OwedAfter({}, touched')
          \/ /\ touched' = {} /\ AllCorrections \subseteq lakeAtt'
             /\ ~NeverKilled /\ ~(lakeAtt' \subseteq AllHot)
      BY <1>1, <1>5, <2>1, <2>2 DEF RecordedBetween
    <2>4. LoadRecords'
      BY <1>1 DEF LoadRecords
    <2>5. RecordedBetween'
      BY <1>1, <1>3, <2>3, AfterRecording DEF RecordedBetween
    <2> QED
      BY <2>4, <2>5
  <1> QED
    BY <1>4, <1>5

LEMMA RecordsAtOtherBeginnings ==
    ASSUME IInv, RollupTyped, LoadRecords, RecordedBetween, EveryDayReconciled \/ LoadDays
    PROVE  LoadRecords' /\ RecordedBetween'
  <1> USE DEF IInv, JobsInv
  <1>1. /\ regime' = regime /\ lakeExp' = lakeExp /\ lakeAtt' = lakeAtt
        /\ chExp' = chExp /\ chAtt' = chAtt /\ dirty' = dirty
    BY DEF EveryDayReconciled, LoadDays, lake, serving
  <1>2. \A expDays, attDays : Owed(expDays, attDays) => OwedAfter(expDays, attDays)
    BY <1>1, OwedRests
  <1>3. CASE EveryDayReconciled
    <2>1. job = "dagster" /\ step = "recoverDay" /\ BeginLoad(touched)
      BY <1>3 DEF EveryDayReconciled, Running
    <2>2. touched \in SUBSET Days /\ LoadBegins(touched)
      BY <2>1, Beginning DEF ControlOK
    <2>3. Guarded => \/ OwedAfter(touched, touched)
                     \/ touched = {} /\ ~NeverKilled /\ ~(lakeAtt' \subseteq AllHot)
      <3>1. Guarded => \/ OwedAfter({}, touched)
                       \/ touched = {} /\ ~NeverKilled /\ ~NoneCorrected
        BY <1>2, <2>1 DEF RecordedBetween
      <3> QED
        BY <1>1, <3>1, OwedAtMost DEF NoneCorrected
    <2> QED
      BY <1>1, <2>1, <2>2, <2>3, RecordsStart
  <1>4. CASE LoadDays
    <2>1. job = "load" /\ step = "begin" /\ BeginLoad(todo)
      BY <1>4 DEF LoadDays, Running
    <2>2. todo \in SUBSET Days /\ LoadBegins(todo)
      BY <2>1, Beginning DEF ControlOK
    <2>3. Guarded => OwedAfter(todo, todo)
      <3>1. Guarded => NeverKilled
        BY <2>1 DEF RollupTyped, Guarded
      <3>2. Guarded => OwedAfter({}, {})
        BY <1>2, <2>1, <3>1 DEF RecordedBetween
      <3> QED
        BY <3>2, OwedAtMost
    <2> QED
      BY <1>1, <2>1, <2>2, <2>3, RecordsStart
  <1> QED
    BY <1>3, <1>4

\* A replay owes the whole lake, and has all of its days before it.
LEMMA RecordsAtTruncate ==
    ASSUME IInv, NEW i \in DOMAIN SERVING_TABLES, Truncate(i)
    PROVE  LoadRecords' /\ RecordedBetween'
  <1> USE DEF IInv, JobsInv
  <1>1. /\ i \in 1..6 /\ \A n \in 1..6 : SERVING_TABLES[n] \in TableSteps
        /\ Len(SERVING_TABLES) = 6
    BY DEF SERVING_TABLES, TableSteps
  <1>2. /\ regime' = regime /\ lakeExp' = lakeExp /\ lakeAtt' = lakeAtt
        /\ job = "replay" /\ step \in TableSteps /\ lake_days \subseteq todo
    BY <1>1 DEF Truncate, Running, lake, WholeLakeAhead
  <1>3. CASE i < 6
    <2>1. job' = job /\ step' \in TableSteps
      BY <1>1, <1>3 DEF Truncate, GoTo
    <2> QED
      BY <1>2, <2>1 DEF TableSteps, LoadRecords, RecordedBetween
  <1>4. CASE i = 6
    <2>1. LoadBegins(todo)
      BY <1>1, <1>2, <1>4, Beginning DEF Truncate
    <2>2. todo \in SUBSET Days
      BY DEF ControlOK
    <2>3. OwedAfter(todo, todo)
      BY <1>2 DEF lake_days, OwedAfter, UnservedAfter, UnrecordedAfter
    <2> QED
      BY <1>2, <2>1, <2>2, <2>3, RecordsStart
  <1> QED
    BY <1>1, <1>3, <1>4

\* A load step that is followed by another.
LEMMA RecordsGoOn ==
    ASSUME RecordedBetween, regime' = regime, lakeAtt' = lakeAtt,
           step \in LoadSteps, step' \in LoadSteps, job' = job, LoadRecords'
    PROVE  RecordedBetween'
  <1>1. Guarded' <=> Guarded
    BY GuardedStays
  <1>2. NoneCorrected' <=> NoneCorrected
    BY AfterRecording DEF NoneCorrected
  <1> QED
    BY <1>1, <1>2 DEF RecordedBetween, LoadSteps

LEMMA RecordsAtInserts ==
    ASSUME IInv, LakeByPhase, RollupTyped, LoadRecords, RecordedBetween,
           InsertExposures \/ InsertAttributed
    PROVE  LoadRecords' /\ RecordedBetween'
  <1> USE DEF IInv, JobsInv
  <1>1. /\ regime' = regime /\ lakeExp' = lakeExp /\ lakeAtt' = lakeAtt
        /\ dirty' = dirty /\ todo' = todo /\ job' = job /\ day' = day
        /\ step \in LoadSteps /\ step' \in LoadSteps
    BY DEF InsertExposures, InsertAttributed, GoTo, lake, rollup, LoadSteps, day
  <1>2. (Guarded' <=> Guarded)
    BY <1>1, GuardedStays
  <1>3. \A expDays, creditDays, attDays :
           Unrecorded(expDays, creditDays, attDays)
              => UnrecordedAfter(expDays, creditDays, attDays)
    BY <1>1 DEF Unrecorded, UnrecordedAfter
  <1>4. CASE InsertExposures
    <2>1. /\ step = "insertExposures" /\ step' = "dirtyExposures"
          /\ chAtt' = chAtt /\ chExp' = chExp \cup LakeExposures
      BY <1>4 DEF InsertExposures, GoTo
    <2>2. Unserved(todo, todo) => UnservedAfter(todo \ {day}, todo)
      BY <1>1, <2>1 DEF Unserved, UnservedAfter, LakeExposures
    <2>3. LoadRecords'
      BY <1>1, <1>2, <1>3, <2>1, <2>2, AfterStep, AfterRecording DEF LoadRecords, Owed
    <2> QED
      BY <1>1, <2>3, RecordsGoOn
  <1>5. CASE InsertAttributed
    <2>1. /\ step = "insertAttributed" /\ step' = "dirtyAttributed"
          /\ chExp' = chExp /\ chAtt' = Replace(chAtt, read_current)
      BY <1>5 DEF InsertAttributed, GoTo
    <2>2. Unserved(todo \ {day}, todo) => UnservedAfter(todo \ {day}, todo \ {day})
      BY <1>1, <2>1, RowsInserted
    <2>3. LoadRecords'
      BY <1>1, <1>2, <1>3, <2>1, <2>2, AfterStep, AfterRecording DEF LoadRecords, Owed
    <2> QED
      BY <1>1, <2>3, RecordsGoOn
  <1> QED
    BY <1>4, <1>5

\* A credit of the lake that is served is recorded under its key's credits.
LEMMA ServedCredit ==
    ASSUME IInv, LakeByPhase, OnlyReconcileDisturbed, NEW r \in lakeAtt,
           NEW e \in r.credited, e \in chExp,
           NEW s \in chAtt, s.conv = r.conv, s.processed_at >= r.processed_at
    PROVE  r \in CreditedTo(ExpKey[e]) /\ e \in r.credited \cap ExposuresOf(ExpKey[e])
  <1>1. r \in chAtt
    BY CreditServed
  <1>2. e \in r.credited \cap ExposuresOf(ExpKey[e])
    BY DEF ExposuresOf
  <1> QED
    BY <1>1, <1>2 DEF CreditedTo

LEMMA RecordsAtRecords ==
    ASSUME IInv, LakeByPhase, RollupTyped, StampsTell, LoadRecords, RecordedBetween,
           DirtyFromExposures \/ DirtyFromExposureCredits \/ DirtyFromAttributed
    PROVE  LoadRecords' /\ RecordedBetween'
  <1> USE DEF IInv, JobsInv
  <1>1. /\ regime' = regime /\ lakeExp' = lakeExp /\ lakeAtt' = lakeAtt
        /\ chExp' = chExp /\ chAtt' = chAtt /\ job' = job
        /\ step \in LoadSteps /\ step' \in LoadSteps
    BY DEF DirtyFromExposures, DirtyFromExposureCredits, DirtyFromAttributed, GoTo,
       NextDay, lake, LoadSteps
  <1>2. Guarded' <=> Guarded
    BY <1>1, GuardedStays
  <1>3. LoadRecords' => RecordedBetween'
    BY <1>1, RecordsGoOn
  <1>4. CASE ~Guarded
    BY <1>2, <1>3, <1>4 DEF LoadRecords
  <1>5. CASE Guarded
    <2>1. OnlyReconcileDisturbed /\ \A k \in Keys : dirty[k] \in Nat
      BY <1>5 DEF Guarded, RollupTyped
    <2>2. /\ \A k \in Keys : dirty'[k] \in Nat /\ dirty[k] <= dirty'[k]
          /\ DirtyFromExposures =>
                \A k \in Keys : \A e \in ExposuresOf(k) :
                   ExpDay[e] = day => ExpIngest[e] <= dirty'[k]
          /\ DirtyFromExposureCredits =>
                \A k \in Keys : \A r \in CreditedTo(k) :
                   \A e \in r.credited \cap ExposuresOf(k) :
                      ExpDay[e] = day => r.processed_at <= dirty'[k]
          /\ DirtyFromAttributed =>
                \A k \in Keys : \A r \in CreditedTo(k) :
                   ConvDay[r.conv] = day => r.processed_at <= dirty'[k]
      BY <1>5, Recording
    <2>3. \A expDays, creditDays, attDays :
             Unrecorded(expDays, creditDays, attDays)
                => UnrecordedAfter(expDays, creditDays, attDays)
      BY <1>1, <2>1, <2>2, RecordsCarried
    <2>4. \A expDays, attDays :
             Unserved(expDays, attDays) => UnservedAfter(expDays, attDays)
      BY <1>1, Carried
    <2>5. \A e \in lakeExp : ExpKey[e] \in Keys
      BY <2>1, Landed, TopicAssumption
    <2>6. \A r \in lakeAtt : \A e \in r.credited : e \in lakeExp
      BY <2>1, LakeRow
    <2>7. CASE DirtyFromExposures
      <3>1. /\ step = "dirtyExposures" /\ step' = "dirtyCredits"
            /\ todo' = todo /\ day' = day
        BY <2>7 DEF DirtyFromExposures, GoTo, day
      <3>2. Unserved(todo \ {day}, todo) /\ Unrecorded(todo, todo, todo)
        BY <1>5, <3>1 DEF LoadRecords
      <3>3. UnrecordedAfter(todo, todo, todo) /\ UnservedAfter(todo \ {day}, todo)
        BY <2>3, <2>4, <3>2
      <3>4. ASSUME NEW e \in lakeExp, ExpDay[e] = day
            PROVE  ExpIngest[e] <= dirty'[ExpKey[e]]
        <4>1. e \in ExposuresOf(ExpKey[e])
          BY <3>2, <3>4 DEF Unserved, ExposuresOf
        <4> QED
          BY <2>2, <2>5, <2>7, <3>4, <4>1
      <3>5. UnrecordedAfter(todo \ {day}, todo, todo)
        BY <1>1, <3>3, <3>4 DEF UnrecordedAfter
      <3>6. LoadRecords'
        BY <3>1, <3>3, <3>5, AfterStep, AfterRecording DEF LoadRecords
      <3> QED
        BY <1>3, <3>6
    <2>8. CASE DirtyFromExposureCredits
      <3>1. /\ step = "dirtyCredits" /\ step' = "insertAttributed"
            /\ todo' = todo /\ day' = day
        BY <2>8 DEF DirtyFromExposureCredits, GoTo, day
      <3>2. Unserved(todo \ {day}, todo) /\ Unrecorded(todo \ {day}, todo, todo)
        BY <1>5, <3>1 DEF LoadRecords
      <3>3. UnrecordedAfter(todo \ {day}, todo, todo) /\ UnservedAfter(todo \ {day}, todo)
        BY <2>3, <2>4, <3>2
      <3>4. ASSUME NEW r \in lakeAtt, NEW e \in r.credited, ExpDay[e] = day,
                   ConvDay[r.conv] \notin todo
            PROVE  r.processed_at <= dirty'[ExpKey[e]]
        <4>1. PICK s \in chAtt : s.conv = r.conv /\ s.processed_at >= r.processed_at
          BY <3>2, <3>4 DEF Unserved
        <4>2. e \in lakeExp /\ e \in chExp
          BY <2>6, <3>2, <3>4 DEF Unserved
        <4>3. r \in CreditedTo(ExpKey[e]) /\ e \in r.credited \cap ExposuresOf(ExpKey[e])
          BY <2>1, <4>1, <4>2, ServedCredit
        <4> QED
          BY <2>2, <2>5, <2>8, <3>4, <4>2, <4>3
      <3>5. UnrecordedAfter(todo \ {day}, todo \ {day}, todo)
        BY <1>1, <3>3, <3>4 DEF UnrecordedAfter
      <3>6. OwedAfter(todo' \ {day'}, todo')
        BY <3>1, <3>3, <3>5 DEF OwedAfter
      <3>7. LoadRecords'
        BY <3>1, <3>6, AfterRecording DEF LoadRecords
      <3> QED
        BY <1>3, <3>7
    <2>9. CASE DirtyFromAttributed
      <3>1. /\ step = "dirtyAttributed" /\ todo' = todo \ {day}
            /\ step' = IF todo' = {} THEN "refresh" ELSE "insertExposures"
        BY <2>9 DEF DirtyFromAttributed, NextDay
      <3>2. /\ Unserved(todo \ {day}, todo \ {day})
            /\ Unrecorded(todo \ {day}, todo \ {day}, todo)
        BY <1>5, <3>1 DEF LoadRecords
      <3>3. /\ UnrecordedAfter(todo \ {day}, todo \ {day}, todo)
            /\ UnservedAfter(todo \ {day}, todo \ {day})
        BY <2>3, <2>4, <3>2
      <3>4. ASSUME NEW r \in lakeAtt, NEW e \in r.credited, ExpDay[e] \notin todo \ {day},
                   ConvDay[r.conv] = day
            PROVE  r.processed_at <= dirty'[ExpKey[e]]
        <4>1. PICK s \in chAtt : s.conv = r.conv /\ s.processed_at >= r.processed_at
          BY <3>2, <3>4 DEF Unserved
        <4>2. e \in lakeExp /\ e \in chExp
          BY <2>6, <3>2, <3>4 DEF Unserved
        <4>3. r \in CreditedTo(ExpKey[e])
          BY <2>1, <4>1, <4>2, ServedCredit
        <4> QED
          BY <2>2, <2>5, <2>9, <3>4, <4>2, <4>3
      <3>5. UnrecordedAfter(todo \ {day}, todo \ {day}, todo \ {day})
        BY <1>1, <3>3, <3>4 DEF UnrecordedAfter
      <3>6. OwedAfter(todo', todo')
        BY <3>1, <3>3, <3>5 DEF OwedAfter
      <3>7. LoadRecords'
        BY <3>1, <3>6, AfterRecording DEF LoadRecords
      <3> QED
        BY <1>3, <3>7
    <2> QED
      BY <2>7, <2>8, <2>9
  <1> QED
    BY <1>4, <1>5

LEMMA RecordsAtEnds ==
    ASSUME IInv, RollupTyped, LoadRecords, RecordedBetween,
           Refresh \/ NothingDirty \/ StampRefreshed
    PROVE  LoadRecords' /\ RecordedBetween'
  <1> USE DEF IInv, JobsInv
  <1>1. /\ regime' = regime /\ lakeExp' = lakeExp /\ lakeAtt' = lakeAtt
        /\ chExp' = chExp /\ chAtt' = chAtt /\ dirty' = dirty
        /\ step \in {"refresh", "stamp"}
    BY DEF Refresh, NothingDirty, StampRefreshed, lake, serving
  <1>2. Guarded => OwedAfter({}, {})
    BY <1>1, OwedRests DEF LoadRecords
  <1>3. Guarded' <=> Guarded
    BY <1>1, GuardedStays
  <1>4. CASE Refresh
    <2>1. job' = job /\ step' = "stamp"
      BY <1>4 DEF Refresh
    <2>2. LoadRecords'
      BY <1>2, <1>3, <2>1, AfterRecording DEF LoadRecords
    <2> QED
      BY <1>1, <2>1, <2>2, RecordsGoOn DEF LoadSteps
  <1>5. CASE NothingDirty \/ StampRefreshed
    <2>1. job # "idle" /\ AfterLoad
      BY <1>1, <1>5, JobOf DEF NothingDirty, StampRefreshed
    <2>2. LoadBegins({})
      BY <2>1, Returning DEF LoadBegins
    <2> QED
      BY <1>1, <1>2, <2>1, <2>2, RecordsStart
  <1> QED
    BY <1>4, <1>5

LEMMA RecordsAtFinalize ==
    ASSUME IInv, LoadRecords, RecordedBetween,
           SnapshotPre \/ SnapshotPost \/ WriteMarker
    PROVE  LoadRecords' /\ RecordedBetween'
  <1>1. /\ regime' = regime /\ lakeExp' = lakeExp /\ lakeAtt' = lakeAtt
        /\ chExp' = chExp /\ chAtt' = chAtt /\ dirty' = dirty
        /\ step \in {"snapshotPre", "snapshotPost", "mark"}
        /\ step' \in {"snapshotPost", "mark", "none"}
    BY DEF SnapshotPre, SnapshotPost, WriteMarker, GoTo, End, lake, rollup
  <1>2. (Guarded' <=> Guarded) /\ (NeverKilled' <=> NeverKilled)
    BY <1>1, GuardedStays
  <1>3. NoneCorrected' <=> NoneCorrected
    BY <1>1, AfterRecording DEF NoneCorrected
  <1>4. Guarded /\ (NeverKilled \/ NoneCorrected) => OwedAfter({}, {})
    BY <1>1, OwedRests DEF RecordedBetween, IInv
  <1>5. LoadRecords'
    BY <1>1 DEF LoadRecords
  <1>6. RecordedBetween'
    BY <1>1, <1>2, <1>3, <1>4, AfterRecording DEF RecordedBetween, LoadSteps
  <1> QED
    BY <1>5, <1>6

\* A reconciliation killed in its load has landed corrections: nothing is asked
\* of what is recorded then.
LEMMA RecordsAtKills ==
    ASSUME IInv, LoadRecords, RecordedBetween,
           Crash \/ CrashInExposures \/ CrashInAttributed
    PROVE  LoadRecords' /\ RecordedBetween'
  <1>1. /\ regime' = regime /\ lakeExp' = lakeExp /\ lakeAtt' = lakeAtt
        /\ step' = "none" /\ job' = "idle"
    BY DEF Crash, CrashInExposures, CrashInAttributed, lake, End
  <1>2. (Guarded' <=> Guarded) /\ (NeverKilled' <=> NeverKilled)
    BY <1>1, GuardedStays
  <1>3. NoneCorrected' <=> NoneCorrected
    BY <1>1, AfterRecording DEF NoneCorrected
  <1>4. ASSUME Guarded, NoneCorrected  PROVE OwedAfter({}, {})
    <2>1. job = "reconcile"
      BY <1>4, NeverHere, GuardedVolume
    <2>2. step \in {"recover", "snapshotPre", "snapshotPost", "mark"}
      BY <1>4, <2>1 DEF RecordedBetween, IInv, JobsInv, ControlOK, StepsOf
    <2>3. Owed({}, {})
      BY <1>4, <2>2 DEF RecordedBetween
    <2>4. chExp' = chExp /\ chAtt' = chAtt /\ dirty' = dirty
      BY <2>2 DEF Crash, CrashInExposures, CrashInAttributed, serving
    <2> QED
      BY <1>1, <2>3, <2>4, OwedRests DEF IInv
  <1>5. Guarded => ~NeverKilled
    BY NeverHere, GuardedVolume
  <1>6. LoadRecords'
    BY <1>1 DEF LoadRecords
  <1>7. RecordedBetween'
    BY <1>1, <1>2, <1>3, <1>4, <1>5, AfterRecording DEF RecordedBetween, LoadSteps
  <1> QED
    BY <1>6, <1>7

LEMMA RecordsAtStutter ==
    ASSUME LoadRecords, RecordedBetween, UNCHANGED vars
    PROVE  LoadRecords' /\ RecordedBetween'
  BY DEF vars, LoadRecords, RecordedBetween, Owed, Unserved, Unrecorded, Guarded,
     NeverKilled, OnlyReconcileDisturbed, OnlyReconcileKilled, WholeCalendar, NeverDropped,
     NoneCorrected, AllCorrected, day

LEMMA RecordsNextStep ==
    ASSUME NoPartitions, IInv, LakeByPhase, AllOrNone, RollupTyped, StampsTell,
           LoadRecords, RecordedBetween, [Next]_vars
    PROVE  LoadRecords' /\ RecordedBetween'
  <1>1. CASE ~Guarded
    <2>1. regime' = regime
      BY TablesWritten DEF IInv, TablesInv
    <2> QED
      BY <1>1, <2>1, GuardedStays DEF LoadRecords, RecordedBetween
  <1>2. CASE Guarded
    <2>1. ~Down /\ ~UnknownPartition /\ ~StartDagsterPartition
      BY <1>2, NeverHere, NoPartitionPass, GuardedVolume
    <2> QED
      BY <2>1, RecordsAtStarts, RecordsAtLandings, RecordsAtReconcile,
         RecordsAtReconcileDay, RecordsAtOtherBeginnings, RecordsAtTruncate,
         RecordsAtInserts, RecordsAtRecords, RecordsAtEnds, RecordsAtFinalize,
         RecordsAtKills, RecordsAtStutter DEF Next
  <1> QED
    BY <1>1, <1>2

----------------------------------------------------------------------------
(* Where the rollup is the rebuild, step by step.                           *)

LEMMA FreshRests ==
    ASSUME chExp' = chExp, chAtt' = chAtt, hourly' = hourly
    PROVE  RollupIsFresh' <=> RollupIsFresh
  BY DEF RollupIsFresh, Rebuilt, ExposuresOf, CreditedTo

\* Nothing is served from an empty lake, and the rollup holds nothing.
LEMMA FreshWhenEmpty ==
    ASSUME IInv, LakeByPhase, StampsTell, Guarded, lakeExp = {}, lakeAtt = {}
    PROVE  RollupIsFresh
  <1>1. OnlyReconcileDisturbed /\ Unserved({}, {})
    BY DEF Guarded, Unserved
  <1>2. ASSUME NEW k \in Keys  PROVE hourly[k] = Rebuilt(k)
    <2> DEFINE v == LakeRollup(k).version
    <2>1. IsVersion(v, k, {}, {}) /\ (v = 0 => LakeRollup(k) = NoRollupRow)
      BY <1>1, LakeVersion
    <2>2. hourly[k] = NoRollupRow \/ hourly[k].version \in 1 .. v
      BY DEF StampsTell
    <2>3. v = 0
      <3> HIDE DEF v
      <3> QED
        BY <2>1 DEF IsVersion
    <2>4. hourly[k] = NoRollupRow
      <3> HIDE DEF v
      <3> QED
        BY <2>2, <2>3
    <2> QED
      BY <1>1, <2>1, <2>3, <2>4, Settled
  <1> QED
    BY <1>2 DEF RollupIsFresh

\* After a step to the next of these, while the tables of the rollup rest.
LEMMA FreshBeyondLoads ==
    ASSUME FreshBetween, regime' = regime,
           chExp' = chExp, chAtt' = chAtt, hourly' = hourly,
           step \in {"none", "recover", "begin", "recoverDay",
                     "snapshotPre", "snapshotPost", "mark"},
           step' # "stamp",
           job' \in {"engine", "replay"} => step' # "mark",
           job' = "idle" => last' \notin {"engine", "replay"}
    PROVE  FreshBetween'
  <1>1. Undisturbed => RollupIsFresh'
    BY FreshRests DEF FreshBetween
  <1> QED
    BY <1>1, RegimeStays DEF FreshBetween

LEMMA FreshAtStarts ==
    ASSUME IInv, FreshBetween,
           StartEngine \/ StartReconcile \/ StartDagster \/ StartLoad \/ StartReplay
    PROVE  FreshBetween'
  <1>1. /\ step = "none" /\ UNCHANGED <<lake, serving>>
        /\ job' # "idle" /\ step' \notin {"stamp", "mark"}
    BY JobOf DEF StartEngine, StartReconcile, StartDagster, StartLoad, StartReplay, Start,
       SERVING_TABLES, IInv, JobsInv
  <1> QED
    BY <1>1, FreshBeyondLoads DEF lake, serving

\* A load that begins after these has its days before it, or nothing to do.
LEMMA FreshAtBeginnings ==
    ASSUME IInv, FreshBetween, Guarded,
           Reconcile \/ ReconcileDay \/ EveryDayReconciled \/ LoadDays
    PROVE  FreshBetween'
  <1>1. /\ regime' = regime /\ chExp' = chExp /\ chAtt' = chAtt /\ hourly' = hourly
        /\ step \in {"recover", "recoverDay", "begin"}
        /\ job \in {"reconcile", "dagster", "load"}
    BY DEF Reconcile, ReconcileDay, EveryDayReconciled, LoadDays, Running, lake, serving
  <1>2. CASE ReconcileDay
    BY <1>1, <1>2, FreshBeyondLoads DEF ReconcileDay, Running
  <1>3. CASE Reconcile \/ EveryDayReconciled \/ LoadDays
    <2>1. \E days : BeginLoad(days)
      BY <1>3 DEF Reconcile, EveryDayReconciled, LoadDays
    <2>2. \E days : LoadBegins(days)
      BY <1>1, <2>1, Beginning DEF IInv, JobsInv
    <2>3. /\ step' \in {"snapshotPre", "insertExposures", "none"}
          /\ job' \in {job, "idle"}
          /\ job' = "idle" => last' \in {"load", "refused"}
      BY <1>1, <2>2 DEF LoadBegins, LoadReturns, Stays, Ends
    <2> QED
      BY <1>1, <2>3, FreshBeyondLoads
  <1> QED
    BY <1>2, <1>3

\* The engine and the replay begin their load with the days of the whole lake.
LEMMA EngineLoads ==
    ASSUME IInv, LandAttributed
    PROVE  /\ job = "engine" /\ regime' = regime /\ UNCHANGED serving
           /\ \E days \in SUBSET Days :
                 LoadBegins(days) /\ (days = {} => lakeExp = {} /\ lakeAtt = {})
  <1> USE DEF IInv, JobsInv
  <1> DEFINE days == {ExpDay[e] : e \in Exposures}
                        \cup touched_days({HotRow(c) : c \in Conversions})
  <1>1. job = "engine" /\ regime' = regime /\ UNCHANGED serving /\ BeginLoad(days)
    BY DEF LandAttributed, Running
  <1>2. days \in SUBSET Days
    BY HotRows, TopicAssumption DEF touched_days
  <1>3. days = {} => lakeExp = {} /\ lakeAtt = {}
    <2>1. days = {} => Exposures = {} /\ Conversions = {}
      BY DEF touched_days
    <2>2. lakeExp \subseteq Exposures /\ \A r \in lakeAtt : r.conv \in Conversions
      BY DEF TablesInv, DataOK, AttributedRows
    <2> QED
      BY <2>1, <2>2
  <1> HIDE DEF days
  <1>4. LoadBegins(days)
    BY <1>1, Beginning
  <1> QED
    BY <1>1, <1>2, <1>3, <1>4

LEMMA ReplayLoads ==
    ASSUME IInv, NEW i \in DOMAIN SERVING_TABLES, Truncate(i)
    PROVE  /\ job = "replay" /\ regime' = regime
           /\ \/ job' = job /\ step' \in TableSteps
              \/ /\ chExp' = chExp /\ chAtt' = chAtt /\ hourly' = hourly
                 /\ dirty' = dirty /\ refreshed' = [k \in Keys |-> 0]
                 /\ \E days \in SUBSET Days :
                       LoadBegins(days) /\ (days = {} => lakeExp = {} /\ lakeAtt = {})
  <1> USE DEF IInv, JobsInv
  <1>1. /\ i \in 1..6 /\ \A n \in 1..6 : SERVING_TABLES[n] \in TableSteps
        /\ Len(SERVING_TABLES) = 6 /\ SERVING_TABLES[6] = "rollup_refreshed"
    BY DEF SERVING_TABLES, TableSteps
  <1>2. /\ regime' = regime /\ job = "replay" /\ step \in TableSteps
        /\ lake_days \subseteq todo
    BY <1>1 DEF Truncate, Running, lake, WholeLakeAhead
  <1>3. CASE i < 6
    BY <1>1, <1>2, <1>3 DEF Truncate, GoTo
  <1>4. CASE i = 6
    <2>1. LoadBegins(todo)
      BY <1>1, <1>2, <1>4, Beginning DEF Truncate
    <2>2. todo \in SUBSET Days /\ (todo = {} => lakeExp = {} /\ lakeAtt = {})
      BY <1>2 DEF ControlOK, lake_days
    <2>3. /\ chExp' = chExp /\ chAtt' = chAtt /\ hourly' = hourly
          /\ dirty' = dirty /\ refreshed' = [k \in Keys |-> 0]
      BY <1>1, <1>4 DEF Truncate, Running
    <2> QED
      BY <1>2, <2>1, <2>2, <2>3
  <1> QED
    BY <1>1, <1>3, <1>4

\* An engine or a replay with nothing to load has found the lake empty.
LEMMA FreshWithoutDays ==
    ASSUME IInv, LakeByPhase, StampsTell, Guarded, regime' = regime,
           chExp' = chExp, chAtt' = chAtt, hourly' = hourly,
           job \in {"engine", "replay"}, NEW days \in SUBSET Days, LoadBegins(days),
           days = {} => lakeExp = {} /\ lakeAtt = {}
    PROVE  FreshBetween'
  <1>1. days \subseteq KnownDays
    BY RegimeStays DEF Guarded
  <1>2. CASE days = {}
    <2>1. RollupIsFresh'
      BY <1>2, FreshWhenEmpty, FreshRests
    <2> QED
      BY <2>1 DEF FreshBetween
  <1>3. CASE days # {}
    <2>1. step' = "insertExposures" /\ job' # "idle"
      BY <1>1, <1>3 DEF LoadBegins, Stays
    <2> QED
      BY <2>1 DEF FreshBetween
  <1> QED
    BY <1>2, <1>3

LEMMA FreshAtLandings ==
    ASSUME IInv, LakeByPhase, StampsTell, Guarded, LandExposures \/ LandAttributed
    PROVE  FreshBetween'
  <1>1. CASE LandExposures
    BY <1>1 DEF LandExposures, Running, GoTo, FreshBetween
  <1>2. CASE LandAttributed
    BY <1>2, EngineLoads, FreshWithoutDays DEF serving
  <1> QED
    BY <1>1, <1>2

LEMMA FreshAtTruncate ==
    ASSUME IInv, LakeByPhase, StampsTell, Guarded,
           NEW i \in DOMAIN SERVING_TABLES, Truncate(i)
    PROVE  FreshBetween'
  <1>1. CASE job' = "replay" /\ step' \in TableSteps
    BY <1>1 DEF TableSteps, FreshBetween
  <1> QED
    BY <1>1, ReplayLoads, FreshWithoutDays

LEMMA FreshInLoads ==
    ASSUME IInv,
           \/ InsertExposures \/ DirtyFromExposures \/ DirtyFromExposureCredits
           \/ InsertAttributed \/ DirtyFromAttributed
    PROVE  FreshBetween'
  <1>1. /\ job' = job /\ step \in LoadSteps
        /\ step' \in {"insertExposures", "dirtyExposures", "dirtyCredits",
                      "insertAttributed", "dirtyAttributed", "refresh"}
    BY DEF InsertExposures, DirtyFromExposures, DirtyFromExposureCredits,
       InsertAttributed, DirtyFromAttributed, GoTo, NextDay, LoadSteps
  <1>2. job # "idle"
    BY <1>1, JobOf DEF LoadSteps, IInv, JobsInv
  <1> QED
    BY <1>1, <1>2 DEF FreshBetween

\* A load returns with the rollup refreshed, or with nothing dirty in it.
LEMMA FreshAtEnds ==
    ASSUME IInv, LakeByPhase, RollupTyped, StampsTell, LoadRecords, FreshBetween, Guarded,
           Refresh \/ NothingDirty \/ StampRefreshed
    PROVE  FreshBetween'
  <1>1. CASE Refresh
    <2>1. RollupIsFresh'
      BY <1>1, RefreshNext
    <2> QED
      BY <2>1 DEF FreshBetween
  <1>2. CASE NothingDirty
    <2>1. /\ chExp' = chExp /\ chAtt' = chAtt /\ hourly' = hourly
          /\ step = "refresh" /\ dirty_keys = {}
      BY <1>2 DEF NothingDirty, serving
    <2>2. ASSUME NEW k \in Keys  PROVE hourly[k] = Rebuilt(k)
      <3>1. dirty[k] = 0 \/ dirty[k] = refreshed[k]
        <4>1. dirty[k] # 0 /\ dirty[k] # refreshed[k] => <<k, dirty[k]>> \in dirty_keys
          BY DEF dirty_keys
        <4> QED
          BY <2>1, <4>1
      <3>2. Owed({}, {})
        BY <2>1 DEF LoadRecords
      <3> QED
        BY <2>1, <3>1, <3>2, SettledStamps
    <2>3. RollupIsFresh'
      BY <2>1, <2>2, FreshRests DEF RollupIsFresh
    <2> QED
      BY <2>3 DEF FreshBetween
  <1>3. CASE StampRefreshed
    <2>1. /\ chExp' = chExp /\ chAtt' = chAtt /\ hourly' = hourly /\ step = "stamp"
      BY <1>3 DEF StampRefreshed
    <2>2. RollupIsFresh'
      BY <2>1, FreshRests DEF FreshBetween
    <2> QED
      BY <2>2 DEF FreshBetween
  <1> QED
    BY <1>1, <1>2, <1>3

LEMMA FreshAtFinalize ==
    ASSUME IInv, FreshBetween, Guarded, SnapshotPre \/ SnapshotPost \/ WriteMarker
    PROVE  FreshBetween'
  <1>1. /\ regime' = regime /\ chExp' = chExp /\ chAtt' = chAtt /\ hourly' = hourly
        /\ step \in {"snapshotPre", "snapshotPost", "mark"}
    BY DEF SnapshotPre, SnapshotPost, WriteMarker, lake, rollup
  <1>2. CASE SnapshotPre \/ SnapshotPost
    <2>1. job \in {"reconcile", "dagster"}
      BY <1>2, JobOf DEF SnapshotPre, SnapshotPost, IInv, JobsInv
    <2>2. /\ job' \in {job, "idle"} /\ step' # "stamp"
          /\ job' = "idle" => last' = "dagster"
      BY <1>2, <2>1 DEF SnapshotPre, SnapshotPost, GoTo, End
    <2> QED
      BY <1>1, <2>1, <2>2, FreshBeyondLoads
  <1>3. CASE WriteMarker
    <2>1. /\ step = "mark" /\ job \in {"engine", "reconcile", "replay"}
          /\ job' = "idle" /\ step' = "none" /\ last' = job
      BY <1>3, JobOf DEF WriteMarker, End, IInv, JobsInv
    <2>2. job \in {"engine", "replay"} \/ Undisturbed => RollupIsFresh'
      BY <1>1, <2>1, FreshRests DEF FreshBetween
    <2>3. Undisturbed' <=> Undisturbed
      BY <1>1, RegimeStays
    <2> QED
      BY <2>1, <2>2, <2>3 DEF FreshBetween
  <1> QED
    BY <1>2, <1>3

LEMMA FreshAtKills ==
    ASSUME IInv, Guarded, Crash \/ CrashInExposures \/ CrashInAttributed
    PROVE  FreshBetween'
  <1>1. /\ regime' = regime /\ job' = "idle" /\ step' = "none" /\ last' = "crashed"
    BY DEF Crash, CrashInExposures, CrashInAttributed, lake, End
  <1>2. ~Undisturbed'
    BY <1>1, NeverHere, GuardedVolume, RegimeStays DEF Undisturbed
  <1> QED
    BY <1>1, <1>2 DEF FreshBetween

LEMMA FreshNext ==
    ASSUME NoPartitions, IInv, LakeByPhase, RollupTyped, StampsTell, LoadRecords,
           FreshBetween, [Next]_vars
    PROVE  FreshBetween'
  <1>1. CASE ~Guarded
    <2>1. regime' = regime
      BY TablesWritten DEF IInv, TablesInv
    <2>2. ~Guarded'
      BY <1>1, <2>1, GuardedStays
    <2>3. Undisturbed' => Guarded'
      BY DEF Undisturbed, Guarded, OnlyReconcileDisturbed, OnlyReconcileKilled, NeverKilled
    <2> QED
      BY <2>2, <2>3 DEF FreshBetween
  <1>2. CASE Guarded
    <2>1. ~Down /\ ~UnknownPartition /\ ~StartDagsterPartition
      BY <1>2, NeverHere, NoPartitionPass, GuardedVolume
    <2>2. CASE UNCHANGED vars
      BY <2>2, FreshRests, RegimeStays, GuardedStays DEF vars, FreshBetween
    <2> QED
      BY <1>2, <2>1, <2>2, FreshAtStarts, FreshAtLandings, FreshAtBeginnings,
         FreshAtTruncate, FreshInLoads, FreshAtEnds, FreshAtFinalize, FreshAtKills
         DEF Next
  <1> QED
    BY <1>1, <1>2

----------------------------------------------------------------------------
(* The theorem.                                                             *)

LEMMA RollupInit ==
    ASSUME Init  PROVE RollupInv
  <1>1. IInv
    BY InvInit
  <1>2. /\ lakeExp = {} /\ lakeAtt = {} /\ chExp = {} /\ chAtt = {}
        /\ hourly = [k \in Keys |-> NoRollupRow]
        /\ dirty = [k \in Keys |-> 0] /\ refreshed = [k \in Keys |-> 0]
        /\ job = "idle" /\ step = "none" /\ touched = {} /\ last = "none"
    BY DEF Init
  <1>3. LakeByPhase /\ AllOrNone
    BY <1>2 DEF LakeByPhase, AllOrNone, NoneCorrected
  <1>4. RollupTyped
    BY <1>2 DEF RollupTyped
  <1>5. LoadRecords /\ RecordedBetween
    BY <1>2 DEF LoadRecords, RecordedBetween, Owed, Unserved, Unrecorded, LoadSteps
  <1>6. StampsTell
    <2>1. ASSUME Guarded, NEW k \in Keys
          PROVE  LakeRollup(k).version \in Nat
      BY <2>1, LakeVersion, <1>3, GuardedVolume DEF IsVersion
    <2>2. Latest \in Nat
      BY TimesBounded
    <2> QED
      BY <1>2, <2>1, <2>2 DEF StampsTell
  <1>7. FreshBetween
    <2>1. Guarded => RollupIsFresh
      BY <1>1, <1>2, <1>3, <1>6, FreshWhenEmpty
    <2>2. Undisturbed => Guarded
      BY DEF Undisturbed, Guarded, OnlyReconcileDisturbed, OnlyReconcileKilled, NeverKilled
    <2> QED
      BY <2>1, <2>2 DEF FreshBetween
  <1> QED
    BY <1>1, <1>3, <1>4, <1>5, <1>6, <1>7 DEF RollupInv

LEMMA RollupStep ==
    ASSUME NoPartitions, RollupInv, [Next]_vars  PROVE RollupInv'
  <1>1. IInv'
    BY InvNext DEF RollupInv
  <1>2. LakeByPhase' /\ AllOrNone'
    BY PhaseNext, AllOrNoneNext DEF RollupInv
  <1>3. RollupTyped' /\ StampsTell'
    BY <1>2, StampsNext DEF RollupInv
  <1>4. LoadRecords' /\ RecordedBetween'
    BY RecordsNextStep DEF RollupInv
  <1>5. FreshBetween'
    BY FreshNext DEF RollupInv
  <1> QED
    BY <1>1, <1>2, <1>3, <1>4, <1>5 DEF RollupInv

\* Once a job has refreshed the rollup, every row of it equals the rebuild from
\* the landed tables, and a full load repairs it after a killed reconciliation,
\* when reconcile-dagster runs over every candidate day.
THEOREM RollupIsTheRebuild ==
    ASSUME NoPartitions  PROVE Spec => []RollupEqualsRebuild
  <1>1. RollupInv /\ [Next]_vars => RollupInv'
    BY RollupStep
  <1>2. ASSUME RollupInv  PROVE RollupEqualsRebuild
    <2>1. job = "idle" => step = "none"
      BY <1>2, JobOf DEF RollupInv, IInv, JobsInv
    <2>2. Undisturbed /\ job = "idle" => RollupIsFresh
      BY <1>2, <2>1 DEF RollupInv, FreshBetween
    <2>3. OnlyReconcileDisturbed /\ "load" \notin regime.jobs => Guarded
      BY DEF Guarded
    <2>4. Guarded /\ Completed({"engine", "replay"}) => RollupIsFresh
      BY <1>2 DEF RollupInv, FreshBetween, Completed
    <2> QED
      BY <2>2, <2>3, <2>4 DEF RollupEqualsRebuild, Completed
  <1> QED
    BY <1>1, <1>2, RollupInit, PTL DEF Spec

----------------------------------------------------------------------------
(* The gate of rollup_bench.                                                *)

\* The refresh stamps what it found dirty, and between the jobs of an
\* undisturbed volume every key is stamped with the version recorded for it.
Stamped ==
    /\ step = "stamp" => stamps = dirty_keys
    /\ (Undisturbed /\ step \in {"none", "recover", "begin", "recoverDay",
                                  "snapshotPre", "snapshotPost", "mark"})
          => \A k \in Keys : refreshed[k] = dirty[k]

LEMMA UndisturbedVolume == Undisturbed => Guarded /\ OnlyReconcileDisturbed
  BY DEF Undisturbed, Guarded, OnlyReconcileDisturbed, OnlyReconcileKilled, NeverKilled

\* After a step to the next of these, while the stamps rest.
LEMMA StampedBeyondLoads ==
    ASSUME Stamped, regime' = regime, dirty' = dirty, refreshed' = refreshed,
           step \in {"none", "recover", "begin", "recoverDay",
                     "snapshotPre", "snapshotPost", "mark"},
           step' # "stamp"
    PROVE  Stamped'
  BY RegimeStays DEF Stamped

\* Nothing is stamped for an empty lake.
LEMMA StampedWhenEmpty ==
    ASSUME LakeByPhase, RollupTyped, StampsTell, Guarded, lakeExp = {}, lakeAtt = {},
           NEW k \in Keys
    PROVE  dirty[k] = 0 /\ refreshed[k] = 0
  <1> DEFINE v == LakeRollup(k).version
  <1>1. IsVersion(v, k, {}, {})
    BY LakeVersion, GuardedVolume
  <1>2. /\ dirty[k] \in Nat /\ dirty[k] <= v
        /\ refreshed[k] \in Nat /\ refreshed[k] <= v
    BY DEF RollupTyped, StampsTell
  <1> HIDE DEF v
  <1>3. v = 0
    BY <1>1 DEF IsVersion
  <1> QED
    BY <1>2, <1>3

\* An engine or a replay with nothing to load has found nothing stamped.
LEMMA StampedWithoutDays ==
    ASSUME IInv, LakeByPhase, RollupTyped, StampsTell, regime' = regime, dirty' = dirty,
           refreshed' = refreshed \/ refreshed' = [k \in Keys |-> 0],
           job \in {"engine", "replay"}, NEW days \in SUBSET Days, LoadBegins(days),
           days = {} => lakeExp = {} /\ lakeAtt = {}
    PROVE  Stamped'
  <1>1. step' # "stamp"
    BY DEF LoadBegins, LoadReturns, Stays, Ends
  <1>2. Undisturbed' <=> Undisturbed
    BY RegimeStays
  <1>3. CASE Undisturbed /\ days = {}
    <2>1. \A k \in Keys : dirty[k] = 0 /\ refreshed[k] = 0
      BY <1>3, StampedWhenEmpty, UndisturbedVolume
    <2> QED
      BY <1>1, <2>1 DEF Stamped
  <1>4. CASE Undisturbed /\ days # {}
    <2>1. days \subseteq KnownDays
      BY <1>4, RegimeStays
    <2>2. step' = "insertExposures"
      BY <1>4, <2>1 DEF LoadBegins, Stays
    <2> QED
      BY <2>2 DEF Stamped
  <1> QED
    BY <1>1, <1>2, <1>3, <1>4 DEF Stamped

LEMMA StampedAtLandings ==
    ASSUME IInv, LakeByPhase, RollupTyped, StampsTell, LandExposures \/ LandAttributed
    PROVE  Stamped'
  <1>1. CASE LandExposures
    BY <1>1 DEF LandExposures, GoTo, Stamped
  <1>2. CASE LandAttributed
    BY <1>2, EngineLoads, StampedWithoutDays DEF serving
  <1> QED
    BY <1>1, <1>2

LEMMA StampedAtTruncate ==
    ASSUME IInv, LakeByPhase, RollupTyped, StampsTell,
           NEW i \in DOMAIN SERVING_TABLES, Truncate(i)
    PROVE  Stamped'
  <1>1. CASE step' \in TableSteps
    BY <1>1 DEF TableSteps, Stamped
  <1> QED
    BY <1>1, ReplayLoads, StampedWithoutDays

LEMMA StampedInLoads ==
    ASSUME InsertExposures \/ DirtyFromExposures \/ DirtyFromExposureCredits
              \/ InsertAttributed \/ DirtyFromAttributed
    PROVE  Stamped'
  <1>1. step' \in {"insertExposures", "dirtyExposures", "dirtyCredits",
                   "insertAttributed", "dirtyAttributed", "refresh"}
    BY DEF InsertExposures, DirtyFromExposures, DirtyFromExposureCredits,
       InsertAttributed, DirtyFromAttributed, GoTo, NextDay
  <1> QED
    BY <1>1 DEF Stamped

\* The greatest of a stamp and the one recorded above it.
LEMMA GreaterStamp ==
    ASSUME NEW m \in Nat, NEW n \in Nat, m <= n  PROVE Greatest({m} \cup {n}) = n
  <1>1. IsFiniteSet({m} \cup {n})
    <2>1. IsFiniteSet({m})
      BY FS_Singleton
    <2> QED
      BY <2>1, FS_AddElement
  <1>2. {m} \cup {n} \in SUBSET Nat /\ {m} \cup {n} # {}
    OBVIOUS
  <1> DEFINE T == {m} \cup {n}
  <1>3. Greatest(T) \in T /\ \A t \in T : t <= Greatest(T)
    <2> HIDE DEF T
    <2>1. T \in SUBSET Nat /\ IsFiniteSet(T) /\ T # {}
      BY <1>1, <1>2 DEF T
    <2> QED
      BY <2>1, GreatestOf
  <1> QED
    BY <1>3

LEMMA StampedAtEnds ==
    ASSUME IInv, LakeByPhase, RollupTyped, StampsTell, LoadRecords, Stamped,
           Refresh \/ NothingDirty \/ StampRefreshed
    PROVE  Stamped'
  <1> USE DEF IInv, JobsInv
  <1>1. CASE Refresh
    <2>1. step' = "stamp" /\ stamps' = dirty_keys /\ dirty' = dirty /\ refreshed' = refreshed
      BY <1>1 DEF Refresh
    <2>2. dirty_keys' = dirty_keys
      BY <2>1 DEF dirty_keys
    <2> QED
      BY <2>1, <2>2 DEF Stamped
  <1>2. CASE NothingDirty \/ StampRefreshed
    <2>1. /\ regime' = regime /\ dirty' = dirty /\ step \in {"refresh", "stamp"}
          /\ AfterLoad
      BY <1>2 DEF NothingDirty, StampRefreshed, lake, serving
    <2>2. step' # "stamp"
      BY <2>1, JobOf, Returning DEF LoadReturns, Stays, Ends
    <2>3. Undisturbed' <=> Undisturbed
      BY <2>1, RegimeStays
    <2>4. ASSUME Undisturbed, NEW k \in Keys
          PROVE  /\ dirty[k] \in Nat /\ refreshed[k] \in Nat /\ refreshed[k] <= dirty[k]
      <3>1. Guarded /\ Owed({}, {})
        BY <2>1, <2>4, UndisturbedVolume DEF LoadRecords
      <3>2. dirty[k] = LakeRollup(k).version
        BY <2>1, <3>1, SettledStamps
      <3> QED
        BY <3>1, <3>2 DEF RollupTyped, StampsTell
    <2>5. ASSUME Undisturbed, NEW k \in Keys, NothingDirty
          PROVE  refreshed'[k] = dirty'[k]
      <3>1. refreshed' = refreshed /\ dirty_keys = {}
        BY <2>5 DEF NothingDirty, serving
      <3>2. dirty[k] # 0 /\ dirty[k] # refreshed[k] => <<k, dirty[k]>> \in dirty_keys
        BY DEF dirty_keys
      <3> QED
        BY <2>1, <2>4, <2>5, <3>1, <3>2
    <2>6. ASSUME Undisturbed, NEW k \in Keys, StampRefreshed
          PROVE  refreshed'[k] = dirty'[k]
      <3> DEFINE T == {v[2] : v \in {w \in stamps : w[1] = k}}
      <3>1. refreshed'[k] = Greatest({refreshed[k]} \cup T) /\ stamps = dirty_keys
        BY <2>6 DEF StampRefreshed, Stamped
      <3>2. CASE dirty[k] # 0 /\ dirty[k] # refreshed[k]
        <4>1. <<k, dirty[k]>> \in dirty_keys
          BY <3>2 DEF dirty_keys
        <4>2. T = {dirty[k]}
          <5>1. \A v \in dirty_keys : v[1] = k => v[2] = dirty[k]
            BY DEF dirty_keys
          <5>2. <<k, dirty[k]>> \in {w \in stamps : w[1] = k}
            BY <3>1, <4>1
          <5>3. dirty[k] \in T
            BY <5>2
          <5> QED
            BY <3>1, <5>1, <5>3
        <4> HIDE DEF T
        <4> QED
          BY <2>1, <2>4, <2>6, <3>1, <4>2, GreaterStamp
      <3>3. CASE dirty[k] = 0 \/ dirty[k] = refreshed[k]
        <4>1. T = {}
          BY <3>1, <3>3 DEF dirty_keys
        <4>2. refreshed[k] = dirty[k]
          BY <2>4, <2>6, <3>3
        <4>3. {refreshed[k]} \cup T = {refreshed[k]} \cup {dirty[k]}
          BY <4>1, <4>2
        <4> HIDE DEF T
        <4>4. Greatest({refreshed[k]} \cup {dirty[k]}) = dirty[k]
          BY <2>4, <2>6, GreaterStamp
        <4> QED
          BY <2>1, <3>1, <4>3, <4>4
      <3> QED
        BY <3>2, <3>3
    <2> QED
      BY <1>2, <2>2, <2>3, <2>5, <2>6 DEF Stamped
  <1> QED
    BY <1>1, <1>2

LEMMA StampedNext ==
    ASSUME NoPartitions, RollupInv, Stamped, [Next]_vars
    PROVE  Stamped'
  <1> USE DEF RollupInv
  <1>1. CASE StartEngine \/ StartReconcile \/ StartDagster \/ StartDagsterPartition
                \/ StartLoad \/ StartReplay
    <2>1. step = "none" /\ step' # "stamp" /\ UNCHANGED <<lake, serving>>
      BY <1>1, JobOf DEF StartEngine, StartReconcile, StartDagster, StartLoad, StartReplay,
         StartDagsterPartition, Start, SERVING_TABLES, IInv, JobsInv
    <2> QED
      BY <2>1, StampedBeyondLoads DEF lake, serving
  <1>2. CASE Reconcile \/ ReconcileDay \/ EveryDayReconciled \/ LoadDays \/ UnknownPartition
    <2>1. /\ regime' = regime /\ dirty' = dirty /\ refreshed' = refreshed
          /\ step \in {"recover", "recoverDay", "begin"} /\ job # "idle"
          /\ step' \in {"recoverDay", "none"} \/ \E days : BeginLoad(days)
      BY <1>2 DEF Reconcile, ReconcileDay, EveryDayReconciled, LoadDays, UnknownPartition,
         Running, End, lake, serving
    <2>2. step' # "stamp"
      BY <2>1, Beginning DEF LoadBegins, LoadReturns, Stays, Ends, IInv, JobsInv
    <2> QED
      BY <2>1, <2>2, StampedBeyondLoads
  <1>3. CASE SnapshotPre \/ SnapshotPost \/ WriteMarker
    <2>1. /\ regime' = regime /\ dirty' = dirty /\ refreshed' = refreshed
          /\ step \in {"snapshotPre", "snapshotPost", "mark"} /\ step' # "stamp"
      BY <1>3 DEF SnapshotPre, SnapshotPost, WriteMarker, GoTo, End, lake, rollup
    <2> QED
      BY <2>1, StampedBeyondLoads
  <1>4. CASE Down \/ Crash \/ CrashInExposures \/ CrashInAttributed
    <2>1. regime' = regime
      BY TablesWritten DEF IInv, TablesInv
    <2>2. step' = "none"
      BY <1>4, JobOf DEF Down, Crash, CrashInExposures, CrashInAttributed, End,
         IInv, JobsInv
    <2>3. ~Undisturbed'
      BY <1>4, <2>1, NeverHere, UndisturbedVolume, RegimeStays DEF Undisturbed
    <2> QED
      BY <2>2, <2>3 DEF Stamped
  <1>5. CASE UNCHANGED vars
    BY <1>5, RegimeStays DEF vars, Stamped, dirty_keys
  <1> QED
    BY <1>1, <1>2, <1>3, <1>4, <1>5, StampedAtLandings, StampedAtTruncate, StampedInLoads,
       StampedAtEnds DEF Next

\* The reconciled rows an undisturbed volume serves all carry the one version
\* above the topics, and so does the stamp of every key they are credited to.
LEMMA TouchedKeys ==
    ASSUME RollupInv, Stamped, Undisturbed, job = "idle"
    PROVE  changed \subseteq reconcile_touched
  <1>1. Guarded /\ OnlyReconcileDisturbed /\ step = "none"
    BY UndisturbedVolume, JobOf DEF RollupInv, IInv, JobsInv
  <1>2. Owed({}, {}) /\ Unserved({}, {})
    BY <1>1 DEF RollupInv, RecordedBetween, Undisturbed, Owed
  <1>3. chAtt \subseteq lakeAtt
    BY DEF RollupInv, IInv, TablesInv, DataOK
  <1>4. ASSUME NEW r \in chAtt
        PROVE  r.path # "hot" => r.path = "reconciled" /\ r.processed_at = Latest + Delta
    BY <1>1, <1>3, <1>4, LakeRow DEF RollupInv
  <1>5. ASSUME NEW r \in chAtt, r.path = "reconciled"
        PROVE  r.processed_at = Latest + Delta
    <2>1. r.path # "hot"
      BY <1>5
    <2> QED
      BY <1>4, <1>5, <2>1
  <1>6. ASSUME NEW k \in changed  PROVE k \in reconcile_touched
    <2>1. PICK r \in CreditedTo(k) : r.path # "hot"
      BY <1>6 DEF changed, campaign_hourly_rows
    <2>2. /\ k \in Keys /\ r \in chAtt /\ r \in lakeAtt
          /\ r.path = "reconciled" /\ r.processed_at = Latest + Delta
      BY <1>3, <1>4, <1>6, <2>1 DEF changed, CreditedTo
    <2>3. PICK e \in r.credited : ExpKey[e] = k
      BY <2>1 DEF CreditedTo, ExposuresOf
    <2>4. Latest + Delta <= dirty[k] /\ refreshed[k] = dirty[k] /\ dirty[k] \in Nat
      BY <1>1, <1>2, <2>2, <2>3 DEF Owed, Unrecorded, Stamped, RollupInv, RollupTyped
    <2>5. refreshed[k] # 0 /\ refreshed[k] >= Latest + Delta
      BY <2>4, TimesBounded
    <2>6. \A v \in {q.processed_at : q \in {p \in chAtt : p.path = "reconciled"}} :
             v = Latest + Delta
      BY <1>5
    <2> QED
      BY <2>2, <2>5, <2>6 DEF reconcile_touched
  <1> QED
    BY <1>6

\* The gate of rollup_bench passes after every reconciliation of an undisturbed
\* volume: the keys the reconciled rows change are among those it recomputes,
\* and the served rollup with these recomputed is the full rebuild.
THEOREM RollupGatePasses ==
    ASSUME NoPartitions  PROVE Spec => []RollupBenchPasses
  <1>1. Init => RollupInv /\ Stamped
    <2>1. Init => Stamped
      BY DEF Init, Stamped
    <2> QED
      BY <2>1, RollupInit
  <1>2. (RollupInv /\ Stamped) /\ [Next]_vars => (RollupInv /\ Stamped)'
    BY RollupStep, StampedNext
  <1>3. ASSUME RollupInv, Stamped  PROVE RollupBenchPasses
    <2>1. SUFFICES ASSUME Undisturbed, job = "idle"
                   PROVE  /\ changed \subseteq reconcile_touched
                          /\ _merged(measure_into_scratch(reconcile_touched),
                                     _keyed(hourly)) = campaign_hourly_rows(FALSE)
      BY DEF RollupBenchPasses, Completed
    <2>2. changed \subseteq reconcile_touched
      BY <1>3, <2>1, TouchedKeys
    <2>3. RollupIsFresh /\ DOMAIN hourly = Keys
      BY <1>3, <2>1, JobOf, UndisturbedVolume DEF RollupInv, FreshBetween, RollupTyped,
         IInv, JobsInv
    <2>4. reconcile_touched \subseteq Keys
      BY DEF reconcile_touched
    <2>5. ASSUME NEW k \in Keys
          PROVE  [exposures |-> Rebuilt(k).exposures, conversions |-> Rebuilt(k).conversions]
                    = campaign_hourly_rows(FALSE)[k]
      BY DEF Rebuilt, campaign_hourly_rows
    <2>6. _merged(measure_into_scratch(reconcile_touched), _keyed(hourly))
             = campaign_hourly_rows(FALSE)
      <3>1. ASSUME NEW k \in Keys
            PROVE  _merged(measure_into_scratch(reconcile_touched), _keyed(hourly))[k]
                      = campaign_hourly_rows(FALSE)[k]
        BY <2>3, <2>4, <2>5 DEF _merged, measure_into_scratch, _keyed, RollupIsFresh
      <3> QED
        BY <3>1 DEF _merged, campaign_hourly_rows
    <2> QED
      BY <2>2, <2>6
  <1> QED
    BY <1>1, <1>2, <1>3, PTL DEF Spec

----------------------------------------------------------------------------
(* The report snapshots.                                                    *)

HotCredited == {c \in Conversions : HotCredit[c] # {}}

\* The version of a report of hot rows only.
HotVersion ==
    Greatest({ConvIngest[c] : c \in IF HotCredited = {} THEN Conversions ELSE HotCredited})

Corrects(rows) == \E r \in rows : r.path = "reconciled"

ReportVersion(hot_only, corrected) ==
    IF corrected /\ (hot_only => HotCredited = {}) THEN Latest + Delta ELSE HotVersion

\* A snapshot is no newer than a report of the served rows, once they are those
\* of the lake again: one that a correction made is younger than the correction.
SnapshotVersions ==
    OnlyReconcileDisturbed =>
       \A s \in snapshots :
          \E corrected \in BOOLEAN :
             /\ s.version = ReportVersion(s.reported_at = Latest, corrected)
             /\ corrected => Corrects(lakeAtt) /\ (job # "replay" => Corrects(chAtt))

CreditedIn(rows, m) ==
    {r.conv : r \in {q \in rows : \E e \in q.credited : CampaignOf[ExpKey[e]] = m}}

\* The report of what is served stands under reported_at = max_ingest + offset.
Reported(offset, hot_only) ==
    \A m \in {CampaignOf[ExpKey[e]] : e \in chExp} :
       \E s \in snapshots :
          /\ s.reported_at = max_ingest + offset /\ s.campaign = m
          /\ s.conversions = CreditedIn({q \in chAtt : hot_only => q.path = "hot"}, m)

SnapshotsStand ==
    OnlyReconcileDisturbed =>
       /\ step = "snapshotPost" => Reported(0, TRUE)
       /\ (step = "mark" /\ job = "reconcile") \/ Completed({"reconcile", "dagster"})
             => Reported(0, TRUE) /\ Reported(Delta, FALSE)

LEMMA WholeServed ==
    ASSUME IInv, LakeByPhase, OnlyReconcileDisturbed, job \notin {"engine", "replay"},
           chExp # {}
    PROVE  /\ chExp = Exposures /\ lakeExp = Exposures /\ max_ingest = Latest
           /\ chAtt \subseteq lakeAtt
           /\ \A c \in Conversions : \E r \in chAtt : r.conv = c
  <1>1. chExp \subseteq lakeExp /\ chAtt \subseteq lakeAtt /\ lakeExp # {}
    BY DEF IInv, TablesInv, DataOK
  <1>2. step # "landAttributed"
    BY DEF IInv, JobsInv, ControlOK, StepsOf, LoadSteps, TableSteps, JobNames
  <1>3. lakeExp = Exposures /\ AllHot \subseteq lakeAtt
    BY <1>1, <1>2 DEF LakeByPhase
  <1> QED
    BY <1>1, <1>3, LatestServed

\* The greatest of some versions, when one of them is above the others.
LEMMA GreatestIs ==
    ASSUME NEW S \in SUBSET Versions, NEW v \in S, \A n \in S : n <= v
    PROVE  Greatest(S) = v
  <1>1. Greatest(S) \in S /\ v <= Greatest(S) /\ Greatest(S) <= v
    BY VersionOf
  <1>2. Greatest(S) \in Nat /\ v \in Nat
    BY VersionOf, TimesBounded
  <1> QED
    BY <1>1, <1>2

LEMMA HotVersionBounded == HotVersion \in Nat /\ HotVersion <= Latest
  <1> DEFINE S == {ConvIngest[c] : c \in IF HotCredited = {} THEN Conversions
                                         ELSE HotCredited}
  <1>1. S \subseteq Times /\ Times \subseteq Versions
    BY DEF HotCredited, Times, Versions
  <1>2. S \in SUBSET Versions /\ HotVersion = Greatest(S)
    BY <1>1 DEF HotVersion
  <1> HIDE DEF S
  <1>3. HotVersion \in Nat /\ (HotVersion \in S \/ HotVersion = 0)
    BY <1>2, VersionOf
  <1> QED
    BY <1>1, <1>3, TimesBounded

LEMMA ReportVersionGrows ==
    ASSUME NEW hot_only \in BOOLEAN, NEW before \in BOOLEAN, NEW now \in BOOLEAN,
           before => now
    PROVE  ReportVersion(hot_only, before) <= ReportVersion(hot_only, now)
  <1>1. /\ HotVersion \in Nat /\ HotVersion <= Latest
        /\ Latest \in Nat /\ Delta \in Nat
    BY HotVersionBounded, TimesBounded
  <1> QED
    BY <1>1 DEF ReportVersion

\* The version of a report of the served rows.
LEMMA VersionReported ==
    ASSUME IInv, LakeByPhase, OnlyReconcileDisturbed, job \notin {"engine", "replay"},
           chExp # {}, NEW hot_only \in BOOLEAN
    PROVE  LET credited == {r \in chAtt : /\ r.credited \cap chExp # {}
                                          /\ hot_only => r.path = "hot"}
           IN Greatest({r.processed_at : r \in IF credited = {} THEN chAtt ELSE credited})
                 = ReportVersion(hot_only, Corrects(chAtt))
  <1> DEFINE credited == {r \in chAtt : /\ r.credited \cap chExp # {}
                                        /\ hot_only => r.path = "hot"}
             S == {r.processed_at : r \in IF credited = {} THEN chAtt ELSE credited}
  <1>1. /\ chExp = Exposures /\ chAtt \subseteq lakeAtt
        /\ \A c \in Conversions : \E r \in chAtt : r.conv = c
    BY WholeServed
  <1>2. ASSUME NEW r \in chAtt
        PROVE  /\ r.conv \in Conversions /\ r.processed_at \in Versions
               /\ r.processed_at <= Latest + Delta
               /\ r.credited \cap chExp = r.credited
               /\ \/ /\ r.path = "hot" /\ r.processed_at = ConvIngest[r.conv]
                     /\ r.credited = HotCredit[r.conv]
                  \/ /\ r.path = "reconciled" /\ r.processed_at = Latest + Delta
                     /\ r.credited # {} /\ r.conv \notin HotCredited
    <2>1. /\ r.conv \in Conversions /\ r.credited \subseteq Exposures
          /\ r.processed_at \in Versions
          /\ \/ r = HotRow(r.conv) /\ r.path = "hot" /\ r.processed_at <= Latest
             \/ /\ r = Correction(r.conv) /\ r.path = "reconciled" /\ r.conv \in Missed
                /\ r.processed_at = Latest + Delta
      BY <1>1, <1>2, LakeRow
    <2>2. r.processed_at <= Latest + Delta
      <3>1. r.processed_at \in Nat /\ Latest \in Nat /\ Delta \in Nat
        BY <2>1, TimesBounded
      <3> QED
        BY <2>1, <3>1
    <2>3. CASE r = HotRow(r.conv) /\ r.path = "hot"
      BY <1>1, <2>1, <2>2, <2>3, HotRows
    <2>4. CASE r = Correction(r.conv) /\ r.conv \in Missed
      <3>1. /\ r.credited = LongCredit[r.conv] /\ r.path = "reconciled"
            /\ r.processed_at = Latest + Delta
        BY <2>4 DEF Correction
      <3>2. HotCredit[r.conv] = {} /\ LongCredit[r.conv] # {}
        BY <2>4 DEF Missed
      <3> QED
        BY <1>1, <2>1, <2>2, <3>1, <3>2 DEF HotCredited
    <2> QED
      BY <2>1, <2>3, <2>4
  <1>3. S \in SUBSET Versions
    BY <1>2
  <1>4. CASE Corrects(chAtt) /\ (hot_only => HotCredited = {})
    <2>1. PICK w \in chAtt : w.path = "reconciled"
      BY <1>4 DEF Corrects
    <2>2. w.processed_at = Latest + Delta /\ w.credited \cap chExp # {}
      BY <1>2, <2>1
    <2>3. w.processed_at \in S
      <3>1. CASE ~hot_only
        BY <2>1, <2>2, <3>1
      <3>2. CASE hot_only
        <4>1. credited = {}
          BY <1>2, <1>4, <3>2 DEF HotCredited
        <4> QED
          BY <2>1, <4>1
      <3> QED
        BY <3>1, <3>2
    <2>4. \A n \in S : n <= Latest + Delta
      BY <1>2
    <2>5. Greatest(S) = Latest + Delta
      <3> HIDE DEF S
      <3> QED
        BY <1>3, <2>2, <2>3, <2>4, GreatestIs
    <2> QED
      BY <1>4, <2>5 DEF ReportVersion
  <1>5. CASE HotCredited # {} /\ (hot_only \/ ~Corrects(chAtt))
    <2>1. ASSUME NEW c \in HotCredited
          PROVE  \E r \in credited : r.processed_at = ConvIngest[c]
      <3>1. PICK r \in chAtt : r.conv = c
        BY <1>1 DEF HotCredited
      <3>2. /\ r.path = "hot" /\ r.processed_at = ConvIngest[c]
            /\ r.credited \cap chExp # {}
        BY <1>2, <3>1 DEF HotCredited
      <3> QED
        BY <3>2
    <2>2. ASSUME NEW r \in credited
          PROVE  r.conv \in HotCredited /\ r.processed_at = ConvIngest[r.conv]
      <3>1. r \in chAtt /\ r.credited # {} /\ r.path # "reconciled"
        BY <1>2, <1>5 DEF Corrects
      <3> QED
        BY <1>2, <3>1 DEF HotCredited
    <2>3. credited # {}
      BY <1>5, <2>1
    <2>4. S = {ConvIngest[c] : c \in HotCredited}
      BY <2>1, <2>2, <2>3
    <2> QED
      BY <1>5, <2>4 DEF ReportVersion, HotVersion
  <1>6. CASE HotCredited = {} /\ ~Corrects(chAtt)
    <2>1. \A r \in chAtt : r.path = "hot" /\ r.processed_at = ConvIngest[r.conv]
      BY <1>2, <1>6 DEF Corrects
    <2>2. credited = {}
      BY <1>2, <1>6, <2>1 DEF HotCredited
    <2>3. S = {ConvIngest[c] : c \in Conversions}
      BY <1>1, <1>2, <2>1, <2>2
    <2> QED
      BY <1>6, <2>3 DEF ReportVersion, HotVersion
  <1> QED
    BY <1>4, <1>5, <1>6

\* What a report holds, once the volume is whole.
LEMMA ReportRows ==
    ASSUME IInv, LakeByPhase, OnlyReconcileDisturbed, job \notin {"engine", "replay"},
           NEW hot_only \in BOOLEAN, NEW offset \in Nat
    PROVE  /\ \A r \in report_snapshot(offset, hot_only) :
                 /\ chExp # {} /\ r.reported_at = Latest + offset
                 /\ r.version = ReportVersion(hot_only, Corrects(chAtt))
           /\ \A m \in {CampaignOf[ExpKey[e]] : e \in chExp} :
                 \E r \in report_snapshot(offset, hot_only) :
                    /\ r.reported_at = max_ingest + offset /\ r.campaign = m
                    /\ r.conversions
                          = CreditedIn({q \in chAtt : hot_only => q.path = "hot"}, m)
  <1> DEFINE credited == {r \in chAtt : /\ r.credited \cap chExp # {}
                                        /\ hot_only => r.path = "hot"}
             v == Greatest({r.processed_at : r \in IF credited = {} THEN chAtt
                                                   ELSE credited})
             C(m) == {r.conv : r \in {q \in credited :
                                \E e \in q.credited : CampaignOf[ExpKey[e]] = m}}
             row(m) == [reported_at |-> max_ingest + offset,
                        campaign    |-> m,
                        exposures   |-> {e \in chExp : CampaignOf[ExpKey[e]] = m},
                        conversions |-> C(m),
                        version     |-> v]
             M == {CampaignOf[ExpKey[e]] : e \in chExp}
  <1>1. report_snapshot(offset, hot_only) = {row(m) : m \in M}
    BY DEF report_snapshot
  <1>2. chExp # {} => max_ingest = Latest /\ v = ReportVersion(hot_only, Corrects(chAtt))
    BY WholeServed, VersionReported
  <1>3. ASSUME NEW m \in M
        PROVE  C(m) = CreditedIn({q \in chAtt : hot_only => q.path = "hot"}, m)
    <2>1. chExp = Exposures /\ chAtt \subseteq lakeAtt
      BY <1>3, WholeServed
    <2>2. \A r \in chAtt : r.credited \cap chExp = r.credited
      BY <2>1, LakeRow
    <2> QED
      BY <2>2 DEF CreditedIn
  <1>4. ASSUME NEW m \in M
        PROVE  /\ row(m).reported_at = max_ingest + offset /\ row(m).campaign = m
               /\ row(m).conversions = C(m) /\ row(m).version = v
    OBVIOUS
  <1> HIDE DEF row, C, v
  <1>5. M # {} => chExp # {}
    OBVIOUS
  <1>6. ASSUME NEW m \in M
        PROVE  /\ chExp # {} /\ row(m).reported_at = Latest + offset
               /\ row(m).version = ReportVersion(hot_only, Corrects(chAtt))
    BY <1>2, <1>4, <1>5
  <1>7. ASSUME NEW m \in M
        PROVE  \E r \in report_snapshot(offset, hot_only) :
                  /\ r.reported_at = max_ingest + offset /\ r.campaign = m
                  /\ r.conversions
                        = CreditedIn({q \in chAtt : hot_only => q.path = "hot"}, m)
    <2>1. row(m) \in report_snapshot(offset, hot_only)
      BY <1>1
    <2> QED
      BY <1>3, <1>4, <2>1
  <1> QED
    BY <1>1, <1>6, <1>7

\* What an insert of snapshots keeps.
LEMMA SnapshotsReplaced ==
    ASSUME NEW rows, WriteSnapshot(rows)
    PROVE  /\ snapshots' \subseteq snapshots \cup rows
           /\ \A r \in rows :
                 (\A s \in snapshots : SameSnapshot(r, s) => s.version <= r.version)
                    => r \in snapshots'
           /\ \A s \in snapshots :
                 (\A r \in rows : r.reported_at # s.reported_at) => s \in snapshots'
  BY DEF WriteSnapshot, SameSnapshot

\* The steps between the snapshots.
LEMMA SnapshotsRest ==
    ASSUME IInv, OnlyReconcileDisturbed, [Next]_vars
    PROVE  \/ SnapshotPre \/ SnapshotPost \/ WriteMarker \/ UNCHANGED vars
           \/ /\ snapshots' = snapshots /\ step' # "snapshotPost"
              /\ step' = "mark" => job' # "reconcile"
              /\ job' = "idle" => last' \notin {"reconcile", "dagster"}
              /\ job = "replay" => job' = "replay"
              /\ job # "replay" => \A r \in chAtt : r.credited # {} => r \in chAtt'
  <1> USE DEF IInv, JobsInv
  <1> DEFINE Rest ==
        /\ snapshots' = snapshots /\ step' # "snapshotPost"
        /\ step' = "mark" => job' # "reconcile"
        /\ job' = "idle" => last' \notin {"reconcile", "dagster"}
        /\ job = "replay" => job' = "replay"
        /\ job # "replay" => \A r \in chAtt : r.credited # {} => r \in chAtt'
  <1>1. CASE \/ StartEngine \/ StartReconcile \/ StartDagster \/ StartDagsterPartition
             \/ StartLoad \/ StartReplay
    <2>1. /\ job = "idle" /\ job' # "idle" /\ UNCHANGED serving
          /\ step' \notin {"snapshotPost", "mark"}
      BY <1>1 DEF StartEngine, StartReconcile, StartDagster, StartDagsterPartition,
         StartLoad, StartReplay, Start, SERVING_TABLES
    <2> QED
      BY <2>1 DEF serving
  <1>2. CASE LandExposures \/ ReconcileDay
    BY <1>2 DEF LandExposures, ReconcileDay, Running, GoTo, serving
  <1>3. CASE \/ LandAttributed \/ Reconcile \/ EveryDayReconciled \/ LoadDays
             \/ NothingDirty \/ StampRefreshed
    <2>1. /\ snapshots' = snapshots /\ chAtt' = chAtt /\ job # "idle"
          /\ AfterLoad \/ \E days : BeginLoad(days)
      BY <1>3, JobOf DEF LandAttributed, Reconcile, EveryDayReconciled, LoadDays,
         NothingDirty, StampRefreshed, Running, serving, LoadSteps
    <2>2. LoadReturns \/ \E days : LoadBegins(days)
      BY <2>1, Returning, Beginning
    <2>3. job = "replay" => step \in LoadSteps
      BY <1>3 DEF LandAttributed, Reconcile, EveryDayReconciled, LoadDays,
         NothingDirty, StampRefreshed, Running, LoadSteps
    <2>4. job = "replay" => LoadReturns
      BY <1>3, <2>1, <2>2, <2>3, Returning DEF LandAttributed, Reconcile,
         EveryDayReconciled, LoadDays, NothingDirty, StampRefreshed, Running
    <2> QED
      BY <2>1, <2>2, <2>4 DEF LoadBegins, LoadReturns, Stays, Ends
  <1>4. CASE \E i \in DOMAIN SERVING_TABLES : Truncate(i)
    <2>1. PICK i \in DOMAIN SERVING_TABLES : Truncate(i)
      BY <1>4
    <2>2. snapshots' = snapshots /\ job = "replay"
      BY <2>1 DEF Truncate, Running
    <2>3. \/ job' = job /\ step' \in TableSteps
          \/ \E days \in SUBSET Days : LoadBegins(days)
      BY <2>1, ReplayLoads
    <2>4. KnownDays = Days
      BY RegimeStays DEF OnlyReconcileDisturbed, WholeCalendar, KnownDays
    <2> QED
      BY <2>2, <2>3, <2>4 DEF LoadBegins, LoadReturns, Stays, TableSteps
  <1>5. CASE \/ InsertExposures \/ DirtyFromExposures \/ DirtyFromExposureCredits
             \/ DirtyFromAttributed \/ Refresh
    <2>1. /\ snapshots' = snapshots /\ chAtt' = chAtt /\ job' = job /\ step \in LoadSteps
          /\ step' \notin {"snapshotPost", "mark"}
      BY <1>5 DEF InsertExposures, DirtyFromExposures, DirtyFromExposureCredits,
         DirtyFromAttributed, Refresh, GoTo, NextDay, rollup, LoadSteps
    <2> QED
      BY <2>1, JobOf DEF LoadSteps
  <1>6. ASSUME InsertAttributed \/ CrashInAttributed, NEW r \in chAtt, r.credited # {}
        PROVE  r \in chAtt'
    <2>1. PICK rows \in SUBSET Current(lakeAtt) : chAtt' = Replace(chAtt, rows)
      BY <1>6 DEF InsertAttributed, CrashInAttributed, read_current
    <2>2. \A q \in chAtt \cup rows : q.processed_at \in Nat
      BY DEF TablesInv, DataOK, AttributedRows, Current
    <2>3. chAtt' # {}
      BY <1>6, <2>1, <2>2, NothingLowered
    <2> QED
      BY <1>6, <2>3, CreditKept
  <1>7. CASE InsertAttributed
    <2>1. snapshots' = snapshots /\ job' = job /\ step \in LoadSteps /\ step' \in LoadSteps
      BY <1>7 DEF InsertAttributed, GoTo, rollup, LoadSteps
    <2> QED
      BY <1>6, <1>7, <2>1, JobOf DEF LoadSteps
  <1>8. CASE Crash \/ CrashInExposures \/ CrashInAttributed
    <2>1. /\ snapshots' = snapshots /\ job = "reconcile" /\ job' = "idle"
          /\ step' = "none" /\ last' = "crashed"
      BY <1>8, NeverHere DEF Crash, CrashInExposures, CrashInAttributed, End, serving,
         rollup
    <2>2. chAtt' = chAtt \/ CrashInAttributed
      BY <1>8 DEF Crash, CrashInExposures, serving
    <2> QED
      BY <1>6, <2>1, <2>2
  <1> QED
    BY <1>1, <1>2, <1>3, <1>4, <1>5, <1>7, <1>8, NeverHere DEF Next

SnapshotInv == IInv /\ LakeByPhase /\ SnapshotVersions /\ SnapshotsStand

\* A snapshot is written over every earlier one of its reported_at.
LEMMA ReportWritten ==
    ASSUME SnapshotInv, OnlyReconcileDisturbed, job \in {"reconcile", "dagster"},
           NEW hot_only \in BOOLEAN, NEW offset \in Nat,
           hot_only => offset = 0, ~hot_only => offset = Delta,
           WriteSnapshot(report_snapshot(offset, hot_only)),
           chExp' = chExp, chAtt' = chAtt, lakeAtt' = lakeAtt, job' # "replay"
    PROVE  /\ Reported(offset, hot_only)'
           /\ ~hot_only /\ Reported(0, TRUE) => Reported(0, TRUE)'
           /\ \A s \in snapshots' :
                 \E corrected \in BOOLEAN :
                    /\ s.version = ReportVersion(s.reported_at = Latest, corrected)
                    /\ corrected => Corrects(lakeAtt') /\ (job' # "replay" => Corrects(chAtt'))
  <1> DEFINE rows == report_snapshot(offset, hot_only)
             now == Corrects(chAtt)
  <1>1. IInv /\ LakeByPhase /\ job \notin {"engine", "replay"} /\ chAtt \subseteq lakeAtt
    BY DEF SnapshotInv, IInv, TablesInv, DataOK
  <1>2. /\ \A r \in rows : /\ chExp # {} /\ r.reported_at = Latest + offset
                           /\ r.version = ReportVersion(hot_only, now)
        /\ \A m \in {CampaignOf[ExpKey[e]] : e \in chExp} :
              \E r \in rows :
                 /\ r.reported_at = max_ingest + offset /\ r.campaign = m
                 /\ r.conversions
                       = CreditedIn({q \in chAtt : hot_only => q.path = "hot"}, m)
    BY <1>1, ReportRows
  <1>3. /\ Latest \in Nat /\ Delta \in Nat /\ Delta > 0
        /\ (Latest + offset = Latest) <=> hot_only
    BY TimesBounded
  <1>4. now \in BOOLEAN /\ (now => Corrects(lakeAtt))
    BY <1>1 DEF Corrects
  <1>5. \A s \in snapshots :
           \E corrected \in BOOLEAN :
              /\ s.version = ReportVersion(s.reported_at = Latest, corrected)
              /\ corrected => Corrects(lakeAtt) /\ now
    BY <1>1 DEF SnapshotInv, SnapshotVersions
  <1>6. /\ snapshots' \subseteq snapshots \cup rows
        /\ \A r \in rows :
              (\A s \in snapshots : SameSnapshot(r, s) => s.version <= r.version)
                 => r \in snapshots'
        /\ \A s \in snapshots :
              (\A r \in rows : r.reported_at # s.reported_at) => s \in snapshots'
    BY SnapshotsReplaced
  <1> HIDE DEF rows, now
  <1>7. ASSUME NEW r \in rows  PROVE r \in snapshots'
    <2>1. ASSUME NEW s \in snapshots, SameSnapshot(r, s)
          PROVE  s.version <= r.version
      <3>1. s.reported_at = Latest + offset
        BY <1>2, <2>1 DEF SameSnapshot
      <3>2. PICK corrected \in BOOLEAN :
               /\ s.version = ReportVersion(s.reported_at = Latest, corrected)
               /\ corrected => now
        BY <1>5
      <3>3. s.version = ReportVersion(hot_only, corrected)
        <4>1. (s.reported_at = Latest) = hot_only
          BY <1>3, <3>1
        <4> QED
          BY <3>2, <4>1
      <3> QED
        BY <1>2, <1>4, <3>2, <3>3, ReportVersionGrows
    <2> QED
      BY <1>6, <2>1
  <1>8. max_ingest' = max_ingest
    BY DEF max_ingest
  <1>9. Reported(offset, hot_only)'
    BY <1>2, <1>7, <1>8 DEF Reported
  <1>10. ASSUME ~hot_only, Reported(0, TRUE)  PROVE Reported(0, TRUE)'
    <2>1. ASSUME NEW m \in {CampaignOf[ExpKey[e]] : e \in chExp}
          PROVE  \E s \in snapshots' :
                    /\ s.reported_at = max_ingest + 0 /\ s.campaign = m
                    /\ s.conversions
                          = CreditedIn({q \in chAtt : TRUE => q.path = "hot"}, m)
      <3>1. PICK s \in snapshots :
               /\ s.reported_at = max_ingest + 0 /\ s.campaign = m
               /\ s.conversions = CreditedIn({q \in chAtt : TRUE => q.path = "hot"}, m)
        BY <1>10, <2>1 DEF Reported
      <3>2. max_ingest = Latest
        BY <1>1, <2>1, WholeServed
      <3>3. \A r \in rows : r.reported_at # s.reported_at
        BY <1>2, <1>3, <1>10, <3>1, <3>2
      <3> QED
        BY <1>6, <3>1, <3>3
    <2> QED
      BY <1>8, <2>1 DEF Reported
  <1>11. ASSUME NEW s \in snapshots'
         PROVE  \E corrected \in BOOLEAN :
                   /\ s.version = ReportVersion(s.reported_at = Latest, corrected)
                   /\ corrected => Corrects(lakeAtt') /\ (job' # "replay" => Corrects(chAtt'))
    <2>1. CASE s \in snapshots
      BY <1>5, <2>1 DEF now
    <2>2. CASE s \in rows
      <3>1. s.version = ReportVersion(s.reported_at = Latest, now)
        <4>1. (s.reported_at = Latest) = hot_only /\ s.version = ReportVersion(hot_only, now)
          BY <1>2, <1>3, <2>2
        <4> QED
          BY <4>1
      <3> QED
        BY <1>4, <3>1 DEF now
    <2> QED
      BY <1>6, <2>1, <2>2
  <1> QED
    BY <1>9, <1>10, <1>11

LEMMA SnapshotsNext ==
    ASSUME SnapshotInv, [Next]_vars  PROVE SnapshotVersions' /\ SnapshotsStand'
  <1> DEFINE Younger ==
        \A s \in snapshots' :
           \E corrected \in BOOLEAN :
              /\ s.version = ReportVersion(s.reported_at = Latest, corrected)
              /\ corrected => Corrects(lakeAtt') /\ (job' # "replay" => Corrects(chAtt'))
  <1>1. IInv /\ LakeByPhase /\ regime' = regime
    BY TablesWritten DEF SnapshotInv, IInv, TablesInv
  <1>2. SUFFICES ASSUME OnlyReconcileDisturbed
                 PROVE  /\ Younger
                        /\ step' = "snapshotPost" => Reported(0, TRUE)'
                        /\ (step' = "mark" /\ job' = "reconcile")
                              \/ (job' = "idle" /\ last' \in {"reconcile", "dagster"})
                              => Reported(0, TRUE)' /\ Reported(Delta, FALSE)'
    <2>1. OnlyReconcileDisturbed' <=> OnlyReconcileDisturbed
      BY <1>1, RegimeStays
    <2> QED
      BY <2>1 DEF SnapshotVersions, SnapshotsStand, Completed, ReportVersion, HotVersion,
         HotCredited, Latest, Times, Greatest, Corrects
  <1>3. CASE SnapshotPre
    <2>1. /\ step = "snapshotPre" /\ WriteSnapshot(report_snapshot(0, TRUE))
          /\ step' = "snapshotPost" /\ job' = job /\ chExp' = chExp /\ chAtt' = chAtt
          /\ lakeAtt' = lakeAtt
      BY <1>3 DEF SnapshotPre, GoTo, lake
    <2>2. job \in {"reconcile", "dagster"}
      BY <1>1, <2>1, JobOf DEF IInv, JobsInv
    <2>3. Reported(0, TRUE)' /\ Younger
      BY <1>2, <2>1, <2>2, ReportWritten
    <2> QED
      BY <2>1, <2>2, <2>3
  <1>4. CASE SnapshotPost
    <2>1. /\ step = "snapshotPost" /\ WriteSnapshot(report_snapshot(Delta, FALSE))
          /\ step' # "snapshotPost" /\ job' \in {job, "idle"}
          /\ chExp' = chExp /\ chAtt' = chAtt /\ lakeAtt' = lakeAtt
      BY <1>4 DEF SnapshotPost, GoTo, End, lake
    <2>2. job \in {"reconcile", "dagster"}
      BY <1>1, <2>1, JobOf DEF IInv, JobsInv
    <2>3. Reported(0, TRUE)
      BY <1>2, <2>1 DEF SnapshotInv, SnapshotsStand
    <2>4. Reported(0, TRUE)' /\ Reported(Delta, FALSE)' /\ Younger
      BY <1>2, <2>1, <2>2, <2>3, ReportWritten, TimesBounded
    <2> QED
      BY <2>1, <2>4
  <1>5. ASSUME snapshots' = snapshots, lakeAtt \subseteq lakeAtt',
               \/ job' = "replay"
               \/ \A r \in lakeAtt : r.path = "reconciled" /\ (job # "replay" => r \in chAtt)
                     => r \in chAtt'
        PROVE  Younger
    <2>1. ASSUME NEW s \in snapshots
          PROVE  \E corrected \in BOOLEAN :
                    /\ s.version = ReportVersion(s.reported_at = Latest, corrected)
                    /\ corrected => Corrects(lakeAtt')
                                    /\ (job' # "replay" => Corrects(chAtt'))
      <3>1. PICK corrected \in BOOLEAN :
               /\ s.version = ReportVersion(s.reported_at = Latest, corrected)
               /\ corrected => Corrects(lakeAtt) /\ (job # "replay" => Corrects(chAtt))
        BY <1>2 DEF SnapshotInv, SnapshotVersions
      <3>2. corrected => Corrects(lakeAtt')
        BY <1>5, <3>1 DEF Corrects
      <3>3. corrected /\ job' # "replay" => Corrects(chAtt')
        <4>1. chAtt \subseteq lakeAtt
          BY <1>1 DEF IInv, TablesInv, DataOK
        <4> QED
          BY <1>5, <3>1, <4>1 DEF Corrects
      <3> QED
        BY <3>1, <3>2, <3>3
    <2> QED
      BY <1>5, <2>1
  <1>6. \A r \in lakeAtt : r.path = "reconciled" => r.credited # {}
    <2>1. ASSUME NEW r \in lakeAtt, r.path = "reconciled"  PROVE r.credited # {}
      <3>1. r = Correction(r.conv) /\ r.conv \in Missed
        BY <1>1, <1>2, <2>1, LakeRow
      <3> QED
        BY <3>1 DEF Correction, Missed
    <2> QED
      BY <2>1
  <1>7. CASE WriteMarker
    <2>1. /\ step = "mark" /\ job' = "idle" /\ step' = "none" /\ last' = job
          /\ chExp' = chExp /\ chAtt' = chAtt /\ lakeAtt' = lakeAtt
          /\ snapshots' = snapshots
      BY <1>7 DEF WriteMarker, End, lake
    <2>2. job \in {"engine", "reconcile", "replay"}
      BY <1>1, <2>1, JobOf DEF IInv, JobsInv
    <2>3. \A r \in lakeAtt : r.path = "reconciled" /\ (job # "replay" => r \in chAtt)
             => r \in chAtt'
      <3>1. CASE job = "replay"
        <4>1. Unserved({}, {})
          BY <1>1, <2>1, <3>1 DEF IInv, JobsInv, LoadUnderWay, Promised
        <4> QED
          BY <1>1, <1>2, <1>6, <2>1, <4>1, CreditServed DEF Unserved
      <3> QED
        BY <2>1, <3>1
    <2>4. Younger
      BY <1>5, <2>1, <2>3
    <2>5. last' \in {"reconcile", "dagster"}
             => Reported(0, TRUE)' /\ Reported(Delta, FALSE)'
      BY <1>2, <2>1, <2>2 DEF SnapshotInv, SnapshotsStand, Reported, max_ingest
    <2> QED
      BY <2>1, <2>4, <2>5
  <1>8. CASE UNCHANGED vars
    <2>1. Younger
      BY <1>2, <1>8 DEF vars, SnapshotInv, SnapshotVersions
    <2> QED
      BY <1>2, <1>8, <2>1 DEF vars, SnapshotInv, SnapshotsStand, Completed, Reported, max_ingest
  <1>9. ASSUME snapshots' = snapshots, step' # "snapshotPost",
               step' = "mark" => job' # "reconcile",
               job' = "idle" => last' \notin {"reconcile", "dagster"},
               job = "replay" => job' = "replay",
               job # "replay" => \A r \in chAtt : r.credited # {} => r \in chAtt'
        PROVE  Younger
    <2>1. lakeAtt \subseteq lakeAtt'
      BY <1>1, <1>2, LakeGrows
    <2> QED
      BY <1>5, <1>6, <1>9, <2>1
  <1> QED
    BY <1>1, <1>2, <1>3, <1>4, <1>7, <1>8, <1>9, SnapshotsRest

\* After a reconciliation, the PRE report is what the hot path credits and the
\* POST report what is served, both under the data's own reported_at, whatever
\* earlier reports stand there.
THEOREM SnapshotsArePaired == Spec => []SnapshotPair
  <1>1. Init => SnapshotInv
    <2>1. Init => LakeByPhase /\ SnapshotVersions /\ SnapshotsStand
      BY DEF Init, LakeByPhase, SnapshotVersions, SnapshotsStand, Completed
    <2> QED
      BY <2>1, InvInit DEF SnapshotInv
  <1>2. SnapshotInv /\ [Next]_vars => SnapshotInv'
    BY InvNext, PhaseNext, SnapshotsNext DEF SnapshotInv
  <1>3. ASSUME SnapshotInv  PROVE SnapshotPair
    <2>1. SUFFICES ASSUME OnlyReconcileDisturbed, Completed({"reconcile", "dagster"}),
                          NEW m \in {CampaignOf[ExpKey[e]] : e \in chExp}
                   PROVE  /\ \E s \in snapshots :
                               /\ s.reported_at = max_ingest /\ s.campaign = m
                               /\ s.conversions =
                                     CreditedIn({q \in chAtt : q.path = "hot"}, m)
                          /\ \E s \in snapshots :
                               /\ s.reported_at = max_ingest + Delta /\ s.campaign = m
                               /\ s.conversions = CreditedIn(chAtt, m)
      BY DEF SnapshotPair, CreditedIn
    <2>2. Reported(0, TRUE) /\ Reported(Delta, FALSE)
      BY <1>3, <2>1 DEF SnapshotInv, SnapshotsStand
    <2>3. max_ingest + 0 = max_ingest
      <3>1. job = "idle" /\ chExp # {}
        BY <2>1 DEF Completed
      <3>2. max_ingest = Latest
        BY <1>3, <2>1, <3>1, WholeServed DEF SnapshotInv
      <3> QED
        BY <3>2, TimesBounded
    <2>4. /\ {q \in chAtt : TRUE => q.path = "hot"} = {q \in chAtt : q.path = "hot"}
          /\ {q \in chAtt : FALSE => q.path = "hot"} = chAtt
      OBVIOUS
    <2>5. /\ \E s \in snapshots :
               /\ s.reported_at = max_ingest + 0 /\ s.campaign = m
               /\ s.conversions =
                     CreditedIn({q \in chAtt : TRUE => q.path = "hot"}, m)
          /\ \E s \in snapshots :
               /\ s.reported_at = max_ingest + Delta /\ s.campaign = m
               /\ s.conversions =
                     CreditedIn({q \in chAtt : FALSE => q.path = "hot"}, m)
      BY <2>1, <2>2 DEF Reported
    <2> QED
      BY <2>3, <2>4, <2>5
  <1> QED
    BY <1>1, <1>2, <1>3, PTL DEF Spec

=============================================================================
