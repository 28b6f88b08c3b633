----------------------------- MODULE Migration -----------------------------
(***************************************************************************)
(* migrate_report_snapshots (clickhouse/apply.py): give the one table that *)
(* cannot be rebuilt from the lake a version column, by create, copy,      *)
(* count, EXCHANGE and drop.  One action is one ClickHouse statement.  The *)
(* process may be killed between any two; every job applies the DDL, so    *)
(* another attempt follows.  With more than one applier, two jobs migrate  *)
(* at the same time.  ClickHouse is external: it merges the twins of a     *)
(* table (equal sort keys) in the background, whenever it likes.           *)
(***************************************************************************)
EXTENDS Integers, FiniteSets, Sequences

CONSTANTS
    Appliers,      \* processes that apply the DDL
    Rows, KeyOf,   \* rows of the live table; twins share their sort key
    MaxKills,      \* bound: kills of an applier
    NoTable        \* a table that does not exist

ASSUME RowsAssumption == IsFiniteSet(Rows) /\ MaxKills \in Nat

VARIABLES
    live,       \* report_snapshots: whether it has the version column and the
                \* engine that uses it, and its rows
    scratch,    \* report_snapshots_v2, or NoTable
    pc,         \* where each applier is
    old_rows,   \* what it counted in the live table
    kills

vars == <<live, scratch, pc, old_rows, kills>>

KeysOf(table) == {KeyOf[table.rows[i]] : i \in DOMAIN table.rows}

At(p, label) == pc[p] = label

GoTo(p, label) == pc' = [pc EXCEPT ![p] = label]

Init ==
    /\ live \in [versioned : {FALSE}, column : {FALSE},
                 rows : {s \in [1..Cardinality(Rows) -> Rows] :
                           \A r \in Rows : \E i \in DOMAIN s : s[i] = r}]
    /\ scratch = NoTable
    /\ pc = [p \in Appliers |-> "idle"]
    /\ old_rows = [p \in Appliers |-> 0]
    /\ kills = 0

\* The guard, first: an already versioned table is left alone.
Guard(p) ==
    /\ At(p, "idle") /\ ~live.versioned
    /\ GoTo(p, "drop")
    /\ UNCHANGED <<live, scratch, old_rows, kills>>

\* Mutant: a leftover scratch table is not cleared.
MutantKeepLeftover(p) ==
    /\ At(p, "drop")
    /\ GoTo(p, "alter")
    /\ UNCHANGED <<live, scratch, old_rows, kills>>

DropLeftover(p) ==
    /\ At(p, "drop")
    /\ scratch' = NoTable
    /\ GoTo(p, "alter")
    /\ UNCHANGED <<live, old_rows, kills>>

\* `add column if not exists`.
AddColumn(p) ==
    /\ At(p, "alter")
    /\ live' = [live EXCEPT !.column = TRUE]
    /\ GoTo(p, "create")
    /\ UNCHANGED <<scratch, old_rows, kills>>

\* Mutant: the empty table is exchanged before it is filled.
MutantExchangeEmpty(p) ==
    /\ At(p, "create")
    /\ IF scratch = NoTable
       THEN /\ scratch' = [versioned |-> TRUE, column |-> live.column, rows |-> <<>>]
            /\ GoTo(p, "exchange")
       ELSE UNCHANGED scratch /\ GoTo(p, "idle")
    /\ UNCHANGED <<live, old_rows, kills>>

\* `create table`, without `if not exists`: raises on a scratch that is there.
Create(p) ==
    /\ At(p, "create")
    /\ IF scratch = NoTable
       THEN /\ scratch' = [versioned |-> TRUE, column |-> live.column, rows |-> <<>>]
            /\ GoTo(p, "copy")
       ELSE UNCHANGED scratch /\ GoTo(p, "idle")
    /\ UNCHANGED <<live, old_rows, kills>>

Copy(p) ==
    /\ At(p, "copy")
    /\ IF scratch # NoTable
       THEN scratch' = [scratch EXCEPT !.rows = @ \o live.rows] /\ GoTo(p, "countOld")
       ELSE UNCHANGED scratch /\ GoTo(p, "idle")
    /\ UNCHANGED <<live, old_rows, kills>>

CountOld(p) ==
    /\ At(p, "countOld")
    /\ old_rows' = [old_rows EXCEPT ![p] = Len(live.rows)]
    /\ GoTo(p, "countNew")
    /\ UNCHANGED <<live, scratch, kills>>

\* Refuse a short copy, or one that is gone, rather than exchange it.
CountNew(p) ==
    /\ At(p, "countNew")
    /\ IF scratch # NoTable /\ Len(scratch.rows) = old_rows[p]
       THEN GoTo(p, "exchange") ELSE GoTo(p, "idle")
    /\ UNCHANGED <<live, scratch, old_rows, kills>>

\* EXCHANGE TABLES is atomic, and raises when one of them does not exist.
Exchange(p) ==
    /\ At(p, "exchange")
    /\ IF scratch # NoTable
       THEN live' = scratch /\ scratch' = live /\ GoTo(p, "dropOld")
       ELSE UNCHANGED <<live, scratch>> /\ GoTo(p, "idle")
    /\ UNCHANGED <<old_rows, kills>>

DropOld(p) ==
    /\ At(p, "dropOld")
    /\ scratch' = NoTable
    /\ GoTo(p, "idle")
    /\ UNCHANGED <<live, old_rows, kills>>

Kill(p) ==
    /\ pc[p] # "idle" /\ kills < MaxKills
    /\ kills' = kills + 1
    /\ GoTo(p, "idle")
    /\ UNCHANGED <<live, scratch, old_rows>>

\* The table without one of two twins, if it has some.
Merged(table) ==
    {[table EXCEPT !.rows = SubSeq(@, 1, i - 1) \o SubSeq(@, i + 1, Len(@))] :
        i \in {j \in DOMAIN table.rows :
                 \E k \in DOMAIN table.rows :
                    k # j /\ KeyOf[table.rows[k]] = KeyOf[table.rows[j]]}}

MergeLive ==
    /\ live' \in Merged(live)
    /\ UNCHANGED <<scratch, pc, old_rows, kills>>

MergeScratch ==
    /\ scratch # NoTable /\ scratch' \in Merged(scratch)
    /\ UNCHANGED <<live, pc, old_rows, kills>>

Migrate(p) ==
    \/ Guard(p) \/ DropLeftover(p) \/ AddColumn(p) \/ Create(p) \/ Copy(p)
    \/ CountOld(p) \/ CountNew(p) \/ Exchange(p) \/ DropOld(p)

Next ==
    \/ \E p \in Appliers : Migrate(p) \/ Kill(p)
    \/ MergeLive \/ MergeScratch

Spec == Init /\ [][Next]_vars

\* A job that is not killed goes on, another one follows, and ClickHouse does
\* merge the live table's twins in the end.
FairSpec == Spec /\ WF_vars(MergeLive) /\ \A p \in Appliers : WF_vars(Migrate(p))
----------------------------------------------------------------------------

\* No report is lost: whatever is killed, refused or merged, and whenever, a
\* query of the live table finds every snapshot ("every row is preserved").
EverySnapshotServed == KeysOf(live) = {KeyOf[r] : r \in Rows}

\* Kills and refused copies only delay it: the table is migrated in the end.
EventuallyMigrated == <>live.versioned
=============================================================================
