----------------------------- MODULE LakeTable -----------------------------
(***************************************************************************)
(* A raw table of the lake as its processes share it: the engine and       *)
(* reconciliation append to it (land, land_attributed), readers scan it at *)
(* a metadata path, lake_maintenance rewrites its small files and expires  *)
(* snapshots, lake-reset deletes its directory.  Nothing locks: a handle   *)
(* is the table as it was when it was opened, and a commit against a       *)
(* handle that is no longer the head fails.  That optimistic commit is     *)
(* pyiceberg's; everything here may be killed at any step.                 *)
(*                                                                         *)
(* A landed row is a pair <<landing, partition>>: the rows one append puts *)
(* in one partition.  A partition is a <<day, bucket>> pair; a data file   *)
(* holds rows of one.  A scan of a removed file raises, so which files are *)
(* gone does not matter to what a scan that succeeds returns.              *)
(***************************************************************************)
EXTENDS Integers, FiniteSets

CONSTANTS
    Writers,        \* processes that append
    Landings,       \* the sets of partitions an append may touch
    Layouts,        \* partition layouts of the deployed code
    None,
    MaxLandings,    \* bound: appends
    MaxLives,       \* bound: times the table is created
    MaxPasses       \* bound: maintenance passes

Days == {p[1] : p \in UNION Landings}

ASSUME LandingsAssumption ==
    /\ \A l \in Landings : l # {} /\ l \subseteq Nat \X Nat
    /\ {"maintain", "reader", "reset"} \cap Writers = {}
    /\ MaxLandings \in Nat /\ MaxLives \in Nat /\ MaxPasses \in Nat

Processes == Writers \cup {"maintain", "reader", "reset"}

VARIABLES
    table,      \* what catalog.db says: None, or the table at its head
    warehouse,  \* data files in the directory: "empty", "part" (some removed),
                \* or "whole"
    lives, landings, passes,   \* counters: tables, appends, passes so far
    pc,         \* where each process is
    handle,     \* the table as each process opened it, or None
    left,       \* what each process has still to do: partitions, days
    landed,     \* history: rows whose append returned, in this life
    report      \* history: what the last process to end reported

vars == <<table, warehouse, lives, landings, passes, pc, handle, left, landed, report>>

Rows(files) == UNION {f.rows : f \in files}

FileOf(p, rows) == [partition |-> p, rows |-> rows]

Goto(p, label) == pc' = [pc EXCEPT ![p] = label]

End(p, outcome) ==
    /\ Goto(p, "idle")
    /\ handle' = [handle EXCEPT ![p] = None]
    /\ left' = [left EXCEPT ![p] = {}]
    /\ report' = [by |-> p, says |-> outcome, saw |-> {}, promised |-> {}]

NoReport == report' = [by |-> None, says |-> "none", saw |-> {}, promised |-> {}]

----------------------------------------------------------------------------
(* ensure_exposures, ensure_attributed: the table, created when missing. *)

Created(layout) ==
    [life |-> lives + 1, head |-> 0, layout |-> layout, files |-> {}, history |-> {}]

\* _check_layout compares what the table records with what the code expects.
Opens(p, layout, next) ==
    /\ pc[p] = "idle"
    /\ \/ /\ table = None /\ lives < MaxLives
          /\ lives' = lives + 1
          /\ table' = Created(layout)
          /\ landed' = {}
       \/ /\ table # None /\ table.layout = layout
          /\ UNCHANGED <<lives, table, landed>>
    /\ handle' = [handle EXCEPT ![p] = table']
    /\ Goto(p, next)
    /\ NoReport
    /\ UNCHANGED warehouse

\* LakeLayoutError: raised before anything is read or written.
RefuseLayout(p, layout) ==
    /\ pc[p] = "idle" /\ p # "reset"
    /\ table # None /\ table.layout # layout
    /\ End(p, "refused")
    /\ UNCHANGED <<table, warehouse, lives, landings, passes, landed>>

\* The catalog takes a commit whose handle is the head of the same table.
AtHead(p) ==
    /\ table # None
    /\ table.life = handle[p].life /\ table.head = handle[p].head

Committed(files) ==
    [table EXCEPT !.head = @ + 1, !.files = files, !.history = @ \cup {table.head + 1}]

\* CommitFailedException, or no such table: nothing here catches it.
CommitFails(p) ==
    /\ pc[p] = "append" \/ (pc[p] = "compact" /\ left[p] # {})
    /\ ~AtHead(p)
    /\ End(p, "raised")
    /\ UNCHANGED <<table, warehouse, lives, landings, passes, landed>>

\* Once written to, an emptied directory holds some of what it should.
Written == IF table.files # {} /\ warehouse = "empty" THEN "part"
           ELSE IF warehouse = "empty" THEN "whole" ELSE warehouse

----------------------------------------------------------------------------
(* land, land_attributed: one append of the rows of every day. *)

OpenToLand(w, layout) ==
    /\ landings < MaxLandings
    /\ Opens(w, layout, "append")
    /\ \E l \in Landings : left' = [left EXCEPT ![w] = l]
    /\ UNCHANGED <<landings, passes>>

\* Mutant: one append per day.
MutantAppendPerDay(w) ==
    /\ pc[w] = "append" /\ AtHead(w)
    /\ LET today == {p \in left[w] : \A q \in left[w] : p[1] <= q[1]}
           new == {FileOf(p, {<<landings + 1, p>>}) : p \in today}
       IN /\ table' = Committed(table.files \cup new)
          /\ warehouse' = Written
          /\ IF today = left[w]
             THEN /\ landings' = landings + 1
                  /\ landed' = landed \cup {<<landings + 1, p>> :
                                  p \in UNION {l \in Landings : left[w] \subseteq l}}
                  /\ End(w, "landed")
             ELSE /\ left' = [left EXCEPT ![w] = @ \ today]
                  /\ handle' = [handle EXCEPT ![w] = table']
                  /\ NoReport
                  /\ UNCHANGED <<pc, landings, landed>>
    /\ UNCHANGED <<lives, passes>>

Append(w) ==
    /\ pc[w] = "append" /\ AtHead(w)
    /\ LET new == {FileOf(p, {<<landings + 1, p>>}) : p \in left[w]}
       IN /\ table' = Committed(table.files \cup new)
          /\ warehouse' = Written
          /\ landed' = landed \cup Rows(new)
    /\ landings' = landings + 1
    /\ End(w, "landed")
    /\ UNCHANGED <<lives, passes>>

----------------------------------------------------------------------------
(* maintain: compact the days with small files, then expire snapshots. *)

FilesIn(files, p) == {f \in files : f.partition = p}

days_with_small_files(files) ==
    {p[1] : p \in {q \in {f.partition : f \in files} :
                     Cardinality(FilesIn(files, q)) > 1}}

OpenToMaintain(layout) ==
    /\ passes < MaxPasses
    /\ Opens("maintain", layout, "compact")
    /\ passes' = passes + 1
    /\ left' = [left EXCEPT !["maintain"] = days_with_small_files(table'.files)]
    /\ UNCHANGED landings

\* Mutant: the range of a day is taken to include the day after it.
MutantClosedRange(files, day) == {f \in files : f.partition[1] \in {day, day + 1}}

\* overwrite_filter: the day's event_time range.
day_filter(files, day) == {f \in files : f.partition[1] = day}

NextDay == CHOOSE d \in left["maintain"] : \A e \in left["maintain"] : d <= e

\* The scan reads the handle's snapshot, which never changes: the day's rows
\* are those of the table that the overwrite is to replace.
OverwriteDay ==
    /\ pc["maintain"] = "compact" /\ left["maintain"] # {} /\ AtHead("maintain")
    /\ LET old == handle["maintain"].files
           scanned == {f \in old : f.partition[1] = NextDay}
           new == {FileOf(p, Rows(FilesIn(scanned, p))) :
                     p \in {f.partition : f \in scanned}}
       IN /\ table' = Committed((old \ day_filter(old, NextDay)) \cup new)
    /\ warehouse # "empty" /\ warehouse' = Written
    /\ handle' = [handle EXCEPT !["maintain"] = table']
    /\ left' = [left EXCEPT !["maintain"] = @ \ {NextDay}]
    /\ NoReport
    /\ UNCHANGED <<pc, lives, landings, passes, landed>>

\* older_than(now - max_age), at its sharpest: every snapshot is old enough.
Expired(history) == history \ {handle["maintain"].head}

\* Mutant: the snapshots are expired, then the days are compacted.
MutantExpireFirst ==
    /\ pc["maintain"] = "compact"
    /\ table # None /\ table.life = handle["maintain"].life
    /\ IF left["maintain"] = {}
       THEN UNCHANGED table /\ End("maintain", "maintained")
       ELSE /\ left["maintain"] = days_with_small_files(handle["maintain"].files)
            /\ table' = [table EXCEPT !.history = @ \ Expired(handle["maintain"].history)]
            /\ UNCHANGED <<pc, handle, left, report>>
    /\ UNCHANGED <<warehouse, lives, landings, passes, landed>>

\* Metadata only; no requirement on the head, which a handle that is older
\* than it does not know.
ExpireSnapshots ==
    /\ pc["maintain"] = "compact" /\ left["maintain"] = {}
    /\ table # None /\ table.life = handle["maintain"].life
    /\ table' = [table EXCEPT !.history = @ \ Expired(handle["maintain"].history)]
    /\ End("maintain", "maintained")
    /\ UNCHANGED <<warehouse, lives, landings, passes, landed>>

----------------------------------------------------------------------------
(* read_current, read_exposures_*: resolve the metadata path, scan it. *)

OpenToRead(layout) ==
    /\ Opens("reader", layout, "scan")
    /\ left' = [left EXCEPT !["reader"] = landed']
    /\ UNCHANGED <<landings, passes>>

Scan ==
    /\ pc["reader"] = "scan"
    /\ handle["reader"].files # {} => warehouse # "empty"
    /\ Goto("reader", "idle")
    /\ handle' = [handle EXCEPT !["reader"] = None]
    /\ left' = [left EXCEPT !["reader"] = {}]
    /\ report' = [by |-> "reader", says |-> "rows",
                  saw |-> Rows(handle["reader"].files), promised |-> left["reader"]]
    /\ UNCHANGED <<table, warehouse, lives, landings, passes, landed>>

----------------------------------------------------------------------------
(* destructive.reset: confirm, then rmtree of data/lake/<profile>, whether or *)
(* not a table is in it.  Without the directory there is nothing to remove.   *)

\* No tty, end of file, or any answer but yes.
AbortReset ==
    /\ pc["reset"] = "idle"
    /\ End("reset", "aborted")
    /\ UNCHANGED <<table, warehouse, lives, landings, passes, landed>>

ConfirmReset ==
    /\ pc["reset"] = "idle"
    /\ Goto("reset", "rmtree")
    /\ NoReport
    /\ UNCHANGED <<table, warehouse, lives, landings, passes, handle, left, landed>>

\* rmtree takes the entries of the directory one by one, in no given order.
RemoveFiles ==
    /\ pc["reset"] = "rmtree"
    /\ \/ warehouse = "whole" /\ warehouse' \in {"part", "empty"}
       \/ warehouse = "part" /\ warehouse' = "empty"
    /\ UNCHANGED <<table, lives, landings, passes, pc, handle, left, landed>>
    /\ NoReport

RemoveCatalog ==
    /\ pc["reset"] = "rmtree" /\ table # None
    /\ table' = None
    /\ landed' = {}
    /\ NoReport
    /\ UNCHANGED <<warehouse, lives, landings, passes, pc, handle, left>>

\* The last rmdir fails as long as anything is left.
Removed ==
    /\ pc["reset"] = "rmtree" /\ table = None /\ warehouse = "empty"
    /\ End("reset", "removed")
    /\ UNCHANGED <<table, warehouse, lives, landings, passes, landed>>

----------------------------------------------------------------------------
\* A process is killed, or something it calls raises (a missing file, no such
\* table, a permission): what it has done stays.
Fail(p) ==
    /\ pc[p] # "idle"
    /\ End(p, "raised")
    /\ UNCHANGED <<table, warehouse, lives, landings, passes, landed>>

Init ==
    /\ table = None /\ warehouse = "empty"
    /\ lives = 0 /\ landings = 0 /\ passes = 0
    /\ pc = [p \in Processes |-> "idle"]
    /\ handle = [p \in Processes |-> None]
    /\ left = [p \in Processes |-> {}]
    /\ landed = {}
    /\ report = [by |-> None, says |-> "none", saw |-> {}, promised |-> {}]

Next ==
    \/ \E layout \in Layouts : \/ \E w \in Writers : OpenToLand(w, layout)
                                \/ OpenToMaintain(layout)
                                \/ OpenToRead(layout)
                                \/ \E p \in Processes : RefuseLayout(p, layout)
    \/ \E w \in Writers : Append(w)
    \/ OverwriteDay \/ ExpireSnapshots
    \/ Scan
    \/ AbortReset \/ ConfirmReset
    \/ RemoveFiles \/ RemoveCatalog \/ Removed
    \/ \E p \in Processes : CommitFails(p) \/ Fail(p)

Spec == Init /\ [][Next]_vars
----------------------------------------------------------------------------

\* Whatever maintenance rewrites and whoever appends meanwhile, the head holds
\* every row whose append returned, exactly once: compaction changes no row
\* content, and no commit loses another one's.
RowsKept ==
    table # None =>
       /\ Rows(table.files) = landed
       /\ \A f, g \in table.files : f # g => f.rows \cap g.rows = {}

\* A read that succeeds sees all that was landed when it opened the table, and
\* of any append either every row or none.
ReadIsWhole ==
    report.says = "rows" =>
       /\ report.promised \subseteq report.saw
       /\ \A r \in report.saw :
             \E l \in Landings : /\ r[2] \in l
                                 /\ {<<r[1], p>> : p \in l} \subseteq report.saw

\* A maintenance pass that nobody overtook leaves one file to a partition and
\* the head as the only snapshot.
MaintenanceSettles ==
    [][report'.says = "maintained" /\ pc["maintain"] # "idle" /\ AtHead("maintain") =>
          /\ days_with_small_files(table'.files) = {}
          /\ table'.head > 0 => table'.history = {table'.head}]_vars
=============================================================================
