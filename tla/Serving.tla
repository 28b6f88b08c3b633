------------------------------ MODULE Serving ------------------------------
(***************************************************************************)
(* The lake of record, the ClickHouse serving tables derived from it and   *)
(* the jobs that move rows between them: the engine (land, load, mark),    *)
(* reconciliation (`make run`), day-partitioned reconciliation (`make      *)
(* reconcile-dagster`), `orchestration.run load --days`, `make             *)
(* replay-serving` and `make down`.  One action is one append to a lake    *)
(* table or one ClickHouse statement; a job may be killed between any two  *)
(* of them, and inside a chunked insert.                                   *)
(*                                                                         *)
(* One profile, whose topic is complete before the engine drains it, so    *)
(* the hot decision on a conversion is a constant (HotCredit), as is the   *)
(* decision of the 90-day leaf (LongCredit).  HotWindow is about how the   *)
(* former is computed.  Jobs run one at a time, as the Makefile runs them. *)
(* A number reported for a set of rows (spend, counts, revenue) is         *)
(* represented by the set itself.  A version 0 stands for no row.          *)
(***************************************************************************)
EXTENDS Integers, FiniteSets, Sequences

CONSTANTS
    Exposures, ExpDay, ExpKey, ExpIngest,   \* rows of the exposures topic
    Conversions, ConvDay, ConvIngest,       \* rows of the conversions topic
    HotCredit,     \* the exposure (a set of at most one) the hot path credits
    LongCredit,    \* ... and the one the 90-day leaf would credit
    Days,          \* event_time days
    Keys,          \* rollup keys (campaign_id, hour)
    Campaigns, CampaignOf,   \* the campaign of each rollup key
    Delta,         \* RECONCILE_DELTA_MS
    Regimes        \* what may happen in a behaviour: see JobAssumption

JobNames == {"engine", "reconcile", "dagster", "replay", "load", "down"}

ASSUME TopicAssumption ==
    /\ IsFiniteSet(Exposures) /\ IsFiniteSet(Conversions)
    /\ ExpDay \in [Exposures -> Days]
    /\ ExpKey \in [Exposures -> Keys]
    /\ ExpIngest \in [Exposures -> Nat \ {0}]
    /\ ConvDay \in [Conversions -> Days]
    /\ ConvIngest \in [Conversions -> Nat \ {0}]
    /\ HotCredit \in [Conversions -> SUBSET Exposures]
    /\ LongCredit \in [Conversions -> SUBSET Exposures]
    /\ \A c \in Conversions : \A credit \in {HotCredit[c], LongCredit[c]} :
          \A d, e \in credit : d = e
    /\ CampaignOf \in [Keys -> Campaigns]
    /\ Days \subseteq Nat
    /\ Delta \in Nat \ {0}

\* jobs: the jobs an operator starts; killed: those that may be killed
\* part-way; calendar: DAY_PARTITIONS; loads: the day sets given to
\* `load --days`; partitions: the days given to reconcile-dagster.
Regime ==
    [jobs : SUBSET JobNames, killed : SUBSET (JobNames \ {"down"}),
     calendar : SUBSET Days, loads : SUBSET ((SUBSET Days) \ {{}}),
     partitions : SUBSET Days]

ASSUME JobAssumption ==
    \A g \in Regimes : /\ g \in Regime
                        /\ g.killed \subseteq g.jobs
                        /\ g.partitions \subseteq g.calendar

VARIABLES
    regime,       \* never changes
    lakeExp,      \* raw.exposures (distinct rows)
    lakeAtt,      \* raw.attributed_conversions (distinct rows)
    chExp,        \* exposures_landed FINAL
    chAtt,        \* attributed_conversions FINAL
    hourly,       \* campaign_hourly FINAL, per key
    dirty,        \* rollup_dirty FINAL: version per key
    refreshed,    \* rollup_refreshed FINAL: version per key
    snapshots,    \* report_snapshots FINAL
    marker,       \* eval_meta names this profile
    job, step,    \* the job that runs and where it is
    todo,         \* days it has still to load or to recover
    touched,      \* days a partitioned reconciliation has landed in
    stamps,       \* key versions the refresh computed against
    last          \* how the last job ended: its name, or "none", "crashed", "refused"

lake == <<regime, lakeExp, lakeAtt>>
rollup == <<hourly, dirty, refreshed>>
serving == <<chExp, chAtt, hourly, dirty, refreshed, snapshots, marker>>
vars == <<regime, lakeExp, lakeAtt, chExp, chAtt, hourly, dirty, refreshed, snapshots,
          marker, job, step, todo, touched, stamps, last>>

KnownDays == regime.calendar
Killable == regime.killed

----------------------------------------------------------------------------
(* Rows and reads. *)

Greatest(S) == IF S = {} THEN 0 ELSE CHOOSE m \in S : \A n \in S : n <= m

Larger(m, n) == IF m < n THEN n ELSE m

First(S) == CHOOSE d \in S : \A e \in S : d <= e

HotRow(c) == [conv |-> c, credited |-> HotCredit[c], path |-> "hot",
              processed_at |-> ConvIngest[c]]

\* row_number() over (... order by processed_at desc, path desc) = 1.
Supersedes(r, q) ==
    \/ r.processed_at > q.processed_at
    \/ r.processed_at = q.processed_at /\ (r.path = "reconciled" \/ q.path = "hot")

Current(log) == {r \in log : \A q \in log : q.conv = r.conv => Supersedes(r, q)}

\* Mutant: the first insert is kept.
MutantFirstInsertWins(table, rows) ==
    table \cup {r \in rows : \A q \in table : q.conv # r.conv}

\* ReplacingMergeTree(processed_at): FINAL keeps the highest version, and the
\* row inserted last among equal versions.
Replace(table, rows) ==
    LET lost(r) == \E q \in table : q.conv = r.conv
                                    /\ q.processed_at > r.processed_at
        won == {r \in rows : ~lost(r)}
    IN {q \in table : \A r \in won : r.conv # q.conv} \cup won

lake_days == {ExpDay[e] : e \in lakeExp} \cup {ConvDay[r.conv] : r \in lakeAtt}

ExposuresOf(k) == {e \in chExp : ExpKey[e] = k}

\* The served rows joined to the exposures they credit.
CreditedTo(k) == {r \in chAtt : r.credited \cap ExposuresOf(k) # {}}

\* What campaign_hourly holds for a key when computed now; version 0: no row.
Rebuilt(k) ==
    [exposures   |-> ExposuresOf(k),
     conversions |-> {r.conv : r \in CreditedTo(k)},
     version     |-> Greatest({ExpIngest[e] : e \in ExposuresOf(k)}
                       \cup {r.processed_at : r \in CreditedTo(k)})]

NoRollupRow == [exposures |-> {}, conversions |-> {}, version |-> 0]

\* max(ingest_time) over both serving tables; 0 (the epoch) when empty.
max_ingest == Greatest({ExpIngest[e] : e \in chExp}
                         \cup {ConvIngest[r.conv] : r \in chAtt})

\* Mutant: the correction carries the base itself.
MutantNoDelta == max_ingest

reconciled_at == max_ingest + Delta

\* Mutant: rows the hot path credited are candidates too.
MutantCreditedToo(days) ==
    {r \in Current(lakeAtt) : r.path = "hot" /\ ConvDay[r.conv] \in days}

\* Mutant: every unattributed row of the log is a candidate, current or not.
MutantAnyUnattributed(days) ==
    {r \in lakeAtt : /\ r.credited = {}
                     /\ r.path = "hot"
                     /\ ConvDay[r.conv] \in days}

\* Current hot-unattributed lake rows of the given days.
lake_candidates(days) ==
    {r \in Current(lakeAtt) : /\ r.credited = {}
                              /\ r.path = "hot"
                              /\ ConvDay[r.conv] \in days}

\* recover_day over each of the days: the candidates the long window matches.
recover(days) ==
    {[conv |-> r.conv, credited |-> LongCredit[r.conv], path |-> "reconciled",
      processed_at |-> reconciled_at] :
        r \in {q \in lake_candidates(days) :
                 LongCredit[q.conv] # {} /\ LongCredit[q.conv] \subseteq lakeExp}}

\* The days an append of attributed rows touched.
touched_days(rows) == {ConvDay[r.conv] : r \in rows}

----------------------------------------------------------------------------
(* Job control. *)

Init ==
    /\ regime \in Regimes
    /\ lakeExp = {} /\ lakeAtt = {}
    /\ chExp = {} /\ chAtt = {}
    /\ hourly = [k \in Keys |-> NoRollupRow]
    /\ dirty = [k \in Keys |-> 0]
    /\ refreshed = [k \in Keys |-> 0]
    /\ snapshots = {}
    /\ marker = FALSE
    /\ job = "idle" /\ step = "none"
    /\ todo = {} /\ touched = {} /\ stamps = {}
    /\ last = "none"

Running(j, s) == job = j /\ step = s

GoTo(s) == step' = s /\ UNCHANGED <<job, todo, touched, stamps, last>>

End(outcome) ==
    /\ job' = "idle" /\ step' = "none"
    /\ todo' = {} /\ touched' = {} /\ stamps' = {}
    /\ last' = outcome

Start(j, s, days) ==
    /\ job = "idle" /\ j \in regime.jobs
    /\ job' = j /\ step' = s /\ todo' = days
    /\ UNCHANGED <<lake, serving, touched, stamps, last>>

\* Where a job continues once materialize_load has returned.
AfterLoad ==
    CASE job \in {"engine", "replay"}     -> GoTo("mark")
      [] job \in {"reconcile", "dagster"} -> GoTo("snapshotPre")
      [] job = "load"                     -> End("load")

\* The head of materialize_load: nothing to do, a refusal, or the first day.
BeginLoad(days) ==
    \/ days = {} /\ AfterLoad
    \/ ~(days \subseteq KnownDays) /\ End("refused")
    \/ /\ days # {} /\ days \subseteq KnownDays
       /\ step' = "insertExposures" /\ todo' = days
       /\ UNCHANGED <<job, touched, stamps, last>>

----------------------------------------------------------------------------
(* The engine: land_run. *)

StartEngine == Start("engine", "landExposures", {})

LandExposures ==
    /\ Running("engine", "landExposures")
    /\ lakeExp' = Exposures
    /\ GoTo("landAttributed")
    /\ UNCHANGED <<regime, lakeAtt, serving>>

\* Mutant: the days to load are the exposures' only.
MutantLoadExposureDays ==
    /\ Running("engine", "landAttributed")
    /\ lakeAtt' = lakeAtt \cup {HotRow(c) : c \in Conversions}
    /\ BeginLoad({ExpDay[e] : e \in Exposures})
    /\ UNCHANGED <<regime, lakeExp, serving>>

LandAttributed ==
    /\ Running("engine", "landAttributed")
    /\ lakeAtt' = lakeAtt \cup {HotRow(c) : c \in Conversions}
    /\ BeginLoad({ExpDay[e] : e \in Exposures}
                   \cup touched_days({HotRow(c) : c \in Conversions}))
    /\ UNCHANGED <<regime, lakeExp, serving>>

(* Reconciliation: one pass over every candidate day, one append. *)

StartReconcile == Start("reconcile", "recover", {})

Reconcile ==
    /\ Running("reconcile", "recover")
    /\ lakeAtt' = lakeAtt \cup recover(Days)
    /\ BeginLoad(touched_days(recover(Days)))
    /\ UNCHANGED <<regime, lakeExp, serving>>

(* run_reconcile: one append per day, then the load of every touched day. *)

StartDagster == Start("dagster", "recoverDay", touched_days(lake_candidates(Days)))

StartDagsterPartition ==
    \E d \in regime.partitions : Start("dagster", "recoverDay", {d})

ReconcileDay ==
    /\ Running("dagster", "recoverDay")
    /\ todo # {} /\ First(todo) \in KnownDays
    /\ lakeAtt' = lakeAtt \cup recover({First(todo)})
    /\ touched' = touched \cup touched_days(recover({First(todo)}))
    /\ todo' = todo \ {First(todo)}
    /\ UNCHANGED <<regime, lakeExp, serving, job, step, stamps, last>>

\* Dagster rejects a partition key its calendar does not hold.
UnknownPartition ==
    /\ Running("dagster", "recoverDay")
    /\ todo # {} /\ First(todo) \notin KnownDays
    /\ End("refused")
    /\ UNCHANGED <<lake, serving>>

EveryDayReconciled ==
    /\ Running("dagster", "recoverDay") /\ todo = {}
    /\ BeginLoad(touched)
    /\ UNCHANGED <<lake, serving>>

(* load --days. *)

StartLoad == \E days \in regime.loads : Start("load", "begin", days)

LoadDays ==
    /\ Running("load", "begin")
    /\ BeginLoad(todo)
    /\ UNCHANGED <<lake, serving>>

(* Replay: refuse, truncate the derived tables in order, reload the lake. *)

SERVING_TABLES == <<"exposures_landed", "attributed_conversions", "eval_meta",
                    "campaign_hourly", "rollup_dirty", "rollup_refreshed">>

StartReplay ==
    /\ lake_days # {} /\ lake_days \subseteq KnownDays
    /\ Start("replay", SERVING_TABLES[1], lake_days)

Truncate(i) ==
    /\ Running("replay", SERVING_TABLES[i])
    /\ chExp' = IF step = "exposures_landed" THEN {} ELSE chExp
    /\ chAtt' = IF step = "attributed_conversions" THEN {} ELSE chAtt
    /\ marker' = (marker /\ step # "eval_meta")
    /\ hourly' = IF step = "campaign_hourly"
                 THEN [k \in Keys |-> NoRollupRow] ELSE hourly
    /\ dirty' = IF step = "rollup_dirty" THEN [k \in Keys |-> 0] ELSE dirty
    /\ refreshed' = IF step = "rollup_refreshed"
                    THEN [k \in Keys |-> 0] ELSE refreshed
    /\ IF i < Len(SERVING_TABLES) THEN GoTo(SERVING_TABLES[i + 1])
                                  ELSE BeginLoad(todo)
    /\ UNCHANGED <<lake, snapshots>>

\* `docker compose down -v`: the ClickHouse volume goes, the lake stays.
Down ==
    /\ job = "idle" /\ "down" \in regime.jobs
    /\ chExp' = {} /\ chAtt' = {}
    /\ hourly' = [k \in Keys |-> NoRollupRow]
    /\ dirty' = [k \in Keys |-> 0]
    /\ refreshed' = [k \in Keys |-> 0]
    /\ snapshots' = {}
    /\ marker' = FALSE
    /\ last' = "down"
    /\ UNCHANGED <<lake, job, step, todo, touched, stamps>>

----------------------------------------------------------------------------
(* The load of one day, in the order of _LOAD_ASSETS. *)

day == First(todo)

LakeExposures == {e \in lakeExp : ExpDay[e] = day}

read_current == {r \in Current(lakeAtt) : ConvDay[r.conv] = day}

\* ReplacingMergeTree(version) keeps the highest stamp recorded for a key.
Record(version) == dirty' = [k \in Keys |-> Larger(dirty[k], version[k])]

InsertExposures ==
    /\ step = "insertExposures"
    /\ chExp' = chExp \cup LakeExposures
    /\ GoTo("dirtyExposures")
    /\ UNCHANGED <<lake, chAtt, rollup, snapshots, marker>>

\* Mutant: the keys of a day's exposures are not recorded.
MutantNoExposureKeys ==
    /\ step = "dirtyExposures"
    /\ GoTo("dirtyCredits")
    /\ UNCHANGED <<lake, serving>>

DirtyFromExposures ==
    /\ step = "dirtyExposures"
    /\ Record([k \in Keys |->
                 Greatest({ExpIngest[e] : e \in {x \in ExposuresOf(k) :
                                                   ExpDay[x] = day}})])
    /\ GoTo("dirtyCredits")
    /\ UNCHANGED <<lake, chExp, chAtt, hourly, refreshed, snapshots, marker>>

DirtyFromExposureCredits ==
    /\ step = "dirtyCredits"
    /\ Record([k \in Keys |->
                 Greatest({r.processed_at : r \in {q \in CreditedTo(k) :
                     \E e \in q.credited \cap ExposuresOf(k) : ExpDay[e] = day}})])
    /\ GoTo("insertAttributed")
    /\ UNCHANGED <<lake, chExp, chAtt, hourly, refreshed, snapshots, marker>>

InsertAttributed ==
    /\ step = "insertAttributed"
    /\ chAtt' = Replace(chAtt, read_current)
    /\ GoTo("dirtyAttributed")
    /\ UNCHANGED <<lake, chExp, rollup, snapshots, marker>>

\* The next day, or the refresh once the last one is loaded.
NextDay ==
    /\ todo' = todo \ {day}
    /\ step' = IF todo' = {} THEN "refresh" ELSE "insertExposures"
    /\ UNCHANGED <<job, touched, stamps, last>>

\* Mutant: the keys a correction lands in are not recorded.
MutantNoAttributedKeys ==
    /\ step = "dirtyAttributed"
    /\ NextDay
    /\ UNCHANGED <<lake, serving>>

DirtyFromAttributed ==
    /\ step = "dirtyAttributed"
    /\ Record([k \in Keys |->
                 Greatest({r.processed_at : r \in {q \in CreditedTo(k) :
                                                     ConvDay[q.conv] = day}})])
    /\ NextDay
    /\ UNCHANGED <<lake, chExp, chAtt, hourly, refreshed, snapshots, marker>>

(* refresh_campaign_hourly. *)

dirty_keys == {<<k, dirty[k]>> : k \in {j \in Keys : dirty[j] # 0
                                                    /\ dirty[j] # refreshed[j]}}

\* ReplacingMergeTree(reported_at): an older row is discarded.
Recomputed(k) ==
    IF Rebuilt(k).version = 0 \/ Rebuilt(k).version < hourly[k].version
    THEN hourly[k] ELSE Rebuilt(k)

Refresh ==
    /\ step = "refresh" /\ dirty_keys # {}
    /\ hourly' = [k \in Keys |-> IF \E v \in dirty_keys : v[1] = k
                                 THEN Recomputed(k) ELSE hourly[k]]
    /\ stamps' = dirty_keys
    /\ step' = "stamp"
    /\ UNCHANGED <<lake, chExp, chAtt, dirty, refreshed, snapshots, marker,
                   job, todo, touched, last>>

NothingDirty ==
    /\ step = "refresh" /\ dirty_keys = {}
    /\ AfterLoad
    /\ UNCHANGED <<lake, serving>>

StampRefreshed ==
    /\ step = "stamp"
    /\ refreshed' = [k \in Keys |->
                       Greatest({refreshed[k]}
                                  \cup {v[2] : v \in {w \in stamps : w[1] = k}})]
    /\ AfterLoad
    /\ UNCHANGED <<lake, chExp, chAtt, hourly, dirty, snapshots, marker>>

----------------------------------------------------------------------------
(* finalize: the PRE (hot rows) and POST snapshot of the report, then the   *)
(* marker, which only `make run`, the engine and the replay write.          *)

\* Mutant: the PRE snapshot is written without its path filter.
MutantNoPathFilter(offset, hot_only) ==
    LET credited == {r \in chAtt : r.credited \cap chExp # {}}
    IN {[reported_at |-> max_ingest + offset,
         campaign    |-> m,
         exposures   |-> {e \in chExp : CampaignOf[ExpKey[e]] = m},
         conversions |-> {r.conv : r \in {q \in credited :
                              \E e \in q.credited : CampaignOf[ExpKey[e]] = m}},
         version     |-> Greatest({r.processed_at :
                              r \in IF credited = {} THEN chAtt ELSE credited})] :
        m \in {CampaignOf[ExpKey[e]] : e \in chExp}}

report_snapshot(offset, hot_only) ==
    LET credited == {r \in chAtt : /\ r.credited \cap chExp # {}
                                   /\ hot_only => r.path = "hot"}
    IN {[reported_at |-> max_ingest + offset,
         campaign    |-> m,
         exposures   |-> {e \in chExp : CampaignOf[ExpKey[e]] = m},
         conversions |-> {r.conv : r \in {q \in credited :
                              \E e \in q.credited : CampaignOf[ExpKey[e]] = m}},
         version     |-> Greatest({r.processed_at :
                              r \in IF credited = {} THEN chAtt ELSE credited})] :
        m \in {CampaignOf[ExpKey[e]] : e \in chExp}}

SameSnapshot(r, s) == r.reported_at = s.reported_at /\ r.campaign = s.campaign

\* ReplacingMergeTree(snapshot_version), keyed (reported_at, campaign).
WriteSnapshot(rows) ==
    LET won == {r \in rows : \A s \in snapshots :
                               SameSnapshot(r, s) => s.version <= r.version}
    IN snapshots' = {s \in snapshots : \A r \in won : ~SameSnapshot(r, s)} \cup won

SnapshotPre ==
    /\ step = "snapshotPre"
    /\ WriteSnapshot(report_snapshot(0, TRUE))
    /\ GoTo("snapshotPost")
    /\ UNCHANGED <<lake, chExp, chAtt, rollup, marker>>

SnapshotPost ==
    /\ step = "snapshotPost"
    /\ WriteSnapshot(report_snapshot(Delta, FALSE))
    /\ IF job = "reconcile" THEN GoTo("mark") ELSE End("dagster")
    /\ UNCHANGED <<lake, chExp, chAtt, rollup, marker>>

WriteMarker ==
    /\ step = "mark"
    /\ marker' = TRUE
    /\ End(job)
    /\ UNCHANGED <<lake, chExp, chAtt, rollup, snapshots>>

----------------------------------------------------------------------------
(* Kills. *)

Crash ==
    /\ job \in Killable
    /\ End("crashed")
    /\ UNCHANGED <<lake, serving>>

\* Inserts go in chunks of _BATCH rows: a kill inside one leaves part of it.
CrashInExposures ==
    /\ job \in Killable /\ step = "insertExposures"
    /\ \E rows \in SUBSET LakeExposures : chExp' = chExp \cup rows
    /\ End("crashed")
    /\ UNCHANGED <<lake, chAtt, rollup, snapshots, marker>>

CrashInAttributed ==
    /\ job \in Killable /\ step = "insertAttributed"
    /\ \E rows \in SUBSET read_current : chAtt' = Replace(chAtt, rows)
    /\ End("crashed")
    /\ UNCHANGED <<lake, chExp, rollup, snapshots, marker>>

Next ==
    \/ StartEngine \/ LandExposures \/ LandAttributed
    \/ StartReconcile \/ Reconcile
    \/ StartDagster \/ StartDagsterPartition \/ ReconcileDay
    \/ UnknownPartition \/ EveryDayReconciled
    \/ StartLoad \/ LoadDays
    \/ StartReplay \/ \E i \in DOMAIN SERVING_TABLES : Truncate(i)
    \/ Down
    \/ InsertExposures \/ DirtyFromExposures \/ DirtyFromExposureCredits
    \/ InsertAttributed \/ DirtyFromAttributed
    \/ Refresh \/ NothingDirty \/ StampRefreshed
    \/ SnapshotPre \/ SnapshotPost \/ WriteMarker
    \/ Crash \/ CrashInExposures \/ CrashInAttributed

Spec == Init /\ [][Next]_vars

----------------------------------------------------------------------------
(* What `make rollup-bench` reads after a reconciliation. *)

\* The rollup aggregate as a SELECT, without the version; with hot_only, as it
\* stood before the reconciliation.
campaign_hourly_rows(hot_only) ==
    [k \in Keys |->
       [exposures |-> ExposuresOf(k),
        conversions |-> {r.conv : r \in {q \in CreditedTo(k) :
                                           hot_only => q.path = "hot"}}]]

_keyed(rows) ==
    [k \in DOMAIN rows |-> [exposures |-> rows[k].exposures,
                            conversions |-> rows[k].conversions]]

changed ==
    {k \in Keys : campaign_hourly_rows(TRUE)[k] # campaign_hourly_rows(FALSE)[k]}

\* Keys stamped at or above the lowest reconciled version; min() over no row is
\* the epoch.
reconcile_touched ==
    LET reconciled == {r.processed_at : r \in {q \in chAtt : q.path = "reconciled"}}
    IN {k \in Keys : /\ refreshed[k] # 0
                     /\ reconciled # {} => \E v \in reconciled : refreshed[k] >= v}

\* A refresh of the given keys, run into a table of its own.
measure_into_scratch(keys) == _keyed([k \in keys |-> Rebuilt(k)])

_merged(incremental, served) ==
    [k \in Keys |-> IF k \in DOMAIN incremental THEN incremental[k] ELSE served[k]]
----------------------------------------------------------------------------

\* Which behaviours a promise is made for.
NeverKilled == regime.killed = {}
OnlyReconcileKilled == regime.killed \subseteq {"reconcile"}
WholeCalendar == regime.calendar = Days
NeverDropped == "down" \notin regime.jobs

\* No job is cut short, or only a reconciliation is; nothing is refused or dropped.
Undisturbed == NeverKilled /\ WholeCalendar /\ NeverDropped
OnlyReconcileDisturbed == OnlyReconcileKilled /\ WholeCalendar /\ NeverDropped

Completed(jobs) == job = "idle" /\ last \in jobs

\* The serving tables hold the lake: every exposure, and for every conversion
\* the row of the highest version landed for it.
LakeIsServed ==
    /\ chExp = lakeExp
    /\ chAtt \subseteq lakeAtt
    /\ \A r \in lakeAtt : \E s \in chAtt :
          s.conv = r.conv /\ s.processed_at >= r.processed_at

\* A completed reconciliation leaves its corrections served, and any an
\* earlier killed one landed ("a replay/re-run converges", reconcile.py).
ReconcileConverges == Completed({"reconcile", "dagster"}) => LakeIsServed

\* A completed engine run or replay leaves the whole lake served, whatever was
\* killed before it (load_serving.py: idempotent per day), and so does a
\* completed reconciliation as long as no job is killed, the calendar has every
\* day and the volume is never dropped.
CompletedJobServesLake ==
    /\ Completed({"engine", "replay"}) => LakeIsServed
    /\ Undisturbed => ReconcileConverges

RollupIsFresh == \A k \in Keys : hourly[k] = Rebuilt(k)

\* Once a job has refreshed the rollup, every served row of it equals the full
\* rebuild from the landed tables; and a full load repairs the rollup, whatever
\* reconciliation was killed before it.  (A volume loaded in parts is left out:
\* the stamp of one part can hide rows of the next that are no higher.)
RollupEqualsRebuild ==
    (\/ Undisturbed /\ Completed({"engine", "reconcile", "dagster", "replay", "load"})
     \/ OnlyReconcileDisturbed /\ "load" \notin regime.jobs
        /\ Completed({"engine", "replay"}))
        => RollupIsFresh

\* reconciled_at is "strictly above every hot version": a correction in the
\* lake supersedes the hot row it corrects.
CorrectionWins ==
    OnlyReconcileDisturbed =>
    \A r \in lakeAtt : r.path = "reconciled" =>
       \A q \in lakeAtt :
          q.conv = r.conv /\ q.path = "hot" => q.processed_at < r.processed_at

\* eval_meta names the profile only while every exposure and conversion of its
\* lake is served: what `make eval` reads the marker for.
MarkerHonest ==
    OnlyReconcileDisturbed /\ job = "idle" /\ marker =>
       /\ lakeExp \subseteq chExp
       /\ \A r \in lakeAtt : \E s \in chAtt : s.conv = r.conv

\* After a reconciliation, the PRE report is the hot path's own result and the
\* POST report what is served now, both under the data's own reported_at.  (In a
\* volume loaded in part max_ingest still grows, maybe to the POST of before.)
SnapshotPair ==
    OnlyReconcileDisturbed /\ Completed({"reconcile", "dagster"}) =>
       \A m \in {CampaignOf[ExpKey[e]] : e \in chExp} :
          LET of(rows) == {r.conv : r \in {q \in rows :
                             \E e \in q.credited : CampaignOf[ExpKey[e]] = m}}
          IN /\ \E s \in snapshots :
                  /\ s.reported_at = max_ingest /\ s.campaign = m
                  /\ s.conversions = of({q \in chAtt : q.path = "hot"})
             /\ \E s \in snapshots :
                  /\ s.reported_at = max_ingest + Delta /\ s.campaign = m
                  /\ s.conversions = of(chAtt)

\* The gate of rollup_bench, for every reconciliation that ran to its end:
\* every key whose aggregate the reconciled rows change is among those the
\* refresh stamped at a version that only a reconciled row carries, and the
\* served rollup with those keys recomputed is the full rebuild.
RollupBenchPasses ==
    Undisturbed /\ Completed({"reconcile", "dagster"}) =>
       /\ changed \subseteq reconcile_touched
       /\ _merged(measure_into_scratch(reconcile_touched), _keyed(hourly))
             = campaign_hourly_rows(FALSE)

\* No conversion is counted under two rollup keys at once, whatever was
\* killed, truncated or loaded in part (the double count a summing view would
\* make of a correction).
NoDoubleCount ==
    \A j, k \in Keys :
       j # k => hourly[j].conversions \cap hourly[k].conversions = {}

\* A served credit is final: until the table is truncated, no load or
\* reconciliation replaces the row of an attributed conversion.
CreditIsFinal ==
    [][\A r \in chAtt :
          r.credited # {} /\ chAtt' # {} => r \in chAtt']_vars
=============================================================================
