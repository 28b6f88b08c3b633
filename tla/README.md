# Verification of the CTV attribution pipeline

TLA+ specifications of the pipeline's own logic, the TLC runs that check them on
small instances, and TLAPS proofs about eight of the modules. `PROJECT.json`
lists, for every definition, the source lines it models; line numbers below refer
to the repository.

## 1. The system

A producer seeds three topics (exposures, conversions, the compacted device
graph). One batch engine drains them, resolves each conversion to a household,
joins it to the household's exposures and appends both to an Iceberg lake, the
record. A Dagster load copies days of the lake into ClickHouse serving tables and
refreshes an hourly rollup. Reconciliation re-decides unattributed conversions
over 90 days, appends corrections to the lake and reloads the days it touched.
Each stage pushes metrics; alerts on them reach a webhook, whose sweep reads the
serving tables and lets an agent reason over them. An offline evaluation stands
up the whole stack per scenario and scores the agent.

| component | state | operations | talks to |
|---|---|---|---|
| producer (`producer/`) | the generated world | build the graph, generate, duplicate, deliver | topics |
| drain (`common/kafka.py`) | partitions pending, messages, empty polls | poll until every end-of-partition | Kafka |
| resolution (`resolve/`) | device graph index | device hit, address fallback, fan-out | graph topic |
| hot join (`streaming/attribute.py`) | per household: exposures held, pending conversions, watermark, counters | take an event, release, evict, flush | called by the engine |
| engine (`streaming/dataflow.py`) | none | drain, resolve, dedup, attribute, land, load, mark | Kafka, lake, load |
| lake (`lake/`) | two append-only tables | append, current row per conversion, reads by day, by household | everyone below |
| maintenance and reset (`lake/maintenance.py`, `destructive.py`) | none | compact, expire, remove | lake |
| load (`lake/load_serving.py`, `orchestration/`) | `exposures_landed`, `attributed_conversions`, `rollup_dirty` | load a day, record dirty keys | lake, ClickHouse |
| rollup and snapshots (`reconcile/rollup.py`) | `campaign_hourly`, `rollup_refreshed`, `report_snapshots` | refresh, stamp, PRE and POST snapshot | ClickHouse |
| reconciliation (`reconcile/reconcile.py`) | none of its own | candidates, recover a day, land, reload, finalize | lake, load, rollup |
| replay (`orchestration/replay.py`) | none | refuse, truncate six tables, reload, mark | lake, ClickHouse |
| migration (`clickhouse/apply.py`) | live and scratch snapshot table | create, copy, count, exchange, drop | ClickHouse |
| marker, guard, score (`clickhouse/write_marker.py`, `accuracy/`) | `eval_meta` | stamp, compare, score | ClickHouse |
| observability (`observability/`) | the Pushgateway's groups | wipe, push, settle, scrape | ClickHouse, gateway |
| webhook, context, agent (`agent/`) | a request, a conversation | dedupe, collect, probe, reject, finalize, escalate | model API, ClickHouse |
| evaluation (`agent/eval/`) | results, `docs/RESULTS.md` | stand up, collect, score, publish | make, agent |

What is hard here:

* *Order of arrival.* The join answers each conversion once, while exposures are
  still arriving late, and forgets exposures to bound its memory. The topics are
  read one after the other while they may still be growing.
* *Two stores.* Every job appends to the lake and then derives ClickHouse from it,
  one statement at a time. A kill leaves one ahead of the other, and the next job
  reads versions and dirty stamps from whatever was left.
* *Versions computed from data.* Nothing reads a clock: the version of a
  correction, a rollup row or a snapshot is a maximum over rows, so equal or lower
  versions are a hazard whenever the rows are incomplete.
* *No locks.* Appends, maintenance, reads and a reset of one lake table meet at an
  optimistic commit; context queries, scrape samples and the merger meet nowhere.
* *A long migration on live data*, killed, retried, raced or merged under.
* *An external model* that may do anything in its turn of the agent loop, and a
  long, killable, expensive evaluation whose isolation rests on make targets.

The hazards are listed in `PROJECT.json`, each at its line, with the properties
that are for it.

## 2. Modules

| module | what it is |
|---|---|
| `Attribution` | the last-touch leaf and the hot rule, pure operators over sets of rows |
| `HotOracle` | abstract: every conversion is answered at most once; with the decision over *all* exposures of the household when nothing that bears on it is late, over *some* otherwise |
| `HotWindow`, `MCHotWindow` | `attribute_household_streaming`; implements `HotOracle` |
| `TopicRead` | abstract: a read delivers prefixes in order and returns only what is complete |
| `Drain` | `drain_messages`; implements `TopicRead` |
| `Resolution` | index, `resolve_one`, dedup, one row per conversion, candidate sets |
| `Producer` | every world `generate` can draw at a given size |
| `Pipeline`, `MCPipeline` | producer, topics, engine, lake, reconciliation and what reads the record |
| `LakeTable`, `MCLakeTable` | one lake table under its concurrent processes |
| `Serving`, `MCServing` | lake, serving tables, rollup, snapshots, marker, and every job that moves rows between them |
| `Migration`, `MCMigration` | `migrate_report_snapshots` |
| `AgentLoop` | `run_agent` (no specification of its own: `Alerting` runs it) |
| `Observe` | the context's queries and aggregation, and the probes' SQL |
| `Alerting`, `MCAlerting` | `make run`, pushes, scrape, webhook, sweep; extends the two above |
| `EvalSweep`, `MCEvalSweep` | `make agent-eval` |
| `HotWindow_proofs`, `Drain_proofs`, `Pipeline_proofs`, `LakeTable_proofs`, `Serving_proofs`, `Migration_proofs`, `Alerting_proofs`, `EvalSweep_proofs` | TLAPS proofs |

They compose by abstraction. `Pipeline` uses the promise of `TopicRead` for a drain
(one step reads what the topic holds) and that of `HotOracle` for the join (one
row per conversion), and each is shown to be kept by the detailed module. What
`Pipeline` decides with exposures, graph and windows, `Serving` has as constants
(`HotCredit`, `LongCredit`), to be detailed about statements, versions and kills.
`Serving` takes an append as one step; `LakeTable` is what that step is made of.
`Alerting` has the stages' inserts in their order, without the rollup, and `AgentLoop` inside the request.

**HotWindow.** One household. The rows are chosen in `Init`, one iteration of the
source's loop is `ArriveExposure` or `ArriveConversion`, both ending in `Tick`:
release against the state before eviction, then evict, then measure
(`attribute.py:293-309`). `Flush` is the end of the input. A slot is one element
of the input, so that a re-sent exposure (dedup off) occupies two slots with the
same row. Times are small integers.

**Pipeline.** `world` is what the producer generated, `sent` how much of each topic
has been delivered. An engine run is five steps: the two drains, then
`Attribute` (the graph is drained inside it; `ENGINE_DEDUP` is chosen), and the two
landings; it may be killed before any. `early` counts the runs started before the producer was done: the
properties about decisions are for `early = 0`, those about reading and summing are
not. `Currents` is the *set* of readings of the current rows: rows of equal
version and path fall back to scan order. A row carries its assists, so a re-sent exposure that
became its own assist would show. `max_ingest` is over the exposures ClickHouse serves, any part of the lake's,
and over all attributed rows of the lake: what follows when those are not served is `Serving`'s.

**LakeTable.** `table` is what the catalog says: layout, head, files, snapshots. A
`handle` is the table as a process opened it, and a commit succeeds when the
handle is still the head; compaction scans and overwrites one day at a time, and
its handle moves with its own commits. `warehouse` is how much of the directory
is there, because `rmtree` can fail between files and catalog; a reset may start with no table left. Writers are symmetric.

**Serving.** `lakeExp`, `lakeAtt` are the Iceberg tables; `chExp`, `chAtt`,
`hourly`, `dirty`, `refreshed`, `snapshots` are what `FINAL` reads of the
ClickHouse tables, each with its own ReplacingMergeTree rule (`Replace`, `Record`,
`Recomputed`, `WriteSnapshot`); `marker` is `eval_meta`. `job` and `step` say which
job runs and where it is, one action per lake append or ClickHouse statement, in
the order of the code. `Crash` kills a job between two statements,
`CrashInExposures` and `CrashInAttributed` inside a chunked insert. A count or sum is
represented by the set it is taken over. `regime`, chosen in `Init`, says which jobs a
behaviour has, which are killed, which days the calendar has and which partial loads
are made: the properties say for which of them they are promised.

**Drain.** Broker and client library are external; the actions are what `poll` may
return. **Migration.** One action per statement; ClickHouse's merges are external actions.

**Alerting.** `make` is the command that runs; stages write the serving tables by the inserts of
`Statements`, day by day, a day's exposures before its attributed rows, both in batches (`Served[n]` is the state after n), and push as their last act,
failing before or after the gateway took the request. A reload inserts rows again that are already there; those inserts change
nothing that `FINAL` reads, and only the corrections of a reload are followed. `settle` takes two queries per sample, beside a merger that may
begin and end a merge at any time; a merge just begun has no elapsed time and does not count as a backlog yet.
The `(parts, unmerged)` pairs are one total: nothing is inserted while the scrape watches, so pairs are equal exactly when their total is. The webhook's payloads are arbitrary (alert
statuses present, absent, resolved; a group key or none), which includes Alertmanager's retries and hourly repeats; one
request is followed at a time, for sweeps share no state. `collect` executes its eight queries in
the order of `run_context.py`, each against the tables as they are.

**EvalSweep.** `holds` is the set of profiles of which a store has rows. An operator
uses the same make targets on the same stack before and between sweeps; every command may
fail, the sweep may be killed, also inside the write of the document. The document is a sequence of pieces (text before and
after, sentinels, block); `Spliced` finds the sentinels and splices as `write_results` does, a kill leaves any prefix of what
was being written, others edit the text while a sweep runs, and a skeleton is seeded again where one was cut off. Read, splice and
write are one step: they are three statements in a row, hours after the sweep began.

## 3. Runs

| run | question | distinct states |
|---|---|---|
| `HotWindow` | is the join right, on time and late, with re-sends and shared addresses? | 0.66 M |
| `Drain` | complete or loud, and does it end? | 7.4 k |
| `Pipeline` | does the lake hold what the data determines, and does reconciliation recover the rest? | 3.13 M |
| `LakeTable` | do optimistic commits keep every row and every read whole? | 0.56 M |
| `Serving` | what does each job leave, killed or not? | 1.07 M |
| `Migration_killed` | is a report lost when the migration is killed and retried? | 2.7 k |
| `Alerting` | is a metric stale or a scrape not quiet; one sweep per request, whatever the model asks for; is a context in order though collected between writes? | 0.32 M |
| `EvalSweep` | is what is published measured on a clean stack and scored right, and does the document keep what the sweep does not own? | 0.36 M |

Four more runs expect a violation (section 5).

The properties deserve a word each where they are not plain.

* `Parity` says *containment*: an event beyond the tolerance can only cost the
  conversions it bears on (`Undisturbed`), all others are answered as by the
  non-evicting pass. `ReleaseComplete` and `EvictionSafe` are the two reasons why.
* `LakeHoldsTheDecision` makes the hot rows a function of the world: re-sends, dedup,
  earlier runs and kills do not show, and the offline replay writes the same rows.
* `BucketedEqualsSinglePass` compares the pass by days and buckets with one pass over
  the lake, for every reading of the current rows; `ReconcileRecoversAll` asks the
  truth links that nothing inside the long window stays missed.
* `WrongHouseholdsAreAmbiguous`: what `make eval` counts as a wrong household is among what the
  agent's context shows as ambiguous. `ContextAddsUp`: every credit joins one
  landed exposure, between any two steps of the landing.
* `RowsKept` and `ReadIsWhole`: a rewrite never drops or doubles a row that an append
  returned, and a scan sees all of an append or nothing.
* `CompletedJobServesLake` and `RollupEqualsRebuild` compare, after a completed job,
  the serving tables with the lake and the incremental rollup with the full
  rebuild; full loads must repair what killed jobs left. `RollupBenchPasses` is the gate
  that `make rollup-bench` runs once, for every sequence of jobs.
* `NoDoubleCount` is on `hourly`, so it sees a stale rollup row next to a moved credit.
* `ContextOrdered` gives the inequalities that survive collecting between two
  writes, in the order the queries happen to have; the list of clusters is cut at its limit, so it accounts for the
  device-graph share only when it is shorter. `ProbesConfirmContext` compares the
  probes' SQL with the context's, on tables that did not move: bin by bin, where the context's last bin is the
  probe's last and the one beyond it (section 5, 9), and cluster by cluster, where a cut list must hold the greatest.
* `AnsweredButSuperseded` says of every turn, two submissions included, which tool calls are left
  unanswered: those a later submission replaced, and no others (section 5, 10).
* `OtherSectionsKept` keeps the history of the text outside the block: what the last edit left, or a kill in a write.
* `PublishedIsQuiescent` includes its own exception: a merge that ends between the
  two queries of the last sample goes unseen (section 5).
* `PublishedOnACleanStack` quantifies over everything an operator, a failed and a
  killed sweep may have left behind.

**Bounds.** *HotWindow*: two conversions and three exposures (two of them the
same) are enough for a conversion to be released, and one to be pending, while one
exposure is held, one evicted and one late; times reach past grace plus window,
delays one unit past the grace. *Drain*: two partitions of up to two messages, a guard of two
empty polls. *Pipeline*: two households in two buckets behind a shared address, two
exposures, one occasion to convert (caused or organic, within the hot window, at its
edge, past it), delays drawn for each event, on time or late but within the tolerance the engine grants (beyond it is `HotWindow`'s case),
at most one re-send or late event in a world (`MaxUpsets`), one early run (`MaxEarly`); jobs otherwise
unbounded. *LakeTable*: appends that touch two days and two buckets of one of
them, three appends, two lives of the table, one maintenance pass; kills
unbounded. *Serving*: two rollup keys, two days, one of them without exposures,
one conversion the hot path credits, and two it misses, on different days, which
the long window credits to the *same* key: that is what version ties and
cross-day dirty keys need. The number of jobs is not bounded: the state space is finite
because tables are sets. *Migration*: three rows of which two are twins, three kills.
*Alerting*: three exposures and six conversions covering every column the context tells
apart (a lag of exactly the window, an ambiguous correction, a late one, an uncredited
one), rows of one day loaded before the exposures of a later one and one table's day in two
inserts; a list of clusters cut at one (`TopClusters`, ten in the source) that two addresses
compete for, so that it is whole, is cut, and changes its first. One probe, three rounds
and two blocks a turn, which may both submit; up to three parts and two samples; payloads of
up to two alerts, without a group key (handled under the key "default", so another key
behaves alike); one group of an earlier job in the gateway.
*EvalSweep*: a control and the near-miss pair (a capability boundary is scored as a control but
not counted in the false-positive rate), one repetition, one operator command, two edits or seeds and
two sweeps: enough for a write that was cut, a skeleton seeded after it, and a sweep over the
result. More repetitions and the other kinds are covered by the theorems only.

**Fairness.** `HotWindow!FairSpec`: weak fairness of `Next`; it is a loop
that waits for nothing. `Drain!FairSpec`: of the consumer only, as `poll(0.1)`
always returns; the producer owes nothing. `Migration!FairSpec`: an applier that is not
killed goes on, every job applies the DDL again, and background merges happen.
`Alerting!FairSpec`: make goes on (`WF(Run)`) and the handler goes on (`WF(Serve)`; the model's
API answers or raises); the merger, the senders of alerts and the closing of
connections owe nothing, so a merger that never rests is included in `RunEnds`.
`EvalSweep!FairSpec`: the sweep goes on while it is not killed. The other
specifications state safety only.

**Deadlock** is checked in every `Serving` run (an operator can always start a
job). The other systems terminate or reach a bound.

## 4. Proofs

For every value of the constants, under the assumptions the modules name:

| module | theorem | says |
|---|---|---|
| `HotWindow_proofs` | `ReleaseIsComplete`, `EvictionIsSafe`, `ParityHolds` | the three decisions about late data |
| | `TypeCorrect`, `AnsweredExactlyOnce`, `JoinStateBounded`, `AccountingHolds` | shape, one answer, bounded state, counters |
| | `ImplementsOracle` | `Spec => RefinesOracle` |
| `Drain_proofs` | `TypeCorrect`, `ImplementsTopicRead` | `Spec => RefinesTopicRead` |
| `Pipeline_proofs` | `RunIsDecided` | a run is a function of the sets of rows it read |
| | `TheLakeHoldsTheDecision`, `ReconciliationRecoversAll`, `WrongHouseholdsShareAnAddress` | what the lake holds, and how right it is |
| | `RowsAreInOrder`, `TheContextAddsUp`, `ThePassIsSingle` | what reading, summing and bucketing may rely on, early runs included |
| | `CorrectedOnce`, `OneRowUnlessEarly` | one correction per conversion; one hot row, unless a run started early |
| `LakeTable_proofs` | `EveryRowKept`, `EveryReadIsWhole` | appends, rewrites and reads of one table |
| | `MaintenanceDoesSettle` | what a maintenance pass leaves |
| `Serving_proofs` | `CountedOnce`, `CreditsAreFinal` | one key and one credit per conversion, in every regime |
| | `CompletedJobsServeTheLake`, `CorrectionsWin`, `MarkerIsHonest` | what jobs leave, in the regimes the property names |
| | `RollupIsTheRebuild`, `RollupGatePasses` | a refresh of the dirty keys is the full rebuild, and its gate agrees |
| | `SnapshotsArePaired` | a completed reconciliation leaves both its reports |
| `Migration_proofs` | `NoSnapshotLost` | with one applier, no report is lost |
| `Alerting_proofs` | `NoStaleMetricIsLeft`, `ScrapesWhatIsQuiet` | the gateway and the scrape |
| | `SweepsOnce`, `FindingsCiteTheirTests`, `EveryUseIsAnswered` | the request and the agent loop |
| | `ReadsAreInOrder`, `ContextsAreOrdered`, `ProbesConfirm` | the context, and the probes that test it |
| `EvalSweep_proofs` | `TypeCorrect`, `PublishedClean`, `RestOfTheFileKept`, `EscalationsScoredApart` | what a sweep publishes, keeps and counts |

*HotWindow.* The one premise is `PositiveDelays`, the producer's contract (its jitter
is at least a second), without which `ReleaseComplete` is false: an exposure exactly as late as
the grace may tie with the event that releases and be read after it. The inductive invariant `IInv` conjoins the properties with what makes them
inductive: events are read after they happened (`IngestAfterEvent`), the watermark is the
newest event time read less the grace (`WatermarkNewest`), so everything unread and in
tolerance lies ahead of it (`AheadOfWatermark`), pending conversions lie ahead of it
(`PendingAhead`), what is held is within the window of it (`HeldInWindow`), what was evicted
lies a window behind (`EvictedBehind`), and answered conversions behind (`AnsweredBehind`).
`TickIInv` proves that release and eviction preserve each conjunct; `ExposureBuffered`
and `ConversionBuffered` establish its premises for the two arrivals; `FlushIInv`
is the end of the input. The refinement needs, besides `Parity`, that a late conversion is answered
with a decision over some of the exposures (`SameDecisions`, `IterationAnswers`, `FlushAnswers`).

*Drain.* `IInv` ties what was read to the messages and the pending partitions: a partition leaves
`pending` only at its end, so it was read at least to where it stood at the start.

*Pipeline.* The premises are the assumptions of `Producer` and `Pipeline`: sizes, spacings and delays are
positive, and the hot window is no longer than the long one. The first half takes the sequences away. The logs hold the rows
of the world in some order, and an id names one row of each (`WorldOK`, which every world of the producer satisfies), so what sorts,
dedup, the index and one row per conversion leave is `DecidedRows`, a function of the *sets* of rows read
(`RunIsDecided`): here re-sends, order and `ENGINE_DEDUP` disappear. The second half is an invariant `IInv` in two parts.
`Inv` holds in every behaviour: each row of the lake and of the run under way is the decision of a run over
exposures that have landed, or a correction of a row without credit (`RowOK`). It is needed because an early run leaves rows that no
run over the whole world writes, and joins, sums and buckets must be right over those too. `EarlyInv` holds while `early = 0`: every landed hot
row is the one the offline replay writes (`WholeLake`), and so are the rows of a run
under way once it has drained (`WholeRun`). `ReconcileRecoversAll` and `WrongHouseholdsAreAmbiguous` follow from it and the truth links.
`OneRowUnlessEarly` is the uniqueness that `read_attributed.py` relies on: true without an early run, refuted with one (section 5, 3).

*LakeTable.* A handle is a past state of the table (`HandlesArePast`): at the head it has the head's
files, so a rewrite computed from it is right for what it replaces, and elsewhere its commit
fails. Files hold rows of their own partition only (`FilesByPartition`) and new rows are
numbered above all old ones (`Numbered`), so a row is in one file and an append is in a snapshot in full (`Whole`).
The only assumption is `LandingsAssumption`: appends are non-empty sets of (day, bucket) partitions, the names of
processes are distinct, and the bounds are naturals.

*Serving.* Two layers. `TablesInv` is about rows and holds in every regime: a row of the lake
is the hot row of its conversion or a correction of one without credit (`MadeBy`), and at most one correction of a
conversion is not below its hot row (`CorrectedOnce`), since the hot row is no candidate once it is
superseded. Hence one credit for good and one key; it is also why every conversion
has a current row (`HasCurrent`), and why a replacing insert lowers nothing (`NothingLowered`).
`JobsInv` follows a job through its steps by the days outside which everything is served (`Unserved`):
the engine and the replay start from all days of the lake, so they end with none
whatever was there (`LoadUnderWay`, `WholeLakeAhead`); the others start from the days they touched, which is enough
only where the rest was served when they began (`ServedBetween`, with no kill) or, with reconciliation
killed, where each conversion still had some row (`EverServed`). The latter puts `max(ingest_time)` at or above
each conversion's own, and a correction strictly above it (`CorrectionsAbove`).

*Rollup and reports.* The premise of the first two theorems is `NoPartitions`: on a whole calendar nothing is reconciled
with `PARTITION=`. Without it both are about a program that breaks `RollupEqualsRebuild` (section 5, 2). A refresh skips the keys
whose dirty and refreshed stamps agree, so the stamps must tell what a key holds (`StampsTell`). They do because, while the
volume is whole, a correction is stamped above every time in the topics and all corrections alike
(`LakeByPhase`), all are landed before one is loaded (`AllOrNone`), and a load records for each key it touches the version of
what it inserts, whichever of a conversion and its exposure comes first (`LoadRecords`): what a key should hold changes at
most once, to a version above those before. The gate needs moreover that a refreshed key
carries a stamp some load recorded (`Stamped`). `SnapshotsArePaired` has no premise: a report's version
is that of the topics or of a correction that is served (`SnapshotVersions`), so the report a pass writes replaces what
stands at its `reported_at`, also what a killed pass left, and stays until the next (`SnapshotsStand`).

*Migration.* Between the copy and the exchange the scratch table must serve every snapshot
too (`CopyServesAll`), which needs that the attempt copies into the empty table it made itself (`CopiesIntoEmpty`).
The premise `OneApplier` is what the Makefile does; without it the property is false (section 5).

*Alerting.* Five invariants, one for each part: what a finding may cite is what ran (`Cited`); the gateway holds what the commands
so far have pushed (`GatewayByCommand`); a merge that ended after a sample shows in the next one's
counts or backlog (`CountsTellMerges`); one sweep belongs to one group of one request (`OneSweepAtATime`); and
the answers a request has read so far are those of its queries over ever later states of the tables (`ReadInv`). `EveryUseIsAnswered`
has no premise about the model: it states which calls stay unanswered instead (section 5, 10).
`ContextOrdered` and `ProbesConfirmContext` compare totals. That a total adds up (`TotalStep`) is proved from the recursion behind it, by
the least set at which it would fail, and so are the two facts about grouping: rows that each count, or sum, one part of some things count, or sum,
all of them (`CountByParts`, `SumByParts`). Each query is then a count over one reading, and the stages between two readings
only add exposures and conversions or turn a conversion without credit into one with, so what an earlier query counted a later one finds:
the inserts are ordered (`ExecutedGrows`), whatever days and batches they come in. A list cut at its limit is a part of the clusters,
all of them when it is shorter (`ListIs`). The premise is `TablesAssumption`: tables are
finite, their keys are keys, and every credit names a landed exposure, which is `ContextAddsUp` of `Pipeline`. Revenue is an integer there, where ClickHouse
sums `Float64`: that sums by day and by campaign agree is proved up to rounding.

*EvalSweep.* `IInv` follows the stack through the commands of a stand-up: after `down`, `lake-reset`
and `up` nothing is held, after `seed` the broker holds the profile alone, and so
on to the context; results hold the headline of such a context, and the block only what results held.
In the document no text follows a start sentinel without an end sentinel between them, and every end follows a start
(`InOrder`), however it was cut and seeded. So no text stands between the first start and the first end, the part a splice
replaces; `SplicedIs` and `SplicedOK`, `CutOK`, `EditOK` and `SeedOK` show that splices, cuts, edits and seeds keep it so.
The scores are sums over repetitions, so `ScoredByScenario` splits them by what each repetition said.

Only model-checked:

* liveness (`EveryConversionAnswered`, `DrainEnds`, `EventuallyMigrated`, `RunEnds`, `RequestEnds`,
  `SweepEnds`), which needs fairness and is beyond the prover.

Every invariant, action property and refinement of the passing runs is the statement of a theorem above.

## 5. Where code and documentation disagree

Four have a run that TLC refutes; the quoted lines are in `PROJECT.json`.

1. `Serving_lost_correction`: reconciliation killed between landing and loading. The
   re-run has no candidates, touches no day and completes without serving the
   correction that is in the lake (`reconcile.py:44-45`: "a replay/re-run converges").
2. `Serving_stale_rollup`: two `reconcile-dagster PARTITION=` passes crediting the same
   rollup key carry the same version; the second does not make the key dirty.
3. `Pipeline_rerun`: two households share an address, and a conversion by an unknown device comes over it. An engine run that
   starts before the second household's graph record is delivered credits it to the first, a run over the complete
   topics lands it ambiguous and uncredited: two hot rows of the same version and path
   (`read_attributed.py:10-12`: "not produced by any writer here").
4. `EvalSweep_partial`: a sweep that fails before both scenarios of the near-miss pair
   completed raises in rendering and writes nothing (`run_eval.py:236`: "partial tables still
   write").

Others were met while modelling; some show with other constants of the same modules,
or with a property that a module states and no run lists.

5. `Serving`, a regime that kills `replay`: between the truncates of `rollup_dirty` and
   `rollup_refreshed` it leaves stamps that keep the reloaded rollup empty
   (`RollupEqualsRebuild`); before that of `eval_meta` it leaves the marker over an empty
   database (`MarkerHonest`).
6. `Serving`, `CorrectionWins` with the engine killed, or with `down` and
   reconciliation on a whole calendar: `max(ingest_time)` of a half-loaded or empty ClickHouse gives a
   correction a version below the hot row it corrects.
7. `Migration` with two `Appliers`, `EverySnapshotServed`: one exchanges the empty scratch table
   the other has just created. With one, the scratch table of an attempt killed after
   the exchange is never dropped, as the guard returns before the drop
   (`docs/ARCHITECTURE.md:682-684` says the next apply drops it).
8. `Alerting`: part counts and merge backlog are two queries, so a merge that ends between
   those of the last sample is seen by neither: the counts are those before it.
9. `Alerting`, `NoOverflowBin`: the probe `window_edge_distribution` (`probes.py:156-168`) gives a lag of
   exactly seven days a bucket of its own, where the context it tests clamps it
   (`collect.py:51-52`: "never a phantom overflow bin").
10. `AgentLoop`, `EveryUseAnswered`: of two submissions in one turn without a probe only the last gets a
    `tool_result` (`loop.py:221`; `phase-9.md:219-220`: "execute each `tool_use`", "return typed `tool_result`s").
11. `run_eval.py:63-70` says that a run over a lake with a scenario's reconciled rows
    collapses `max_abs_roas_delta` to 0. The PRE snapshot filters `path = 'hot'`, so it loses those
    conversions and the delta stays; `lake-reset` is needed for other reasons (`PublishedOnACleanStack`).
12. `_restatement_abs_delta` (`reconcile.py:259-267`) is documented as this pass's change and
    ranges over all snapshots the table has.
13. `accuracy/guard.py:9` promises "never a silent bad number"; it compares the marker's profile, and a run of
    one profile over the topics of another stamps its own name.
14. `Serving`, a volume that is not loaded whole (dropped by `make down` or never filled for want of a calendar day, then
    `load --days` one day after the other): the first load stamps a key with the version of its highest row, and
    rows of the second that are no higher, such as corrections of the same pass, do not make
    it dirty, also for the engine run that follows (`RollupEqualsRebuild`); and `max_ingest` grows between
    two reconciliations, maybe by just `RECONCILE_DELTA_MS`, to the `reported_at` of the POST snapshot of before, which
    then stands for the new PRE (`SnapshotPair`).

Because of 1, 2, 5, 6 and 14, the properties of `Serving` name what they are promised for: no kill (`NeverKilled`) or
only of reconciliation (`OnlyReconcileKilled`), `WholeCalendar` and, `down` being the way to an empty ClickHouse below
a full lake, `NeverDropped`; together `Undisturbed` and `OnlyReconcileDisturbed`.

## 6. Not modelled

* Two jobs at once over ClickHouse (`Serving` runs them one at a time, as the Makefile does; their lake
  appends interleave in `LakeTable`); several `Appliers` are modelled and checked with one.
* The producer's numbers, JSON Schema registration, serialization; the profile bound to a lake root; the guard's file reading.
* Metric counters, alert rules and their fixtures: what an alert means is arbitrary in `Alerting`.
* `queries/` benchmarks, cost reports, `scale_probe`, dashboards: they time modelled code or fixed SQL
  and write documents nothing reads back. Of `rollup_bench` the gate is modelled, not the measurement.
* `scripts/`: tooling over the source tree.
* Prompts, hypothesis texts, wording and layout of everything printed.

What could come next: two concurrent jobs in `Serving`, and an abstract serving projection it
would implement.

## 7. Running

    tlc -workers 2 -config Serving.cfg MCServing
    tlapm Serving_proofs.tla
