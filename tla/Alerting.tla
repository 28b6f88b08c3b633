----------------------------- MODULE Alerting -----------------------------
(***************************************************************************)
(* From the metrics of a run to the agent's finding.  `make run' wipes the *)
(* Pushgateway, then the engine, the reconciliation pass and the storage   *)
(* scrape (observability/ch_scrape.py) run one after the other, and each   *)
(* pushes its terminal registry under its own job as its last act; a       *)
(* command that fails stops make.  Prometheus and Alertmanager turn what   *)
(* the gateway holds into POST /alerts requests (agent/webhook.py), and a  *)
(* firing group is answered by one sweep: collect reads the serving tables *)
(* one query after the other, while the stages may be writing them, and    *)
(* run_agent reasons over the context.                                     *)
(*                                                                         *)
(* The chain between the gateway and the webhook is external: it may post  *)
(* any payload at any time, so its retries, its hourly repeats and hand    *)
(* posted payloads are all included.  ClickHouse's background merger is    *)
(* external too: it runs beside the scrape and reduces the active parts.   *)
(* One request is followed at a time, because sweeps share no state and    *)
(* write nothing.  The run starts on an empty stack; what its stages write *)
(* is inserts in a fixed order (Serving has the rollup's and the lake's),  *)
(* so the tables at any moment are a function of how many were executed.   *)
(* The (parts, unmerged) of the watched tables are one number of parts:    *)
(* nothing is inserted while the scrape watches, and a merge that ends     *)
(* leaves fewer parts, so the pairs are equal exactly when their total is. *)
(***************************************************************************)
EXTENDS AgentLoop, Observe, SequencesExt

CONSTANTS
    Impressions,  \* the rows the engine loads into exposures_landed,
    HotRows,      \* ... and into attributed_conversions,
    Recovered,    \* and the corrections reconciliation loads over them
    Jobs,         \* bound: jobs an earlier run may have left in the gateway
    MaxParts,     \* bound: active parts when the scrape begins
    MaxSamples,   \* bound: samples that fit in _SETTLE_TIMEOUT_S
    GroupKeys,    \* bound: groupKey values Alertmanager sends
    MaxAlerts     \* bound: alerts in one payload

ASSUME AlertingAssumption ==
    /\ Jobs \subseteq {"engine", "reconcile", "clickhouse"}
    /\ MaxParts \in Nat \ {0} /\ MaxSamples \in Nat \ {0} /\ MaxAlerts \in Nat
    /\ \A r \in Recovered : \E h \in HotRows :
         h.conversion_id = r.conversion_id /\ h.credited = "none"

\* The rows as the lake has them and the serving tables key them: an exposure and
\* a conversion are loaded once by each pass, each in the insert of its day that
\* `insert' says, and a credit names an exposure that landed, no later than the
\* conversion, and within the hot window for a hot row (Pipeline's ContextAddsUp).
ASSUME TablesAssumption ==
    /\ IsFiniteSet(Impressions) /\ IsFiniteSet(HotRows) /\ IsFiniteSet(Recovered)
    /\ \A e, f \in Impressions : e.exposure_id = f.exposure_id => e = f
    /\ \A rows \in {HotRows, Recovered} :
         \A a, b \in rows : a.conversion_id = b.conversion_id => a = b
    /\ \A r \in Impressions \cup HotRows \cup Recovered :
         r.event_time \in Int /\ r.insert \in Nat
    /\ \A a \in HotRows \cup Recovered :
         /\ a.candidate_count \in Nat /\ a.revenue \in Int /\ a.ip \in Int
         /\ a.credited # "none" =>
              \E e \in Impressions :
                 /\ e.exposure_id = a.credited /\ e.event_time <= a.event_time
                 /\ a.path = "hot" => a.event_time - e.event_time
                                        <= WindowDays * DaySeconds

VARIABLES
    make,         \* the command make runs, "done" or "failed"
    written,      \* statements the stages have executed on the serving tables
    gateway,      \* job |-> the run that pushed its group
    storage,      \* [parts, merging]: system.parts, and the merge of
                  \* system.merges: "no", "begun" (no time elapsed) or "running"
    scrape,       \* settle's locals, and which merges ended as it sampled
    request       \* the request the webhook serves

stackVars == <<make, written, gateway, storage, scrape>>
vars == <<loopVars, stackVars, request>>
----------------------------------------------------------------------------
(* make run *)

Stages == {"engine", "reconcile"}

Day(row) == row.event_time \div DaySeconds

\* The statement that brings a row in, <<pass, day, table, insert>>: a load goes
\* day by day, and in a day first the exposures, then the attributed rows, in
\* inserts of _BATCH rows.
Insert(pass, table, row) == <<pass, Day(row), table, row.insert>>

PreSnapshot == <<3, 0, 0, 0>>
PostSnapshot == <<4, 0, 0, 0>>

\* What the run executes on the watched tables: the engine's load, the reload of
\* the days reconciliation touched (of the rows it inserts again the corrections
\* alone are new) and the two snapshots.
Statements ==
    {Insert(1, 1, e) : e \in Impressions} \cup {Insert(1, 2, a) : a \in HotRows}
      \cup {Insert(2, 2, q) : q \in Recovered} \cup {PreSnapshot, PostSnapshot}

Earlier(s, t) == \E i \in 1..4 : s[i] < t[i] /\ \A j \in 1..i - 1 : s[j] = t[j]

\* The first n statements.
Executed(n) == {s \in Statements : Cardinality({t \in Statements : Earlier(t, s)}) < n}

\* Statements executed when a stage has done its work.
WorkOf(stage) ==
    Cardinality({s \in Statements : stage = "engine" => s[1] = 1})

Snapshot(reported_at, exposures, conversions) ==
    {[campaign_id |-> r.campaign, reported_at |-> reported_at,
      conversions |-> r.conversions, revenue |-> r.revenue] :
        r \in campaign_metrics(report(Tables(exposures, conversions, {})))}

\* The serving tables after n statements: a correction replaces its hot row.
Served ==
    [n \in 0..Cardinality(Statements) |->
       LET loaded(pass, table, rows) ==
               {r \in rows : Insert(pass, table, r) \in Executed(n)}
           exposures == loaded(1, 1, Impressions)
           corrections == loaded(2, 2, Recovered)
           attributed == {r \in loaded(1, 2, HotRows) :
                            \A q \in corrections : q.conversion_id # r.conversion_id}
                           \cup corrections
           pre == Snapshot(0, exposures, {r \in attributed : r.path = "hot"})
           post == Snapshot(1, exposures, attributed)
       IN Tables(exposures, attributed,
                 (IF PreSnapshot \in Executed(n) THEN pre ELSE {})
                   \cup (IF PostSnapshot \in Executed(n) THEN post ELSE {}))]

After(command) == CASE command = "reset" -> "engine"
                    [] command = "engine" -> "reconcile"
                    [] command = "reconcile" -> "clickhouse"
                    [] command = "clickhouse" -> "done"

\* Mutant: the reset deletes one group, as push_to_gateway replaces one.
MutantWiped == [j \in DOMAIN gateway \ {"engine"} |-> gateway[j]]

\* PUT /api/v1/admin/wipe: every pushed group goes.
Wiped == [j \in DOMAIN gateway \cap {} |-> gateway[j]]

Pushed(job) == [j \in DOMAIN gateway \cup {job} |->
                  IF j = job THEN "this" ELSE gateway[j]]

Reset ==
    /\ make = "reset"
    /\ gateway' = Wiped
    /\ make' = After(make)
    /\ UNCHANGED <<loopVars, written, storage, scrape, request>>

\* One insert of the stage's work.
Write ==
    /\ make \in Stages /\ written < WorkOf(make)
    /\ written' = written + 1
    /\ UNCHANGED <<loopVars, make, gateway, storage, scrape, request>>

\* dataflow.main, reconcile.main: the work is done, then push_registry.  The
\* merger is not followed until the scrape begins: any number of parts is left.
Stage ==
    /\ make \in Stages /\ written = WorkOf(make)
    /\ gateway' = Pushed(make)
    /\ make' = After(make)
    /\ IF make' = "clickhouse"
       THEN \E parts \in 1..MaxParts : storage' = [storage EXCEPT !.parts = parts]
       ELSE UNCHANGED storage
    /\ UNCHANGED <<loopVars, written, scrape, request>>

\* A command raises: before its request to the gateway takes effect, or after,
\* when only the reply is lost.
CommandFails ==
    /\ make' = "failed"
    /\ \/ make \in {"reset"} \cup Stages /\ UNCHANGED gateway
       \/ make = "reset" /\ gateway' = Wiped
       \/ make \in Stages /\ written = WorkOf(make) /\ gateway' = Pushed(make)
    /\ UNCHANGED <<loopVars, written, storage, scrape, request>>
----------------------------------------------------------------------------
(* ch_scrape: settle, then push *)

\* _sample's first query; the sample before the loop needs only this one, for
\* its backlog is overwritten before it is read.
FirstSample ==
    /\ make = "clickhouse" /\ scrape.phase = "first"
    /\ scrape' = [scrape EXCEPT !.phase = "parts", !.previous = storage.parts,
                                !.ended = {}]
    /\ UNCHANGED <<loopVars, make, written, gateway, storage, request>>

SampleParts ==
    /\ make = "clickhouse" /\ scrape.phase = "parts"
    /\ scrape.left > 0
    /\ scrape' = [scrape EXCEPT !.phase = "merges", !.counts = storage.parts]
    /\ UNCHANGED <<loopVars, make, written, gateway, storage, request>>

\* Mutant: part counts alone decide that the storage is quiet.
MutantSettled == scrape.counts = scrape.previous

\* counts == previous and backlog == 0.0, the elapsed time of the longest merge
Settled == scrape.counts = scrape.previous /\ storage.merging # "running"

\* Mutant: each sample that moved starts the wait anew.
MutantSampleMerges ==
    /\ make = "clickhouse" /\ scrape.phase = "merges"
    /\ scrape' = [scrape EXCEPT !.phase = IF Settled THEN "settled" ELSE "parts",
                                !.previous = scrape.counts, !.ended = {}]
    /\ UNCHANGED <<loopVars, make, written, gateway, storage, request>>

\* _sample's second query, then the comparison.  The clock has moved on by at
\* least one interval when the loop tests it again.
SampleMerges ==
    /\ make = "clickhouse" /\ scrape.phase = "merges"
    /\ \/ /\ Settled
          /\ scrape' = [scrape EXCEPT !.phase = "settled"]
       \/ /\ ~Settled
          /\ \E left \in 0..scrape.left - 1 :
               scrape' = [scrape EXCEPT
                            !.phase = "parts", !.left = left,
                            !.previous = scrape.counts,
                            !.ended = IF "within" \in @ THEN {"between"} ELSE {}]
    /\ UNCHANGED <<loopVars, make, written, gateway, storage, request>>

\* The deadline has passed: UnsettledError.
Unsettled ==
    /\ make = "clickhouse" /\ scrape.phase = "parts"
    /\ scrape.left = 0
    /\ make' = "failed"
    /\ UNCHANGED <<loopVars, written, gateway, storage, scrape, request>>

\* main: the gauges are set from the settled counts and pushed, or the push
\* fails.
PushStorage ==
    /\ make = "clickhouse" /\ scrape.phase = "settled"
    /\ \/ make' = After(make) /\ gateway' = Pushed(make)
       \/ make' = "failed" /\ gateway' \in {gateway, Pushed(make)}
    /\ UNCHANGED <<loopVars, written, storage, scrape, request>>

\* External: the background merger while the scrape watches.
MergeBegins ==
    /\ make = "clickhouse"
    /\ storage.parts > 1 /\ storage.merging = "no"
    /\ storage' = [storage EXCEPT !.merging = "begun"]
    /\ UNCHANGED <<loopVars, make, written, gateway, scrape, request>>

MergeRuns ==
    /\ make = "clickhouse"
    /\ storage.merging = "begun"
    /\ storage' = [storage EXCEPT !.merging = "running"]
    /\ UNCHANGED <<loopVars, make, written, gateway, scrape, request>>

MergeEnds ==
    /\ make = "clickhouse"
    /\ storage.merging # "no"
    /\ storage' = [parts |-> storage.parts - 1, merging |-> "no"]
    /\ scrape' = [scrape EXCEPT !.ended =
                    @ \cup (CASE scrape.phase = "parts" -> {"between"}
                              [] scrape.phase = "merges" -> {"within"}
                              [] OTHER -> {})]
    /\ UNCHANGED <<loopVars, make, written, gateway, request>>
----------------------------------------------------------------------------
(* POST /alerts *)

Statuses == {"firing", "resolved", "unset"}

\* AlertmanagerWebhook: groupKey and the statuses are optional.
Payloads == [status : Statuses, groupKey : GroupKeys \cup {"unset"},
             alerts : UNION {[1..n -> Statuses] : n \in 0..MaxAlerts}]

_firing(alert, payload) ==
    (IF alert = "unset" THEN payload.status ELSE alert) = "firing"

Firing(payload) == {i \in DOMAIN payload.alerts : _firing(payload.alerts[i], payload)}

Key(payload) == IF payload.groupKey = "unset" THEN "default" ELSE payload.groupKey

\* Mutant: one entry per firing alert.
MutantPerAlert(payload) == [i \in 1..Cardinality(Firing(payload)) |-> Key(payload)]

\* The distinct groups of the firing alerts; a payload names one.
_dedupe_by_group_key(payload) == SetToSeq({Key(payload) : i \in Firing(payload)})

Idle == [phase |-> "idle", groups |-> <<>>, firing |-> FALSE, sweeps |-> 0,
         handled |-> <<>>, rows |-> <<>>]

Post ==
    /\ request.phase = "idle"
    /\ \E payload \in Payloads :
         request' = [Idle EXCEPT !.phase = "serving",
                                 !.groups = _dedupe_by_group_key(payload),
                                 !.firing = Firing(payload) # {}]
    /\ UNCHANGED <<loopVars, stackVars>>

\* run_sweep begins.
Sweep ==
    /\ request.phase = "serving" /\ outcome = "none"
    /\ request.groups # <<>>
    /\ request' = [request EXCEPT !.phase = "observing", !.sweeps = @ + 1]
    /\ UNCHANGED <<loopVars, stackVars>>

\* Mutant: the two counts of attributed conversions are read in the other order.
MutantQueries == <<"match_rate", "lags", "ip_overall", "report", "restatement",
                   "ip_top", "genre_exp", "genre_conv">>

\* The queries of collect, in the order Python evaluates them.
Queries == <<"ip_overall", "lags", "match_rate", "report", "restatement", "ip_top",
             "genre_exp", "genre_conv">>

Result(query, db) ==
    CASE query = "ip_overall"  -> IP_CLUSTER_OVERALL(db)
      [] query = "lags"        -> WINDOW_EDGE_LAGS(db)
      [] query = "match_rate"  -> MATCH_RATE_BY_DAY(db)
      [] query = "report"      -> report(db)
      [] query = "restatement" -> restatement(db)
      [] query = "ip_top"      -> IP_CLUSTER_TOP(db)
      [] query = "genre_exp"   -> GENRE_EXPOSURES(db)
      [] query = "genre_conv"  -> GENRE_CONVERSIONS(db)

\* What each query returns after n statements.
Answer == [n \in DOMAIN Served |-> [query \in {Queries[i] : i \in DOMAIN Queries} |->
                                       Result(query, Served[n])]]

\* collect: the next query, over the tables as they are now.
Query ==
    /\ request.phase = "observing" /\ Len(request.rows) < Len(Queries)
    /\ request' = [request EXCEPT !.rows = Append(@, Answer[written][Queries[Len(@) + 1]])]
    /\ UNCHANGED <<loopVars, stackVars>>

Read(query) == request.rows[CHOOSE i \in DOMAIN Queries : Queries[i] = query]

\* The context of a completed collect.
context ==
    build_context(Read("match_rate"), Read("report"), Read("restatement"), Read("lags"),
                  Read("ip_overall"), Read("ip_top"), Read("genre_exp"),
                  Read("genre_conv"))

Observed == request.phase = "observing" /\ Len(request.rows) = Len(Queries)

\* The context becomes the first message of the loop.
Reason ==
    /\ Observed
    /\ request' = [request EXCEPT !.phase = "serving", !.rows = <<>>]
    /\ Renew("running")
    /\ UNCHANGED stackVars

\* connect_agent or a query raises, or the loop did: the request fails.
SweepFails ==
    /\ \/ request.phase = "observing"
       \/ request.phase = "serving" /\ outcome = "raised"
    /\ request' = [request EXCEPT !.phase = "failed", !.rows = <<>>]
    /\ Renew("none")
    /\ UNCHANGED stackVars

\* A step of the loop under way.
AgentStep ==
    /\ outcome = "running"
    /\ Loop
    /\ UNCHANGED <<stackVars, request>>

\* The sweep returned: its group is handled.
Handle ==
    /\ request.phase = "serving" /\ outcome \in {"finding", "escalation"}
    /\ request' = [request EXCEPT
                     !.groups = Tail(@),
                     !.handled = Append(@, [group_key |-> Head(request.groups),
                                            verdict |-> outcome])]
    /\ Renew("none")
    /\ UNCHANGED stackVars

Respond ==
    /\ request.phase = "serving" /\ outcome = "none" /\ request.groups = <<>>
    /\ request' = [request EXCEPT !.phase = "answered"]
    /\ UNCHANGED <<loopVars, stackVars>>

\* The connection closes; the next request is a new one.
Close ==
    /\ request.phase \in {"answered", "failed"}
    /\ request' = Idle
    /\ UNCHANGED <<loopVars, stackVars>>
----------------------------------------------------------------------------

Init ==
    /\ LoopInit
    /\ make = "reset" /\ written = 0
    /\ gateway \in UNION {[jobs -> {"earlier"}] : jobs \in SUBSET Jobs}
    /\ storage = [parts |-> 0, merging |-> "no"]
    /\ scrape = [phase |-> "first", previous |-> 0, counts |-> 0,
                 left |-> MaxSamples, ended |-> {}]
    /\ request = Idle

Run == \/ Reset \/ Write \/ Stage \/ CommandFails
       \/ FirstSample \/ SampleParts \/ SampleMerges \/ Unsettled \/ PushStorage

Serve == \/ Sweep \/ Query \/ Reason \/ SweepFails
         \/ AgentStep \/ Handle \/ Respond

Next == Run \/ MergeBegins \/ MergeRuns \/ MergeEnds \/ Post \/ Serve \/ Close

\* make and the handler go on while they can; the merger and the world outside
\* owe nothing.
Fairness == WF_vars(Run) /\ WF_vars(Serve)

Spec == Init /\ [][Next]_vars

FairSpec == Spec /\ Fairness
----------------------------------------------------------------------------

\* Every request ends in at most one sweep, and in exactly one when it is
\* answered and one of its alerts fires, however many alerts its group carries
\* (webhook.py: "ONE sweep per firing group, not per alert").
OneSweepPerRequest ==
    /\ request.sweeps <= 1
    /\ request.phase = "answered" =>
         /\ request.sweeps = IF request.firing THEN 1 ELSE 0
         /\ Len(request.handled) = request.sweeps

\* The rules never evaluate on two runs at once: once the stages of this run
\* have begun, or one of them has pushed, nothing an earlier run pushed is left,
\* whichever command fails (push.py: "a stage that does not run this pass leaves
\* no stale metric behind").
NoStaleMetric ==
    \/ make \in Stages \cup {"clickhouse", "done"}
    \/ \E j \in DOMAIN gateway : gateway[j] = "this"
    => \A j \in DOMAIN gateway : gateway[j] = "this"

\* What a scrape publishes was quiet: when settle returns no merge has been
\* running for any time, none ended between its last two samples of the part
\* counts, and the counts are the storage's unless a merge ended between the two
\* queries of the last sample
\* (ch_scrape.py: "no merge running, and the part counts unchanged across two
\* consecutive samples").
PublishedIsQuiescent ==
    [][scrape.phase # "settled" /\ scrape'.phase = "settled" =>
         /\ storage.merging # "running"
         /\ "between" \notin scrape.ended
         /\ "within" \notin scrape.ended => scrape.counts = storage.parts]_vars

\* A context never contradicts itself, though its queries are not one snapshot
\* and the stages may insert between any two of them: the device-graph share is
\* of conversions the match rate counts as attributed, and those the match rate
\* counts, the report and then the genres account for; the listed clusters
\* account for the share when the list is not cut, and never for more than the
\* genres do.
ContextOrdered ==
    Observed =>
       LET clusters == context.ip_clusters.top_clusters
           listed == Total(clusters, "attributed_conversions")
           reached == Total(context.genre_reach, "attributed_conversions")
       IN
       /\ context.ip_clusters.attributed <= context.match_rate.attributed
       /\ context.window_edge.attributed_hot <= context.match_rate.attributed
       /\ context.match_rate.attributed <= Total(context.campaigns, "conversions")
       /\ Total(context.campaigns, "conversions") <= reached
       /\ Cardinality(clusters) < TopClusters =>
            context.ip_clusters.ip_resolved_attributed <= listed
       /\ listed <= reached

\* The tables still hold what the context was built from.
Unmoved == Observed /\ \A i \in DOMAIN Queries :
                          request.rows[i] = Answer[written][Queries[i]]

\* While they do, each probe confirms the field it is there to test, though each
\* has SQL of its own (probes.py, readers.py).
ProbesConfirmContext == Unmoved => ProbesAgree(context, Served[written])

\* False (README, section 5).  The bins of the lag probe are those of the context, the last one
\* of the window included (collect.py: "A lag of exactly `window` days lands in
\* the last bin (clamped), never a phantom overflow bin").
NoOverflowBin ==
    Unmoved => \A b \in window_edge_distribution(Served[written]) :
                  b.day_bucket \in DOMAIN context.window_edge.buckets

\* `make run' comes to its end, done or failed, however long the merger keeps
\* moving: the cap "only bounds how long a scrape may hold a pipeline run open".
RunEnds == <>(make \in {"done", "failed"})

\* Every request is answered or fails, whatever the model asks for
\* (config.py: "emit AMBIGUOUS_NEEDS_HUMAN rather than loop forever").
RequestEnds ==
    request.phase = "serving" ~> request.phase \in {"answered", "failed"}
=============================================================================
