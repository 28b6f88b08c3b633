------------------------------ MODULE Observe ------------------------------
(***************************************************************************)
(* What the agent observes: the fixed queries of agent/readers.py and      *)
(* queries/*.sql, the aggregation of agent/collect.py into the             *)
(* AttributionContext, and the probes the model may run afterwards.  All   *)
(* are pure functions of the serving tables, given as                      *)
(* [exposures, conversions, snapshots], each as FINAL reads it.  `credited' *)
(* stands for attributed and exposure_id; a result that SQL orders is a    *)
(* set, cut where the query has a limit; a ratio keeps its two terms.      *)
(***************************************************************************)
EXTENDS Integers, FiniteSets, Sequences, FiniteSetsExt

CONSTANTS
    DaySeconds,   \* _DAY_SECONDS (bound: shorter than 86400)
    WindowDays,   \* window_days (bound: fewer than 7)
    TopClusters   \* the limit of IP_CLUSTER_TOP (bound: fewer than 10)

ASSUME ObserveAssumption ==
    /\ DaySeconds \in Nat \ {0} /\ WindowDays \in Nat \ {0}
    /\ TopClusters \in Nat

Tables(exposures, conversions, snapshots) ==
    [exposures |-> exposures, conversions |-> conversions, snapshots |-> snapshots]

Attributed(db) == {a \in db.conversions : a.credited # "none"}

\* attributed_conversions joined to exposures_landed on exposure_id.
Joined(db) == {p \in Attributed(db) \X db.exposures :
                 p[1].credited = p[2].exposure_id}

IpResolved(rows) == {a \in rows : a.resolution = "ip"}

\* max(), which is 0 of no rows.
WidestFanOut(rows) == Max({0} \cup {a.candidate_count : a \in rows})

Total(rows, field) == MapThenSumSet(LAMBDA r : r[field], rows)

Revenue(rows) == Total(rows, "revenue")

\* None on a zero denominator.
_ratio(numerator, denominator) ==
    IF denominator = 0 THEN "none" ELSE <<numerator, denominator>>
----------------------------------------------------------------------------
(* agent/readers.py, queries/report.sql, queries/restatement.sql *)

MATCH_RATE_BY_DAY(db) ==
    LET on(d) == {a \in db.conversions : a.event_time \div DaySeconds = d}
    IN {[day |-> d, processed |-> Cardinality(on(d)),
         attributed |-> Cardinality(on(d) \cap Attributed(db))] :
        d \in {a.event_time \div DaySeconds : a \in db.conversions}}

HotPairs(db) == {p \in Joined(db) : /\ p[1].path = "hot"
                                    /\ p[1].event_time >= p[2].event_time}

Lag(p) == p[1].event_time - p[2].event_time

\* One lag per row: a bag, as the conversion beside its lag.
WINDOW_EDGE_LAGS(db) == {<<p[1].conversion_id, Lag(p)>> : p \in HotPairs(db)}

IP_CLUSTER_OVERALL(db) ==
    [attributed |-> Cardinality(Attributed(db)),
     ip_resolved |-> Cardinality(IpResolved(Attributed(db))),
     ambiguous |-> Cardinality({a \in Attributed(db) : a.candidate_count > 1}),
     max_candidate_count |-> WidestFanOut(Attributed(db))]

\* order by attributed_conversions desc, ip
Before(r, q) ==
    \/ r.attributed_conversions > q.attributed_conversions
    \/ r.attributed_conversions = q.attributed_conversions /\ r.ip < q.ip

\* limit: the rows with fewer than TopClusters before them.
Limited(rows) == {r \in rows : Cardinality({q \in rows : Before(q, r)}) < TopClusters}

\* The addresses of some rows, with what was attributed through each.
Clusters(rows) ==
    LET on(ip) == {a \in rows : a.ip = ip}
    IN {[ip |-> ip, attributed_conversions |-> Cardinality(on(ip)),
         max_candidate_count |-> WidestFanOut(on(ip))] : ip \in {a.ip : a \in rows}}

\* Mutant: device matches are counted into the clusters.
MutantEveryIp(db) == Limited(Clusters(Attributed(db)))

IP_CLUSTER_TOP(db) == Limited(Clusters(IpResolved(Attributed(db))))

GENRE_EXPOSURES(db) ==
    {[genre |-> g, exposures |-> Cardinality({e \in db.exposures : e.genre = g})] :
        g \in {e.genre : e \in db.exposures}}

GENRE_CONVERSIONS(db) ==
    {[genre |-> g, n |-> Cardinality({p \in Joined(db) : p[2].genre = g})] :
        g \in {p[2].genre : p \in Joined(db)}}

\* The report: every campaign with exposures, whatever was credited to it, in
\* the columns of report.sql.
report(db) ==
    LET credited(m) == {p[1] : p \in {q \in Joined(db) : q[2].campaign_id = m}}
        of(m, type) == Cardinality({a \in credited(m) : a.conversion_type = type})
        spend(m) == Total({e \in db.exposures : e.campaign_id = m}, "spend")
        shown(m) == Cardinality({e \in db.exposures : e.campaign_id = m})
    IN {<<m, spend(m), shown(m), Cardinality(credited(m)), of(m, "purchase"),
          Revenue(credited(m)),
          _ratio(Revenue(credited(m)), spend(m)),
          _ratio(spend(m), of(m, "purchase")),
          _ratio(Cardinality(credited(m)), shown(m)),
          _ratio(of(m, "site_visit"), shown(m))>> :
        m \in {e.campaign_id : e \in db.exposures}}

\* The snapshots of a campaign, collapsed by argMin and argMax over reported_at.
\* ROAS is revenue over a spend no snapshot changes, and is left out.
AsReported(db, m) ==
    CHOOSE s \in db.snapshots : /\ s.campaign_id = m
                                /\ \A t \in db.snapshots : t.campaign_id = m =>
                                      s.reported_at <= t.reported_at

AsOfNow(db, m) ==
    CHOOSE s \in db.snapshots : /\ s.campaign_id = m
                                /\ \A t \in db.snapshots : t.campaign_id = m =>
                                      t.reported_at <= s.reported_at

\* In the columns of restatement.sql.
restatement(db) ==
    {<<m, AsReported(db, m).conversions, AsOfNow(db, m).conversions,
       AsOfNow(db, m).revenue - AsReported(db, m).revenue>> :
        m \in {s.campaign_id : s \in db.snapshots}}
----------------------------------------------------------------------------
(* agent/collect.py *)

match_rate_series(rows) ==
    [processed |-> Total(rows, "processed"), attributed |-> Total(rows, "attributed"),
     match_rate |-> _ratio(Total(rows, "attributed"), Total(rows, "processed")),
     by_day |-> {[point |-> r, match_rate |-> _ratio(r.attributed, r.processed)] :
                   r \in rows}]

Clamped(i) == IF i > WindowDays - 1 THEN WindowDays - 1 ELSE i

window_edge_stats(lags) ==
    LET counts == [i \in 0..WindowDays - 1 |->
                     Cardinality({l \in lags : Clamped(l[2] \div DaySeconds) = i})]
    IN [attributed_hot |-> Cardinality(lags), buckets |-> counts,
        near_boundary_count |-> counts[WindowDays - 1],
        near_boundary_fraction |-> _ratio(counts[WindowDays - 1], Cardinality(lags))]

ip_cluster_stats(overall, top) ==
    [attributed |-> overall.attributed,
     ip_resolved_attributed |-> overall.ip_resolved,
     ambiguous_attributed |-> overall.ambiguous,
     ip_resolved_fraction |-> _ratio(overall.ip_resolved, overall.attributed),
     max_candidate_count |-> overall.max_candidate_count,
     top_clusters |-> top]

\* Genres with exposures; a genre nothing was credited to has 0.
genre_reach(exposed, credited) ==
    LET n(g) == Total({r \in credited : r.genre = g}, "n")
    IN {[genre |-> r.genre, exposures |-> r.exposures,
         attributed_conversions |-> n(r.genre),
         conversions_per_exposure |-> _ratio(n(r.genre), r.exposures)] :
        r \in exposed}

\* Rows of report.sql and restatement.sql, by position.
campaign_metrics(rows) ==
    {[campaign |-> r[1], spend |-> r[2], exposures |-> r[3], conversions |-> r[4],
      purchases |-> r[5], revenue |-> r[6], roas |-> r[7], cpa |-> r[8], cvr |-> r[9],
      site_visit_rate |-> r[10]] : r \in rows}

campaign_restatements(rows) ==
    {[campaign |-> r[1], conversions_as_reported |-> r[2], conversions_now |-> r[3],
      revenue_delta |-> r[4]] : r \in rows}

build_context(days, reported, restated, lags, overall, top, exposed, credited) ==
    [match_rate |-> match_rate_series(days),
     campaigns |-> campaign_metrics(reported),
     restatements |-> campaign_restatements(restated),
     window_edge |-> window_edge_stats(lags),
     ip_clusters |-> ip_cluster_stats(overall, top),
     genre_reach |-> genre_reach(exposed, credited)]
----------------------------------------------------------------------------
(* agent/probes.py *)

ip_cluster_detail(db, ip) ==
    LET on(h) == {a \in IpResolved(Attributed(db)) : a.ip = ip /\ a.household_id = h}
    IN {[household_id |-> h, attributed_conversions |-> Cardinality(on(h)),
         max_candidate_count |-> WidestFanOut(on(h))] :
        h \in {a.household_id : a \in {b \in IpResolved(Attributed(db)) : b.ip = ip}}}

campaign_attributed_by_day(db, m) ==
    LET credited == {p[1] : p \in {q \in Joined(db) : q[2].campaign_id = m}}
        on(d) == {a \in credited : a.event_time \div DaySeconds = d}
    IN {[day |-> d, attributed |-> Cardinality(on(d)), revenue |-> Revenue(on(d))] :
        d \in {a.event_time \div DaySeconds : a \in credited}}

\* By column name, over the snapshots of one campaign.
campaign_restatement(db, m) ==
    [campaign |-> m, conversions_as_reported |-> AsReported(db, m).conversions,
     conversions_now |-> AsOfNow(db, m).conversions,
     revenue_delta |-> AsOfNow(db, m).revenue - AsReported(db, m).revenue]

\* Unlike window_edge_stats, a lag of exactly the window has a bucket of its own.
window_edge_distribution(db) ==
    {[day_bucket |-> b,
      count |-> Cardinality({p \in HotPairs(db) : Lag(p) \div DaySeconds = b})] :
        b \in {Lag(p) \div DaySeconds : p \in HotPairs(db)}}

genre_reach_detail(db, g) ==
    [exposures |-> Cardinality({e \in db.exposures : e.genre = g}),
     attributed_conversions |-> Cardinality({p \in Joined(db) : p[2].genre = g})]

\* What the probe counts in one bin.
BinCount(db, i) == Total({b \in window_edge_distribution(db) : b.day_bucket = i}, "count")

\* Every probe confirms the field of the context it is there to test.  The list
\* of clusters is whole when it is shorter than its limit, and else holds the
\* greatest; the context's last bin is the probe's and the one after it.
ProbesAgree(ctx, db) ==
    LET top == ctx.ip_clusters.top_clusters
        through(ip) == Total(ip_cluster_detail(db, ip), "attributed_conversions")
        buckets == ctx.window_edge.buckets
    IN
    /\ \A c \in top :
         /\ through(c.ip) = c.attributed_conversions
         /\ WidestFanOut({[candidate_count |-> r.max_candidate_count] :
                           r \in ip_cluster_detail(db, c.ip)})
              = c.max_candidate_count
    /\ \A ip \in {a.ip : a \in db.conversions} \ {c.ip : c \in top} :
         /\ \A c \in top : through(ip) <= c.attributed_conversions
         /\ Cardinality(top) < TopClusters => through(ip) = 0
    /\ Total(top, "attributed_conversions") <= ctx.ip_clusters.ip_resolved_attributed
    /\ Cardinality(top) < TopClusters =>
         Total(top, "attributed_conversions") = ctx.ip_clusters.ip_resolved_attributed
    /\ \A m \in ctx.campaigns :
         LET trend == campaign_attributed_by_day(db, m.campaign)
         IN Total(trend, "attributed") = m.conversions /\ Total(trend, "revenue") = m.revenue
    /\ \A r \in ctx.restatements : campaign_restatement(db, r.campaign) = r
    /\ \A i \in DOMAIN buckets :
         buckets[i] = BinCount(db, i)
                        + IF i = WindowDays - 1 THEN BinCount(db, WindowDays) ELSE 0
    /\ \A b \in window_edge_distribution(db) : b.day_bucket \in 0..WindowDays
    /\ \A g \in ctx.genre_reach :
         genre_reach_detail(db, g.genre) =
           [exposures |-> g.exposures, attributed_conversions |-> g.attributed_conversions]
=============================================================================
