----------------------------- MODULE MCServing -----------------------------
(***************************************************************************)
(* Small instances of Serving.  Day 1 holds the exposures e1 and e2, one   *)
(* per rollup key, and the conversions c1 and c2; day 2 holds c3 only.     *)
(* The hot path credits c1 to e1 (e2 arrived too late for it) and misses   *)
(* c2 and c3, which the 90-day leaf credits to e1.                         *)
(***************************************************************************)
EXTENDS Serving, TLC

CONSTANTS e1, e2, c1, c2, c3, k1, k2, m1

MCExposures == {e1, e2}
MCExpDay == [e \in MCExposures |-> 1]
MCExpKey == (e1 :> k1) @@ (e2 :> k2)
MCExpIngest == (e1 :> 2) @@ (e2 :> 6)

MCConversions == {c1, c2, c3}
MCConvDay == (c1 :> 1) @@ (c2 :> 1) @@ (c3 :> 2)
MCConvIngest == (c1 :> 4) @@ (c2 :> 5) @@ (c3 :> 8)
MCHotCredit == (c1 :> {e1}) @@ (c2 :> {}) @@ (c3 :> {})
MCLongCredit == (c1 :> {e2}) @@ (c2 :> {e1}) @@ (c3 :> {e1})

MCCampaignOf == [k \in {k1, k2} |-> m1]

\* Jobs run to their end.
Clean == [jobs |-> {"engine", "reconcile", "dagster", "replay"}, killed |-> {},
          calendar |-> {1, 2}, loads |-> {}, partitions |-> {}]

\* The calendar lacks day 2; days are loaded, volumes dropped.
ShortCalendar ==
    [jobs |-> JobNames, killed |-> {}, calendar |-> {1},
     loads |-> {{1}, {2}}, partitions |-> {1}]

\* Single days are loaded between the jobs of a whole calendar.
PartialLoads ==
    [Clean EXCEPT !.jobs = JobNames \ {"down"}, !.loads = {{1}, {2}}]

\* Only reconciliation is killed.
KilledReconcile ==
    [Clean EXCEPT !.jobs = {"engine", "reconcile", "replay"},
                  !.killed = {"reconcile"}]

\* Everything but the replay is killed.
Chaos == [Clean EXCEPT !.killed = {"engine", "reconcile", "dagster"}]

\* reconcile-dagster is given one day at a time.
DayByDay == [Clean EXCEPT !.jobs = {"engine", "dagster"}, !.partitions = {1, 2}]

\* Nothing is killed and the volume is dropped at any time.
Dropped == [Clean EXCEPT !.jobs = JobNames \ {"load"}]

Operated == {Clean, PartialLoads, ShortCalendar, Dropped, KilledReconcile, Chaos}
OnlyKilledReconcile == {[KilledReconcile EXCEPT !.jobs = {"engine", "reconcile"}]}
OnlyDayByDay == {DayByDay}
=============================================================================
