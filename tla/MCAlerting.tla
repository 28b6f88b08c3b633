---------------------------- MODULE MCAlerting ----------------------------
(***************************************************************************)
(* A day of two seconds, a hot window of two days and a list of clusters   *)
(* cut at one.  The hot path credits c1 through a shared address on day    *)
(* 0, whose rows are loaded before the exposures of day 2; then c2 at      *)
(* exactly the window's length, and c3 through address 1, which comes      *)
(* first in the list.  Reconciliation recovers c4, an ambiguous row of     *)
(* address 2, which then leads, and c5, which came too late for the hot    *)
(* window; c6 stays unattributed.  The rows of day 2 take two inserts.     *)
(***************************************************************************)
EXTENDS Alerting

Impression(id, time, insert, campaign, genre) ==
    [exposure_id |-> id, event_time |-> time, insert |-> insert,
     campaign_id |-> campaign, genre |-> genre, spend |-> 1]

MCImpressions ==
    {Impression("e1", 0, 0, "m1", "drama"), Impression("e2", 4, 0, "m2", "sports"),
     Impression("e3", 5, 0, "m2", "news")}

Row(id, type, time, insert, credited, path, resolution, ip, household, candidates) ==
    [conversion_id |-> id, conversion_type |-> type, event_time |-> time,
     insert |-> insert, credited |-> credited, path |-> path,
     resolution |-> resolution, ip |-> ip, household_id |-> household,
     candidate_count |-> candidates, revenue |-> 2]

MCHotRows ==
    {Row("c1", "purchase", 1, 0, "e1", "hot", "ip", 2, "h2", 1),
     Row("c2", "purchase", 4, 0, "e1", "hot", "device", 1, "h1", 1),
     Row("c3", "site_visit", 5, 1, "e2", "hot", "ip", 1, "h2", 1),
     Row("c4", "purchase", 5, 0, "none", "hot", "ip", 2, "h1", 2),
     Row("c5", "site_visit", 5, 1, "none", "hot", "device", 1, "h1", 1),
     Row("c6", "site_visit", 5, 1, "none", "hot", "ip", 3, "h3", 1)}

MCRecovered ==
    {Row("c4", "purchase", 5, 0, "e2", "reconciled", "ip", 2, "h3", 2),
     Row("c5", "site_visit", 5, 0, "e1", "reconciled", "device", 1, "h1", 1)}
=============================================================================
