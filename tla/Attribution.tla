---------------------------- MODULE Attribution ----------------------------
(***************************************************************************)
(* The last-touch decision of streaming/attribute.py: the one leaf that    *)
(* the hot engine, the non-evicting oracle and reconciliation all call.    *)
(*                                                                         *)
(* An exposure row is a record with fields exposure_id, event_time (and    *)
(* ingest_time); a conversion row has conversion_id, event_time,           *)
(* ingest_time and candidate_count.  Identifiers are integers, ordered as  *)
(* the source orders its id strings; times are integers (milliseconds in   *)
(* the source).  The columns a decision copies through (campaign, revenue, *)
(* device ...) are left out: no decision reads them.                       *)
(*                                                                         *)
(* `rows` is the household's exposure list as a SET of rows.  A re-sent    *)
(* exposure is an identical row, so the set forgets exactly what the       *)
(* source's set difference by exposure_id forgets.                         *)
(***************************************************************************)
EXTENDS Integers

\* In-window and not after the conversion; both ends are inclusive.
Eligible(rows, conv, window) ==
    {e \in rows : /\ conv.event_time - window <= e.event_time
                  /\ e.event_time <= conv.event_time}

\* The source's max key: (event_time, exposure_id).
TouchedBefore(a, b) ==
    \/ a.event_time < b.event_time
    \/ a.event_time = b.event_time /\ a.exposure_id < b.exposure_id

LatestTouch(rows) == CHOOSE w \in rows : \A e \in rows : ~TouchedBefore(w, e)

\* A hot row without a credit.  `credited` is the optional exposure_id: the
\* empty set stands for None.
Unattributed(conv) ==
    [conversion_id |-> conv.conversion_id,
     credited      |-> {},
     assists       |-> {},
     reason        |-> IF conv.candidate_count > 1 THEN "ambiguous_ip"
                                                   ELSE "state_miss",
     processed_at  |-> conv.ingest_time]

\* The row last_touch builds from the eligible exposures of a conversion.
Credit(eligible, conv) ==
    IF eligible = {} THEN Unattributed(conv)
    ELSE LET winner == LatestTouch(eligible)
         IN [conversion_id |-> conv.conversion_id,
             credited      |-> {winner.exposure_id},
             assists       |-> {e.exposure_id : e \in eligible}
                                 \ {winner.exposure_id},
             reason        |-> "none",
             processed_at  |-> conv.ingest_time]

last_touch(rows, conv, window) == Credit(Eligible(rows, conv, window), conv)

\* The hot rule: a shared-IP conversion is deferred without probing state.
attribute_household(rows, conv, window) ==
    IF conv.candidate_count > 1 THEN Unattributed(conv)
                                ELSE last_touch(rows, conv, window)
=============================================================================
