----------------------------- MODULE Resolution -----------------------------
(***************************************************************************)
(* resolve/: the device-graph index, the resolution of a conversion to its *)
(* candidate households, and what the engine does with the fan-out before  *)
(* the join: dedup, one row per conversion, the candidate set (the latter  *)
(* three live in streaming/attribute.py).  Pure operators.                 *)
(*                                                                         *)
(* A household is [household_id, devices, ips], devices and ips as sets; a *)
(* conversion has at least conversion_id, device_id and ip.  Household ids *)
(* are integers, ordered as the source orders its id strings.              *)
(***************************************************************************)
EXTENDS Integers, FiniteSets, Sequences

\* last write per household_id wins, whatever was superseded before it.
latest(households) ==
    [h \in {households[i].household_id : i \in DOMAIN households} |->
       households[CHOOSE i \in DOMAIN households :
          /\ households[i].household_id = h
          /\ \A j \in DOMAIN households :
                households[j].household_id = h => j <= i]]

\* Mutant: an address has one owner, the last to list it.
MutantOneOwner(households) ==
    LET graph == latest(households)
        Last(S) == CHOOSE h \in S : \A g \in S : g <= h
    IN [device_of |->
          [d \in UNION {graph[h].devices : h \in DOMAIN graph} |->
             Last({h \in DOMAIN graph : d \in graph[h].devices})],
        owners_of |->
          [ip \in UNION {graph[h].ips : h \in DOMAIN graph} |->
             {Last({h \in DOMAIN graph : ip \in graph[h].ips})}]]

\* GraphIndex.from_households.  A dict keeps the slot of a key's first write,
\* so of two households that list a device the one first seen last owns it.
from_households(households) ==
    LET graph == latest(households)
        slot(h) == CHOOSE i \in DOMAIN households :
                      /\ households[i].household_id = h
                      /\ \A j \in DOMAIN households :
                            households[j].household_id = h => i <= j
        listing(d) == {h \in DOMAIN graph : d \in graph[h].devices}
    IN [device_of |->
          [d \in UNION {graph[h].devices : h \in DOMAIN graph} |->
             CHOOSE h \in listing(d) : \A g \in listing(d) : slot(g) <= slot(h)],
        owners_of |->
          [ip \in UNION {graph[h].ips : h \in DOMAIN graph} |->
             {h \in DOMAIN graph : ip \in graph[h].ips}]]

\* _resolved: the conversion, under one of its candidate households.
Resolved(conv, household, resolution, n) ==
    [conv |-> conv, conversion_id |-> conv.conversion_id,
     event_time |-> conv.event_time, ingest_time |-> conv.ingest_time,
     household_id |-> household, resolution |-> resolution,
     candidate_count |-> n]

\* A device-graph hit beats the IP fallback; a shared IP fans out; an IP that
\* nobody owns resolves to nothing.
resolve_one(conv, index) ==
    IF conv.device_id \in DOMAIN index.device_of
    THEN {Resolved(conv, index.device_of[conv.device_id], "device", 1)}
    ELSE IF conv.ip \in DOMAIN index.owners_of
    THEN {Resolved(conv, h, "ip", Cardinality(index.owners_of[conv.ip])) :
            h \in index.owners_of[conv.ip]}
    ELSE {}

\* A list is the set of its <<position, row>> pairs; the rows of one position
\* (a fan-out) are in household order.
resolve_stream(conversions, index) ==
    UNION {{<<i, r>> : r \in resolve_one(conversions[i], index)} :
             i \in DOMAIN conversions}

Earlier(x, y) ==
    \/ x[1] < y[1]
    \/ x[1] = y[1] /\ x[2].household_id < y[2].household_id

\* dedup_by_id: the first row of each key (a set of fields), in arrival order.
dedup_by_id(arrivals, key) ==
    {x[2] : x \in {a \in arrivals : \A b \in arrivals :
                     (\A f \in key : b[2][f] = a[2][f]) => ~Earlier(b, a)}}

\* Mutant: a fan-out is taken for re-sends.
MutantKeyWithoutHousehold(resolved) ==
    dedup_by_id(resolved, {"conversion_id"})

\* dedup_streams: exposures by id, resolved rows by conversion and household.
dedup_exposures(exposures) == dedup_by_id(exposures, {"exposure_id"})

dedup_resolved(resolved) == dedup_by_id(resolved, {"conversion_id", "household_id"})

\* The lowest household stands for the fan-out of a shared IP.
one_row_per_conversion(resolved) ==
    {r \in resolved : \A q \in resolved :
        q.conversion_id = r.conversion_id => r.household_id <= q.household_id}

\* The candidate set persisted on a deferred row; empty for a certain one.
candidate_households(conv, resolved) ==
    {r.household_id : r \in {q \in resolved :
        q.conversion_id = conv.conversion_id /\ q.candidate_count > 1}}
=============================================================================
