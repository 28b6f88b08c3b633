------------------------------ MODULE Producer ------------------------------
(***************************************************************************)
(* producer/: what a seeded run may generate.  A draw of the generator's   *)
(* rng is a choice out of a small set, so Worlds is every run that the     *)
(* parameters allow: a device graph, exposures at a fixed spacing,         *)
(* conversions (caused by an exposure, or organic) and, in each topic, the *)
(* events in arrival order, with at most one of them sent again.           *)
(*                                                                         *)
(* Household h has one device and an address of its own, h; SharedIp is    *)
(* the address of the shared pool.  Identifiers are integers, ordered as   *)
(* the source orders its id strings.                                       *)
(***************************************************************************)
EXTENDS Integers, FiniteSets, SequencesExt

CONSTANTS
    NHouseholds,      \* graph.n_households
    NExposures,       \* events.n_exposures
    Spacing,          \* spacing_s: event time from one exposure to the next
    Delays,           \* arrival delays: on time, and late
    ConvDelays,       \* conversion_delay_minutes
    OrganicTimes,     \* event times of organic conversions
    MaxConversions,   \* bound: conversions of a run
    MaxUpsets         \* bound: re-sends (at most one in each topic), and events
                      \* that take longer than the least delay, of a run

ASSUME ProducerAssumption ==
    /\ NHouseholds \in Nat \ {0} /\ NExposures \in Nat \ {0}
    /\ Spacing \in Nat \ {0} /\ Delays \subseteq Nat \ {0} /\ MaxConversions \in Nat
    /\ MaxUpsets \in Nat
    /\ ConvDelays \subseteq Nat \ {0} /\ OrganicTimes \subseteq Nat

HouseholdIds == 1..NHouseholds
SharedIp == 0
UnknownDevice == 0
DeviceOf(h) == 100 + h

\* build_graph: at least one address each, its own or of the shared pool.
build_graph ==
    {[h \in HouseholdIds |->
        [household_id |-> h, devices |-> {DeviceOf(h)}, ips |-> ips[h]]] :
        ips \in {f \in [HouseholdIds -> SUBSET (0..NHouseholds)] :
                   \A h \in HouseholdIds :
                      f[h] # {} /\ f[h] \subseteq {h, SharedIp}}}

\* _ingest_time, with the delay drawn: the jitter, or that of a late event.
ingest_time(t, delay) == t + delay

\* The exposures of a run, each to some household.
generate_exposures ==
    {[i \in 1..NExposures |->
        [exposure_id |-> i, household_id |-> hs[i],
         event_time |-> (i - 1) * Spacing,
         ingest_time |-> ingest_time((i - 1) * Spacing, delays[i]),
         program_genre |-> IF i % 2 = 1 THEN "news" ELSE "sports"]] :
        hs \in [1..NExposures -> HouseholdIds], delays \in [1..NExposures -> Delays]}

\* make_conversion: by a device of the household or one the graph never
\* learned, over an address of the household either way.
make_conversion(household, t, cause) ==
    {[event_time |-> t, ingest_time |-> ingest_time(t, delay), device_id |-> d, ip |-> ip,
      home |-> household.household_id, cause |-> cause] :
        d \in household.devices \cup {UnknownDevice},
        ip \in household.ips, delay \in Delays}

\* The conversions an exposure may cause, and the organic ones of a household.
Caused(graph, exp) ==
    UNION {make_conversion(graph[exp.household_id], exp.event_time + d,
                           {exp.exposure_id}) : d \in ConvDelays}

Organic(household) == UNION {make_conversion(household, t, {}) : t \in OrganicTimes}

\* The conversions a run may make.
Occasions(graph, exps) ==
    (UNION {Caused(graph, exps[i]) : i \in DOMAIN exps})
      \cup (UNION {Organic(graph[h]) : h \in HouseholdIds})

\* Caused conversions are numbered first, in the order of their exposures; an
\* exposure causes one at most.
Numbered(cs) ==
    /\ \A i, j \in DOMAIN cs : i < j /\ cs[j].cause # {} => cs[i].cause # {}
    /\ \A i, j \in DOMAIN cs : i < j /\ cs[i].cause # {} /\ cs[j].cause # {}
          => \A a \in cs[i].cause, b \in cs[j].cause : a < b

generate_conversions(graph, exps) ==
    {cs \in UNION {[1..n -> Occasions(graph, exps)] : n \in 1..MaxConversions} :
        Numbered(cs)}

\* The sort key: the arrival, then the id field.
ArrivesBefore(a, b, id) ==
    \/ a.ingest_time < b.ingest_time
    \/ a.ingest_time = b.ingest_time /\ a[id] < b[id]

\* The events in arrival order.
arrival_order(events, id) ==
    CHOOSE s \in [1..Cardinality(events) -> events] :
       \A i, j \in DOMAIN s : i < j => ArrivesBefore(s[i], s[j], id)

\* _with_duplicates: sorted, with at most one event sent again; a re-send is
\* the same payload, later.
with_duplicates(events, id) ==
    LET sorted == arrival_order({events[i] : i \in DOMAIN events}, id)
    IN {sorted} \cup {InsertAt(sorted, p[2] + 1, sorted[p[1]]) :
          p \in {q \in (DOMAIN sorted) \X (DOMAIN sorted) : q[1] <= q[2]}}

Payload(cs, i) ==
    [conversion_id |-> i, event_time |-> cs[i].event_time,
     ingest_time |-> cs[i].ingest_time,
     device_id |-> cs[i].device_id, ip |-> cs[i].ip]

\* The three topics and, beside them, the truth.
GeneratedStream(graph, es, ks, cs) ==
    [device_graph |-> graph, exposures |-> es, conversions |-> ks,
     truth |-> [i \in DOMAIN cs |-> cs[i].cause],
     home  |-> [i \in DOMAIN cs |-> cs[i].home]]

\* What a draw becomes.
generate(graph, exps, cs) ==
    {GeneratedStream(graph, es, ks, cs) :
        es \in with_duplicates(exps, "exposure_id"),
        ks \in with_duplicates([i \in DOMAIN cs |-> Payload(cs, i)], "conversion_id")}

\* The events of a run that take longer than the least delay.
Delayed(events) ==
    {i \in DOMAIN events : \E delay \in Delays :
        events[i].ingest_time > ingest_time(events[i].event_time, delay)}

\* The re-sends and the delayed events of a run.
Upsets(w, exps, cs) ==
    Len(w.exposures) - NExposures + Len(w.conversions) - Len(cs)
      + Cardinality(Delayed(exps)) + Cardinality(Delayed(cs))

\* Every run, with at most MaxUpsets upsets.
Worlds ==
    UNION {UNION {UNION {{w \in generate(graph, exps, cs) :
                            Upsets(w, exps, cs) <= MaxUpsets} :
                           cs \in generate_conversions(graph, exps)} :
                    exps \in generate_exposures} :
             graph \in build_graph}
=============================================================================
