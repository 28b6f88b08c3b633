------------------------------ MODULE Pipeline ------------------------------
(***************************************************************************)
(* From the topics to the record: a producer fills three topics, the       *)
(* engine drains, resolves, deduplicates, attributes and lands them, and   *)
(* reconciliation corrects what the hot window missed, reading the lake    *)
(* day by day and bucket by bucket.  The engine may be run, killed and run *)
(* again at any time, also while the producer is still producing.          *)
(*                                                                         *)
(* A drain reads what its topic holds (TopicRead, which Drain implements); *)
(* the hot decision is the one HotWindow implements (HotOracle), events    *)
(* being in time.  What reads the record (make eval, the agent's context)  *)
(* is given as operators over the current rows.                            *)
(***************************************************************************)
EXTENDS Attribution, Resolution, Producer, FiniteSetsExt

CONSTANTS
    BucketOf,      \* household -> partition bucket (bucket_of)
    DayLength,     \* a day, in units of event time
    HotWindow,     \* HOT_WINDOW
    LongWindow,    \* LONG_WINDOW
    Delta,         \* RECONCILE_DELTA_MS
    Dedup,         \* values ENGINE_DEDUP is set to: "on", "off"
    MaxEarly       \* bound: engine runs started before the producer is done

ASSUME TimeAssumption ==
    DayLength \in Nat \ {0} /\ HotWindow \in Nat /\ LongWindow \in Nat
    /\ HotWindow <= LongWindow /\ Delta \in Nat \ {0} /\ MaxEarly \in Nat

VARIABLES
    world,         \* what the producer has generated (Worlds): never changes
    sent,          \* messages each topic has been given
    lakeExp,       \* raw.exposures (distinct rows)
    lakeAtt,       \* raw.attributed_conversions (distinct rows)
    pc,            \* "idle", or the next step of the engine run
    exposures,     \* exposures the run has drained
    conversions,   \* conversions the run has drained
    run,           \* EngineRun: the rows it decided
    early,         \* history: runs started before the producer was done
    last           \* history: the last job that ran to its end

topics == <<world, sent>>
lake == <<lakeExp, lakeAtt>>
engine == <<pc, exposures, conversions, run>>
vars == <<world, sent, lakeExp, lakeAtt, pc, exposures, conversions, run,
          early, last>>

Greatest(S) == IF S = {} THEN 0 ELSE Max(S)

DayOf(t) == t \div DayLength

----------------------------------------------------------------------------
(* The producer and the broker. *)

Topics == {"device_graph", "exposures", "conversions"}

\* What the broker holds of a topic: a prefix of what will be produced.
Log(topic) == SubSeq(world[topic], 1, sent[topic])

Complete == \A t \in Topics : sent[t] = Len(world[t])

\* produce_all: the next message of a topic is delivered.  The three topics
\* have a partition each; nothing orders deliveries across them.
Deliver(topic) ==
    /\ sent[topic] < Len(world[topic])
    /\ sent' = [sent EXCEPT ![topic] = @ + 1]
    /\ UNCHANGED <<world, lake, engine, early, last>>

----------------------------------------------------------------------------
(* The decisions of the hot path. *)

\* A resolved conversion, as _attributed writes it from the hot decision.
HotRow(conv, exposure_rows, candidates) ==
    LET d == attribute_household({e \in exposure_rows :
                                    e.household_id = conv.household_id},
                                 conv, HotWindow)
    IN [conversion_id |-> conv.conversion_id, conv |-> conv.conv,
        event_time |-> conv.event_time, ingest_time |-> conv.ingest_time,
        household_id |-> conv.household_id, resolution |-> conv.resolution,
        candidate_count |-> conv.candidate_count,
        candidate_households |-> candidates,
        credited |-> d.credited, assists |-> d.assists, reason |-> d.reason,
        path |-> "hot", processed_at |-> d.processed_at]

\* attribute, the oracle: one row per conversion, from the resolved rows.
attribute(exposure_rows, resolved) ==
    {HotRow(r, exposure_rows, candidate_households(r, resolved)) :
        r \in one_row_per_conversion(resolved)}

\* The evicting engine, in arrival order, decides like the oracle (HotWindow).
run_attribution(exposure_rows, resolved) == attribute(exposure_rows, resolved)

\* `make resolve` and streaming.replay: the mirrors the seed wrote beside the
\* topics, re-sends included, without a broker.
offline_resolved ==
    {x[2] : x \in resolve_stream(world.conversions,
                                from_households(world.device_graph))}

offline_attributed ==
    attribute({world.exposures[i] : i \in DOMAIN world.exposures}, offline_resolved)

\* run_engine, once the topics are drained.
Decide(exposure_log, conversion_log, index, dedup) ==
    LET resolved == resolve_stream(conversion_log, index)
        arrivals == {<<i, exposure_log[i]>> : i \in DOMAIN exposure_log}
    IN IF dedup = "off"
       THEN run_attribution({a[2] : a \in arrivals}, {x[2] : x \in resolved})
       ELSE run_attribution(dedup_exposures(arrivals), dedup_resolved(resolved))

----------------------------------------------------------------------------
(* The engine: drain exposures, then conversions, then the graph; land. *)

\* A run starts with the drain of the exposures.
DrainExposures ==
    /\ pc = "idle"
    /\ IF Complete THEN UNCHANGED early
                   ELSE early < MaxEarly /\ early' = early + 1
    /\ exposures' = Log("exposures")
    /\ pc' = "conversions"
    /\ last' = "none"
    /\ UNCHANGED <<topics, lake, conversions, run>>

DrainConversions ==
    /\ pc = "conversions"
    /\ conversions' = Log("conversions")
    /\ pc' = "graph"
    /\ UNCHANGED <<topics, lake, exposures, run, early, last>>

\* The compacted topic is drained last, inside resolve_conversions.
load_graph_index == from_households(Log("device_graph"))

Attribute ==
    /\ pc = "graph"
    /\ \E dedup \in Dedup :
          run' = Decide(exposures, conversions, load_graph_index, dedup)
    /\ pc' = "landExposures"
    /\ UNCHANGED <<topics, lake, exposures, conversions, early, last>>

\* Mutant: a lake that has exposures is taken for landed.
MutantLandOnce ==
    /\ pc = "landExposures"
    /\ lakeExp' = IF lakeExp # {} THEN lakeExp
                  ELSE {exposures[i] : i \in DOMAIN exposures}
    /\ pc' = "landAttributed"
    /\ UNCHANGED <<topics, lakeAtt, exposures, conversions, run, early, last>>

LandExposures ==
    /\ pc = "landExposures"
    /\ lakeExp' = lakeExp \cup {exposures[i] : i \in DOMAIN exposures}
    /\ pc' = "landAttributed"
    /\ UNCHANGED <<topics, lakeAtt, exposures, conversions, run, early, last>>

EndEngine == pc' = "idle" /\ exposures' = <<>> /\ conversions' = <<>> /\ run' = {}

LandAttributed ==
    /\ pc = "landAttributed"
    /\ lakeAtt' = lakeAtt \cup run
    /\ EndEngine
    /\ last' = "engine"
    /\ UNCHANGED <<topics, lakeExp, early>>

KillEngine ==
    /\ pc # "idle"
    /\ EndEngine
    /\ UNCHANGED <<topics, lake, early, last>>

----------------------------------------------------------------------------
(* The lake: current rows, exposure reads. *)

\* order by processed_at desc, path desc.
Outranks(r, q) ==
    \/ r.processed_at > q.processed_at
    \/ r.processed_at = q.processed_at /\ r.path = "reconciled" /\ q.path = "hot"

Tops(log, c) == {r \in log : /\ r.conversion_id = c
                             /\ \A q \in log : q.conversion_id = c => ~Outranks(q, r)}

\* read_current: row_number() = 1.  Two rows of equal version and path fall
\* back to scan order, so every choice among them is a current reading.
Currents(log) ==
    LET convs == {r.conversion_id : r \in log}
    IN {{f[c] : c \in convs} :
          f \in {g \in [convs -> log] : \A c \in convs : g[c] \in Tops(log, c)}}

\* read_exposures_by_household; the upper bound is exclusive.
read_exposures_by_household(households, min_event_time, max_event_time) ==
    {e \in lakeExp : /\ e.household_id \in households
                     /\ min_event_time <= e.event_time
                     /\ e.event_time < max_event_time}

\* _max_ingest, over what ClickHouse serves: exposures of an engine run that
\* was killed before it had loaded them are not there.  (What a pass does when
\* attributed rows are not there either is shown by Serving.)
max_ingest(served) == Greatest({e.ingest_time : e \in served}
                                 \cup {r.ingest_time : r \in lakeAtt})

reconciled_at(served) == max_ingest(served) + Delta

----------------------------------------------------------------------------
(* Reconciliation. *)

lake_candidates(current, day) ==
    {r \in current : r.credited = {} /\ r.path = "hot" /\ DayOf(r.event_time) = day}

\* expand_candidates, for one row: the households it stands for.
expand_candidates(row) ==
    IF row.candidate_count > 1 THEN row.candidate_households ELSE {row.household_id}

\* Mutant: the first household that has a touch is credited.
MutantFirstHousehold(touches) ==
    {t \in touches : \A u \in touches : t.household_id <= u.household_id}

\* pick_household: the most recent last touch, ties by exposure id.
pick_household(touches) ==
    {t \in touches : \A u \in touches : ~TouchedBefore(t, u)}

\* reconcile, for one candidate: its corrected row, if the window has a touch.
\* The leaf assists with the other touches of the household it credits.
Corrected(row, rows, window, version) ==
    LET Touched(h) == Eligible({e \in rows : e.household_id = h}, row, window)
        touches == {LatestTouch(Touched(h)) :
                      h \in {g \in expand_candidates(row) : Touched(g) # {}}}
    IN {[row EXCEPT !.household_id = t.household_id, !.credited = {t.exposure_id},
                    !.assists = {e.exposure_id : e \in Touched(t.household_id)}
                                  \ {t.exposure_id},
                    !.reason = "none", !.path = "reconciled",
                    !.processed_at = version] :
          t \in pick_household(touches)}

\* Mutant: the scan ends where the day begins.
MutantScanToMidnight(current, day, version) ==
    LET start == day * DayLength
        candidates == lake_candidates(current, day)
        rows == read_exposures_by_household(
                  UNION {expand_candidates(r) : r \in candidates},
                  start - LongWindow, start)
    IN UNION {Corrected(r, rows, LongWindow, version) : r \in candidates}

\* recover_day: explode, group by bucket, one read per bucket, reduce across.
recover_day(current, day, version) ==
    LET start == day * DayLength
        candidates == lake_candidates(current, day)
        households == UNION {expand_candidates(r) : r \in candidates}
        InBucket(b) == {h \in households : BucketOf[h] = b}
        rows == UNION {read_exposures_by_household(
                          InBucket(b), start - LongWindow, start + DayLength) :
                         b \in {BucketOf[h] : h \in households}}
    IN UNION {Corrected(r, rows, LongWindow, version) : r \in candidates}

candidate_days(current) ==
    {DayOf(r.event_time) : r \in {q \in current : q.credited = {} /\ q.path = "hot"}}

recovered(current, version) ==
    UNION {recover_day(current, day, version) : day \in candidate_days(current)}

\* run: one pass over every candidate day, one append.  Jobs exclude each
\* other; what a kill inside the pass leaves is the subject of Serving.
Reconcile ==
    /\ pc = "idle" /\ lakeAtt # {}
    /\ \E current \in Currents(lakeAtt), served \in SUBSET lakeExp :
          lakeAtt' = lakeAtt \cup recovered(current, reconciled_at(served))
    /\ last' = "reconcile"
    /\ UNCHANGED <<topics, lakeExp, engine, early>>

----------------------------------------------------------------------------

Init ==
    /\ world \in Worlds
    /\ sent = [t \in Topics |-> 0]
    /\ lakeExp = {} /\ lakeAtt = {}
    /\ pc = "idle"
    /\ exposures = <<>> /\ conversions = <<>> /\ run = {}
    /\ early = 0
    /\ last = "none"

Next ==
    \/ \E t \in Topics : Deliver(t)
    \/ DrainExposures \/ DrainConversions \/ Attribute
    \/ LandExposures \/ LandAttributed \/ KillEngine
    \/ Reconcile

Spec == Init /\ [][Next]_vars
----------------------------------------------------------------------------
(* What reads the record. *)

credited(current) == {r \in current : r.credited # {}}

\* score: a credit of a caused conversion to another household than the one
\* its causing exposure was shown to.
caused_wrong_household(current) ==
    {r \in credited(current) :
        \E x \in world.truth[r.conversion_id] :
           ~\E e \in lakeExp : e.exposure_id = x /\ e.household_id = r.household_id}

\* score: what the precision counts as right, of the caused credits, and the
\* labeled diagnostic, the coincidence with the causing exposure itself.
household_correct(current) ==
    {r \in credited(current) : world.truth[r.conversion_id] # {}}
      \ caused_wrong_household(current)

exact_exposure_correct(current) ==
    {r \in credited(current) : r.credited = world.truth[r.conversion_id]}

\* score: caused conversions without a credit.
caused_missed(current) ==
    {c \in DOMAIN world.truth :
        /\ world.truth[c] # {}
        /\ c \notin {r.conversion_id : r \in credited(current)}}

\* IP_CLUSTER_OVERALL.
ambiguous_attributed(current) == {r \in credited(current) : r.candidate_count > 1}

\* The inner join of attributed rows and exposures, on exposure_id.
Joined(current) ==
    {p \in credited(current) \X lakeExp : p[1].credited = {p[2].exposure_id}}

\* GENRE_CONVERSIONS, as the rows counted under a genre.
genre_conversions(current, genre) ==
    {p[1] : p \in {q \in Joined(current) : q[2].program_genre = genre}}

\* WINDOW_EDGE_LAGS: attributed hot rows with their lag.
window_edge_lags(current) ==
    {<<p[1], p[1].event_time - p[2].event_time>> :
        p \in {q \in Joined(current) : /\ q[1].path = "hot"
                                       /\ q[1].event_time >= q[2].event_time}}
----------------------------------------------------------------------------
(* Properties. *)

\* The households a conversion may belong to: the owner of its device, or
\* else everyone behind its address.
Candidates(c) ==
    LET graph == world.device_graph
        known == {h \in HouseholdIds : c.device_id \in graph[h].devices}
    IN IF known # {} THEN known ELSE {h \in HouseholdIds : c.ip \in graph[h].ips}

\* The exposures any of the given households saw in the window before c.
Touches(c, households, rows, window) ==
    Eligible({e \in rows : e.household_id \in households}, c, window)

LatestOf(rows) == IF rows = {} THEN {} ELSE {LatestTouch(rows).exposure_id}

OthersOf(rows) == {e.exposure_id : e \in rows} \ LatestOf(rows)

\* The touches in the household of the latest touch.
SameHousehold(rows) == {e \in rows : e.household_id = LatestTouch(rows).household_id}

\* The hot touches of a conversion in the whole run.
HotTouches(r) ==
    Touches(r.conv, Candidates(r.conv),
            {world.exposures[i] : i \in DOMAIN world.exposures}, HotWindow)

\* Once the topics are complete, the engine lands for a conversion the one row
\* that the whole run determines: the latest touch in the hot window of its
\* household, assisted by the others, or, behind a shared address, no credit and
\* all the candidates.  Re-sends, ENGINE_DEDUP and earlier runs or kills do not
\* show in it, and the offline replay of the mirrors writes the same rows ("the
\* live path and this replay cannot diverge", resolve/replay.py).
LakeHoldsTheDecision ==
    early = 0 =>
       /\ \A r \in {q \in lakeAtt : q.path = "hot"} :
            LET households == Candidates(r.conv)
            IN IF Cardinality(households) > 1
               THEN r.credited = {} /\ r.assists = {} /\ r.candidate_households = households
               ELSE /\ {r.household_id} = households /\ r.candidate_households = {}
                    /\ r.credited = LatestOf(HotTouches(r))
                    /\ r.assists = OthersOf(HotTouches(r))
       /\ last = "engine" => {q \in lakeAtt : q.path = "hot"} = offline_attributed

\* The touches of a row's households in the long window.
LongTouches(r) == Touches(r.conv, expand_candidates(r), lakeExp, LongWindow)

\* The pass by days and buckets finds what a single pass over the whole lake
\* would: for every candidate, the latest touch of any candidate household,
\* assisted by the other touches of that household.
BucketedEqualsSinglePass ==
    \A current \in Currents(lakeAtt) :
       {<<r.conversion_id, r.credited, r.assists>> :
          r \in recovered(current, reconciled_at(lakeExp))}
         = {<<r.conversion_id, LatestOf(LongTouches(r)),
              OthersOf(SameHousehold(LongTouches(r)))>> :
              r \in {q \in current : /\ q.path = "hot" /\ q.credited = {}
                                     /\ LongTouches(q) # {}}}

\* After reconciliation no caused conversion is missed whose cause lies within
\* the long window, and a second pass would find nothing.
ReconcileRecoversAll ==
    early = 0 /\ last = "reconcile" => \A current \in Currents(lakeAtt) :
       /\ recovered(current, reconciled_at(lakeExp)) = {}
       /\ \A r \in current : r.conversion_id \in caused_missed(current) =>
            \A e \in lakeExp : {e.exposure_id} = world.truth[r.conversion_id]
               => r.event_time - e.event_time > LongWindow

\* "shared IPs the sole source of wrong-household matches": every wrong match
\* that make eval counts is among the ambiguous_attributed that the agent's
\* context shows, and comes over an address its own household shares; a credit
\* of the causing exposure itself is right at the household grain.
WrongHouseholdsAreAmbiguous ==
    early = 0 => \A current \in Currents(lakeAtt) :
       /\ caused_wrong_household(current) \subseteq ambiguous_attributed(current)
       /\ exact_exposure_correct(current) \subseteq household_correct(current)
       /\ \A r \in credited(current) :
            r.household_id # world.home[r.conversion_id] =>
               /\ r.path = "reconciled"
               /\ {world.home[r.conversion_id], r.household_id}
                    \subseteq r.candidate_households

\* The context adds up, whenever it is collected between two steps of the
\* landing: every credited row joins exactly one landed exposure, so that the
\* genres sum to the attributed count, and no hot lag exceeds the hot window.
ContextAddsUp ==
    \A current \in Currents(lakeAtt) :
       /\ credited(current)
            = genre_conversions(current, "news") \cup genre_conversions(current, "sports")
       /\ genre_conversions(current, "news")
            \cap genre_conversions(current, "sports") = {}
       /\ {p[1] : p \in window_edge_lags(current)}
            = {r \in credited(current) : r.path = "hot"}
       /\ \A p \in window_edge_lags(current) : p[2] <= HotWindow

\* "two distinct rows at the same version AND path are not produced by any
\* writer here" (lake/read_attributed.py:10-12).
OneRowPerVersionAndPath ==
    \A r, q \in lakeAtt :
       /\ r.conversion_id = q.conversion_id
       /\ r.processed_at = q.processed_at /\ r.path = q.path
       => r = q
=============================================================================
