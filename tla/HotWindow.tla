----------------------------- MODULE HotWindow -----------------------------
(***************************************************************************)
(* attribute_household_streaming (streaming/attribute.py): one household's *)
(* exposures and resolved conversions, taken in arrival order through a    *)
(* watermark-gated release and a hot-window eviction.                      *)
(*                                                                         *)
(* The rows are chosen in the initial state and fixed from then on; one    *)
(* iteration of the source's loop is one action (ArriveExposure or         *)
(* ArriveConversion), the flush at the end of the input is another.  A     *)
(* slot is one element of the input list: with ENGINE_DEDUP=off a re-sent  *)
(* exposure occupies two slots with the same row.                          *)
(***************************************************************************)
EXTENDS Attribution, FiniteSets, Sequences

CONSTANTS
    ExposureSlots,    \* elements of the exposure stream of this household
    SlotId,           \* the exposure_id in each slot (equal ids: a re-send)
    ConversionIds,    \* conversions, one row each (one_row_per_conversion)
    CandidateCounts,  \* candidate_count values: 1 certain, > 1 shared IP
    Time,             \* event times
    Delays,           \* ingest_time - event_time of the events
    Window,           \* HOT_WINDOW
    Lateness,         \* ALLOWED_LATENESS
    NoWatermark       \* the watermark before the first event (None)

ASSUME SlotsAssumption ==
    /\ IsFiniteSet(ExposureSlots)
    /\ SlotId \in [ExposureSlots -> Int]
    /\ ConversionIds \subseteq Int
    /\ CandidateCounts \subseteq Int

ASSUME TimeAssumption ==
    /\ Time \subseteq Int
    /\ Delays \subseteq Int
    /\ Window \in Nat
    /\ Lateness \in Nat
    /\ NoWatermark \notin Int

VARIABLES
    exp,          \* the exposure row in each slot
    conv,         \* the row of each conversion
    unreadExp,    \* slots not yet taken from the ordered input
    unreadConv,   \* conversions not yet taken from the ordered input
    exposures,    \* join state: the slots held
    pending,      \* conversions read and not yet released
    watermark,
    out,          \* out[c]: the rows emitted for conversion c, in order
    peak,         \* StreamState.peak
    evicted,      \* StreamState.evicted
    pc            \* "loop" until the flush, then "done"

inputs == <<exp, conv>>
vars == <<exp, conv, unreadExp, unreadConv, exposures, pending, watermark,
          out, peak, evicted, pc>>

ExposureRow ==
    [exposure_id : {SlotId[s] : s \in ExposureSlots},
     event_time : Time, ingest_time : Int]

ConversionRow ==
    [conversion_id : ConversionIds, event_time : Time, ingest_time : Int,
     candidate_count : CandidateCounts]

----------------------------------------------------------------------------
\* Arrival order: sorted by (ingest_time, kind, id), with "exp" < "res".
\* Slots with equal keys hold the same row, so either may come first.

NextExposure(s) ==
    /\ s \in unreadExp
    /\ \A r \in unreadExp :
          \/ exp[s].ingest_time < exp[r].ingest_time
          \/ /\ exp[s].ingest_time = exp[r].ingest_time
             /\ exp[s].exposure_id <= exp[r].exposure_id
    /\ \A c \in unreadConv : exp[s].ingest_time <= conv[c].ingest_time

NextConversion(c) ==
    /\ c \in unreadConv
    /\ \A d \in unreadConv :
          \/ conv[c].ingest_time < conv[d].ingest_time
          \/ /\ conv[c].ingest_time = conv[d].ingest_time
             /\ c <= d
    /\ \A s \in unreadExp : conv[c].ingest_time < exp[s].ingest_time

\* Mutant: the grace is forgotten, the watermark is the latest event time.
MutantNoGrace(wm, event_time) ==
    IF wm = NoWatermark \/ event_time > wm THEN event_time ELSE wm

\* max(seen event_time) - allowed_lateness; an older event cannot pull it back.
event_time_watermark(wm, event_time) ==
    IF wm = NoWatermark \/ event_time - Lateness > wm
    THEN event_time - Lateness
    ELSE wm

Released(wm, waiting) == {c \in waiting : conv[c].event_time <= wm}

\* Mutant: the released conversions are not taken out of `pending`.
MutantReleaseKeeps(wm, waiting) == waiting

\* What the release leaves in `pending`.
StillPending(wm, waiting) == {c \in waiting : conv[c].event_time > wm}

\* Mutant: the window is subtracted where it should be added.
MutantEvictEarly(wm, held) == {s \in held : wm <= exp[s].event_time - Window}

\* Mutant: nothing is ever evicted.
MutantNeverEvict(wm, held) == held

\* Eviction is strict: a row at watermark = event_time + window is kept.
Keep(wm, held) == {s \in held : wm <= exp[s].event_time + Window}

Emit(c, held) == Append(out[c],
    attribute_household({exp[s] : s \in held}, conv[c], Window))

\* Mutant: eviction runs before the release.
MutantEvictFirst(wm, held, waiting) ==
    LET keep == Keep(wm, held)
    IN /\ watermark' = wm
       /\ out' = [c \in ConversionIds |->
                    IF c \in Released(wm, waiting) THEN Emit(c, keep)
                                                   ELSE out[c]]
       /\ pending' = StillPending(wm, waiting)
       /\ exposures' = keep
       /\ evicted' = evicted + (Cardinality(held) - Cardinality(keep))
       /\ peak' = IF Cardinality(keep) > peak THEN Cardinality(keep) ELSE peak

\* Steps 1, 3 and 4 of an iteration, once the event is buffered in `held` or
\* `waiting`: release against the state before eviction, then evict, then
\* measure.
Tick(wm, held, waiting) ==
    LET keep == Keep(wm, held)
    IN /\ watermark' = wm
       /\ out' = [c \in ConversionIds |->
                    IF c \in Released(wm, waiting) THEN Emit(c, held)
                                                   ELSE out[c]]
       /\ pending' = StillPending(wm, waiting)
       /\ exposures' = keep
       /\ evicted' = evicted + (Cardinality(held) - Cardinality(keep))
       /\ peak' = IF Cardinality(keep) > peak THEN Cardinality(keep) ELSE peak

----------------------------------------------------------------------------

\* What the producer may have sent: an event arrives after some delay.
SentExposures ==
    {[exposure_id |-> i, event_time |-> t, ingest_time |-> t + d] :
        i \in {SlotId[s] : s \in ExposureSlots}, t \in Time, d \in Delays}

SentConversions ==
    {[conversion_id |-> i, event_time |-> t, ingest_time |-> t + d,
      candidate_count |-> n] :
        i \in ConversionIds, t \in Time, d \in Delays, n \in CandidateCounts}

Init ==
    /\ exp \in {f \in [ExposureSlots -> SentExposures] :
                  /\ \A s \in ExposureSlots : f[s].exposure_id = SlotId[s]
                  /\ \A r, s \in ExposureSlots :
                        SlotId[r] = SlotId[s] => f[r] = f[s]}
    /\ conv \in {f \in [ConversionIds -> SentConversions] :
                   \A c \in ConversionIds : f[c].conversion_id = c}
    /\ unreadExp = ExposureSlots
    /\ unreadConv = ConversionIds
    /\ exposures = {}
    /\ pending = {}
    /\ watermark = NoWatermark
    /\ out = [c \in ConversionIds |-> <<>>]
    /\ peak = 0
    /\ evicted = 0
    /\ pc = "loop"

ArriveExposure(s) ==
    /\ pc = "loop"
    /\ NextExposure(s)
    /\ unreadExp' = unreadExp \ {s}
    /\ Tick(event_time_watermark(watermark, exp[s].event_time),
            exposures \cup {s}, pending)
    /\ UNCHANGED <<exp, conv, unreadConv, pc>>

ArriveConversion(c) ==
    /\ pc = "loop"
    /\ NextConversion(c)
    /\ unreadConv' = unreadConv \ {c}
    /\ Tick(event_time_watermark(watermark, conv[c].event_time),
            exposures, pending \cup {c})
    /\ UNCHANGED <<exp, conv, unreadExp, pc>>

\* Mutant: the input ends without releasing what is still pending.
MutantNoFlush ==
    /\ pc = "loop"
    /\ unreadExp = {} /\ unreadConv = {}
    /\ pc' = "done"
    /\ UNCHANGED <<exp, conv, unreadExp, unreadConv, exposures, pending,
                   watermark, out, peak, evicted>>

\* End of input: whatever is pending is attributed against the state left.
Flush ==
    /\ pc = "loop"
    /\ unreadExp = {} /\ unreadConv = {}
    /\ out' = [c \in ConversionIds |->
                 IF c \in pending THEN Emit(c, exposures) ELSE out[c]]
    /\ pending' = {}
    /\ pc' = "done"
    /\ UNCHANGED <<exp, conv, unreadExp, unreadConv, exposures, watermark,
                   peak, evicted>>

Next ==
    \/ \E s \in ExposureSlots : ArriveExposure(s)
    \/ \E c \in ConversionIds : ArriveConversion(c)
    \/ Flush

Spec == Init /\ [][Next]_vars

\* The loop runs to the end of its finite input: nothing in it waits.
FairSpec == Spec /\ WF_vars(Next)
----------------------------------------------------------------------------

TypeOK ==
    /\ exp \in [ExposureSlots -> ExposureRow]
    /\ conv \in [ConversionIds -> ConversionRow]
    /\ unreadExp \subseteq ExposureSlots
    /\ unreadConv \subseteq ConversionIds
    /\ exposures \subseteq ExposureSlots \ unreadExp
    /\ pending \subseteq ConversionIds \ unreadConv
    /\ watermark \in Int \cup {NoWatermark}
    /\ out = [c \in ConversionIds |-> out[c]]
    /\ peak \in Nat
    /\ evicted \in Nat
    /\ pc \in {"loop", "done"}

\* Every event reaches the broker after it happened (producer/generate.py
\* gives each one at least a second of jitter).
PositiveDelays == \A d \in Delays : 0 < d

InTolerance(row) == row.ingest_time - row.event_time <= Lateness

CouldCredit(s, c) == Eligible({exp[s]}, conv[c], Window) # {}

Answered == ConversionIds \ (unreadConv \cup pending)

\* The row the non-evicting oracle emits for conversion c.
OracleRow(c) ==
    attribute_household({exp[s] : s \in ExposureSlots}, conv[c], Window)

\* The guarantee of ALLOWED_LATENESS (attribute.py): once a conversion is
\* released, every in-tolerance exposure it could be credited with has been
\* read.
ReleaseComplete ==
    \A c \in Answered, s \in unreadExp :
       InTolerance(exp[s]) => ~CouldCredit(s, c)

\* Eviction drops no exposure that an unanswered conversion could be credited
\* with, unless that conversion itself arrives beyond the tolerance.
EvictionSafe ==
    \A s \in ExposureSlots \ (unreadExp \cup exposures) :
       /\ \A c \in pending : ~CouldCredit(s, c)
       /\ \A c \in unreadConv : InTolerance(conv[c]) => ~CouldCredit(s, c)

\* A conversion leaves the pass once: no row before it is released, exactly
\* one row afterwards.
AnsweredOnce ==
    \A c \in ConversionIds : Len(out[c]) = IF c \in Answered THEN 1 ELSE 0

\* The events the decision on c depends on arrived within the grace.
Undisturbed(c) ==
    /\ InTolerance(conv[c])
    /\ \A s \in ExposureSlots : CouldCredit(s, c) => InTolerance(exp[s])

\* Lateness is contained: an event beyond the tolerance can cost only the
\* conversions it bears on.  Every other conversion is answered exactly as by
\* the non-evicting pass over all exposures.
Parity ==
    \A c \in Answered : Undisturbed(c) => out[c] = <<OracleRow(c)>>

\* The join state is bounded by the event-time span of grace plus window: an
\* exposure is held only while the newest event read is at most Lateness +
\* Window after it.  This is the scaling constraint eviction exists for.
StateBounded ==
    \A s \in exposures :
       /\ \A r \in ExposureSlots \ unreadExp :
             exp[r].event_time <= exp[s].event_time + Window + Lateness
       /\ \A c \in ConversionIds \ unreadConv :
             conv[c].event_time <= exp[s].event_time + Window + Lateness

\* StreamState adds up: what was evicted and what is held is what was read,
\* and the reported peak is at least the final occupancy.
Accounting ==
    /\ evicted + Cardinality(exposures)
         = Cardinality(ExposureSlots \ unreadExp)
    /\ Cardinality(exposures) <= peak
    /\ peak <= Cardinality(ExposureSlots \ unreadExp)

Oracle == INSTANCE HotOracle
            WITH ExposureSlots <- ExposureSlots, ConversionIds <- ConversionIds,
                 Window <- Window, Lateness <- Lateness,
                 exp <- exp, conv <- conv, out <- out

\* The pass implements the oracle's promise step by step, on time or late: an
\* answer is given once and never revised, and lateness costs only the
\* conversions it bears on.
RefinesOracle == Oracle!OracleSpec

\* Every conversion handed to the pass is answered.
EveryConversionAnswered == \A c \in ConversionIds : <>(Len(out[c]) = 1)
=============================================================================
