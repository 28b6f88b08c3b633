-------------------------- MODULE HotWindow_proofs --------------------------
(***************************************************************************)
(* Proofs about HotWindow, for every set of slots and conversions, every   *)
(* window and grace, and every arrival pattern in which an event is        *)
(* ingested after it happened.                                             *)
(*                                                                         *)
(* The argument.  An event not yet read is ingested no earlier than the    *)
(* event that set the watermark, which was itself ingested strictly after  *)
(* it happened; so watermark + Lateness lies below the ingest time of      *)
(* every unread event, and an in-tolerance unread event lies ahead of the  *)
(* watermark (AheadOfWatermark).  A released conversion lies at or behind  *)
(* the watermark, so no unread in-tolerance exposure can be eligible for   *)
(* it; an evicted exposure lies more than a window behind the watermark    *)
(* and an unanswered conversion ahead of it, so the exposure cannot be     *)
(* eligible either.  Between them the held exposures are all that counts.  *)
(***************************************************************************)
EXTENDS HotWindow, FiniteSetTheorems, TLAPS

\* The rows are ingested after they happened.
IngestAfterEvent ==
    /\ \A s \in ExposureSlots : exp[s].event_time < exp[s].ingest_time
    /\ \A c \in ConversionIds : conv[c].event_time < conv[c].ingest_time

\* No unread event is within the grace of the watermark.
AheadOfWatermark ==
    watermark # NoWatermark =>
       /\ \A s \in unreadExp : watermark + Lateness < exp[s].ingest_time
       /\ \A c \in unreadConv : watermark + Lateness < conv[c].ingest_time

\* The watermark has caught up with every event read.
WatermarkNewest ==
    /\ \A s \in ExposureSlots \ unreadExp :
          watermark \in Int /\ exp[s].event_time - Lateness <= watermark
    /\ \A c \in ConversionIds \ unreadConv :
          watermark \in Int /\ conv[c].event_time - Lateness <= watermark

PendingAhead ==
    \A c \in pending : watermark < conv[c].event_time

HeldInWindow ==
    \A s \in exposures : watermark <= exp[s].event_time + Window

EvictedBehind ==
    \A s \in ExposureSlots \ (unreadExp \cup exposures) :
       exp[s].event_time + Window < watermark

AnsweredBehind ==
    \A c \in Answered : conv[c].event_time <= watermark \/ unreadExp = {}

AnswersOnce ==
    /\ \A c \in unreadConv \cup pending : out[c] = <<>>
    /\ \A c \in Answered : \E row : out[c] = <<row>>

\* The inductive invariant.
IInv ==
    /\ TypeOK
    /\ IngestAfterEvent
    /\ AheadOfWatermark
    /\ WatermarkNewest
    /\ PendingAhead
    /\ HeldInWindow
    /\ EvictedBehind
    /\ AnsweredBehind
    /\ AnswersOnce
    /\ Parity
    /\ Accounting

----------------------------------------------------------------------------

\* Eligibility of a single exposure, as arithmetic.
LEMMA CouldCreditDef ==
    ASSUME NEW s \in ExposureSlots, NEW c \in ConversionIds
    PROVE  CouldCredit(s, c) <=> /\ conv[c].event_time - Window <= exp[s].event_time
                                 /\ exp[s].event_time <= conv[c].event_time
  BY DEF CouldCredit, Eligible

\* attribute_household sees only the eligible rows: two states that agree on
\* the exposures which could be credited give the same answer.
LEMMA SameEligibleSameRow ==
    ASSUME NEW H \in SUBSET ExposureSlots, NEW c \in ConversionIds,
           \A s \in ExposureSlots \ H : ~CouldCredit(s, c)
    PROVE  attribute_household({exp[s] : s \in H}, conv[c], Window)
             = OracleRow(c)
  <1>1. Eligible({exp[s] : s \in H}, conv[c], Window)
          = Eligible({exp[s] : s \in ExposureSlots}, conv[c], Window)
    BY CouldCreditDef DEF Eligible
  <1>2. QED
    BY <1>1 DEF OracleRow, attribute_household, last_touch

----------------------------------------------------------------------------

\* Before the first event nothing is read, held, evicted or answered.
LEMMA InitIInv ==
    ASSUME PositiveDelays, Init
    PROVE  IInv
  <1> USE SlotsAssumption, TimeAssumption
  <1>1. exp \in [ExposureSlots -> ExposureRow]
    <2>1. SentExposures \subseteq ExposureRow
      BY DEF SentExposures, ExposureRow
    <2>2. exp \in [ExposureSlots -> SentExposures]
      BY DEF Init
    <2>3. QED
      BY <2>1, <2>2
  <1>2. conv \in [ConversionIds -> ConversionRow]
    <2>1. SentConversions \subseteq ConversionRow
      BY DEF SentConversions, ConversionRow
    <2>2. conv \in [ConversionIds -> SentConversions]
      BY DEF Init
    <2>3. QED
      BY <2>1, <2>2
  <1>3. IngestAfterEvent
    <2>1. \A r \in SentExposures \cup SentConversions : r.event_time < r.ingest_time
      BY DEF SentExposures, SentConversions, PositiveDelays
    <2>2. /\ exp \in [ExposureSlots -> SentExposures]
          /\ conv \in [ConversionIds -> SentConversions]
      BY DEF Init
    <2>3. QED
      BY <2>1, <2>2 DEF IngestAfterEvent
  <1>4. TypeOK
    BY <1>1, <1>2 DEF Init, TypeOK
  <1>5. AheadOfWatermark /\ WatermarkNewest /\ PendingAhead /\ HeldInWindow
    BY DEF Init, AheadOfWatermark, WatermarkNewest, PendingAhead, HeldInWindow
  <1>6. EvictedBehind /\ AnsweredBehind /\ AnswersOnce /\ Parity
    BY DEF Init, EvictedBehind, AnsweredBehind, AnswersOnce, Parity, Answered
  <1>7. Accounting
    <2>1. ExposureSlots \ unreadExp = {} /\ exposures = {}
      BY DEF Init
    <2>2. Cardinality(exposures) = 0 /\ Cardinality(ExposureSlots \ unreadExp) = 0
      BY <2>1, FS_EmptySet
    <2>3. evicted = 0 /\ peak = 0
      BY DEF Init
    <2>4. QED
      BY <2>2, <2>3 DEF Accounting
  <1>8. QED
    BY <1>3, <1>4, <1>5, <1>6, <1>7 DEF IInv
----------------------------------------------------------------------------
\* What one iteration of the loop hands to Tick: the advanced watermark, and
\* the state and the pending conversions with the new event buffered.
Buffered(wm, held, waiting) ==
    /\ wm \in Int
    /\ watermark # NoWatermark => watermark <= wm
    /\ unreadExp' \subseteq unreadExp
    /\ unreadConv' \subseteq unreadConv
    /\ held \subseteq ExposureSlots \ unreadExp'
    /\ ExposureSlots \ (unreadExp' \cup held)
         = ExposureSlots \ (unreadExp \cup exposures)
    /\ waiting \subseteq ConversionIds \ unreadConv'
    /\ ConversionIds \ (unreadConv' \cup waiting) = Answered
    /\ \A c \in waiting :
          /\ out[c] = <<>>
          /\ watermark # NoWatermark /\ InTolerance(conv[c])
               => watermark < conv[c].event_time
    /\ \A s \in unreadExp' : wm + Lateness < exp[s].ingest_time
    /\ \A c \in unreadConv' : wm + Lateness < conv[c].ingest_time
    /\ \A s \in ExposureSlots \ unreadExp' : exp[s].event_time - Lateness <= wm
    /\ \A c \in ConversionIds \ unreadConv' : conv[c].event_time - Lateness <= wm
    /\ evicted + Cardinality(held) = Cardinality(ExposureSlots \ unreadExp')
    /\ peak <= Cardinality(ExposureSlots \ unreadExp')
    /\ UNCHANGED <<exp, conv, pc>>

\* The rows' times are integers, as the arithmetic of the steps needs.
LEMMA RowTypes ==
    ASSUME TypeOK
    PROVE  /\ \A s \in ExposureSlots : /\ exp[s].event_time \in Int
                                       /\ exp[s].ingest_time \in Int
           /\ \A c \in ConversionIds : /\ conv[c].event_time \in Int
                                       /\ conv[c].ingest_time \in Int
  BY TimeAssumption DEF TypeOK, ExposureRow, ConversionRow

\* The watermark after an event: it has caught up with it and never recedes.
LEMMA WatermarkAdvances ==
    ASSUME TypeOK, NEW t \in Int
    PROVE  /\ event_time_watermark(watermark, t) \in Int
           /\ watermark # NoWatermark
                => watermark <= event_time_watermark(watermark, t)
           /\ t - Lateness <= event_time_watermark(watermark, t)
           /\ \/ event_time_watermark(watermark, t) = t - Lateness
              \/ /\ watermark # NoWatermark
                 /\ event_time_watermark(watermark, t) = watermark
  BY TimeAssumption DEF TypeOK, event_time_watermark

\* The first row emitted for a conversion is its whole output.
LEMMA AppendToEmpty ==
    ASSUME NEW x
    PROVE  Append(<<>>, x) = <<x>>
  OBVIOUS

\* Sets of slots are finite, so the counters of StreamState are defined.
LEMMA FiniteSlots ==
    ASSUME NEW S \in SUBSET ExposureSlots
    PROVE  IsFiniteSet(S) /\ Cardinality(S) \in Nat
  BY SlotsAssumption, FS_Subset, FS_CardinalityType

\* Taking an exposure from the input re-establishes, for the new watermark,
\* what the release and the eviction of the iteration start from.
LEMMA ExposureBuffered ==
    ASSUME IInv, NEW s \in ExposureSlots, ArriveExposure(s)
    PROVE  \E wm \in Int, held \in SUBSET ExposureSlots,
              waiting \in SUBSET ConversionIds :
                 Buffered(wm, held, waiting) /\ Tick(wm, held, waiting)
  <1> DEFINE wm == event_time_watermark(watermark, exp[s].event_time)
             held == exposures \cup {s}
  <1> USE TimeAssumption
  <1>1. TypeOK /\ s \in unreadExp /\ unreadExp' = unreadExp \ {s}
         /\ UNCHANGED <<exp, conv, unreadConv, pc>>
    BY DEF IInv, ArriveExposure, NextExposure
  <1>2. /\ wm \in Int
        /\ watermark # NoWatermark => watermark <= wm
        /\ exp[s].event_time - Lateness <= wm
        /\ wm = exp[s].event_time - Lateness
             \/ (watermark # NoWatermark /\ wm = watermark)
    BY <1>1, RowTypes, WatermarkAdvances
  <1>3. /\ \A r \in unreadExp' : wm + Lateness < exp[r].ingest_time
        /\ \A c \in unreadConv' : wm + Lateness < conv[c].ingest_time
    <2>1. /\ \A r \in unreadExp : exp[s].ingest_time <= exp[r].ingest_time
          /\ \A c \in unreadConv : exp[s].ingest_time <= conv[c].ingest_time
      BY <1>1, RowTypes DEF ArriveExposure, NextExposure, TypeOK
    <2>2. exp[s].event_time < exp[s].ingest_time
      BY DEF IInv, IngestAfterEvent
    <2>3. CASE wm = exp[s].event_time - Lateness
      BY <1>1, <2>1, <2>2, <2>3, RowTypes DEF TypeOK
    <2>4. CASE watermark # NoWatermark /\ wm = watermark
      BY <1>1, <2>4 DEF IInv, AheadOfWatermark
    <2>5. QED
      BY <1>2, <2>3, <2>4
  <1>4. /\ \A r \in ExposureSlots \ unreadExp' : exp[r].event_time - Lateness <= wm
        /\ \A c \in ConversionIds \ unreadConv' : conv[c].event_time - Lateness <= wm
    BY <1>1, <1>2, RowTypes DEF IInv, WatermarkNewest
  <1>5. \A c \in pending : /\ out[c] = <<>>
                           /\ watermark < conv[c].event_time
    BY DEF IInv, AnswersOnce, PendingAhead
  <1>6. /\ held \subseteq ExposureSlots \ unreadExp'
        /\ ExposureSlots \ (unreadExp' \cup held)
             = ExposureSlots \ (unreadExp \cup exposures)
        /\ pending \subseteq ConversionIds \ unreadConv'
        /\ ConversionIds \ (unreadConv' \cup pending) = Answered
    BY <1>1 DEF TypeOK, Answered
  <1>7. /\ evicted + Cardinality(held) = Cardinality(ExposureSlots \ unreadExp')
        /\ peak <= Cardinality(ExposureSlots \ unreadExp')
    <2>1. exposures \in SUBSET ExposureSlots /\ s \notin exposures
          /\ ExposureSlots \ unreadExp \in SUBSET ExposureSlots
          /\ s \notin ExposureSlots \ unreadExp
          /\ ExposureSlots \ unreadExp' = (ExposureSlots \ unreadExp) \cup {s}
      BY <1>1 DEF TypeOK
    <2>2. /\ Cardinality(held) = Cardinality(exposures) + 1
          /\ Cardinality(ExposureSlots \ unreadExp')
               = Cardinality(ExposureSlots \ unreadExp) + 1
      BY <2>1, FiniteSlots, FS_AddElement
    <2>3. /\ Cardinality(exposures) \in Nat
          /\ Cardinality(ExposureSlots \ unreadExp) \in Nat
      BY <2>1, FiniteSlots
    <2>4. QED
      BY <2>2, <2>3, <1>1 DEF IInv, Accounting, TypeOK
  <1>8. Buffered(wm, held, pending)
    BY <1>1, <1>2, <1>3, <1>4, <1>5, <1>6, <1>7 DEF Buffered
  <1>9. Tick(wm, held, pending)
    BY DEF ArriveExposure
  <1>10. held \in SUBSET ExposureSlots /\ pending \in SUBSET ConversionIds
    BY <1>1 DEF TypeOK
  <1>11. QED
    BY <1>2, <1>8, <1>9, <1>10

\* The same for a conversion, which is buffered in `pending`.
LEMMA ConversionBuffered ==
    ASSUME IInv, NEW d \in ConversionIds, ArriveConversion(d)
    PROVE  \E wm \in Int, held \in SUBSET ExposureSlots,
              waiting \in SUBSET ConversionIds :
                 Buffered(wm, held, waiting) /\ Tick(wm, held, waiting)
  <1> DEFINE wm == event_time_watermark(watermark, conv[d].event_time)
             waiting == pending \cup {d}
  <1> USE TimeAssumption
  <1>1. TypeOK /\ d \in unreadConv /\ unreadConv' = unreadConv \ {d}
         /\ UNCHANGED <<exp, conv, unreadExp, pc>>
    BY DEF IInv, ArriveConversion, NextConversion
  <1>2. /\ wm \in Int
        /\ watermark # NoWatermark => watermark <= wm
        /\ conv[d].event_time - Lateness <= wm
        /\ wm = conv[d].event_time - Lateness
             \/ (watermark # NoWatermark /\ wm = watermark)
    BY <1>1, RowTypes, WatermarkAdvances
  <1>3. /\ \A r \in unreadExp' : wm + Lateness < exp[r].ingest_time
        /\ \A c \in unreadConv' : wm + Lateness < conv[c].ingest_time
    <2>1. /\ \A r \in unreadExp : conv[d].ingest_time <= exp[r].ingest_time
          /\ \A c \in unreadConv : conv[d].ingest_time <= conv[c].ingest_time
      BY <1>1, RowTypes DEF ArriveConversion, NextConversion, TypeOK
    <2>2. conv[d].event_time < conv[d].ingest_time
      BY DEF IInv, IngestAfterEvent
    <2>3. CASE wm = conv[d].event_time - Lateness
      BY <1>1, <2>1, <2>2, <2>3, RowTypes DEF TypeOK
    <2>4. CASE watermark # NoWatermark /\ wm = watermark
      BY <1>1, <2>4 DEF IInv, AheadOfWatermark
    <2>5. QED
      BY <1>2, <2>3, <2>4
  <1>4. /\ \A r \in ExposureSlots \ unreadExp' : exp[r].event_time - Lateness <= wm
        /\ \A c \in ConversionIds \ unreadConv' : conv[c].event_time - Lateness <= wm
    BY <1>1, <1>2, RowTypes DEF IInv, WatermarkNewest
  <1>5. \A c \in waiting : /\ out[c] = <<>>
                           /\ watermark # NoWatermark /\ InTolerance(conv[c])
                                => watermark < conv[c].event_time
    <2>1. \A c \in pending : out[c] = <<>> /\ watermark < conv[c].event_time
      BY DEF IInv, AnswersOnce, PendingAhead
    <2>2. out[d] = <<>>
      BY <1>1 DEF IInv, AnswersOnce
    <2>3. watermark # NoWatermark /\ InTolerance(conv[d])
            => watermark < conv[d].event_time
      BY <1>1, RowTypes DEF IInv, AheadOfWatermark, InTolerance, TypeOK
    <2>4. QED
      BY <2>1, <2>2, <2>3
  <1>6. /\ exposures \subseteq ExposureSlots \ unreadExp'
        /\ ExposureSlots \ (unreadExp' \cup exposures)
             = ExposureSlots \ (unreadExp \cup exposures)
        /\ waiting \subseteq ConversionIds \ unreadConv'
        /\ ConversionIds \ (unreadConv' \cup waiting) = Answered
    BY <1>1 DEF TypeOK, Answered
  <1>7. /\ evicted + Cardinality(exposures) = Cardinality(ExposureSlots \ unreadExp')
        /\ peak <= Cardinality(ExposureSlots \ unreadExp')
    BY <1>1 DEF IInv, Accounting
  <1>8. Buffered(wm, exposures, waiting)
    BY <1>1, <1>2, <1>3, <1>4, <1>5, <1>6, <1>7 DEF Buffered
  <1>9. Tick(wm, exposures, waiting)
    BY DEF ArriveConversion
  <1>10. exposures \in SUBSET ExposureSlots /\ waiting \in SUBSET ConversionIds
    BY <1>1 DEF TypeOK
  <1>11. QED
    BY <1>2, <1>8, <1>9, <1>10
----------------------------------------------------------------------------
\* The rest of an iteration preserves the invariant, whatever was buffered.
LEMMA TickIInv ==
    ASSUME IInv,
           NEW wm \in Int, NEW held \in SUBSET ExposureSlots,
           NEW waiting \in SUBSET ConversionIds,
           Buffered(wm, held, waiting), Tick(wm, held, waiting)
    PROVE  IInv'
  <1> DEFINE keep == {s \in held : wm <= exp[s].event_time + Window}
             released == {c \in waiting : conv[c].event_time <= wm}
  <1> USE TimeAssumption
  <1>1. TypeOK /\ UNCHANGED <<exp, conv, pc>>
        /\ unreadExp' \subseteq unreadExp /\ unreadConv' \subseteq unreadConv
    BY DEF IInv, Buffered
  <1>2. /\ watermark' = wm
        /\ exposures' = keep
        /\ pending' = waiting \ released
        /\ evicted' = evicted + (Cardinality(held) - Cardinality(keep))
        /\ peak' = IF Cardinality(keep) > peak THEN Cardinality(keep) ELSE peak
        /\ out' = [c \in ConversionIds |->
                     IF c \in released THEN Emit(c, held) ELSE out[c]]
    <2>1. \A c \in waiting : conv[c].event_time \in Int
      BY <1>1, RowTypes
    <2>2. waiting \ released = StillPending(wm, waiting)
      BY <2>1 DEF StillPending
    <2>3. QED
      BY <2>2 DEF Tick, Keep, Released
  <1>3. /\ Cardinality(held) \in Nat /\ Cardinality(keep) \in Nat
        /\ Cardinality(keep) <= Cardinality(held)
    <2>1. keep \in SUBSET held
      OBVIOUS
    <2>2. QED
      BY <2>1, FiniteSlots, FS_Subset
  <1>4. TypeOK'
    <2>1. exposures' \subseteq ExposureSlots \ unreadExp'
      BY <1>2 DEF Buffered
    <2>2. pending' \subseteq ConversionIds \ unreadConv'
      BY <1>2 DEF Buffered
    <2>3. peak' \in Nat /\ evicted' \in Nat
      BY <1>1, <1>2, <1>3 DEF TypeOK
    <2>4. out' = [c \in ConversionIds |-> out'[c]]
      BY <1>2
    <2>5. QED
      BY <1>1, <1>2, <2>1, <2>2, <2>3, <2>4 DEF TypeOK, ExposureRow, ConversionRow
  <1>5. IngestAfterEvent'
    BY <1>1 DEF IInv, IngestAfterEvent
  <1>6. AheadOfWatermark' /\ WatermarkNewest'
    BY <1>1, <1>2 DEF Buffered, AheadOfWatermark, WatermarkNewest
  <1>7. PendingAhead' /\ HeldInWindow'
    BY <1>1, <1>2, RowTypes DEF PendingAhead, HeldInWindow
  <1>8. \A s \in ExposureSlots \ (unreadExp' \cup held) :
           watermark # NoWatermark /\ exp[s].event_time + Window < watermark
    BY <1>1 DEF IInv, Buffered, EvictedBehind, WatermarkNewest
  <1>9. EvictedBehind'
    BY <1>1, <1>2, <1>8, RowTypes DEF EvictedBehind, Buffered, TypeOK
  <1>10. Answered' = Answered \cup released /\ released \cap Answered = {}
    BY <1>2 DEF Answered, Buffered
  <1>11. AnsweredBehind'
    <2>1. \A c \in Answered : conv[c].event_time <= wm \/ unreadExp' = {}
      BY <1>1, RowTypes DEF IInv, AnsweredBehind, WatermarkNewest, Answered,
                            Buffered, TypeOK
    <2>2. QED
      BY <1>1, <1>2, <1>10, <2>1 DEF AnsweredBehind
  <1>12. /\ \A c \in released : out'[c] = <<attribute_household(
                                   {exp[s] : s \in held}, conv[c], Window)>>
         /\ \A c \in ConversionIds \ released : out'[c] = out[c]
    <2>1. \A c \in released : c \in ConversionIds /\ out[c] = <<>>
      BY DEF Buffered
    <2>2. \A c \in released : out'[c] = Append(<<>>, attribute_household(
                                   {exp[s] : s \in held}, conv[c], Window))
      BY <1>2, <2>1 DEF Emit
    <2>3. QED
      BY <1>2, <2>2, AppendToEmpty
  <1>13. AnswersOnce'
    <2>1. \A c \in unreadConv' \cup pending' : out'[c] = <<>>
      BY <1>1, <1>2, <1>12 DEF IInv, AnswersOnce, Buffered, TypeOK
    <2>2. \A c \in Answered' : \E row : out'[c] = <<row>>
      BY <1>10, <1>12 DEF IInv, AnswersOnce, Answered
    <2>3. QED
      BY <2>1, <2>2 DEF AnswersOnce
  <1>14. Parity'
    <2>1. \A c \in ConversionIds : /\ OracleRow(c)' = OracleRow(c)
                                   /\ Undisturbed(c)' = Undisturbed(c)
      BY <1>1 DEF OracleRow, Undisturbed, CouldCredit, InTolerance
    <2>2. \A c \in Answered : Undisturbed(c) => out'[c] = <<OracleRow(c)>>
      BY <1>10, <1>12 DEF IInv, Parity, Answered
    <2>3. ASSUME NEW c \in released, Undisturbed(c)
          PROVE  out'[c] = <<OracleRow(c)>>
      <3>1. ASSUME NEW s \in ExposureSlots \ held
            PROVE  ~CouldCredit(s, c)
        <4>1. CASE s \in unreadExp'
          \* Not read yet: ahead of the watermark, hence after c.
          <5>1. wm + Lateness < exp[s].ingest_time /\ conv[c].event_time <= wm
            BY <4>1 DEF Buffered
          <5>2. CouldCredit(s, c) => /\ InTolerance(exp[s])
                                     /\ exp[s].event_time <= conv[c].event_time
            BY <2>3, CouldCreditDef DEF Undisturbed
          <5>3. QED
            BY <1>1, <5>1, <5>2, RowTypes DEF InTolerance
        <4>2. CASE s \notin unreadExp'
          \* Evicted in an earlier iteration: more than a window before c.
          <5>1. watermark # NoWatermark /\ exp[s].event_time + Window < watermark
            BY <1>8, <4>2
          <5>2. watermark < conv[c].event_time
            BY <2>3, <5>1 DEF Buffered, Undisturbed
          <5>3. exp[s].event_time < conv[c].event_time - Window
            BY <1>1, <5>1, <5>2, RowTypes DEF TypeOK
          <5>4. QED
            BY <1>1, <5>3, RowTypes, CouldCreditDef
        <4>3. QED
          BY <4>1, <4>2
      <3>2. QED
        BY <1>12, <3>1, SameEligibleSameRow
    <2>4. QED
      BY <1>10, <2>1, <2>2, <2>3 DEF Parity, Answered
  <1>15. Accounting'
    BY <1>1, <1>2, <1>3 DEF Accounting, Buffered, TypeOK
  <1>16. QED
    BY <1>4, <1>5, <1>6, <1>7, <1>9, <1>11, <1>13, <1>14, <1>15 DEF IInv

\* The flush meets the same conditions with every event read.
LEMMA FlushIInv ==
    ASSUME IInv, Flush
    PROVE  IInv'
  <1> USE TimeAssumption
  <1>1. /\ TypeOK /\ unreadExp = {} /\ unreadConv = {}
        /\ UNCHANGED <<exp, conv, unreadExp, unreadConv, exposures, watermark,
                       peak, evicted>>
        /\ pending' = {} /\ pc' = "done"
        /\ out' = [c \in ConversionIds |->
                     IF c \in pending THEN Emit(c, exposures) ELSE out[c]]
    BY DEF IInv, Flush
  <1>2. TypeOK'
    BY <1>1 DEF TypeOK, ExposureRow, ConversionRow
  <1>3. /\ IngestAfterEvent' /\ AheadOfWatermark' /\ WatermarkNewest'
        /\ PendingAhead' /\ HeldInWindow' /\ EvictedBehind' /\ Accounting'
    BY <1>1 DEF IInv, IngestAfterEvent, AheadOfWatermark, WatermarkNewest,
                PendingAhead, HeldInWindow, EvictedBehind, Accounting
  <1>4. AnsweredBehind'
    BY <1>1 DEF AnsweredBehind
  <1>5. /\ Answered' = ConversionIds
        /\ ConversionIds = Answered \cup pending
    BY <1>1 DEF Answered, TypeOK
  <1>6. /\ \A c \in pending : out'[c] = <<attribute_household(
                                  {exp[s] : s \in exposures}, conv[c], Window)>>
        /\ \A c \in ConversionIds \ pending : out'[c] = out[c]
    <2>1. \A c \in pending : c \in ConversionIds /\ out[c] = <<>>
      BY <1>1 DEF IInv, AnswersOnce, TypeOK
    <2>2. \A c \in pending : out'[c] = Append(<<>>, attribute_household(
                                  {exp[s] : s \in exposures}, conv[c], Window))
      BY <1>1, <2>1 DEF Emit
    <2>3. QED
      BY <1>1, <2>2, AppendToEmpty
  <1>7. AnswersOnce'
    BY <1>1, <1>5, <1>6 DEF IInv, AnswersOnce
  <1>8. Parity'
    <2>1. \A c \in ConversionIds : /\ OracleRow(c)' = OracleRow(c)
                                   /\ Undisturbed(c)' = Undisturbed(c)
      BY <1>1 DEF OracleRow, Undisturbed, CouldCredit, InTolerance
    <2>2. \A c \in ConversionIds \ pending :
             Undisturbed(c) => out'[c] = <<OracleRow(c)>>
      BY <1>5, <1>6 DEF IInv, Parity
    <2>3. ASSUME NEW c \in pending
          PROVE  out'[c] = <<OracleRow(c)>>
      <3>1. c \in ConversionIds /\ exposures \in SUBSET ExposureSlots
        BY <1>1 DEF TypeOK
      <3>2. watermark \in Int /\ watermark < conv[c].event_time
        BY <1>1, <3>1 DEF IInv, PendingAhead, WatermarkNewest
      <3>3. ASSUME NEW s \in ExposureSlots \ exposures
            PROVE  ~CouldCredit(s, c)
        <4>1. exp[s].event_time + Window < watermark
          BY <1>1 DEF IInv, EvictedBehind
        <4>2. exp[s].event_time < conv[c].event_time - Window
          BY <1>1, <3>1, <3>2, <4>1, RowTypes
        <4>3. QED
          BY <1>1, <3>1, <4>2, RowTypes, CouldCreditDef
      <3>4. QED
        BY <1>6, <3>1, <3>3, SameEligibleSameRow
    <2>4. QED
      BY <1>5, <2>1, <2>2, <2>3 DEF Parity
  <1>9. QED
    BY <1>2, <1>3, <1>4, <1>7, <1>8 DEF IInv

\* Every step of the pass preserves the inductive invariant.
LEMMA NextIInv ==
    ASSUME IInv, [Next]_vars
    PROVE  IInv'
  <1>1. CASE \E s \in ExposureSlots : ArriveExposure(s)
    BY <1>1, ExposureBuffered, TickIInv
  <1>2. CASE \E c \in ConversionIds : ArriveConversion(c)
    BY <1>2, ConversionBuffered, TickIInv
  <1>3. CASE Flush
    BY <1>3, FlushIInv
  <1>4. CASE UNCHANGED vars
    <2> USE <1>4 DEF vars, IInv
    <2>1. TypeOK'
      BY DEF TypeOK, ExposureRow, ConversionRow
    <2>2. IngestAfterEvent' /\ AheadOfWatermark' /\ WatermarkNewest'
      BY DEF IngestAfterEvent, AheadOfWatermark, WatermarkNewest
    <2>3. PendingAhead' /\ HeldInWindow' /\ EvictedBehind' /\ Accounting'
      BY DEF PendingAhead, HeldInWindow, EvictedBehind, Accounting
    <2>4. AnsweredBehind' /\ AnswersOnce'
      BY DEF AnsweredBehind, AnswersOnce, Answered
    <2>5. Parity'
      BY DEF Parity, Answered, Undisturbed, OracleRow, CouldCredit, InTolerance
    <2>6. QED
      BY <2>1, <2>2, <2>3, <2>4, <2>5
  <1>5. QED
    BY <1>1, <1>2, <1>3, <1>4 DEF Next
----------------------------------------------------------------------------

\* The inductive invariant holds throughout every run of the pass.
LEMMA SpecIInv ==
    ASSUME PositiveDelays
    PROVE  Spec => []IInv
  <1>1. Init => IInv
    BY InitIInv
  <1>2. IInv /\ [Next]_vars => IInv'
    BY NextIInv
  <1>3. QED
    BY <1>1, <1>2, PTL DEF Spec

\* The variables of the streaming pass keep their types: in particular an
\* exposure is held, and a conversion is pending, only after it was read.
THEOREM TypeCorrect ==
    ASSUME PositiveDelays
    PROVE  Spec => []TypeOK
  <1>1. IInv => TypeOK
    BY DEF IInv
  <1>2. QED
    BY <1>1, SpecIInv, PTL

\* A conversion whose own event and whose eligible exposures arrive within the
\* grace is answered exactly as by the non-evicting oracle, whatever else is
\* late: the watermark-gated release and the eviction are invisible.
THEOREM ParityHolds ==
    ASSUME PositiveDelays
    PROVE  Spec => []Parity
  <1>1. IInv => Parity
    BY DEF IInv
  <1>2. QED
    BY <1>1, SpecIInv, PTL

\* The watermark's guarantee: at release every in-tolerance exposure that
\* could be credited has arrived.
THEOREM ReleaseIsComplete ==
    ASSUME PositiveDelays
    PROVE  Spec => []ReleaseComplete
  <1>1. ASSUME IInv PROVE ReleaseComplete
    <2>1. SUFFICES ASSUME NEW c \in Answered, NEW s \in unreadExp,
                          InTolerance(exp[s]), CouldCredit(s, c)
                   PROVE  FALSE
      BY DEF ReleaseComplete
    <2>2. TypeOK /\ s \in ExposureSlots /\ c \in ConversionIds \ unreadConv
      BY <1>1 DEF IInv, TypeOK, Answered
    <2>3. watermark \in Int /\ conv[c].event_time <= watermark
      BY <1>1, <2>2 DEF IInv, AnsweredBehind, WatermarkNewest
    <2>4. watermark + Lateness < exp[s].ingest_time
      BY <1>1, <2>3, TimeAssumption DEF IInv, AheadOfWatermark
    <2>5. exp[s].event_time <= conv[c].event_time
      BY <2>1, <2>2, CouldCreditDef
    <2>6. QED
      BY <2>1, <2>2, <2>3, <2>4, <2>5, RowTypes, TimeAssumption DEF InTolerance
  <1>2. QED
    BY <1>1, SpecIInv, PTL

\* Eviction never drops an exposure that a pending conversion, or one still to
\* arrive within the grace, could be credited with.
THEOREM EvictionIsSafe ==
    ASSUME PositiveDelays
    PROVE  Spec => []EvictionSafe
  <1>1. ASSUME IInv PROVE EvictionSafe
    <2>1. TypeOK
      BY <1>1 DEF IInv
    <2>2. SUFFICES ASSUME NEW s \in ExposureSlots \ (unreadExp \cup exposures),
                          NEW c \in unreadConv \cup pending,
                          c \in pending \/ InTolerance(conv[c])
                   PROVE  ~CouldCredit(s, c)
      BY DEF EvictionSafe
    <2>3. watermark \in Int /\ exp[s].event_time + Window < watermark
      BY <1>1 DEF IInv, EvictedBehind, WatermarkNewest
    <2>4. c \in ConversionIds
      BY <2>1 DEF TypeOK
    <2>5. watermark < conv[c].event_time
      <3>1. CASE c \in pending
        BY <1>1, <3>1 DEF IInv, PendingAhead
      <3>2. CASE c \in unreadConv /\ InTolerance(conv[c])
        BY <1>1, <2>1, <2>3, <2>4, <3>2, RowTypes, TimeAssumption
           DEF IInv, AheadOfWatermark, InTolerance
      <3>3. QED
        BY <2>2, <3>1, <3>2
    <2>6. exp[s].event_time < conv[c].event_time - Window
      BY <2>1, <2>3, <2>4, <2>5, RowTypes, TimeAssumption
    <2>7. QED
      BY <2>1, <2>4, <2>6, RowTypes, CouldCreditDef, TimeAssumption
  <1>2. QED
    BY <1>1, SpecIInv, PTL

\* No conversion is answered twice, and none has a row before its release.
THEOREM AnsweredExactlyOnce ==
    ASSUME PositiveDelays
    PROVE  Spec => []AnsweredOnce
  <1>1. ASSUME IInv PROVE AnsweredOnce
    <2>1. \A c \in ConversionIds \ Answered : out[c] = <<>>
      BY <1>1 DEF IInv, AnswersOnce, Answered
    <2>2. \A c \in Answered : \E row : out[c] = <<row>>
      BY <1>1 DEF IInv, AnswersOnce
    <2>3. ASSUME NEW c \in ConversionIds
          PROVE  Len(out[c]) = IF c \in Answered THEN 1 ELSE 0
      <3>1. CASE c \in Answered
        <4>1. PICK row : out[c] = <<row>>
          BY <2>2, <3>1
        <4>2. QED
          BY <3>1, <4>1
      <3>2. CASE c \notin Answered
        BY <2>1, <3>2
      <3>3. QED
        BY <3>1, <3>2
    <2>4. QED
      BY <2>3 DEF AnsweredOnce
  <1>2. QED
    BY <1>1, SpecIInv, PTL

\* Eviction bounds the join state: nothing held is older than the newest event
\* read by more than the window plus the grace.
THEOREM JoinStateBounded ==
    ASSUME PositiveDelays
    PROVE  Spec => []StateBounded
  <1>1. ASSUME IInv PROVE StateBounded
    <2>1. TypeOK
      BY <1>1 DEF IInv
    <2>2. \A s \in exposures : /\ s \in ExposureSlots
                               /\ watermark \in Int
                               /\ watermark <= exp[s].event_time + Window
      BY <1>1, <2>1 DEF IInv, HeldInWindow, WatermarkNewest, TypeOK
    <2>3. ASSUME NEW s \in exposures, NEW t \in Int, t - Lateness <= watermark
          PROVE  t <= exp[s].event_time + Window + Lateness
      BY <2>1, <2>2, <2>3, RowTypes, TimeAssumption
    <2>4. /\ \A r \in ExposureSlots \ unreadExp :
                exp[r].event_time \in Int /\ exp[r].event_time - Lateness <= watermark
          /\ \A c \in ConversionIds \ unreadConv :
                conv[c].event_time \in Int /\ conv[c].event_time - Lateness <= watermark
      BY <1>1, <2>1, RowTypes DEF IInv, WatermarkNewest
    <2>5. QED
      BY <2>3, <2>4 DEF StateBounded
  <1>2. QED
    BY <1>1, SpecIInv, PTL

\* StreamState is consistent: evicted plus held is what was read, and the peak
\* lies between the occupancy and the number of exposures read.
THEOREM AccountingHolds ==
    ASSUME PositiveDelays
    PROVE  Spec => []Accounting
  <1>1. IInv => Accounting
    BY DEF IInv
  <1>2. QED
    BY <1>1, SpecIInv, PTL

----------------------------------------------------------------------------
\* The oracle's operators are those of this module.
LEMMA SameDecisions ==
    ASSUME NEW c \in ConversionIds
    PROVE  /\ \A H \in SUBSET ExposureSlots :
                 Oracle!Decision(c, H)
                   = attribute_household({exp[s] : s \in H}, conv[c], Window)
           /\ Oracle!Decision(c, ExposureSlots) = OracleRow(c)
           /\ Oracle!OnTime(c) <=> Undisturbed(c)
  <1>1. \A H \in SUBSET ExposureSlots :
           Oracle!Decision(c, H)
             = attribute_household({exp[s] : s \in H}, conv[c], Window)
    BY DEF Oracle!Decision, Oracle!attribute_household, attribute_household,
           Oracle!last_touch, last_touch, Oracle!Credit, Credit,
           Oracle!Eligible, Eligible, Oracle!Unattributed, Unattributed,
           Oracle!LatestTouch, LatestTouch, Oracle!TouchedBefore, TouchedBefore
  <1>2. Oracle!OnTime(c) <=> Undisturbed(c)
    BY DEF Oracle!OnTime, Undisturbed, Oracle!WithinGrace, InTolerance,
           CouldCredit, Oracle!Eligible, Eligible
  <1>3. QED
    BY <1>1, <1>2 DEF OracleRow

\* A step that turns the output of a conversion into a decision over some of
\* the exposures answers it as the oracle allows: what an on-time conversion
\* gets is the oracle's row by Parity.
LEMMA AnswersAsPromised ==
    ASSUME IInv', UNCHANGED <<exp, conv>>, NEW c \in ConversionIds,
           out[c] = <<>>, c \in Answered',
           NEW H \in SUBSET ExposureSlots,
           out'[c] = <<attribute_household({exp[s] : s \in H}, conv[c], Window)>>
    PROVE  Oracle!AnswerOne(c)
  <1>1. out'[c] = <<Oracle!Decision(c, H)>>
    BY SameDecisions
  <1>2. Undisturbed(c)' = Undisturbed(c) /\ OracleRow(c)' = OracleRow(c)
    BY DEF Undisturbed, InTolerance, CouldCredit, OracleRow
  <1>3. Undisturbed(c) => out'[c] = <<OracleRow(c)>>
    BY <1>2 DEF IInv, Parity, Answered
  <1>4. QED
    BY <1>1, <1>3, SameDecisions DEF Oracle!AnswerOne

\* An iteration answers what it releases, and leaves every other output alone.
LEMMA IterationAnswers ==
    ASSUME IInv, IInv',
           NEW wm \in Int, NEW held \in SUBSET ExposureSlots,
           NEW waiting \in SUBSET ConversionIds,
           Buffered(wm, held, waiting), Tick(wm, held, waiting)
    PROVE  Oracle!Answer
  <1> DEFINE released == {c \in waiting : conv[c].event_time <= wm}
  <1>1. /\ out' = [c \in ConversionIds |->
                      IF c \in released THEN Emit(c, held) ELSE out[c]]
        /\ pending' = {c \in waiting : conv[c].event_time > wm}
    BY DEF Tick, Released, StillPending
  <1>2. UNCHANGED <<exp, conv>> /\ waiting \subseteq ConversionIds \ unreadConv'
    BY DEF Buffered
  <1>3. \A c \in ConversionIds : out'[c] = out[c] \/ Oracle!AnswerOne(c)
    <2> SUFFICES ASSUME NEW c \in released
                 PROVE  Oracle!AnswerOne(c)
      BY <1>1
    <2>1. c \in ConversionIds /\ out[c] = <<>>
      BY DEF Buffered
    <2>2. out'[c] = <<attribute_household({exp[s] : s \in held}, conv[c], Window)>>
      BY <1>1, <2>1, AppendToEmpty DEF Emit
    <2>3. /\ wm \in Int
          /\ conv[c].event_time \in Int
          /\ conv[c].event_time <= wm
      BY <2>1, RowTypes DEF IInv
    <2>4. c \in Answered'
      BY <1>1, <1>2, <2>1, <2>3 DEF Answered
    <2>5. QED
      BY <1>2, <2>1, <2>2, <2>4, AnswersAsPromised
  <1>4. out' = [c \in ConversionIds |-> out'[c]]
    BY DEF IInv, TypeOK
  <1>5. QED
    BY <1>2, <1>3, <1>4 DEF Oracle!Answer

\* The flush answers everything that is still pending.
LEMMA FlushAnswers ==
    ASSUME IInv, IInv', Flush
    PROVE  Oracle!Answer
  <1>1. /\ out' = [c \in ConversionIds |->
                      IF c \in pending THEN Emit(c, exposures) ELSE out[c]]
        /\ pending' = {} /\ unreadConv' = {}
        /\ UNCHANGED <<exp, conv>>
    BY DEF Flush
  <1>2. pending \subseteq ConversionIds /\ exposures \in SUBSET ExposureSlots
    BY DEF IInv, TypeOK
  <1>3. \A c \in ConversionIds : out'[c] = out[c] \/ Oracle!AnswerOne(c)
    <2> SUFFICES ASSUME NEW c \in pending
                 PROVE  Oracle!AnswerOne(c)
      BY <1>1
    <2>1. c \in ConversionIds /\ out[c] = <<>>
      BY <1>2 DEF IInv, AnswersOnce
    <2>2. out'[c] = <<attribute_household({exp[s] : s \in exposures},
                                         conv[c], Window)>>
      BY <1>1, <2>1, AppendToEmpty DEF Emit
    <2>3. c \in Answered'
      BY <1>1, <2>1 DEF Answered
    <2>4. QED
      BY <1>1, <1>2, <2>1, <2>2, <2>3, AnswersAsPromised
  <1>4. out' = [c \in ConversionIds |-> out'[c]]
    BY DEF IInv, TypeOK
  <1>5. QED
    BY <1>1, <1>3, <1>4 DEF Oracle!Answer

\* Whatever arrives, and however late, the streaming pass implements the
\* oracle's promise: each step answers some unanswered conversions, or none,
\* those that nothing late bears on with the oracle's rows.
THEOREM ImplementsOracle ==
    ASSUME PositiveDelays
    PROVE  Spec => RefinesOracle
  <1>1. Init => Oracle!OracleInit
    BY DEF Init, Oracle!OracleInit
  <1>2. IInv /\ IInv' /\ [Next]_vars => [Oracle!Answer]_(Oracle!oracleVars)
    <2> SUFFICES ASSUME IInv, IInv', [Next]_vars
                 PROVE  [Oracle!Answer]_(Oracle!oracleVars)
      OBVIOUS
    <2>1. CASE \E s \in ExposureSlots : ArriveExposure(s)
      BY <2>1, ExposureBuffered, IterationAnswers
    <2>2. CASE \E c \in ConversionIds : ArriveConversion(c)
      BY <2>2, ConversionBuffered, IterationAnswers
    <2>3. CASE Flush
      BY <2>3, FlushAnswers
    <2>4. CASE UNCHANGED vars
      BY <2>4 DEF vars, Oracle!oracleVars
    <2>5. QED
      BY <2>1, <2>2, <2>3, <2>4 DEF Next
  <1>3. QED
    BY <1>1, <1>2, SpecIInv, PTL DEF Spec, RefinesOracle, Oracle!OracleSpec
=============================================================================
