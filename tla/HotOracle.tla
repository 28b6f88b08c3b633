----------------------------- MODULE HotOracle -----------------------------
(***************************************************************************)
(* What the hot path promises, with no watermark, no join state and no     *)
(* arrival order: every conversion of a household is answered at most      *)
(* once; when no event that bears on it is late, its answer is the         *)
(* decision the non-evicting `attribute` takes over ALL of the household's *)
(* exposures; when one is, it is the decision over some of them.           *)
(* HotWindow implements this specification.                                *)
(***************************************************************************)
EXTENDS Attribution, Sequences

CONSTANTS ExposureSlots, ConversionIds, Window, Lateness

VARIABLES exp, conv, out

oracleVars == <<exp, conv, out>>

\* The decision on conversion c with the exposures of the slots H.
Decision(c, H) == attribute_household({exp[s] : s \in H}, conv[c], Window)

WithinGrace(row) == row.ingest_time - row.event_time <= Lateness

\* Neither c nor an exposure it could be credited with arrives late.
OnTime(c) ==
    /\ WithinGrace(conv[c])
    /\ \A s \in ExposureSlots :
          Eligible({exp[s]}, conv[c], Window) # {} => WithinGrace(exp[s])

OracleInit == out = [c \in ConversionIds |-> <<>>]

AnswerOne(c) ==
    /\ out[c] = <<>>
    /\ \E H \in SUBSET ExposureSlots : out'[c] = <<Decision(c, H)>>
    /\ OnTime(c) => out'[c] = <<Decision(c, ExposureSlots)>>

\* Some unanswered conversions are answered; the inputs never change.
Answer ==
    /\ out' = [c \in ConversionIds |-> out'[c]]
    /\ \A c \in ConversionIds : out'[c] = out[c] \/ AnswerOne(c)
    /\ UNCHANGED <<exp, conv>>

OracleSpec == OracleInit /\ [][Answer]_oracleVars
=============================================================================
