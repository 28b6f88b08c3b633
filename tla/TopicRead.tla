----------------------------- MODULE TopicRead -----------------------------
(***************************************************************************)
(* What a bounded read of a topic promises, with no polls, no end-of-      *)
(* partition events and no stall guard: each partition is delivered as a   *)
(* prefix of its log, in order and once, interleaved in any way; the read  *)
(* returns only when it holds, of every partition, at least what the       *)
(* partition held when the read began; otherwise it ends with an error.    *)
(* Drain implements this specification.                                    *)
(***************************************************************************)
EXTENDS Integers, Sequences

CONSTANT Partitions

VARIABLES log, atStart, read, messages, result

readVars == <<log, atStart, read, messages, result>>

ReadInit ==
    /\ atStart = log
    /\ read = [p \in Partitions |-> 0]
    /\ messages = <<>>
    /\ result = "draining"

Grow(p) ==
    /\ log' = [log EXCEPT ![p] = @ + 1]
    /\ UNCHANGED <<atStart, read, messages, result>>

Deliver(p) ==
    /\ result = "draining" /\ read[p] < log[p]
    /\ read' = [read EXCEPT ![p] = @ + 1]
    /\ messages' = Append(messages, <<p, read[p] + 1>>)
    /\ UNCHANGED <<log, atStart, result>>

\* A complete read, never a truncated one.
Return ==
    /\ result = "draining"
    /\ \A p \in Partitions : atStart[p] <= read[p]
    /\ result' = "returned"
    /\ UNCHANGED <<log, atStart, read, messages>>

Refuse ==
    /\ result = "draining" /\ result' \in {"stalled", "error"}
    /\ UNCHANGED <<log, atStart, read, messages>>

ReadNext == Return \/ Refuse \/ \E p \in Partitions : Grow(p) \/ Deliver(p)

ReadSpec == ReadInit /\ [][ReadNext]_readVars
=============================================================================
