---------------------------- MODULE MCHotWindow ----------------------------
(* Instances of HotWindow for TLC. *)
EXTENDS HotWindow

\* Slots 2 and 3 hold the same exposure: a re-send that dedup did not drop.
ResendSlots == [s \in ExposureSlots |-> IF s = 3 THEN 2 ELSE s]

=============================================================================
