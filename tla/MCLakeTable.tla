---------------------------- MODULE MCLakeTable ----------------------------
(* Every append has rows in two days, and in both buckets of day 1. *)
EXTENDS LakeTable, TLC

MCLandings == {{<<1, 1>>, <<1, 2>>, <<2, 1>>}}

\* A writer is known by its handle only.
EitherWriter == Permutations(Writers)
=============================================================================
