----------------------------- MODULE MCPipeline -----------------------------
(* Two households in two buckets. *)
EXTENDS Pipeline

MCBucketOf == [h \in 1..2 |-> h]
=============================================================================
