-------------------------- MODULE MCBatchPipeline ---------------------------
(* Finite instances of BatchPipeline. *)
EXTENDS BatchPipeline, TLC

\* Three nodes; the first and any other are a quorum.
ThreeKeys == <<"a", "b", "c">>
FirstStakes == [k \in {"a", "b", "c"} |-> IF k = "a" THEN 2 ELSE 1]
=============================================================================
