------------------------- MODULE MCSynchronization --------------------------
(***************************************************************************)
(* Finite instances of Synchronization: node "a" of three is behind.       *)
(***************************************************************************)
EXTENDS Synchronization, TLC

\* The leaders of rounds 1 to 4 are b, c, a and b.
ThreeKeys   == <<"a", "b", "c">>
EqualStakes == [k \in {"a", "b", "c"} |-> 1]

\* A chain b1 <- b2 <- b3, and y4 on a block of round 1 that carries a batch.
\* To process b3 is to commit b1, which ends what waits since round 1.
Blocks == {"g", "b1", "b2", "b3", "y1", "y4"}
BlockRound(b) ==
  CASE b = "g" -> 0 [] b \in {"b1", "y1"} -> 1 [] b = "b2" -> 2
    [] b = "b3" -> 3 [] b = "y4" -> 4
BlockParent(b) ==
  CASE b \in {"g", "b1", "y1"} -> "g" [] b = "b2" -> "b1"
    [] b = "b3" -> "b2" [] b = "y4" -> "y1"
BlockAncestors(b) ==
  CASE b = "g" -> <<>> [] b \in {"b1", "y1"} -> <<"g">>
    [] b = "b2" -> <<"b1", "g">> [] b = "b3" -> <<"b2", "b1", "g">>
    [] b = "y4" -> <<"y1", "g">>
BlockPayload(b) == IF b = "y1" THEN {"d"} ELSE {}

\* The node has stored b1 and missed the rest.  The leader of round 1 does not
\* hold the batch; b3 and y4 come first, so nodes a and b are asked for their
\* parents, the node itself being the first of them.
Disks == {{"b1"}}
PeerStores == "b" :> {"b1", "y1"} @@ "c" :> {"b1", "b2", "y1", "d"}
=============================================================================
