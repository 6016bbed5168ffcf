--------------------------- MODULE HotStuffVoting ----------------------------
(***************************************************************************)
(* HotStuff implements Voting: whatever a handler of the Core does, the    *)
(* network carries one more vote or timeout of its node at most, and it is *)
(* one that Voting allows.                                                 *)
(***************************************************************************)
EXTENDS HotStuffInvariant

Protocol == INSTANCE Voting WITH
  Node <- Authorities, TimeoutRounds <- {x[2] : x \in Timers}, votes <- Votes, timeouts <- Timeouts

\* Every vote and every timeout is one that Voting allows: the Core keeps two
\* numbers and a QC (last_voted_round, round, high_qc) to decide what Voting
\* decides by all that the node has ever signed (core.rs:99, 165).
FollowsProtocol == Protocol!Spec
=============================================================================
