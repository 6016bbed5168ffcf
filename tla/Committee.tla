------------------------------ MODULE Committee ------------------------------
(***************************************************************************)
(* The committee of a consensus node (consensus/src/config.rs) and its     *)
(* round-robin leader election (consensus/src/leader.rs).                  *)
(***************************************************************************)
EXTENDS Integers, Sequences, FiniteSets, FiniteSetsExt

CONSTANTS
  Keys,      \* the authorities' public keys in sorted order, a sequence
  Stakes     \* the stake of every authority, a function on the keys

Authorities == Range(Keys)

\* The stake of a set of authorities (a key that is not in the committee has
\* none: Committee::stake).
stake(S) == SumFunctionOnSet(Stakes, S \cap Authorities)

\* Committee::quorum_threshold, with the integer division of the code.
quorum_threshold == (2 * stake(Authorities)) \div 3 + 1

\* RRLeaderElector::get_leader: the keys, sorted, indexed from zero.
get_leader(r) == Keys[(r % Len(Keys)) + 1]

\* The sets whose signatures make a valid certificate.
IsQuorum(S) == stake(S) >= quorum_threshold

-----------------------------------------------------------------------------

ASSUME KeysAssumption == Keys \in Seq(Authorities) /\ Len(Keys) > 0

ASSUME StakesAssumption == Stakes \in [Authorities -> Nat]

\* The comment on quorum_threshold (config.rs:68-69) relies on a quorum holding
\* more than two thirds of the stake; this is what the protocol needs of it.
ASSUME QuorumAssumption ==
  /\ \A Q1, Q2 \in SUBSET Authorities :
       IsQuorum(Q1) /\ IsQuorum(Q2) => Q1 \cap Q2 # {}
  /\ IsQuorum(Authorities)
  /\ \A Q1, Q2 \in SUBSET Authorities :
       IsQuorum(Q1) /\ Q1 \subseteq Q2 => IsQuorum(Q2)
=============================================================================
