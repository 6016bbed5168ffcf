------------------------------- MODULE Voting --------------------------------
(***************************************************************************)
(* Two-chain HotStuff without tasks, deliveries or variables of a node:    *)
(* the votes and timeouts that nodes may sign, one after the other.  A     *)
(* node decides by what it has signed itself and by the certificates that  *)
(* the votes and timeouts of all make.                                     *)
(***************************************************************************)
EXTENDS Naturals

CONSTANTS
  Node,           \* who votes
  IsQuorum(_),    \* the sets of nodes that make a certificate
  Block,          \* the blocks, Genesis among them
  Genesis,
  Round(_),       \* the round of a block
  Parent(_),      \* the block it extends
  TimeoutRounds   \* the rounds that may time out

VARIABLES
  votes,      \* all the votes there are
  timeouts    \* all the timeouts there are

vars == <<votes, timeouts>>

Init == votes = {} /\ timeouts = {}

Certified(b) ==
  b = Genesis \/ IsQuorum({v.author : v \in {w \in votes : w.block = b}})

\* A quorum has timed out of the round before b's, and none of them reports a
\* block of a later round than the one that b extends.
Unblocked(b) ==
  \E T \in SUBSET {t \in timeouts : t.round + 1 = Round(b)} :
    /\ IsQuorum({t.author : t \in T})
    /\ \A t \in T : Round(Parent(b)) >= Round(t.high_qc)

\* A node votes in a later round than any it has voted or timed out in, for a
\* block on a certified one, of the round before unless that has timed out.
CastVote(n, b) ==
  /\ b # Genesis
  /\ \A v \in votes : v.author = n => Round(v.block) < Round(b)
  /\ \A t \in timeouts : t.author = n => t.round < Round(b)
  /\ Certified(Parent(b))
  /\ Round(Parent(b)) + 1 = Round(b) \/ Unblocked(b)
  /\ votes' = votes \cup {[type |-> "Vote", author |-> n, block |-> b]}
  /\ UNCHANGED timeouts

\* A node times out of a round, and reports a certified block of an earlier one,
\* no lower than the parents of all that it has voted for.
TimeOut(n, r, qc) ==
  /\ Round(qc) < r
  /\ Certified(qc)
  /\ \A v \in votes : v.author = n => Round(Parent(v.block)) <= Round(qc)
  /\ timeouts' = timeouts \cup
       {[type |-> "Timeout", author |-> n, round |-> r, high_qc |-> qc]}
  /\ UNCHANGED votes

Next ==
  \E n \in Node :
    \/ \E b \in Block : CastVote(n, b)
    \/ \E r \in TimeoutRounds, qc \in Block : TimeOut(n, r, qc)

Spec == Init /\ [][Next]_vars
=============================================================================
