------------------------------ MODULE Messages -------------------------------
(***************************************************************************)
(* The blocks, certificates and messages the consensus nodes exchange      *)
(* (consensus/src/messages.rs).                                            *)
(*                                                                         *)
(* A block is the digest the code gives it (author, round, payload and     *)
(* the hash in its QC), so a block determines its parent and all of its    *)
(* ancestors.  A QC is the block it certifies; the votes in it are those   *)
(* the network carries.  A TC keeps its round and its high_qc_rounds, as a   *)
(* set: the voting rule only asks for their maximum.                       *)
(***************************************************************************)
EXTENDS Committee

CONSTANTS
  Block,          \* every block digest, Genesis among them
  Genesis,        \* Block::genesis
  Round(_),       \* block.round
  Parent(_),      \* block.qc.hash; the parent of Genesis is Genesis
  Ancestors(_),   \* <<parent, grandparent, ..., Genesis>>
  Digest,         \* digests of mempool batches
  Payload(_),     \* block.payload, a set of such digests
  EmptyRounds     \* the 5 of Block::verify and Proposer::make_block: an empty
                  \* block without a TC is only made and accepted up to there

ASSUME BlockAssumption ==
  /\ Genesis \in Block
  /\ Round(Genesis) = 0 /\ Parent(Genesis) = Genesis /\ Payload(Genesis) = {}
  /\ \A b \in Block :
       /\ Round(b) \in Nat
       /\ Parent(b) \in Block
       /\ Payload(b) \in SUBSET Digest
       /\ b # Genesis => Round(Parent(b)) < Round(b)

ASSUME AncestorsAssumption ==
  /\ Ancestors(Genesis) = <<>>
  /\ \A b \in Block :
       /\ Ancestors(b) \in Seq(Block)
       /\ b # Genesis => Ancestors(b) = <<Parent(b)>> \o Ancestors(Parent(b))

ASSUME EmptyRoundsAssumption == EmptyRounds \in Nat

\* b is a or one of the blocks a builds on.
Extends(a, b) == a = b \/ \E i \in DOMAIN Ancestors(a) : Ancestors(a)[i] = b

-----------------------------------------------------------------------------
NoTC == [round |-> -1, high_qc_rounds |-> {}]

TC == [round : Nat, high_qc_rounds : SUBSET Nat]

Proposal == [type : {"Propose"}, author : Authorities, block : Block,
             tc : TC \cup {NoTC}]
Vote     == [type : {"Vote"}, author : Authorities, block : Block]
Timeout  == [type : {"Timeout"}, author : Authorities, round : Nat,
             high_qc : Block]
TCMsg    == [type : {"TC"}, author : Authorities, tc : TC]

Message == Proposal \cup Vote \cup Timeout \cup TCMsg

\* Block::verify refuses a late block that carries neither payload nor TC.
\* (Signatures and certificates are those of the nodes that made them.)
ValidPayload(p) ==
  ~ (Round(p.block) > EmptyRounds /\ Payload(p.block) = {} /\ p.tc = NoTC)

\* QCMaker::append and TCMaker::append: the certificates are made once the
\* authors in them are a quorum.
HasQuorumFor(votes, b) == IsQuorum({v.author : v \in {w \in votes : w.block = b}})

HasQuorumIn(timeouts, r) ==
  IsQuorum({t.author : t \in {u \in timeouts : u.round = r}})

\* The TC those timeouts make.
MakeTC(timeouts, r) ==
  [round |-> r,
   high_qc_rounds |->
     {Round(t.high_qc) : t \in {u \in timeouts : u.round = r}}]
=============================================================================
