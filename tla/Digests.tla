------------------------------ MODULE Digests --------------------------------
(***************************************************************************)
(* What becomes of the digests that the mempool hands to the consensus:    *)
(* HotStuff, where the Processors of a node hand over each digest once,    *)
(* when they have stored its batch (mempool/src/processor.rs).  A batch    *)
(* that everybody holds is asked for by nobody, and so not handed over     *)
(* again.                                                                  *)
(***************************************************************************)
EXTENDS HotStuff

VARIABLE handed     \* the <<node, digest>> handed over so far

InitOnce == Init /\ handed = {}

\* What the step adds to the Proposers' buffers has not been there before.
HandOver ==
  LET new == {x \in Authorities \X Digest :
                x[2] \in core'[x[1]].buffer \ core[x[1]].buffer}
  IN  new \cap handed = {} /\ handed' = handed \cup new

SpecOnce == InitOnce /\ [][Next /\ HandOver]_<<vars, handed>>

-----------------------------------------------------------------------------

\* Those who have voted for b or may still vote for it.
MayVote(b) ==
  {n \in Authorities :
     \/ [type |-> "Vote", author |-> n, block |-> b] \in core[n].sent
     \/ core[n].last_voted_round < Round(b) /\ core[n].round <= Round(b)}

\* "Then we consider the batch delivered and we send its digest to the
\* consensus (that will include it into the dag)" (quorum_waiter.rs:71): the
\* digest of a batch that all nodes have stored and handed over stays in the
\* buffer of one of them, until it is in a block that is certified or may be.
\* The Proposer empties its buffer into a block (proposer.rs:78), and those
\* who process the block remove its digests from theirs (core.rs:327), whether
\* it is certified or not.
DigestsKept ==
  \A d \in Digest :
    Authorities \X {d} \subseteq handed
      => \/ \E n \in Authorities : d \in core[n].buffer
         \/ \E p \in Proposals : d \in Payload(p.block) /\ IsQuorum(MayVote(p.block))
=============================================================================
