-------------------------- MODULE HotStuffMethods ---------------------------
(***************************************************************************)
(* Each method of the Core keeps its type and the part of the invariant    *)
(* (module HotStuffInvariant) that is about its node, for every committee, *)
(* block tree and bound, as long as the messages it is given are sound.    *)
(***************************************************************************)
EXTENDS HotStuffInvariant, BasicLemmas, FiniteSetTheorems

(* The tree of blocks, and quorums. *)

\* The rounds of a block and of its parent.
LEMMA ParentRound ==
  ASSUME NEW b \in Block
  PROVE  /\ Round(b) \in Nat /\ Parent(b) \in Block
         /\ b # Genesis => Round(Parent(b)) < Round(b)
         /\ b # Genesis => Round(b) # 0
<1>1. /\ Round(b) \in Nat /\ Parent(b) \in Block
      /\ b # Genesis => Round(Parent(b)) < Round(b)
  BY BlockAssumption
<1>2. Round(Parent(b)) \in Nat
  BY <1>1, BlockAssumption
<1> QED BY <1>1, <1>2

\* What a block extends: itself, and what its parent extends.
LEMMA ExtendsParent ==
  ASSUME NEW a \in Block, NEW b \in Block
  PROVE  Extends(a, b) <=> a = b \/ (a # Genesis /\ Extends(Parent(a), b))
<1>1. CASE a = Genesis
  <2>1. Ancestors(a) = <<>>
    BY <1>1, AncestorsAssumption
  <2> QED BY <1>1, <2>1 DEF Extends
<1>2. CASE a # Genesis
  <2> DEFINE P == Parent(a)
             A == Ancestors(P)
  <2>1. P \in Block /\ A \in Seq(Block)
    BY AncestorsAssumption, ParentRound
  <2>2. Ancestors(a) = <<P>> \o A
    BY <1>2, AncestorsAssumption
  <2>3. Len(A) \in Nat /\ DOMAIN A = 1..Len(A)
    BY <2>1, LenProperties
  <2> HIDE DEF P, A
  <2>4. /\ DOMAIN (<<P>> \o A) = 1..(Len(A) + 1)
        /\ (<<P>> \o A)[1] = P
        /\ \A i \in 1..Len(A) : (<<P>> \o A)[i + 1] = A[i]
    BY <2>1, <2>3
  <2>5. (\E i \in DOMAIN (<<P>> \o A) : (<<P>> \o A)[i] = b)
          <=> P = b \/ \E i \in DOMAIN A : A[i] = b
    <3>1. ASSUME NEW i \in 1..(Len(A) + 1), (<<P>> \o A)[i] = b, P # b
          PROVE  \E j \in 1..Len(A) : A[j] = b
      <4>1. i # 1 /\ i - 1 \in 1..Len(A) /\ (i - 1) + 1 = i
        BY <3>1, <2>3, <2>4
      <4> QED BY <4>1, <3>1, <2>4
    <3>2. ASSUME P = b PROVE \E i \in 1..(Len(A) + 1) : (<<P>> \o A)[i] = b
      <4>1. 1 \in 1..(Len(A) + 1)
        BY <2>3
      <4> QED BY <4>1, <3>2, <2>4
    <3>3. ASSUME NEW j \in 1..Len(A), A[j] = b
          PROVE  \E i \in 1..(Len(A) + 1) : (<<P>> \o A)[i] = b
      <4>1. j + 1 \in 1..(Len(A) + 1)
        BY <2>3
      <4> QED BY <4>1, <3>3, <2>4
    <3> QED BY <3>1, <3>2, <3>3, <2>3, <2>4
  <2>6. Extends(P, b) <=> P = b \/ \E i \in DOMAIN A : A[i] = b
    BY DEF Extends, A
  <2>7. Extends(a, b) <=> a = b \/ \E i \in DOMAIN (<<P>> \o A) : (<<P>> \o A)[i] = b
    BY <2>2 DEF Extends
  <2> QED BY <1>2, <2>5, <2>6, <2>7 DEF P
<1> QED BY <1>1, <1>2

\* What is on the list of ancestors is extended (commit sends from that list).
LEMMA ExtendsAncestors ==
  ASSUME NEW a \in Block, NEW i \in DOMAIN Ancestors(a)
  PROVE  Ancestors(a)[i] \in Block /\ Extends(a, Ancestors(a)[i])
<1> DEFINE A == Ancestors(a)
<1>1. A \in Seq(Block) /\ i \in DOMAIN A
  BY AncestorsAssumption
<1> HIDE DEF A
<1>2. A[i] \in Block
  BY <1>1
<1> QED BY <1>2 DEF Extends, A

\* A block that extends another is of a later round, or is that block.
LEMMA ExtendsRound ==
  ASSUME NEW b \in Block
  PROVE  \A a \in Block : Extends(a, b) => a = b \/ Round(b) < Round(a)
<1> DEFINE Good(a) == Extends(a, b) => a = b \/ Round(b) < Round(a)
           S == {Round(a) : a \in {x \in Block : ~ Good(x)}}
<1> SUFFICES ASSUME S # {} PROVE FALSE
  OBVIOUS
<1>1. S \in SUBSET Nat
  BY ParentRound
<1>2. PICK a \in Block : ~ Good(a) /\ \A y \in S : Round(a) <= y
  <2>1. PICK r \in S : \A y \in S : r <= y
    <3> HIDE DEF S
    <3> QED BY <1>1, SmallestNat
  <2> QED BY <2>1
<1>3. a # b /\ a # Genesis /\ Extends(Parent(a), b)
  BY <1>2, ExtendsParent
<1>4. Round(Parent(a)) < Round(a) /\ Parent(a) \in Block
      /\ Round(Parent(a)) \in Nat /\ Round(a) \in Nat /\ Round(b) \in Nat
  BY <1>3, ParentRound
<1>5. Good(Parent(a))
  <2>1. ~ Good(Parent(a)) => Round(Parent(a)) \in S
    BY <1>4
  <2> HIDE DEF Good
  <2> QED BY <2>1, <1>2, <1>4
<1> QED BY <1>2, <1>3, <1>4, <1>5

\* Extends is transitive.
LEMMA ExtendsTransitive ==
  ASSUME NEW b \in Block, NEW c \in Block, Extends(b, c)
  PROVE  \A a \in Block : Extends(a, b) => Extends(a, c)
<1> DEFINE Good(a) == Extends(a, b) => Extends(a, c)
           S == {Round(a) : a \in {x \in Block : ~ Good(x)}}
<1> SUFFICES ASSUME S # {} PROVE FALSE
  OBVIOUS
<1>1. S \in SUBSET Nat
  BY ParentRound
<1>2. PICK a \in Block : ~ Good(a) /\ \A y \in S : Round(a) <= y
  <2>1. PICK r \in S : \A y \in S : r <= y
    <3> HIDE DEF S
    <3> QED BY <1>1, SmallestNat
  <2> QED BY <2>1
<1>3. a # b /\ a # Genesis /\ Extends(Parent(a), b)
  BY <1>2, ExtendsParent
<1>4. Round(Parent(a)) < Round(a) /\ Parent(a) \in Block
      /\ Round(Parent(a)) \in Nat /\ Round(a) \in Nat
  BY <1>3, ParentRound
<1>5. Good(Parent(a))
  <2>1. ~ Good(Parent(a)) => Round(Parent(a)) \in S
    BY <1>4
  <2> HIDE DEF Good
  <2> QED BY <2>1, <1>2, <1>4
<1> QED BY <1>2, <1>3, <1>4, <1>5, ExtendsParent

\* What one block extends is a chain: of two such blocks one extends the other.
LEMMA ExtendsLinear ==
  ASSUME NEW b \in Block, NEW c \in Block
  PROVE  \A a \in Block :
           Extends(a, b) /\ Extends(a, c) => Extends(b, c) \/ Extends(c, b)
<1> DEFINE Good(a) ==
             Extends(a, b) /\ Extends(a, c) => Extends(b, c) \/ Extends(c, b)
           S == {Round(a) : a \in {x \in Block : ~ Good(x)}}
<1> SUFFICES ASSUME S # {} PROVE FALSE
  OBVIOUS
<1>1. S \in SUBSET Nat
  BY ParentRound
<1>2. PICK a \in Block : ~ Good(a) /\ \A y \in S : Round(a) <= y
  <2>1. PICK r \in S : \A y \in S : r <= y
    <3> HIDE DEF S
    <3> QED BY <1>1, SmallestNat
  <2> QED BY <2>1
<1>3. a # b /\ a # c /\ a # Genesis /\ Extends(Parent(a), b)
      /\ Extends(Parent(a), c)
  BY <1>2, ExtendsParent
<1>4. Round(Parent(a)) < Round(a) /\ Parent(a) \in Block
      /\ Round(Parent(a)) \in Nat /\ Round(a) \in Nat
  BY <1>3, ParentRound
<1>5. Good(Parent(a))
  <2>1. ~ Good(Parent(a)) => Round(Parent(a)) \in S
    BY <1>4
  <2> HIDE DEF Good
  <2> QED BY <2>1, <1>2, <1>4
<1> QED BY <1>2, <1>3, <1>5

-----------------------------------------------------------------------------
\* Two quorums have a member in common, and more votes do not unmake a quorum.
LEMMA QuorumsMeet ==
  ASSUME NEW Q1 \in SUBSET Authorities, NEW Q2 \in SUBSET Authorities,
         IsQuorum(Q1), IsQuorum(Q2)
  PROVE  \E a \in Authorities : a \in Q1 /\ a \in Q2
BY QuorumAssumption

LEMMA QuorumGrows ==
  ASSUME NEW Q1 \in SUBSET Authorities, NEW Q2 \in SUBSET Authorities,
         IsQuorum(Q1), Q1 \subseteq Q2
  PROVE  IsQuorum(Q2)
BY QuorumAssumption

\* A quorum of votes for a block is one also among more votes.
LEMMA VotesGrow ==
  ASSUME NEW V \in SUBSET Vote, NEW W \in SUBSET Vote, V \subseteq W, NEW b,
         HasQuorumFor(V, b)
  PROVE  HasQuorumFor(W, b)
<1> DEFINE A(X) == {v.author : v \in {w \in X : w.block = b}}
<1>1. A(V) \in SUBSET Authorities /\ A(W) \in SUBSET Authorities
  BY DEF Vote
<1>2. A(V) \subseteq A(W)
  OBVIOUS
<1>3. IsQuorum(A(V))
  BY DEF HasQuorumFor
<1> HIDE DEF A
<1>4. IsQuorum(A(W))
  BY <1>1, <1>2, <1>3, QuorumGrows
<1> QED BY <1>4 DEF HasQuorumFor, A

\* Two blocks with a quorum of votes each have a voter in common.
LEMMA VotersMeet ==
  ASSUME NEW V \in SUBSET Vote, NEW b, NEW c,
         HasQuorumFor(V, b), HasQuorumFor(V, c)
  PROVE  \E v, w \in V : v.author = w.author /\ v.block = b /\ w.block = c
<1> DEFINE A(x) == {v.author : v \in {w \in V : w.block = x}}
<1>1. A(b) \in SUBSET Authorities /\ A(c) \in SUBSET Authorities
  BY DEF Vote
<1>2. IsQuorum(A(b)) /\ IsQuorum(A(c))
  BY DEF HasQuorumFor
<1>3. \E a \in Authorities : a \in A(b) /\ a \in A(c)
  <2> HIDE DEF A
  <2> QED BY <1>1, <1>2, QuorumsMeet
<1> QED BY <1>3

\* A block with a quorum of votes and a quorum of timeouts have an author in
\* common.
LEMMA VotersTimedOut ==
  ASSUME NEW V \in SUBSET Vote, NEW T \in SUBSET Timeout, NEW b,
         HasQuorumFor(V, b), IsQuorum({t.author : t \in T})
  PROVE  \E v \in V, t \in T : v.author = t.author /\ v.block = b
<1> DEFINE A == {v.author : v \in {w \in V : w.block = b}}
           B == {t.author : t \in T}
<1>1. A \in SUBSET Authorities /\ B \in SUBSET Authorities
  BY DEF Vote, Timeout
<1>2. IsQuorum(A) /\ IsQuorum(B)
  BY DEF HasQuorumFor
<1>3. \E a \in Authorities : a \in A /\ a \in B
  <2> HIDE DEF A, B
  <2> QED BY <1>1, <1>2, QuorumsMeet
<1> QED BY <1>3

-----------------------------------------------------------------------------
(* The methods of the Core keep its type. *)

\* Giving a message to the network (network/src) keeps the type of a node.
LEMMA SendType ==
  ASSUME NEW s \in CoreState, NEW m \in Message
  PROVE  Send(s, m) \in CoreState
BY DEF Send, CoreState

\* generate_proposal puts a Make of the right type on tx_proposer.
LEMMA generate_proposalType ==
  ASSUME NEW s \in CoreState, NEW tc \in TC \cup {NoTC}
  PROVE  generate_proposal(s, tc) \in CoreState
<1> DEFINE m == [type |-> "Make", round |-> s.round, qc |-> s.high_qc, tc |-> tc]
<1>1. m \in Make
  BY DEF CoreState, Make
<1>2. Append(s.tx_proposer, m) \in Seq(Make \cup Cleanup)
  BY <1>1 DEF CoreState
<1> QED BY <1>2 DEF generate_proposal, CoreState

\* So does the test for leadership before it, in each of its callers.
LEMMA ProposeIfLeaderType ==
  ASSUME NEW s \in CoreState, NEW n, NEW tc \in TC \cup {NoTC}
  PROVE  ProposeIfLeader(s, n, tc) \in CoreState
BY generate_proposalType DEF ProposeIfLeader

\* advance_round, with the cleanup of the aggregator, keeps the type.
LEMMA advance_roundType ==
  ASSUME NEW s \in CoreState, NEW r \in Nat
  PROVE  advance_round(s, r) \in CoreState
<1> DEFINE V == {v \in s.votes : Round(v.block) > r}
           T == {t \in s.timeouts : t.round > r}
<1>1. V \in SUBSET Vote /\ T \in SUBSET Timeout
  BY DEF CoreState
<1>2. advance_round(s, r) =
        IF r < s.round THEN s
        ELSE [s EXCEPT !.round = r + 1, !.votes = V, !.timeouts = T]
  BY DEF advance_round
<1> HIDE DEF V, T
<1>3. \A k \in Nat :
        [s EXCEPT !.round = k, !.votes = V, !.timeouts = T] \in CoreState
  BY <1>1, Zenon DEF CoreState
<1>4. r + 1 \in Nat
  OBVIOUS
<1> QED BY <1>2, <1>3, <1>4

\* process_qc keeps the type: rounds are those of blocks.
LEMMA process_qcType ==
  ASSUME NEW s \in CoreState, NEW qc \in Block
  PROVE  process_qc(s, qc) \in CoreState
BY advance_roundType, BlockAssumption DEF process_qc, update_high_qc, CoreState

\* increase_last_voted_round leaves a round.
LEMMA increase_last_voted_roundType ==
  ASSUME NEW s \in CoreState, NEW r \in Nat
  PROVE  increase_last_voted_round(s, r) \in CoreState
<1>1. \A x, y \in Nat : Max({x, y}) \in Nat
  BY DEF Max
<1> QED BY <1>1 DEF increase_last_voted_round, CoreState

\* handle_vote keeps the type, whether or not it makes a QC.
LEMMA handle_voteType ==
  ASSUME NEW s \in CoreState, NEW n, NEW v \in Vote
  PROVE  handle_vote(s, n, v) \in CoreState
<1> DEFINE added == [s EXCEPT !.votes = @ \cup {v}]
<1>1. added \in CoreState
  BY DEF CoreState
<1>2. v.block \in Block
  BY DEF Vote
<1>3. ProposeIfLeader(process_qc(added, v.block), n, NoTC) \in CoreState
  BY <1>1, <1>2, process_qcType, ProposeIfLeaderType
<1> QED BY <1>1, <1>3 DEF handle_vote

\* Aggregator::add_timeout and what handle_timeout does with the TC keep the type.
LEMMA add_timeoutType ==
  ASSUME NEW s \in CoreState, NEW n \in Authorities, NEW t \in Timeout
  PROVE  add_timeout(s, n, t) \in CoreState
<1> DEFINE added == [s EXCEPT !.timeouts = @ \cup {t}]
           tc    == MakeTC(added.timeouts, t.round)
           moved == advance_round(added, tc.round)
           m     == [type |-> "TC", author |-> n, tc |-> tc]
<1>1. added \in CoreState
  BY DEF CoreState
<1>2. tc \in TC
  BY <1>1, BlockAssumption DEF CoreState, MakeTC, TC, Timeout
<1>3. m \in Message /\ tc.round \in Nat
  BY <1>2 DEF Message, TCMsg, TC
<1> HIDE DEF added, tc
<1>4. moved \in CoreState
  BY <1>1, <1>3, advance_roundType
<1> HIDE DEF moved, m
<1>5. ProposeIfLeader(Send(moved, m), n, tc) \in CoreState
  BY <1>2, <1>3, <1>4, SendType, ProposeIfLeaderType
<1> QED BY <1>1, <1>5 DEF add_timeout, added, tc, moved, m

\* handle_timeout keeps the type.
LEMMA handle_timeoutType ==
  ASSUME NEW s \in CoreState, NEW n \in Authorities, NEW t \in Timeout
  PROVE  handle_timeout(s, n, t) \in CoreState
<1>1. t.high_qc \in Block
  BY DEF Timeout
<1> QED BY <1>1, process_qcType, add_timeoutType DEF handle_timeout

\* local_timeout_round makes a well-formed Timeout and keeps the type.
LEMMA local_timeout_roundType ==
  ASSUME NEW s \in CoreState, NEW n \in Authorities
  PROVE  local_timeout_round(s, n) \in CoreState
<1> DEFINE t == [type |-> "Timeout", author |-> n, round |-> s.round,
                 high_qc |-> s.high_qc]
<1>1. t \in Timeout /\ t \in Message /\ s.round \in Nat
  BY DEF CoreState, Timeout, Message
<1> HIDE DEF t
<1>2. Send(increase_last_voted_round(s, s.round), t) \in CoreState
  BY <1>1, SendType, increase_last_voted_roundType
<1>3. handle_timeout(Send(increase_last_voted_round(s, s.round), t), n, t)
        \in CoreState
  BY <1>1, <1>2, handle_timeoutType
<1> QED BY <1>3 DEF local_timeout_round, t

\* handle_tc keeps the type, whatever the TC.
LEMMA handle_tcType ==
  ASSUME NEW s \in CoreState, NEW n, NEW tc \in TC
  PROVE  handle_tc(s, n, tc) \in CoreState
<1>1. tc.round \in Nat
  BY DEF TC
<1> QED BY <1>1, advance_roundType, ProposeIfLeaderType DEF handle_tc

\* The walk of commit stays on the block's ancestors.
LEMMA AncestorsToCommitType ==
  ASSUME NEW s \in CoreState, NEW b \in Block
  PROVE  AncestorsToCommit(s, b) \in Seq(Block)
<1> DEFINE A == Ancestors(b)
           walked == {i \in DOMAIN A :
                        s.last_committed_round + 1 < Round((<<b>> \o A)[i])}
<1>1. A \in Seq(Block) /\ Len(A) \in Nat /\ DOMAIN A = 1..Len(A)
  <2>1. A \in Seq(Block)
    BY AncestorsAssumption, Zenon
  <2> QED BY <2>1, LenProperties
<1>2. IsFiniteSet(1..Len(A)) /\ Cardinality(1..Len(A)) = Len(A)
  BY <1>1, FS_Interval
<1>3. Cardinality(walked) \in Nat /\ Cardinality(walked) <= Len(A)
  <2>1. walked \in SUBSET (1..Len(A))
    BY <1>1
  <2> HIDE DEF walked, A
  <2>2. IsFiniteSet(walked) /\ Cardinality(walked) <= Cardinality(1..Len(A))
    BY <1>2, <2>1, FS_Subset
  <2>3. Cardinality(walked) \in Nat
    BY <2>2, FS_CardinalityType
  <2> QED BY <1>2, <2>2, <2>3
<1> HIDE DEF walked, A
<1>4. \A i \in 1..Cardinality(walked) : A[i] \in Block
  BY <1>1, <1>3
<1>5. SubSeq(A, 1, Cardinality(walked)) \in Seq(Block)
  BY <1>3, <1>4, SubSeqProperties
<1> QED BY <1>5 DEF AncestorsToCommit, walked, A

\* commit sends only blocks to the application.
LEMMA commitType ==
  ASSUME NEW s \in CoreState, NEW b \in Block
  PROVE  commit(s, b) \in CoreState
<1> DEFINE out == s.tx_commit \o AncestorsToCommit(s, b) \o <<b>>
<1>1. s.tx_commit \in Seq(Block) /\ <<b>> \in Seq(Block)
  BY DEF CoreState
<1>2. out \in Seq(Block)
  BY <1>1, AncestorsToCommitType, ConcatProperties
<1>3. Round(b) \in Nat
  BY BlockAssumption
<1>4. commit(s, b) = IF s.last_committed_round >= Round(b) THEN s
                     ELSE [s EXCEPT !.last_committed_round = Round(b),
                                    !.tx_commit = out]
  BY DEF commit
<1> HIDE DEF out
<1>5. [s EXCEPT !.last_committed_round = Round(b), !.tx_commit = out]
        \in CoreState
  BY <1>2, <1>3, Zenon DEF CoreState
<1> QED BY <1>4, <1>5

\* cleanup_proposer puts a Cleanup of the right type on tx_proposer.
LEMMA cleanup_proposerType ==
  ASSUME NEW s \in CoreState, NEW digests \in SUBSET Digest
  PROVE  cleanup_proposer(s, digests) \in CoreState
<1> DEFINE m == [type |-> "Cleanup", digests |-> digests]
<1>1. m \in Cleanup
  BY DEF Cleanup
<1>2. Append(s.tx_proposer, m) \in Seq(Make \cup Cleanup)
  BY <1>1 DEF CoreState
<1> QED BY <1>2 DEF cleanup_proposer, CoreState

\* MempoolDriver::cleanup keeps the type.
LEMMA cleanup_payloadType ==
  ASSUME NEW s \in CoreState, NEW r
  PROVE  cleanup_payload(s, r) \in CoreState
<1> DEFINE W == {p \in s.waiting : Round(p.block) > r}
<1>1. W \in SUBSET Proposal
  BY DEF CoreState
<1>2. cleanup_payload(s, r) = [s EXCEPT !.waiting = W]
  BY DEF cleanup_payload
<1> HIDE DEF W
<1>3. [s EXCEPT !.waiting = W] \in CoreState
  BY <1>1, Zenon DEF CoreState
<1> QED BY <1>2, <1>3

\* make_vote and the dispatch of the vote keep the type.
LEMMA make_voteType ==
  ASSUME NEW s \in CoreState, NEW n \in Authorities, NEW p \in Proposal
  PROVE  make_vote(s, n, p) \in CoreState
<1> DEFINE v == [type |-> "Vote", author |-> n, block |-> p.block]
           voted == Send(increase_last_voted_round(s, Round(p.block)), v)
<1>1. p.block \in Block /\ Round(p.block) \in Nat
  BY BlockAssumption DEF Proposal
<1>2. v \in Vote /\ v \in Message
  BY <1>1 DEF Vote, Message
<1> HIDE DEF v
<1>3. voted \in CoreState
  BY <1>1, <1>2, SendType, increase_last_voted_roundType
<1> HIDE DEF voted
<1>4. handle_vote(voted, n, v) \in CoreState
  BY <1>2, <1>3, handle_voteType
<1> QED BY <1>3, <1>4 DEF make_vote, vote, voted, v

\* The Synchronizer keeps proposals.
LEMMA suspendType ==
  ASSUME NEW s \in CoreState, NEW p \in Proposal
  PROVE  suspend(s, p) \in CoreState
<1>1. [s EXCEPT !.pending = @ \cup {p}] \in CoreState
  BY Zenon DEF CoreState
<1> QED BY <1>1 DEF suspend

\* process_block keeps the type, on each of its paths.
LEMMA process_blockType ==
  ASSUME NEW s \in CoreState, NEW n \in Authorities, NEW p \in Proposal
  PROVE  process_block(s, n, p) \in CoreState
<1> DEFINE b       == p.block
           b1      == Parent(b)
           b0      == Parent(b1)
           stored  == [s EXCEPT !.store = @ \cup {b}]
           digests == Payload(b0) \cup Payload(b1) \cup Payload(b)
           cleaned == cleanup_proposer(stored, digests)
           decided == IF Round(b0) + 1 = Round(b1)
                      THEN commit(cleanup_payload(cleaned, Round(b0)), b0)
                      ELSE cleaned
<1>1. b \in Block /\ b1 \in Block /\ b0 \in Block
  BY BlockAssumption DEF Proposal
<1>2. stored \in CoreState
  BY <1>1, Zenon DEF CoreState
<1>3. digests \in SUBSET Digest
  BY <1>1, BlockAssumption
<1> HIDE DEF b, b1, b0, stored, digests
<1>4. cleaned \in CoreState
  BY <1>2, <1>3, cleanup_proposerType
<1> HIDE DEF cleaned
<1>5. decided \in CoreState
  BY <1>1, <1>4, cleanup_payloadType, commitType
<1> HIDE DEF decided
<1>6. make_vote(decided, n, p) \in CoreState /\ suspend(s, p) \in CoreState
  BY <1>5, make_voteType, suspendType
<1> QED BY <1>6 DEF process_block, decided, cleaned, digests, stored, b, b1, b0

\* MempoolDriver::verify keeps the type.
LEMMA verify_payloadType ==
  ASSUME NEW s \in CoreState, NEW n \in Authorities, NEW p \in Proposal
  PROVE  verify_payload(s, n, p) \in CoreState
<1>1. [s EXCEPT !.waiting = @ \cup {p}] \in CoreState
  BY Zenon DEF CoreState
<1> QED BY <1>1, process_blockType DEF verify_payload

\* handle_proposal keeps the type.
LEMMA handle_proposalType ==
  ASSUME NEW s \in CoreState, NEW n \in Authorities, NEW p \in Proposal
  PROVE  handle_proposal(s, n, p) \in CoreState
<1>1. Parent(p.block) \in Block /\ (p.tc # NoTC => p.tc.round \in Nat)
  BY BlockAssumption DEF Proposal, TC
<1>2. process_qc(s, Parent(p.block)) \in CoreState
  BY <1>1, process_qcType
<1> DEFINE moved == process_qc(s, Parent(p.block))
           t == IF p.tc = NoTC THEN moved ELSE advance_round(moved, p.tc.round)
<1>3. t \in CoreState
  BY <1>1, <1>2, advance_roundType
<1>4. verify_payload(t, n, p) \in CoreState
  BY <1>3, verify_payloadType
<1> QED BY <1>4 DEF handle_proposal

\* Proposer::make_block broadcasts and loops back a well-formed proposal.
LEMMA MakeBlockType ==
  ASSUME NEW s \in CoreState, NEW n \in Authorities, NEW m \in Make,
         NEW b \in Block
  PROVE  MakeBlock(s, n, m, b) \in CoreState
<1> DEFINE p == [type |-> "Propose", author |-> n, block |-> b, tc |-> m.tc]
<1>1. p \in Proposal /\ p \in Message
  BY DEF Make, Proposal, Message
<1> HIDE DEF p
<1>2. Send(s, p) \in CoreState
  BY <1>1, SendType
<1>3. \A t \in CoreState :
        [t EXCEPT !.buffer = {}, !.rx_loopback = @ \cup {p}] \in CoreState
  BY <1>1, Zenon DEF CoreState
<1> QED BY <1>2, <1>3 DEF MakeBlock, p

\* A node starts, and starts again, in a state of its type.
LEMMA BootType ==
  ASSUME NEW n, NEW store \in SUBSET Block, NEW batches \in SUBSET Digest,
         NEW sent \in SUBSET Message, NEW tx_commit \in Seq(Block)
  PROVE  Boot(n, store, batches, sent, tx_commit) \in CoreState
<1> DEFINE m == [type |-> "Make", round |-> 1, qc |-> Genesis, tc |-> NoTC]
<1>1. m \in Make
  BY BlockAssumption DEF Make
<1>2. FirstMake(n) \in Seq(Make \cup Cleanup)
  <2>1. FirstMake(n) = IF n = get_leader(1) THEN <<m>> ELSE <<>>
    BY DEF FirstMake
  <2> HIDE DEF m
  <2>2. <<m>> \in Seq(Make \cup Cleanup)
    BY <1>1
  <2>3. <<>> \in Seq(Make \cup Cleanup)
    BY EmptySeq
  <2> QED BY <2>1, <2>2, <2>3
<1>3. 1 \in Nat /\ 0 \in Nat /\ Genesis \in Block
  BY BlockAssumption
<1> QED BY <1>2, <1>3 DEF Boot, CoreState

\* Every variable keeps its type, whichever messages arrive in whichever order
\* and whenever a node is restarted.
LEMMA TypeStep == TypeOK /\ [Next]_vars => TypeOK'
<1> SUFFICES ASSUME TypeOK, [Next]_vars PROVE TypeOK'
  OBVIOUS
<1> USE DEF TypeOK
<1>1. Network \in SUBSET Message
  BY DEF Network, CoreState
<1>2. /\ Proposals \subseteq Proposal /\ Votes \subseteq Vote
      /\ Timeouts \subseteq Timeout /\ TCs \subseteq TCMsg
  BY <1>1 DEF Proposals, Votes, Timeouts, TCs, Message, Proposal, Vote,
              Timeout, TCMsg
<1>3. ASSUME NEW n \in Authorities, NEW s \in CoreState, Step(n, s)
      PROVE  TypeOK'
  BY <1>3 DEF Step
<1> SUFFICES ASSUME NEW n \in Authorities,
                    \/ ReceiveProposal(n) \/ ReceiveVote(n)
                    \/ ReceiveTimeout(n) \/ ReceiveTC(n) \/ TimerFires(n)
                    \/ ReceiveLoopback(n) \/ ParentStored(n)
                    \/ PayloadStored(n) \/ ReceiveBatch(n) \/ ProposerMake(n)
                    \/ ProposerCleanup(n) \/ Restart(n)
             PROVE  TypeOK'
  BY DEF Next, vars
<1>s. core[n] \in CoreState
  OBVIOUS
<1>4. CASE ReceiveProposal(n)
  BY <1>4, <1>s, <1>2, <1>3, handle_proposalType DEF ReceiveProposal
<1>5. CASE ReceiveVote(n)
  BY <1>5, <1>s, <1>2, <1>3, handle_voteType DEF ReceiveVote
<1>6. CASE ReceiveTimeout(n)
  BY <1>6, <1>s, <1>2, <1>3, handle_timeoutType DEF ReceiveTimeout
<1>7. CASE ReceiveTC(n)
  <2>1. \A m \in TCMsg : m.tc \in TC
    BY DEF TCMsg
  <2> QED BY <1>7, <1>s, <1>2, <1>3, <2>1, handle_tcType DEF ReceiveTC
<1>8. CASE TimerFires(n)
  BY <1>8, <1>s, <1>3, local_timeout_roundType DEF TimerFires
<1>9. CASE ReceiveLoopback(n)
  <2>1. \A p \in core[n].rx_loopback :
          /\ p \in Proposal
          /\ [core[n] EXCEPT !.rx_loopback = @ \ {p}] \in CoreState
    BY <1>s, Zenon DEF CoreState
  <2> QED BY <1>9, <1>3, <2>1, process_blockType DEF ReceiveLoopback
<1>10. CASE ParentStored(n)
  <2>1. \A p \in core[n].pending :
          [core[n] EXCEPT !.pending = @ \ {p}, !.rx_loopback = @ \cup {p}]
            \in CoreState
    BY <1>s, Zenon DEF CoreState
  <2> QED BY <1>10, <1>3, <2>1 DEF ParentStored
<1>11. CASE PayloadStored(n)
  <2>1. \A p \in core[n].waiting :
          [core[n] EXCEPT !.waiting = @ \ {p}, !.rx_loopback = @ \cup {p}]
            \in CoreState
    BY <1>s, Zenon DEF CoreState
  <2> QED BY <1>11, <1>3, <2>1 DEF PayloadStored
<1>12. CASE ReceiveBatch(n)
  <2>1. \A d \in Digest : \A handed \in SUBSET {d} :
          [core[n] EXCEPT !.batches = @ \cup {d}, !.buffer = @ \cup handed]
            \in CoreState
    <3> TAKE d \in Digest
    <3> TAKE handed \in SUBSET {d}
    <3>1. handed \in SUBSET Digest
      OBVIOUS
    <3> QED BY <3>1, <1>s, Zenon DEF CoreState
  <2> QED BY <1>12, <1>3, <2>1 DEF ReceiveBatch
<1>13. ASSUME core[n].tx_proposer # <<>>
       PROVE  /\ Head(core[n].tx_proposer) \in Make \cup Cleanup
              /\ Tail(core[n].tx_proposer) \in Seq(Make \cup Cleanup)
  <2>1. core[n].tx_proposer \in Seq(Make \cup Cleanup)
    BY <1>s DEF CoreState
  <2> QED BY <1>13, <2>1, HeadTailProperties
<1>14. CASE ProposerMake(n)
  <2> DEFINE m == Head(core[n].tx_proposer)
             rest == Tail(core[n].tx_proposer)
             t == [core[n] EXCEPT !.tx_proposer = rest]
  <2>1. m \in Make
    BY <1>14, <1>13 DEF ProposerMake, Make, Cleanup
  <2>2. rest \in Seq(Make \cup Cleanup)
    BY <1>14, <1>13 DEF ProposerMake
  <2>3. t \in CoreState
    BY <2>2, <1>s, Zenon DEF CoreState
  <2>4. Step(n, t) \/ \E b \in Block : Step(n, MakeBlock(t, n, m, b))
    BY <1>14 DEF ProposerMake
  <2> HIDE DEF t, m
  <2> QED BY <2>1, <2>3, <2>4, <1>3, MakeBlockType
<1>15. CASE ProposerCleanup(n)
  <2> DEFINE m == Head(core[n].tx_proposer)
             rest == Tail(core[n].tx_proposer)
             t == [core[n] EXCEPT !.tx_proposer = rest, !.buffer = @ \ m.digests]
  <2>1. rest \in Seq(Make \cup Cleanup)
    BY <1>15, <1>13 DEF ProposerCleanup
  <2>2. t \in CoreState
    BY <2>1, <1>s, Zenon DEF CoreState
  <2>3. Step(n, t)
    BY <1>15 DEF ProposerCleanup
  <2> HIDE DEF t
  <2> QED BY <2>2, <2>3, <1>3
<1>16. CASE Restart(n)
  <2> DEFINE s == core[n]
             t == Boot(n, s.store, s.batches, s.sent, s.tx_commit)
  <2>1. t \in CoreState
    BY <1>s, BootType DEF CoreState
  <2>2. core' = [core EXCEPT ![n] = t] /\ restarts' \in 0..MaxRestarts
    BY <1>16, BoundsAssumption DEF Restart
  <2> HIDE DEF t
  <2> QED BY <2>1, <2>2
<1> QED BY <1>4, <1>5, <1>6, <1>7, <1>8, <1>9, <1>10, <1>11, <1>12, <1>14,
           <1>15, <1>16

\* TypeOK: the states of the model are states of the structs of core.rs,
\* proposer.rs and aggregator.rs.
THEOREM TypeCorrect == Spec => []TypeOK
<1>1. Init => TypeOK
  <2>1. \A n \in Authorities : Boot(n, {}, {}, {}, <<>>) \in CoreState
    BY BootType, EmptySeq
  <2> QED BY <2>1, BoundsAssumption DEF Init, TypeOK
<1> QED BY <1>1, TypeStep, PTL DEF Spec

-----------------------------------------------------------------------------
(* More messages leave certified what is certified. *)

\* The votes and timeouts among the messages have their types.
LEMMA InTypes ==
  ASSUME NEW N \in SUBSET Message
  PROVE  /\ VotesIn(N) \in SUBSET Vote /\ TimeoutsIn(N) \in SUBSET Timeout
         /\ VotesIn(N) = N \cap Vote /\ TimeoutsIn(N) = N \cap Timeout
BY DEF VotesIn, TimeoutsIn, Message, Proposal, Vote, Timeout, TCMsg

\* A QC stays valid.
LEMMA CertifiedGrows ==
  ASSUME NEW N \in SUBSET Message, NEW M \in SUBSET Message, N \subseteq M,
         NEW b, CertifiedIn(N, b)
  PROVE  CertifiedIn(M, b)
<1>1. VotesIn(N) \in SUBSET Vote /\ VotesIn(M) \in SUBSET Vote
  BY InTypes
<1>2. VotesIn(N) \subseteq VotesIn(M)
  BY DEF VotesIn
<1> QED BY <1>1, <1>2, VotesGrow DEF CertifiedIn, Certified

\* A TC stays backed by its timeouts.
LEMMA BackedGrows ==
  ASSUME NEW N \in SUBSET Message, NEW M \in SUBSET Message, N \subseteq M,
         NEW tc, BackedIn(N, tc)
  PROVE  BackedIn(M, tc)
<1>1. TimeoutsIn(N) \subseteq TimeoutsIn(M)
  BY DEF TimeoutsIn
<1>2. \A T : T \in SUBSET {t \in TimeoutsIn(N) : t.round = tc.round}
               => T \in SUBSET {t \in TimeoutsIn(M) : t.round = tc.round}
  BY <1>1
<1> QED BY <1>2 DEF BackedIn, Backed

\* A chosen block stays chosen.
LEMMA ChosenGrows ==
  ASSUME NEW N \in SUBSET Message, NEW M \in SUBSET Message, N \subseteq M,
         NEW b, ChosenIn(N, b)
  PROVE  ChosenIn(M, b)
BY CertifiedGrows DEF ChosenIn

\* A message stays sound.
LEMMA MessageGrows ==
  ASSUME NEW N \in SUBSET Message, NEW M \in SUBSET Message, N \subseteq M,
         NEW m, SoundMessage(N, m)
  PROVE  SoundMessage(M, m)
<1>1. TimeoutsIn(N) \subseteq TimeoutsIn(M)
  BY DEF TimeoutsIn
<1>2. ASSUME SoundVote(N, m) PROVE SoundVote(M, m)
  <2>1. Justified(N, m.block) => Justified(M, m.block)
    BY <1>1 DEF Justified
  <2> QED BY <1>2, <2>1, CertifiedGrows DEF SoundVote
<1>3. SoundProposal(N, m) => SoundProposal(M, m)
  BY CertifiedGrows, BackedGrows DEF SoundProposal
<1>4. SoundTimeout(N, m) => SoundTimeout(M, m)
  BY CertifiedGrows DEF SoundTimeout
<1>5. BackedIn(N, m.tc) => BackedIn(M, m.tc)
  BY BackedGrows
<1> QED BY <1>2, <1>3, <1>4, <1>5 DEF SoundMessage

\* What a node has stays sound.
LEMMA CoreGrows ==
  ASSUME NEW N \in SUBSET Message, NEW M \in SUBSET Message, N \subseteq M,
         NEW n, NEW s, SoundCore(N, n, s)
  PROVE  SoundCore(M, n, s)
<1>1. SoundSent(M, n, s)
  BY MessageGrows DEF SoundCore, SoundSent
<1>2. SoundKept(M, s)
  <2>1. \A m : SoundMake(N, m) => SoundMake(M, m)
    BY CertifiedGrows, BackedGrows DEF SoundMake
  <2> QED BY <2>1 DEF SoundCore, SoundKept
<1>3. SoundQC(M, s)
  BY CertifiedGrows DEF SoundCore, SoundQC
<1>4. SoundStore(M, s)
  BY CertifiedGrows DEF SoundCore, SoundStore
<1>5. SoundCommits(M, s)
  BY ChosenGrows DEF SoundCore, SoundCommits
<1> QED BY <1>1, <1>2, <1>3, <1>4, <1>5 DEF SoundCore

-----------------------------------------------------------------------------
(* The methods of the Core keep the invariant of a node, whatever network N *)
(* holds what they send.  The voter's part is kept as long as the node has  *)
(* not been restarted (fresh).                                              *)

Good(fresh, N, n, s) == SoundCore(N, n, s) /\ (fresh => Faithful(s))

Held(s) == s.rx_loopback \cup s.pending \cup s.waiting

\* Messages may be kept, moved between the tasks and dropped, and rounds grow.
LEMMA Rearranged ==
  ASSUME NEW fresh, NEW N \in SUBSET Message, NEW n, NEW s \in CoreState,
         NEW t \in CoreState, Good(fresh, N, n, s),
         t.sent = s.sent, t.store = s.store, t.tx_commit = s.tx_commit,
         t.high_qc = s.high_qc, t.tx_proposer = s.tx_proposer,
         t.round >= s.round, t.last_voted_round >= s.last_voted_round,
         t.votes \subseteq N, t.timeouts \subseteq N,
         \A p \in Held(t) : \/ p \in Held(s)
                            \/ /\ p \in N
                               /\ fresh => Round(Parent(p.block))
                                             <= Round(s.high_qc)
  PROVE  Good(fresh, N, n, t)
<1>1. SoundSent(N, n, t)
  BY DEF Good, SoundCore, SoundSent
<1>2. SoundKept(N, t)
  BY DEF Good, SoundCore, SoundKept, Held
<1>3. SoundQC(N, t)
  <2>1. Round(s.high_qc) \in Nat /\ s.round \in Nat /\ t.round \in Nat
    BY ParentRound DEF CoreState
  <2> QED BY <2>1 DEF Good, SoundCore, SoundQC
<1>4. SoundStore(N, t) /\ SoundCommits(N, t)
  BY DEF Good, SoundCore, SoundStore, SoundCommits, Stored
<1>5. ASSUME fresh PROVE Faithful(t)
  <2>1. Faithful(s)
    BY <1>5 DEF Good
  <2>2. SentVotes(t) = SentVotes(s) /\ SentTimeouts(t) = SentTimeouts(s)
    BY DEF SentVotes, SentTimeouts
  <2>3. RemembersRounds(t)
    <3>1. s.last_voted_round \in Nat /\ t.last_voted_round \in Nat
      BY DEF CoreState
    <3>2. \A v \in SentVotes(s) : Round(v.block) \in Nat
      BY ParentRound DEF SentVotes, Vote
    <3>3. \A u \in SentTimeouts(s) : u.round \in Nat
      BY DEF SentTimeouts, Timeout
    <3> QED BY <2>1, <2>2, <3>1, <3>2, <3>3 DEF Faithful, RemembersRounds
  <2>4. RemembersQCs(t)
    BY <1>5, <2>1, <2>2 DEF Faithful, RemembersQCs, Held
  <2>5. VotesOnce(t) /\ ReportsVotes(t)
    BY <2>1, <2>2 DEF Faithful, VotesOnce, ReportsVotes
  <2> QED BY <2>3, <2>4, <2>5 DEF Faithful
<1> QED BY <1>1, <1>2, <1>3, <1>4, <1>5 DEF Good, SoundCore

\* advance_round changes the round and drops votes and timeouts.
LEMMA advance_roundFrame ==
  ASSUME NEW s \in CoreState, NEW r \in Nat
  PROVE  LET t == advance_round(s, r)
         IN  /\ t.sent = s.sent /\ t.store = s.store
             /\ t.tx_commit = s.tx_commit /\ t.high_qc = s.high_qc
             /\ t.tx_proposer = s.tx_proposer
             /\ t.last_voted_round = s.last_voted_round
             /\ t.rx_loopback = s.rx_loopback /\ t.pending = s.pending
             /\ t.waiting = s.waiting
             /\ t.votes \subseteq s.votes /\ t.timeouts \subseteq s.timeouts
             /\ t.round >= s.round /\ t.round > r
<1> DEFINE V == {v \in s.votes : Round(v.block) > r}
           T == {t \in s.timeouts : t.round > r}
<1>1. V \subseteq s.votes /\ T \subseteq s.timeouts
  OBVIOUS
<1>2. advance_round(s, r) =
        IF r < s.round THEN s
        ELSE [s EXCEPT !.round = r + 1, !.votes = V, !.timeouts = T]
  BY DEF advance_round
<1>3. s.round \in Nat
  BY DEF CoreState
<1> HIDE DEF V, T
<1> QED BY <1>1, <1>2, <1>3 DEF CoreState

\* So it keeps the invariant.
LEMMA advance_roundGood ==
  ASSUME NEW fresh, NEW N \in SUBSET Message, NEW n, NEW s \in CoreState,
         NEW r \in Nat, Good(fresh, N, n, s)
  PROVE  Good(fresh, N, n, advance_round(s, r))
<1> DEFINE t == advance_round(s, r)
<1>1. t \in CoreState
  BY advance_roundType
<1>2. s.votes \subseteq N /\ s.timeouts \subseteq N
  BY DEF Good, SoundCore, SoundKept
<1>3. s.last_voted_round \in Nat
  BY DEF CoreState
<1>4. /\ t.sent = s.sent /\ t.store = s.store /\ t.tx_commit = s.tx_commit
      /\ t.high_qc = s.high_qc /\ t.tx_proposer = s.tx_proposer
      /\ t.last_voted_round >= s.last_voted_round /\ t.round >= s.round
      /\ t.votes \subseteq N /\ t.timeouts \subseteq N /\ Held(t) = Held(s)
  BY <1>2, <1>3, advance_roundFrame DEF Held
<1> HIDE DEF t
<1>5. Good(fresh, N, n, t)
  BY <1>1, <1>4, Rearranged
<1> QED BY <1>5 DEF t

\* process_qc raises the high QC if it can, and leaves the round past the QC.
LEMMA process_qcFrame ==
  ASSUME NEW s \in CoreState, NEW qc \in Block
  PROVE  LET t == process_qc(s, qc)
         IN  /\ t.sent = s.sent /\ t.store = s.store
             /\ t.tx_commit = s.tx_commit /\ t.tx_proposer = s.tx_proposer
             /\ t.last_voted_round = s.last_voted_round
             /\ t.rx_loopback = s.rx_loopback /\ t.pending = s.pending
             /\ t.waiting = s.waiting
             /\ t.votes \subseteq s.votes /\ t.timeouts \subseteq s.timeouts
             /\ t.round >= s.round /\ t.round > Round(qc)
             /\ t.high_qc \in {s.high_qc, qc}
             /\ Round(t.high_qc) >= Round(s.high_qc)
             /\ Round(t.high_qc) >= Round(qc)
<1> DEFINE a == advance_round(s, Round(qc))
<1>1. a \in CoreState /\ Round(qc) \in Nat /\ Round(s.high_qc) \in Nat
  BY advance_roundType, ParentRound DEF CoreState
<1>2. /\ a.sent = s.sent /\ a.store = s.store
      /\ a.tx_commit = s.tx_commit /\ a.high_qc = s.high_qc
      /\ a.tx_proposer = s.tx_proposer
      /\ a.last_voted_round = s.last_voted_round
      /\ a.rx_loopback = s.rx_loopback /\ a.pending = s.pending
      /\ a.waiting = s.waiting
      /\ a.votes \subseteq s.votes /\ a.timeouts \subseteq s.timeouts
      /\ a.round >= s.round /\ a.round > Round(qc)
  BY <1>1, advance_roundFrame
<1> HIDE DEF a
<1>3. process_qc(s, qc) =
        IF Round(qc) > Round(a.high_qc) THEN [a EXCEPT !.high_qc = qc] ELSE a
  BY DEF process_qc, update_high_qc, a
<1> QED BY <1>1, <1>2, <1>3 DEF CoreState

\* It keeps the invariant when the QC is certified.
LEMMA process_qcGood ==
  ASSUME NEW fresh, NEW N \in SUBSET Message, NEW n, NEW s \in CoreState,
         NEW qc \in Block, CertifiedIn(N, qc), Good(fresh, N, n, s)
  PROVE  Good(fresh, N, n, process_qc(s, qc))
<1> DEFINE t == process_qc(s, qc)
<1>1. t \in CoreState
  BY process_qcType
<1>2. /\ t.sent = s.sent /\ t.store = s.store
      /\ t.tx_commit = s.tx_commit /\ t.tx_proposer = s.tx_proposer
      /\ t.last_voted_round = s.last_voted_round
      /\ t.rx_loopback = s.rx_loopback /\ t.pending = s.pending
      /\ t.waiting = s.waiting
      /\ t.votes \subseteq s.votes /\ t.timeouts \subseteq s.timeouts
      /\ t.round >= s.round /\ t.round > Round(qc)
      /\ t.high_qc \in {s.high_qc, qc}
      /\ Round(t.high_qc) >= Round(s.high_qc)
  BY process_qcFrame
<1>n. /\ Round(s.high_qc) \in Nat /\ Round(t.high_qc) \in Nat
      /\ Round(qc) \in Nat /\ s.round \in Nat /\ t.round \in Nat
  BY <1>1, ParentRound DEF CoreState
<1> HIDE DEF t
<1>3. SoundSent(N, n, t) /\ SoundKept(N, t)
  BY <1>2 DEF Good, SoundCore, SoundSent, SoundKept
<1>4. SoundQC(N, t)
  BY <1>2, <1>n DEF Good, SoundCore, SoundQC
<1>5. SoundStore(N, t) /\ SoundCommits(N, t)
  BY <1>2 DEF Good, SoundCore, SoundStore, SoundCommits, Stored
<1>6. ASSUME fresh PROVE Faithful(t)
  <2>1. Faithful(s)
    BY <1>6 DEF Good
  <2>2. SentVotes(t) = SentVotes(s) /\ SentTimeouts(t) = SentTimeouts(s)
    BY <1>2 DEF SentVotes, SentTimeouts
  <2>3. RemembersRounds(t) /\ VotesOnce(t) /\ ReportsVotes(t)
    BY <1>2, <2>1, <2>2 DEF Faithful, RemembersRounds, VotesOnce, ReportsVotes
  <2>4. RemembersQCs(t)
    <3>1. \A x \in Nat : x <= Round(s.high_qc) => x <= Round(t.high_qc)
      BY <1>2, <1>n
    <3>2. \A v \in SentVotes(s) : Round(Parent(v.block)) \in Nat
      BY ParentRound DEF SentVotes, Vote
    <3>3. \A p \in s.rx_loopback \cup s.pending \cup s.waiting :
            Round(Parent(p.block)) \in Nat
      BY ParentRound DEF CoreState, Proposal
    <3>4. \A i \in DOMAIN s.tx_proposer :
            s.tx_proposer[i].type = "Make" => Round(s.tx_proposer[i].qc) \in Nat
      <4>1. \A i \in DOMAIN s.tx_proposer : s.tx_proposer[i] \in Make \cup Cleanup
        BY DEF CoreState
      <4> QED BY <4>1, ParentRound DEF Make, Cleanup
    <3> QED BY <1>2, <2>1, <2>2, <3>1, <3>2, <3>3, <3>4
            DEF Faithful, RemembersQCs
  <2> QED BY <2>3, <2>4 DEF Faithful
<1>7. Good(fresh, N, n, t)
  BY <1>3, <1>4, <1>5, <1>6 DEF Good, SoundCore
<1> QED BY <1>7 DEF t

\* A message for the Proposer: what it carries is certified, and no higher than
\* the high QC.
LEMMA Queued ==
  ASSUME NEW fresh, NEW N \in SUBSET Message, NEW n, NEW s \in CoreState,
         NEW m \in Make \cup Cleanup, Good(fresh, N, n, s), SoundMake(N, m),
         m.type = "Make" => Round(m.qc) <= Round(s.high_qc)
  PROVE  Good(fresh, N, n, [s EXCEPT !.tx_proposer = Append(@, m)])
<1> DEFINE q == Append(s.tx_proposer, m)
           t == [s EXCEPT !.tx_proposer = q]
<1>1. s.tx_proposer \in Seq(Make \cup Cleanup)
  BY DEF CoreState
<1>2. \A i \in DOMAIN q : q[i] = m \/ \E j \in DOMAIN s.tx_proposer :
                                        q[i] = s.tx_proposer[j]
  BY <1>1
<1> HIDE DEF q
<1>3. /\ t.sent = s.sent /\ t.votes = s.votes /\ t.timeouts = s.timeouts
      /\ t.rx_loopback = s.rx_loopback /\ t.pending = s.pending
      /\ t.waiting = s.waiting /\ t.store = s.store /\ t.round = s.round
      /\ t.tx_commit = s.tx_commit /\ t.high_qc = s.high_qc
      /\ t.last_voted_round = s.last_voted_round /\ t.tx_proposer = q
  BY DEF CoreState
<1> HIDE DEF t
<1>4. SoundSent(N, n, t) /\ SoundQC(N, t) /\ SoundStore(N, t)
      /\ SoundCommits(N, t)
  BY <1>3 DEF Good, SoundCore, SoundSent, SoundQC, SoundStore, SoundCommits,
              Stored
<1>5. SoundKept(N, t)
  BY <1>2, <1>3 DEF Good, SoundCore, SoundKept
<1>6. ASSUME fresh PROVE Faithful(t)
  <2>1. Faithful(s)
    BY <1>6 DEF Good
  <2>2. SentVotes(t) = SentVotes(s) /\ SentTimeouts(t) = SentTimeouts(s)
    BY <1>3 DEF SentVotes, SentTimeouts
  <2>3. RemembersRounds(t) /\ VotesOnce(t) /\ ReportsVotes(t)
    BY <1>3, <2>1, <2>2 DEF Faithful, RemembersRounds, VotesOnce, ReportsVotes
  <2>4. RemembersQCs(t)
    BY <1>2, <1>3, <2>1, <2>2 DEF Faithful, RemembersQCs
  <2> QED BY <2>3, <2>4 DEF Faithful
<1>7. Good(fresh, N, n, t)
  BY <1>4, <1>5, <1>6 DEF Good, SoundCore
<1> QED BY <1>7 DEF t, q

\* The Proposer takes a message, and uses its buffer.
LEMMA Dequeued ==
  ASSUME NEW fresh, NEW N \in SUBSET Message, NEW n, NEW s \in CoreState,
         NEW t \in CoreState, Good(fresh, N, n, s),
         t.sent = s.sent, t.votes = s.votes, t.timeouts = s.timeouts,
         Held(t) = Held(s), t.store = s.store, t.round = s.round,
         t.tx_commit = s.tx_commit, t.high_qc = s.high_qc,
         t.last_voted_round = s.last_voted_round,
         \A i \in DOMAIN t.tx_proposer : \E j \in DOMAIN s.tx_proposer :
           t.tx_proposer[i] = s.tx_proposer[j]
  PROVE  Good(fresh, N, n, t)
<1>1. SoundSent(N, n, t) /\ SoundQC(N, t) /\ SoundStore(N, t)
      /\ SoundCommits(N, t)
  BY DEF Good, SoundCore, SoundSent, SoundQC, SoundStore, SoundCommits, Stored
<1>2. SoundKept(N, t)
  BY DEF Good, SoundCore, SoundKept, Held
<1>3. ASSUME fresh PROVE Faithful(t)
  <2>1. Faithful(s)
    BY <1>3 DEF Good
  <2>2. SentVotes(t) = SentVotes(s) /\ SentTimeouts(t) = SentTimeouts(s)
    BY DEF SentVotes, SentTimeouts
  <2>3. RemembersRounds(t) /\ VotesOnce(t) /\ ReportsVotes(t)
    BY <2>1, <2>2 DEF Faithful, RemembersRounds, VotesOnce, ReportsVotes
  <2>4. RemembersQCs(t)
    BY <2>1, <2>2 DEF Faithful, RemembersQCs, Held
  <2> QED BY <2>3, <2>4 DEF Faithful
<1> QED BY <1>1, <1>2, <1>3 DEF Good, SoundCore

\* The leader proposes on top of its high QC, with the TC it has just got.
LEMMA ProposeIfLeaderGood ==
  ASSUME NEW fresh, NEW N \in SUBSET Message, NEW n, NEW s \in CoreState,
         NEW tc \in TC \cup {NoTC}, BackedIn(N, tc), Good(fresh, N, n, s)
  PROVE  Good(fresh, N, n, ProposeIfLeader(s, n, tc))
<1> DEFINE m == [type |-> "Make", round |-> s.round, qc |-> s.high_qc, tc |-> tc]
<1>1. m \in Make \cup Cleanup
  BY DEF CoreState, Make
<1>2. SoundMake(N, m)
  BY DEF Good, SoundCore, SoundQC, SoundMake
<1>3. Round(m.qc) <= Round(s.high_qc)
  <2>1. Round(s.high_qc) \in Nat
    BY ParentRound DEF CoreState
  <2> QED BY <2>1
<1> HIDE DEF m
<1>4. Good(fresh, N, n, [s EXCEPT !.tx_proposer = Append(@, m)])
  BY <1>1, <1>2, <1>3, Queued
<1> QED BY <1>4 DEF ProposeIfLeader, generate_proposal, m

\* It sends nothing to the network.
LEMMA ProposeIfLeaderSends ==
  ASSUME NEW n, NEW s \in CoreState, NEW tc
  PROVE  ProposeIfLeader(s, n, tc).sent = s.sent
BY DEF ProposeIfLeader, generate_proposal, CoreState

-----------------------------------------------------------------------------
(* Votes and timeouts. *)

\* A vote that arrives, perhaps the one that completes a QC (add_vote).
LEMMA handle_voteGood ==
  ASSUME NEW fresh, NEW N \in SUBSET Message, NEW n, NEW s \in CoreState,
         NEW v \in Vote, v \in N, Good(fresh, N, n, s)
  PROVE  Good(fresh, N, n, handle_vote(s, n, v))
<1> DEFINE added == [s EXCEPT !.votes = @ \cup {v}]
<1>1. added \in CoreState
  BY DEF CoreState
<1>2. s.votes \subseteq N /\ s.timeouts \subseteq N
  BY DEF Good, SoundCore, SoundKept
<1>n. s.round \in Nat /\ s.last_voted_round \in Nat
  BY DEF CoreState
<1>3. /\ added.sent = s.sent /\ added.store = s.store
      /\ added.tx_commit = s.tx_commit /\ added.high_qc = s.high_qc
      /\ added.tx_proposer = s.tx_proposer /\ added.round = s.round
      /\ added.last_voted_round = s.last_voted_round
      /\ added.votes = s.votes \cup {v} /\ added.timeouts = s.timeouts
      /\ Held(added) = Held(s)
  BY DEF CoreState, Held
<1>4. v.block \in Block
  BY DEF Vote
<1> HIDE DEF added
<1>5. /\ added.round >= s.round /\ added.last_voted_round >= s.last_voted_round
      /\ added.votes \subseteq N /\ added.timeouts \subseteq N
  BY <1>2, <1>3, <1>n
<1>6. Good(fresh, N, n, added)
  BY <1>1, <1>3, <1>5, Rearranged
<1>7. ASSUME HasQuorumFor(added.votes, v.block)
      PROVE  Good(fresh, N, n, ProposeIfLeader(process_qc(added, v.block), n, NoTC))
  <2>1. added.votes \in SUBSET Vote
    BY <1>1 DEF CoreState
  <2>2. added.votes \subseteq VotesIn(N) /\ VotesIn(N) \in SUBSET Vote
    BY <1>5, <2>1, InTypes
  <2>3. CertifiedIn(N, v.block)
    BY <1>4, <1>7, <2>1, <2>2, VotesGrow DEF CertifiedIn, Certified
  <2>4. Good(fresh, N, n, process_qc(added, v.block))
    BY <1>1, <1>4, <1>6, <2>3, process_qcGood
  <2>5. process_qc(added, v.block) \in CoreState
    BY <1>1, <1>4, process_qcType
  <2>6. BackedIn(N, NoTC)
    BY DEF BackedIn
  <2> QED BY <2>4, <2>5, <2>6, ProposeIfLeaderGood
<1> QED BY <1>6, <1>7 DEF handle_vote, added

\* Handling a vote sends nothing.
LEMMA handle_voteSends ==
  ASSUME NEW n, NEW s \in CoreState, NEW v \in Vote
  PROVE  handle_vote(s, n, v).sent = s.sent
<1> DEFINE added == [s EXCEPT !.votes = @ \cup {v}]
<1>1. added \in CoreState /\ added.sent = s.sent /\ v.block \in Block
  BY DEF CoreState, Vote
<1> HIDE DEF added
<1>2. process_qc(added, v.block) \in CoreState
      /\ process_qc(added, v.block).sent = s.sent
  BY <1>1, process_qcType, process_qcFrame
<1>3. ProposeIfLeader(process_qc(added, v.block), n, NoTC).sent = s.sent
  BY <1>2, ProposeIfLeaderSends
<1> QED BY <1>1, <1>3 DEF handle_vote, added

\* A message that is no vote and no timeout: nothing about it is remembered.
LEMMA SendSound ==
  ASSUME NEW N \in SUBSET Message, NEW n, NEW s, NEW t,
         NEW m, m \in N, m.author = n, SoundMessage(N, m),
         SoundCore(N, n, s), t.sent = s.sent \cup {m},
         t.votes = s.votes, t.timeouts = s.timeouts,
         Held(t) = Held(s), t.store = s.store,
         t.round = s.round, t.tx_commit = s.tx_commit,
         t.high_qc = s.high_qc, t.tx_proposer = s.tx_proposer
  PROVE  SoundCore(N, n, t)
<1>1. SoundSent(N, n, t)
  BY DEF SoundCore, SoundSent
<1>2. SoundKept(N, t)
  BY DEF SoundCore, SoundKept, Held
<1>3. SoundQC(N, t) /\ SoundStore(N, t) /\ SoundCommits(N, t)
  BY DEF SoundCore, SoundQC, SoundStore, SoundCommits, Stored
<1> QED BY <1>1, <1>2, <1>3 DEF SoundCore

\* What Send leaves alone.
LEMMA SendFrame ==
  ASSUME NEW s \in CoreState, NEW m
  PROVE  LET t == Send(s, m)
         IN  /\ t.sent = s.sent \cup {m}
             /\ t.votes = s.votes /\ t.timeouts = s.timeouts
             /\ t.rx_loopback = s.rx_loopback /\ t.pending = s.pending
             /\ t.waiting = s.waiting
             /\ t.store = s.store /\ t.round = s.round
             /\ t.tx_commit = s.tx_commit /\ t.high_qc = s.high_qc
             /\ t.tx_proposer = s.tx_proposer
             /\ t.last_voted_round = s.last_voted_round
BY DEF Send, CoreState

\* Sending a proposal or a TC.
LEMMA SendGood ==
  ASSUME NEW fresh, NEW N \in SUBSET Message, NEW n, NEW s \in CoreState,
         NEW m \in Proposal \cup TCMsg, m \in N, m.author = n,
         SoundMessage(N, m), Good(fresh, N, n, s)
  PROVE  Good(fresh, N, n, Send(s, m))
<1> DEFINE t == Send(s, m)
<1>1. /\ t.sent = s.sent \cup {m}
      /\ t.votes = s.votes /\ t.timeouts = s.timeouts
      /\ Held(t) = Held(s) /\ t.store = s.store /\ t.round = s.round
      /\ t.tx_commit = s.tx_commit /\ t.high_qc = s.high_qc
      /\ t.tx_proposer = s.tx_proposer
      /\ t.last_voted_round = s.last_voted_round
  BY SendFrame DEF Held
<1> HIDE DEF t
<1>2. SoundCore(N, n, t)
  BY <1>1, SendSound DEF Good
<1>3. m \notin Vote /\ m \notin Timeout
  BY DEF Proposal, TCMsg, Vote, Timeout
<1>4. SentVotes(t) = SentVotes(s) /\ SentTimeouts(t) = SentTimeouts(s)
  BY <1>1, <1>3 DEF SentVotes, SentTimeouts
<1>5. Faithful(s) => Faithful(t)
  BY <1>1, <1>4 DEF Faithful, RemembersRounds, RemembersQCs, VotesOnce,
                    ReportsVotes, Held
<1>6. Good(fresh, N, n, t)
  BY <1>2, <1>5 DEF Good
<1> QED BY <1>6 DEF t

\* A timeout that arrives, perhaps the one that completes a TC (add_timeout).
LEMMA add_timeoutSends ==
  ASSUME NEW n \in Authorities, NEW s \in CoreState, NEW t \in Timeout
  PROVE  s.sent \subseteq add_timeout(s, n, t).sent
<1> DEFINE added == [s EXCEPT !.timeouts = @ \cup {t}]
           tc    == MakeTC(added.timeouts, t.round)
           moved == advance_round(added, tc.round)
           m     == [type |-> "TC", author |-> n, tc |-> tc]
<1>1. added \in CoreState /\ added.sent = s.sent
  BY DEF CoreState
<1>2. tc.round \in Nat
  BY DEF MakeTC, Timeout
<1>t. tc \in TC
  BY <1>1, BlockAssumption DEF CoreState, MakeTC, TC, Timeout
<1>m. m \in Message
  BY <1>t DEF Message, TCMsg
<1> HIDE DEF added, tc
<1>3. moved \in CoreState /\ moved.sent = s.sent
  BY <1>1, <1>2, advance_roundType, advance_roundFrame
<1> HIDE DEF moved, m
<1>4. Send(moved, m) \in CoreState /\ s.sent \subseteq Send(moved, m).sent
  BY <1>3, <1>m, SendType, SendFrame
<1>5. ProposeIfLeader(Send(moved, m), n, tc).sent = Send(moved, m).sent
  BY <1>4, ProposeIfLeaderSends
<1> QED BY <1>1, <1>4, <1>5 DEF add_timeout, added, tc, moved, m

LEMMA add_timeoutGood ==
  ASSUME NEW fresh, NEW N \in SUBSET Message, NEW n \in Authorities,
         NEW s \in CoreState, NEW t \in Timeout, t \in N,
         Good(fresh, N, n, s), add_timeout(s, n, t).sent \subseteq N
  PROVE  Good(fresh, N, n, add_timeout(s, n, t))
<1> DEFINE added == [s EXCEPT !.timeouts = @ \cup {t}]
           tc    == MakeTC(added.timeouts, t.round)
           moved == advance_round(added, tc.round)
           m     == [type |-> "TC", author |-> n, tc |-> tc]
<1>1. added \in CoreState
  BY DEF CoreState
<1>2. s.votes \subseteq N /\ s.timeouts \subseteq N
  BY DEF Good, SoundCore, SoundKept
<1>n. s.round \in Nat /\ s.last_voted_round \in Nat /\ t.round \in Nat
  BY DEF CoreState, Timeout
<1>3. /\ added.sent = s.sent /\ added.store = s.store
      /\ added.tx_commit = s.tx_commit /\ added.high_qc = s.high_qc
      /\ added.tx_proposer = s.tx_proposer /\ added.round = s.round
      /\ added.last_voted_round = s.last_voted_round
      /\ added.votes = s.votes /\ added.timeouts = s.timeouts \cup {t}
      /\ Held(added) = Held(s)
  BY DEF CoreState, Held
<1> HIDE DEF added
<1>4. /\ added.round >= s.round /\ added.last_voted_round >= s.last_voted_round
      /\ added.votes \subseteq N /\ added.timeouts \subseteq N
  BY <1>2, <1>3, <1>n
<1>5. Good(fresh, N, n, added)
  BY <1>1, <1>3, <1>4, Rearranged
<1>6. CASE \E u \in s.timeouts : u.round = t.round /\ u.author = t.author
  BY <1>6 DEF add_timeout
<1>7. CASE /\ ~ \E u \in s.timeouts : u.round = t.round /\ u.author = t.author
           /\ ~ HasQuorumIn(added.timeouts, t.round)
  BY <1>5, <1>7 DEF add_timeout, added
<1>8. CASE /\ ~ \E u \in s.timeouts : u.round = t.round /\ u.author = t.author
           /\ HasQuorumIn(added.timeouts, t.round)
  <2>1. tc \in TC /\ tc.round \in Nat /\ tc.round = t.round
    BY <1>1, <1>n, BlockAssumption DEF CoreState, MakeTC, TC, Timeout
  <2>2. BackedIn(N, tc)
    <3> DEFINE T == {u \in added.timeouts : u.round = t.round}
    <3>1. T \in SUBSET {u \in TimeoutsIn(N) : u.round = tc.round}
      <4>1. added.timeouts \in SUBSET Timeout
        BY <1>1 DEF CoreState
      <4> QED BY <4>1, <2>1, <1>4, InTypes
    <3>2. HasQuorumIn(T, tc.round)
      <4>1. {u \in T : u.round = t.round} = {u \in added.timeouts : u.round = t.round}
        OBVIOUS
      <4> QED BY <4>1, <1>8, <2>1 DEF HasQuorumIn
    <3>3. tc = MakeTC(T, tc.round)
      <4>1. {u \in T : u.round = t.round} = {u \in added.timeouts : u.round = t.round}
        OBVIOUS
      <4> QED BY <4>1, <2>1 DEF MakeTC
    <3> QED BY <3>1, <3>2, <3>3 DEF BackedIn, Backed
  <2> HIDE DEF tc
  <2>3. moved \in CoreState /\ Good(fresh, N, n, moved)
    BY <1>1, <1>5, <2>1, advance_roundType, advance_roundGood
  <2>4. m \in TCMsg /\ m \in Message /\ m.author = n /\ SoundMessage(N, m)
    BY <2>1, <2>2 DEF TCMsg, Message, SoundMessage
  <2> HIDE DEF moved, m
  <2>5. Send(moved, m) \in CoreState /\ m \in Send(moved, m).sent
    BY <2>3, <2>4, SendType, SendFrame
  <2>6. add_timeout(s, n, t) = ProposeIfLeader(Send(moved, m), n, tc)
    BY <1>8 DEF add_timeout, added, tc, moved, m
  <2>7. m \in N
    BY <2>5, <2>6, ProposeIfLeaderSends
  <2>8. Good(fresh, N, n, Send(moved, m))
    BY <2>3, <2>4, <2>7, SendGood
  <2> QED BY <2>1, <2>2, <2>5, <2>6, <2>8, ProposeIfLeaderGood
<1> QED BY <1>6, <1>7, <1>8

\* A timeout of another node: its QC first.
LEMMA handle_timeoutSends ==
  ASSUME NEW n \in Authorities, NEW s \in CoreState, NEW t \in Timeout
  PROVE  s.sent \subseteq handle_timeout(s, n, t).sent
<1>1. t.high_qc \in Block
  BY DEF Timeout
<1>2. process_qc(s, t.high_qc) \in CoreState
      /\ process_qc(s, t.high_qc).sent = s.sent
  BY <1>1, process_qcType, process_qcFrame
<1>3. s.sent \subseteq add_timeout(process_qc(s, t.high_qc), n, t).sent
  BY <1>2, add_timeoutSends
<1> QED BY <1>3 DEF handle_timeout

LEMMA handle_timeoutGood ==
  ASSUME NEW fresh, NEW N \in SUBSET Message, NEW n \in Authorities,
         NEW s \in CoreState, NEW t \in Timeout, t \in N, SoundTimeout(N, t),
         Good(fresh, N, n, s), handle_timeout(s, n, t).sent \subseteq N
  PROVE  Good(fresh, N, n, handle_timeout(s, n, t))
<1>1. t.high_qc \in Block /\ CertifiedIn(N, t.high_qc)
  BY DEF Timeout, SoundTimeout
<1>2. process_qc(s, t.high_qc) \in CoreState
      /\ Good(fresh, N, n, process_qc(s, t.high_qc))
  BY <1>1, process_qcType, process_qcGood
<1> QED BY <1>2, add_timeoutGood DEF handle_timeout

\* handle_tc sends nothing, and keeps the invariant when the TC is backed.
LEMMA handle_tcGood ==
  ASSUME NEW fresh, NEW N \in SUBSET Message, NEW n, NEW s \in CoreState,
         NEW tc \in TC, BackedIn(N, tc), Good(fresh, N, n, s)
  PROVE  Good(fresh, N, n, handle_tc(s, n, tc))
<1>1. tc.round \in Nat
  BY DEF TC
<1>2. /\ advance_round(s, tc.round) \in CoreState
      /\ Good(fresh, N, n, advance_round(s, tc.round))
  BY <1>1, advance_roundType, advance_roundGood
<1> QED BY <1>2, ProposeIfLeaderGood DEF handle_tc

LEMMA handle_tcSends ==
  ASSUME NEW n, NEW s \in CoreState, NEW tc \in TC
  PROVE  handle_tc(s, n, tc).sent = s.sent
<1>1. tc.round \in Nat
  BY DEF TC
<1>2. /\ advance_round(s, tc.round) \in CoreState
      /\ advance_round(s, tc.round).sent = s.sent
  BY <1>1, advance_roundType, advance_roundFrame
<1> QED BY <1>2, ProposeIfLeaderSends DEF handle_tc

\* The round given up is voted for no more, as are the rounds before it.
LEMMA increase_last_voted_roundFrame ==
  ASSUME NEW s \in CoreState, NEW r \in Nat
  PROVE  LET t == increase_last_voted_round(s, r)
         IN  /\ t.sent = s.sent
             /\ t.votes = s.votes /\ t.timeouts = s.timeouts
             /\ t.rx_loopback = s.rx_loopback /\ t.pending = s.pending
             /\ t.waiting = s.waiting
             /\ t.store = s.store /\ t.round = s.round
             /\ t.tx_commit = s.tx_commit /\ t.high_qc = s.high_qc
             /\ t.tx_proposer = s.tx_proposer
             /\ t.last_voted_round >= r
             /\ t.last_voted_round >= s.last_voted_round
<1> DEFINE k == Max({s.last_voted_round, r})
<1>1. s.last_voted_round \in Nat
  BY DEF CoreState
<1>2. k \in Nat /\ k >= r /\ k >= s.last_voted_round
  BY <1>1 DEF Max
<1>3. increase_last_voted_round(s, r) = [s EXCEPT !.last_voted_round = k]
  BY DEF increase_last_voted_round
<1> HIDE DEF k
<1> QED BY <1>2, <1>3 DEF CoreState

LEMMA increase_last_voted_roundGood ==
  ASSUME NEW fresh, NEW N \in SUBSET Message, NEW n, NEW s \in CoreState,
         NEW r \in Nat, Good(fresh, N, n, s)
  PROVE  Good(fresh, N, n, increase_last_voted_round(s, r))
<1> DEFINE t == increase_last_voted_round(s, r)
<1>1. t \in CoreState /\ s.round \in Nat
  BY increase_last_voted_roundType DEF CoreState
<1>2. s.votes \subseteq N /\ s.timeouts \subseteq N
  BY DEF Good, SoundCore, SoundKept
<1>3. /\ t.sent = s.sent /\ t.store = s.store /\ t.tx_commit = s.tx_commit
      /\ t.high_qc = s.high_qc /\ t.tx_proposer = s.tx_proposer
      /\ t.last_voted_round >= s.last_voted_round /\ t.round >= s.round
      /\ t.votes \subseteq N /\ t.timeouts \subseteq N /\ Held(t) = Held(s)
  BY <1>1, <1>2, increase_last_voted_roundFrame DEF Held
<1> HIDE DEF t
<1>4. Good(fresh, N, n, t)
  BY <1>1, <1>3, Rearranged
<1> QED BY <1>4 DEF t

\* A timeout of the node itself: it has given up voting up to that round, and
\* reports a QC not below that of any vote (local_timeout_round).
LEMMA SendTimeoutGood ==
  ASSUME NEW fresh, NEW N \in SUBSET Message, NEW n, NEW s \in CoreState,
         NEW m \in Timeout, m \in N, m.author = n, m.high_qc = s.high_qc,
         m.round = s.round, m.round <= s.last_voted_round, Good(fresh, N, n, s)
  PROVE  Good(fresh, N, n, Send(s, m))
<1> DEFINE t == Send(s, m)
<1>1. /\ t.sent = s.sent \cup {m}
      /\ t.votes = s.votes /\ t.timeouts = s.timeouts
      /\ Held(t) = Held(s) /\ t.store = s.store /\ t.round = s.round
      /\ t.tx_commit = s.tx_commit /\ t.high_qc = s.high_qc
      /\ t.tx_proposer = s.tx_proposer
      /\ t.last_voted_round = s.last_voted_round
  BY SendFrame DEF Held
<1> HIDE DEF t
<1>2. SoundMessage(N, m)
  BY DEF SoundMessage, SoundTimeout, Timeout, Good, SoundCore, SoundQC
<1>3. SoundCore(N, n, t)
  BY <1>1, <1>2, SendSound DEF Good
<1>4. m \notin Vote
  BY DEF Vote, Timeout
<1>5. SentVotes(t) = SentVotes(s) /\ SentTimeouts(t) = SentTimeouts(s) \cup {m}
  BY <1>1, <1>4 DEF SentVotes, SentTimeouts
<1>6. ASSUME Faithful(s) PROVE Faithful(t)
  <2>1. RemembersRounds(t) /\ RemembersQCs(t) /\ VotesOnce(t)
    BY <1>1, <1>5, <1>6 DEF Faithful, RemembersRounds, RemembersQCs, VotesOnce,
                            Held
  <2>2. ReportsVotes(t)
    BY <1>5, <1>6 DEF Faithful, RemembersQCs, ReportsVotes
  <2> QED BY <2>1, <2>2 DEF Faithful
<1>7. Good(fresh, N, n, t)
  BY <1>3, <1>6 DEF Good
<1> QED BY <1>7 DEF t

LEMMA local_timeout_roundSends ==
  ASSUME NEW n \in Authorities, NEW s \in CoreState
  PROVE  LET t == [type |-> "Timeout", author |-> n, round |-> s.round,
                   high_qc |-> s.high_qc]
         IN  s.sent \cup {t} \subseteq local_timeout_round(s, n).sent
<1> DEFINE t == [type |-> "Timeout", author |-> n, round |-> s.round,
                 high_qc |-> s.high_qc]
           u == Send(increase_last_voted_round(s, s.round), t)
<1>1. t \in Timeout /\ t \in Message /\ s.round \in Nat
  BY DEF CoreState, Timeout, Message
<1>2. local_timeout_round(s, n) = handle_timeout(u, n, t)
  BY DEF local_timeout_round
<1> HIDE DEF t
<1>3. u \in CoreState /\ u.sent = s.sent \cup {t}
  BY <1>1, SendType, SendFrame, increase_last_voted_roundType,
     increase_last_voted_roundFrame
<1> HIDE DEF u
<1>4. s.sent \cup {t} \subseteq local_timeout_round(s, n).sent
  BY <1>1, <1>2, <1>3, handle_timeoutSends
<1> QED BY <1>4 DEF t

LEMMA local_timeout_roundGood ==
  ASSUME NEW fresh, NEW N \in SUBSET Message, NEW n \in Authorities,
         NEW s \in CoreState, Good(fresh, N, n, s),
         local_timeout_round(s, n).sent \subseteq N
  PROVE  Good(fresh, N, n, local_timeout_round(s, n))
<1> DEFINE t == [type |-> "Timeout", author |-> n, round |-> s.round,
                 high_qc |-> s.high_qc]
           i == increase_last_voted_round(s, s.round)
           u == Send(i, t)
<1>1. /\ t \in Timeout /\ t \in Message /\ s.round \in Nat
      /\ t.author = n /\ t.round = s.round /\ t.high_qc = s.high_qc
  BY DEF CoreState, Timeout, Message
<1>2. local_timeout_round(s, n) = handle_timeout(u, n, t)
  BY DEF local_timeout_round
<1>3. t \in N
  BY local_timeout_roundSends
<1> HIDE DEF t
<1>4. /\ i \in CoreState /\ Good(fresh, N, n, i)
      /\ i.high_qc = s.high_qc /\ i.round = s.round
      /\ s.round <= i.last_voted_round
  <2>1. i \in CoreState /\ Good(fresh, N, n, i)
    BY <1>1, increase_last_voted_roundType, increase_last_voted_roundGood
  <2>2. i.high_qc = s.high_qc /\ i.round = s.round /\ i.last_voted_round >= s.round
    BY <1>1, increase_last_voted_roundFrame
  <2>3. i.last_voted_round \in Nat
    BY <2>1 DEF CoreState
  <2> QED BY <1>1, <2>1, <2>2, <2>3
<1> HIDE DEF i
<1>5. u \in CoreState /\ Good(fresh, N, n, u)
  BY <1>1, <1>3, <1>4, SendType, SendTimeoutGood
<1>6. SoundTimeout(N, t)
  BY <1>1, <1>4 DEF SoundTimeout, Good, SoundCore, SoundQC
<1> HIDE DEF u
<1> QED BY <1>1, <1>2, <1>3, <1>5, <1>6, handle_timeoutGood

-----------------------------------------------------------------------------
(* Blocks. *)

\* commit sends the block and blocks it extends.
LEMMA commitFrame ==
  ASSUME NEW s \in CoreState, NEW b \in Block
  PROVE  LET t == commit(s, b)
         IN  /\ t.sent = s.sent
             /\ t.votes = s.votes /\ t.timeouts = s.timeouts
             /\ t.rx_loopback = s.rx_loopback /\ t.pending = s.pending
             /\ t.waiting = s.waiting
             /\ t.store = s.store /\ t.round = s.round
             /\ t.high_qc = s.high_qc /\ t.tx_proposer = s.tx_proposer
             /\ t.last_voted_round = s.last_voted_round
             /\ \/ t.tx_commit = s.tx_commit
                \/ /\ b # Genesis
                   /\ \A i \in DOMAIN t.tx_commit :
                        \/ Extends(b, t.tx_commit[i])
                        \/ \E j \in DOMAIN s.tx_commit :
                             t.tx_commit[i] = s.tx_commit[j]
<1> DEFINE A == AncestorsToCommit(s, b)
           out == s.tx_commit \o A \o <<b>>
<1>1. commit(s, b) = IF s.last_committed_round >= Round(b) THEN s
                     ELSE [s EXCEPT !.last_committed_round = Round(b),
                                    !.tx_commit = out]
  BY DEF commit
<1>2. /\ s.last_committed_round \in Nat /\ s.tx_commit \in Seq(Block)
      /\ A \in Seq(Block) /\ Round(b) \in Nat
  BY AncestorsToCommitType, ParentRound DEF CoreState
<1>3. \A i \in DOMAIN A : Extends(b, A[i])
  <2> DEFINE walked == {i \in DOMAIN Ancestors(b) :
                          s.last_committed_round + 1
                            < Round((<<b>> \o Ancestors(b))[i])}
             k == Cardinality(walked)
  <2>1. Ancestors(b) \in Seq(Block)
    BY AncestorsAssumption
  <2>2. DOMAIN Ancestors(b) = 1..Len(Ancestors(b)) /\ Len(Ancestors(b)) \in Nat
    BY <2>1, LenProperties
  <2>3. k \in Nat /\ k <= Len(Ancestors(b))
    <3>1. walked \in SUBSET (1..Len(Ancestors(b)))
      BY <2>2
    <3> HIDE DEF walked
    <3>2. IsFiniteSet(1..Len(Ancestors(b)))
          /\ Cardinality(1..Len(Ancestors(b))) = Len(Ancestors(b))
      <4>1. \A l \in Nat : IsFiniteSet(1..l) /\ Cardinality(1..l) = l
        BY FS_Interval
      <4> QED BY <4>1, <2>2
    <3>3. IsFiniteSet(walked)
          /\ Cardinality(walked) <= Cardinality(1..Len(Ancestors(b)))
      BY <3>1, <3>2, FS_Subset
    <3>4. Cardinality(walked) \in Nat
      BY <3>3, FS_CardinalityType
    <3> QED BY <3>2, <3>3, <3>4
  <2>4. A = SubSeq(Ancestors(b), 1, k)
    BY DEF AncestorsToCommit
  <2> HIDE DEF k
  <2>5. DOMAIN A = 1..k /\ \A i \in 1..k : A[i] = Ancestors(b)[i]
    <3> DEFINE B == Ancestors(b)
    <3>1. B \in Seq(Block) /\ A = SubSeq(B, 1, k) /\ k <= Len(B)
          /\ Len(B) \in Nat
      BY <2>1, <2>2, <2>3, <2>4
    <3> HIDE DEF B, A
    <3>2. DOMAIN A = 1..k /\ \A i \in 1..k : A[i] = B[i]
      BY <2>3, <3>1
    <3> QED BY <3>2 DEF B
  <2>6. \A i \in 1..k : i \in DOMAIN Ancestors(b)
    BY <2>2, <2>3
  <2> QED BY <2>5, <2>6, ExtendsAncestors
<1>4. \A i \in DOMAIN out :
        \/ Extends(b, out[i])
        \/ \E j \in DOMAIN s.tx_commit : out[i] = s.tx_commit[j]
  <2>1. Extends(b, b)
    BY DEF Extends
  <2>2. \A i \in DOMAIN out :
          \/ \E j \in DOMAIN s.tx_commit : out[i] = s.tx_commit[j]
          \/ \E j \in DOMAIN A : out[i] = A[j]
          \/ out[i] = b
    <3> HIDE DEF A
    <3>1. /\ \A i \in 1..Len(s.tx_commit) : out[i] = s.tx_commit[i]
          /\ \A i \in 1..Len(A) : out[Len(s.tx_commit) + i] = A[i]
          /\ out[Len(s.tx_commit) + Len(A) + 1] = b
          /\ DOMAIN out = 1..(Len(s.tx_commit) + Len(A) + 1)
          /\ Len(s.tx_commit) \in Nat /\ Len(A) \in Nat
      BY <1>2
    <3> HIDE DEF out
    <3>2. ASSUME NEW i \in DOMAIN out
          PROVE  \/ i \in 1..Len(s.tx_commit)
                 \/ /\ i - Len(s.tx_commit) \in 1..Len(A)
                    /\ Len(s.tx_commit) + (i - Len(s.tx_commit)) = i
                 \/ i = Len(s.tx_commit) + Len(A) + 1
      <4>1. i \in 1..(Len(s.tx_commit) + Len(A) + 1)
        BY <3>1
      <4>2. \A x, y \in Nat : \A j \in 1..(x + y + 1) :
              \/ j \in 1..x
              \/ j - x \in 1..y /\ x + (j - x) = j
              \/ j = x + y + 1
        OBVIOUS
      <4> QED BY <4>1, <4>2, <3>1
    <3>3. DOMAIN A = 1..Len(A) /\ DOMAIN s.tx_commit = 1..Len(s.tx_commit)
      BY <1>2
    <3>4. TAKE i \in DOMAIN out
    <3>5. CASE i \in 1..Len(s.tx_commit)
      BY <3>1, <3>3, <3>5
    <3>6. CASE /\ i - Len(s.tx_commit) \in 1..Len(A)
               /\ Len(s.tx_commit) + (i - Len(s.tx_commit)) = i
      <4>1. out[Len(s.tx_commit) + (i - Len(s.tx_commit))]
              = A[i - Len(s.tx_commit)]
        BY <3>1, <3>6
      <4> QED BY <4>1, <3>3, <3>6
    <3> QED BY <3>1, <3>2, <3>5, <3>6
  <2> HIDE DEF out, A
  <2> QED BY <1>3, <2>1, <2>2
<1>5. s.last_committed_round < Round(b) => b # Genesis
  BY <1>2, BlockAssumption
<1> HIDE DEF out, A
<1>6. CASE s.last_committed_round >= Round(b)
  BY <1>1, <1>6
<1>7. CASE ~ (s.last_committed_round >= Round(b))
  <2>1. b # Genesis
    BY <1>2, <1>5, <1>7
  <2>2. commit(s, b) = [s EXCEPT !.last_committed_round = Round(b),
                                 !.tx_commit = out]
    BY <1>1, <1>7
  <2> QED BY <1>4, <2>1, <2>2 DEF CoreState
<1> QED BY <1>6, <1>7

\* The block is chosen.
LEMMA commitGood ==
  ASSUME NEW fresh, NEW N \in SUBSET Message, NEW n, NEW s \in CoreState,
         NEW b \in Block, b # Genesis => ChosenIn(N, b), Good(fresh, N, n, s)
  PROVE  Good(fresh, N, n, commit(s, b))
<1> DEFINE t == commit(s, b)
<1>1. /\ t.sent = s.sent
      /\ t.votes = s.votes /\ t.timeouts = s.timeouts
      /\ t.rx_loopback = s.rx_loopback /\ t.pending = s.pending
      /\ t.waiting = s.waiting
      /\ t.store = s.store /\ t.round = s.round
      /\ t.high_qc = s.high_qc /\ t.tx_proposer = s.tx_proposer
      /\ t.last_voted_round = s.last_voted_round
  BY commitFrame
<1>2. \/ t.tx_commit = s.tx_commit
      \/ /\ b # Genesis
         /\ \A i \in DOMAIN t.tx_commit :
              \/ Extends(b, t.tx_commit[i])
              \/ \E j \in DOMAIN s.tx_commit : t.tx_commit[i] = s.tx_commit[j]
  BY commitFrame
<1> HIDE DEF t
<1>3. SoundSent(N, n, t) /\ SoundKept(N, t) /\ SoundQC(N, t) /\ SoundStore(N, t)
  BY <1>1 DEF Good, SoundCore, SoundSent, SoundKept, SoundQC, SoundStore, Stored
<1>4. SoundCommits(N, t)
  <2>1. SoundCommits(N, s)
    BY DEF Good, SoundCore
  <2>2. CASE t.tx_commit = s.tx_commit
    BY <2>1, <2>2 DEF SoundCommits
  <2>3. CASE t.tx_commit # s.tx_commit
    BY <1>2, <2>1, <2>3 DEF SoundCommits
  <2> QED BY <2>2, <2>3
<1>5. SentVotes(t) = SentVotes(s) /\ SentTimeouts(t) = SentTimeouts(s)
  BY <1>1 DEF SentVotes, SentTimeouts
<1>6. Faithful(s) => Faithful(t)
  BY <1>1, <1>5 DEF Faithful, RemembersRounds, RemembersQCs, VotesOnce,
                    ReportsVotes
<1>7. Good(fresh, N, n, t)
  BY <1>3, <1>4, <1>6 DEF Good, SoundCore
<1> QED BY <1>7 DEF t

\* What the clean-ups of process_block leave alone.
LEMMA cleanup_proposerGood ==
  ASSUME NEW fresh, NEW N \in SUBSET Message, NEW n, NEW s \in CoreState,
         NEW digests \in SUBSET Digest, Good(fresh, N, n, s)
  PROVE  LET t == cleanup_proposer(s, digests)
         IN  /\ Good(fresh, N, n, t) /\ t.sent = s.sent
             /\ t.last_committed_round = s.last_committed_round
             /\ t.store = s.store /\ t.high_qc = s.high_qc
<1> DEFINE m == [type |-> "Cleanup", digests |-> digests]
<1>1. m \in Make \cup Cleanup /\ m.type # "Make"
  BY DEF Cleanup
<1>2. SoundMake(N, m)
  BY <1>1 DEF SoundMake
<1> HIDE DEF m
<1>3. Good(fresh, N, n, [s EXCEPT !.tx_proposer = Append(@, m)])
  BY <1>1, <1>2, Queued
<1>4. LET t == [s EXCEPT !.tx_proposer = Append(@, m)]
      IN  /\ t.sent = s.sent /\ t.store = s.store /\ t.high_qc = s.high_qc
          /\ t.last_committed_round = s.last_committed_round
  BY DEF CoreState
<1> QED BY <1>3, <1>4 DEF cleanup_proposer, m

LEMMA cleanup_payloadGood ==
  ASSUME NEW fresh, NEW N \in SUBSET Message, NEW n, NEW s \in CoreState,
         NEW r, Good(fresh, N, n, s)
  PROVE  LET t == cleanup_payload(s, r)
         IN  /\ Good(fresh, N, n, t) /\ t.sent = s.sent
             /\ t.store = s.store /\ t.high_qc = s.high_qc
<1> DEFINE W == {p \in s.waiting : Round(p.block) > r}
           t == cleanup_payload(s, r)
<1>1. W \subseteq s.waiting
  OBVIOUS
<1>2. t = [s EXCEPT !.waiting = W] /\ t \in CoreState
  BY cleanup_payloadType DEF cleanup_payload
<1> HIDE DEF W
<1>3. /\ t.sent = s.sent /\ t.store = s.store /\ t.tx_commit = s.tx_commit
      /\ t.high_qc = s.high_qc /\ t.tx_proposer = s.tx_proposer
      /\ t.round = s.round /\ t.last_voted_round = s.last_voted_round
      /\ t.votes = s.votes /\ t.timeouts = s.timeouts
      /\ Held(t) \subseteq Held(s)
  BY <1>1, <1>2 DEF CoreState, Held
<1>4. s.round \in Nat /\ s.last_voted_round \in Nat
  BY DEF CoreState
<1>5. s.votes \subseteq N /\ s.timeouts \subseteq N
  BY DEF Good, SoundCore, SoundKept
<1>6. t \in CoreState
  BY <1>2
<1> HIDE DEF t
<1>7. /\ t.round >= s.round /\ t.last_voted_round >= s.last_voted_round
      /\ t.votes \subseteq N /\ t.timeouts \subseteq N
      /\ \A p \in Held(t) : p \in Held(s)
  BY <1>3, <1>4, <1>5
<1>8. Good(fresh, N, n, t)
  BY <1>3, <1>6, <1>7, Rearranged
<1> QED BY <1>3, <1>8 DEF t

\* A vote: for a round later than any voted or timed out in, and for a block
\* whose QC is not above the high QC.
LEMMA SendVoteGood ==
  ASSUME NEW fresh, NEW N \in SUBSET Message, NEW n, NEW s \in CoreState,
         NEW b \in Block, NEW v \in Vote,
         v = [type |-> "Vote", author |-> n, block |-> b], v \in N,
         Round(b) > s.last_voted_round, SoundVote(N, v),
         fresh => Round(Parent(b)) <= Round(s.high_qc), Good(fresh, N, n, s)
  PROVE  Good(fresh, N, n, Send(increase_last_voted_round(s, Round(b)), v))
<1> DEFINE i == increase_last_voted_round(s, Round(b))
           t == Send(i, v)
<1>1. Round(b) \in Nat
  BY ParentRound
<1>2. /\ i \in CoreState /\ Good(fresh, N, n, i)
      /\ i.sent = s.sent /\ i.high_qc = s.high_qc
      /\ i.last_voted_round >= Round(b)
  BY <1>1, increase_last_voted_roundType, increase_last_voted_roundGood,
     increase_last_voted_roundFrame
<1> HIDE DEF i
<1>3. /\ t.sent = i.sent \cup {v}
      /\ t.votes = i.votes /\ t.timeouts = i.timeouts
      /\ Held(t) = Held(i) /\ t.store = i.store /\ t.round = i.round
      /\ t.tx_commit = i.tx_commit /\ t.high_qc = i.high_qc
      /\ t.tx_proposer = i.tx_proposer
      /\ t.last_voted_round = i.last_voted_round
  BY <1>2, SendFrame DEF Held
<1> HIDE DEF t
<1>4. SoundMessage(N, v) /\ v.author = n
  BY DEF SoundMessage
<1>5. SoundCore(N, n, t)
  BY <1>2, <1>3, <1>4, SendSound DEF Good
<1>6. ASSUME fresh PROVE Faithful(t)
  <2>1. Faithful(s) /\ Faithful(i)
    BY <1>2, <1>6 DEF Good
  <2>2. v \notin Timeout /\ v.block = b
    BY DEF Timeout
  <2>3. /\ SentVotes(t) = SentVotes(s) \cup {v}
        /\ SentVotes(i) = SentVotes(s)
        /\ SentTimeouts(t) = SentTimeouts(s) /\ SentTimeouts(i) = SentTimeouts(s)
    BY <1>2, <1>3, <2>2 DEF SentVotes, SentTimeouts
  <2>4. \A w \in SentVotes(s) : Round(w.block) < Round(b)
    <3>1. \A w \in SentVotes(s) : Round(w.block) \in Nat
      BY ParentRound DEF SentVotes, Vote
    <3>2. s.last_voted_round \in Nat
      BY DEF CoreState
    <3> QED BY <1>1, <2>1, <3>1, <3>2 DEF Faithful, RemembersRounds
  <2>5. \A u \in SentTimeouts(s) : u.round < Round(b)
    <3>1. \A u \in SentTimeouts(s) : u.round \in Nat
      BY DEF SentTimeouts, Timeout
    <3>2. s.last_voted_round \in Nat
      BY DEF CoreState
    <3> QED BY <1>1, <2>1, <3>1, <3>2 DEF Faithful, RemembersRounds
  <2>6. RemembersRounds(t)
    <3>1. i.last_voted_round \in Nat
      BY <1>2 DEF CoreState
    <3> QED BY <1>1, <1>2, <1>3, <2>1, <2>2, <2>3, <3>1
            DEF Faithful, RemembersRounds
  <2>7. RemembersQCs(t)
    BY <1>2, <1>3, <1>6, <2>1, <2>2, <2>3 DEF Faithful, RemembersQCs, Held
  <2>8. VotesOnce(t)
    <3>1. \A w \in SentVotes(s) : Round(w.block) \in Nat
      BY ParentRound DEF SentVotes, Vote
    <3>2. \A w \in SentVotes(s) : Round(w.block) # Round(b)
      BY <1>1, <2>4, <3>1
    <3> QED BY <2>1, <2>2, <2>3, <3>2 DEF Faithful, VotesOnce
  <2>9. ReportsVotes(t)
    <3>1. \A u \in SentTimeouts(s) : ~ (Round(b) <= u.round)
      <4>1. \A u \in SentTimeouts(s) : u.round \in Nat
        BY DEF SentTimeouts, Timeout
      <4> QED BY <4>1, <1>1, <2>5
    <3> QED BY <2>1, <2>2, <2>3, <3>1 DEF Faithful, ReportsVotes
  <2> QED BY <2>6, <2>7, <2>8, <2>9 DEF Faithful
<1>7. Good(fresh, N, n, t)
  BY <1>5, <1>6 DEF Good
<1> QED BY <1>7 DEF t, i

\* make_vote adds to what was sent, and keeps the invariant: its two rules are
\* what the votes of the invariant have passed.
LEMMA make_voteSends ==
  ASSUME NEW n \in Authorities, NEW s \in CoreState, NEW p \in Proposal
  PROVE  LET v == [type |-> "Vote", author |-> n, block |-> p.block]
             t == make_vote(s, n, p)
         IN  /\ s.sent \subseteq t.sent
             /\ Round(p.block) = s.round /\ SafetyRule1(s, p.block)
                  /\ SafetyRule2(p) => v \in t.sent
<1> DEFINE v == [type |-> "Vote", author |-> n, block |-> p.block]
           voted == Send(increase_last_voted_round(s, Round(p.block)), v)
<1>1. p.block \in Block /\ Round(p.block) \in Nat
  BY ParentRound DEF Proposal
<1>2. v \in Vote /\ v \in Message
  BY <1>1 DEF Vote, Message
<1> HIDE DEF v
<1>3. voted \in CoreState /\ voted.sent = s.sent \cup {v}
  BY <1>1, <1>2, SendType, SendFrame, increase_last_voted_roundType,
     increase_last_voted_roundFrame
<1> HIDE DEF voted
<1>4. handle_vote(voted, n, v).sent = voted.sent
  BY <1>2, <1>3, handle_voteSends
<1> QED BY <1>3, <1>4 DEF make_vote, vote, voted, v

LEMMA make_voteGood ==
  ASSUME NEW fresh, NEW N \in SUBSET Message, NEW n \in Authorities,
         NEW s \in CoreState, NEW p \in Proposal, SoundProposal(N, p),
         fresh => Round(Parent(p.block)) <= Round(s.high_qc),
         Good(fresh, N, n, s), make_vote(s, n, p).sent \subseteq N
  PROVE  Good(fresh, N, n, make_vote(s, n, p))
<1> DEFINE b == p.block
           v == [type |-> "Vote", author |-> n, block |-> b]
           voted == Send(increase_last_voted_round(s, Round(b)), v)
<1>1. b \in Block /\ Round(b) \in Nat
  BY ParentRound DEF Proposal
<1>2. v \in Vote /\ v \in Message /\ v.block = b
  BY <1>1 DEF Vote, Message
<1>3. CASE ~ (Round(b) = s.round /\ SafetyRule1(s, b) /\ SafetyRule2(p))
  BY <1>3 DEF make_vote
<1>4. CASE Round(b) = s.round /\ SafetyRule1(s, b) /\ SafetyRule2(p)
  <2>1. v \in N
    BY <1>4, make_voteSends
  <2>2. Round(b) > s.last_voted_round /\ b # Genesis
    <3>1. s.last_voted_round \in Nat /\ Round(Genesis) = 0
      BY BlockAssumption DEF CoreState
    <3> QED BY <1>1, <1>4, <3>1 DEF SafetyRule1
  <2>3. Justified(N, b)
    <3>1. CASE Round(Parent(b)) + 1 = Round(b)
      BY <3>1 DEF Justified
    <3>2. CASE ~ (Round(Parent(b)) + 1 = Round(b))
      <4>1. /\ p.tc # NoTC /\ p.tc.round + 1 = Round(b)
            /\ \A r \in p.tc.high_qc_rounds : Round(Parent(b)) >= r
        BY <1>4, <3>2 DEF SafetyRule2
      <4>2. PICK T \in SUBSET {t \in TimeoutsIn(N) : t.round = p.tc.round} :
              HasQuorumIn(T, p.tc.round) /\ p.tc = MakeTC(T, p.tc.round)
        BY <4>1 DEF SoundProposal, BackedIn, Backed
      <4>3. {u \in T : u.round = p.tc.round} = T
        BY <4>2
      <4>4. IsQuorum({t.author : t \in T})
        BY <4>2, <4>3 DEF HasQuorumIn
      <4>5. \A t \in T : Round(t.high_qc) \in p.tc.high_qc_rounds
        <5>1. MakeTC(T, p.tc.round).high_qc_rounds = {Round(t.high_qc) : t \in T}
          BY <4>3 DEF MakeTC
        <5> QED BY <5>1, <4>2
      <4>6. T \in SUBSET TimeoutsIn(N) /\ \A t \in T : t.round + 1 = Round(b)
        BY <4>1, <4>2
      <4> QED BY <4>1, <4>4, <4>5, <4>6 DEF Justified
    <3> QED BY <3>1, <3>2
  <2>4. SoundVote(N, v)
    BY <1>2, <2>2, <2>3 DEF SoundVote, SoundProposal
  <2>5. Good(fresh, N, n, voted)
    <3>1. v = [type |-> "Vote", author |-> n, block |-> b]
      OBVIOUS
    <3>2. fresh => Round(Parent(b)) <= Round(s.high_qc)
      OBVIOUS
    <3> HIDE DEF v, b
    <3> QED BY <1>1, <1>2, <2>1, <2>2, <2>4, <3>1, <3>2, SendVoteGood
  <2>6. voted \in CoreState
    <3> HIDE DEF v
    <3> QED BY <1>1, <1>2, SendType, increase_last_voted_roundType
  <2>7. Good(fresh, N, n, handle_vote(voted, n, v))
    <3> HIDE DEF voted, v
    <3> QED BY <1>2, <2>1, <2>5, <2>6, handle_voteGood
  <2>8. make_vote(s, n, p) \in {voted, handle_vote(voted, n, v)}
    BY <1>4 DEF make_vote, vote
  <2> QED BY <2>5, <2>7, <2>8
<1> QED BY <1>3, <1>4

\* A block kept by one of the tasks.
LEMMA suspendGood ==
  ASSUME NEW fresh, NEW N \in SUBSET Message, NEW n, NEW s \in CoreState,
         NEW p \in Proposal, p \in N,
         fresh => Round(Parent(p.block)) <= Round(s.high_qc), Good(fresh, N, n, s)
  PROVE  /\ Good(fresh, N, n, [s EXCEPT !.pending = @ \cup {p}])
         /\ Good(fresh, N, n, [s EXCEPT !.waiting = @ \cup {p}])
<1>1. s.round \in Nat /\ s.last_voted_round \in Nat
  BY DEF CoreState
<1>2. s.votes \subseteq N /\ s.timeouts \subseteq N
  BY DEF Good, SoundCore, SoundKept
<1>3. ASSUME NEW t \in CoreState,
             t.sent = s.sent, t.store = s.store, t.tx_commit = s.tx_commit,
             t.high_qc = s.high_qc, t.tx_proposer = s.tx_proposer,
             t.round = s.round, t.last_voted_round = s.last_voted_round,
             t.votes = s.votes, t.timeouts = s.timeouts,
             Held(t) = Held(s) \cup {p}
      PROVE  Good(fresh, N, n, t)
  <2>1. /\ t.round >= s.round /\ t.last_voted_round >= s.last_voted_round
        /\ t.votes \subseteq N /\ t.timeouts \subseteq N
        /\ \A q \in Held(t) : \/ q \in Held(s)
                              \/ /\ q \in N
                                 /\ fresh => Round(Parent(q.block))
                                               <= Round(s.high_qc)
    BY <1>1, <1>2, <1>3
  <2> QED BY <1>3, <2>1, Rearranged
<1>4. Good(fresh, N, n, [s EXCEPT !.pending = @ \cup {p}])
  <2> DEFINE P == s.pending \cup {p}
             t == [s EXCEPT !.pending = P]
  <2>1. t \in CoreState
    BY Zenon DEF CoreState
  <2>2. /\ t.sent = s.sent /\ t.store = s.store /\ t.tx_commit = s.tx_commit
        /\ t.high_qc = s.high_qc /\ t.tx_proposer = s.tx_proposer
        /\ t.round = s.round /\ t.last_voted_round = s.last_voted_round
        /\ t.votes = s.votes /\ t.timeouts = s.timeouts
        /\ Held(t) = Held(s) \cup {p}
    BY DEF CoreState, Held
  <2> HIDE DEF t
  <2>3. Good(fresh, N, n, t)
    BY <2>1, <2>2, <1>3
  <2> QED BY <2>3 DEF t
<1>5. Good(fresh, N, n, [s EXCEPT !.waiting = @ \cup {p}])
  <2> DEFINE W == s.waiting \cup {p}
             t == [s EXCEPT !.waiting = W]
  <2>1. t \in CoreState
    BY Zenon DEF CoreState
  <2>2. /\ t.sent = s.sent /\ t.store = s.store /\ t.tx_commit = s.tx_commit
        /\ t.high_qc = s.high_qc /\ t.tx_proposer = s.tx_proposer
        /\ t.round = s.round /\ t.last_voted_round = s.last_voted_round
        /\ t.votes = s.votes /\ t.timeouts = s.timeouts
        /\ Held(t) = Held(s) \cup {p}
    BY DEF CoreState, Held
  <2> HIDE DEF t
  <2>3. Good(fresh, N, n, t)
    BY <2>1, <2>2, <1>3
  <2> QED BY <2>3 DEF t
<1> QED BY <1>4, <1>5

\* process_block adds to what was sent.
LEMMA process_blockSends ==
  ASSUME NEW n \in Authorities, NEW s \in CoreState, NEW p \in Proposal
  PROVE  s.sent \subseteq process_block(s, n, p).sent
<1> DEFINE b       == p.block
           b1      == Parent(b)
           b0      == Parent(b1)
           stored  == [s EXCEPT !.store = @ \cup {b}]
           digests == Payload(b0) \cup Payload(b1) \cup Payload(b)
           cleaned == cleanup_proposer(stored, digests)
           decided == IF Round(b0) + 1 = Round(b1)
                      THEN commit(cleanup_payload(cleaned, Round(b0)), b0)
                      ELSE cleaned
<1>1. b \in Block /\ b1 \in Block /\ b0 \in Block /\ digests \in SUBSET Digest
  BY BlockAssumption DEF Proposal
<1>2. stored \in CoreState /\ stored.sent = s.sent
  <2>1. stored \in CoreState
    BY <1>1, Zenon DEF CoreState
  <2> QED BY <2>1 DEF CoreState
<1> HIDE DEF b, b1, b0, stored, digests
<1>3. cleaned \in CoreState /\ cleaned.sent = s.sent
  <2>1. cleaned \in CoreState
    BY <1>1, <1>2, cleanup_proposerType
  <2> QED BY <2>1, <1>2 DEF cleanup_proposer, CoreState
<1> HIDE DEF cleaned
<1>4. decided \in CoreState /\ decided.sent = s.sent
  <2>1. \A r : /\ cleanup_payload(cleaned, r) \in CoreState
               /\ cleanup_payload(cleaned, r).sent = s.sent
    BY <1>3, cleanup_payloadType DEF cleanup_payload, CoreState
  <2>2. LET c == cleanup_payload(cleaned, Round(b0))
        IN  commit(c, b0) \in CoreState /\ commit(c, b0).sent = s.sent
    BY <1>1, <2>1, commitType, commitFrame
  <2> QED BY <1>3, <2>2
<1> HIDE DEF decided
<1>5. s.sent \subseteq make_vote(decided, n, p).sent
  BY <1>4, make_voteSends
<1>6. suspend(s, p).sent = s.sent
  BY DEF suspend, CoreState
<1> QED BY <1>5, <1>6 DEF process_block, decided, cleaned, digests, stored, b,
                          b1, b0

\* It keeps the invariant: the committed grandparent has a QC in the stored
\* parent, which has one in the block.
LEMMA process_blockGood ==
  ASSUME NEW fresh, NEW N \in SUBSET Message, NEW n \in Authorities,
         NEW s \in CoreState, NEW p \in Proposal, p \in N, SoundProposal(N, p),
         fresh => Round(Parent(p.block)) <= Round(s.high_qc),
         Good(fresh, N, n, s), process_block(s, n, p).sent \subseteq N
  PROVE  Good(fresh, N, n, process_block(s, n, p))
<1> DEFINE b       == p.block
           b1      == Parent(b)
           b0      == Parent(b1)
           stored  == [s EXCEPT !.store = @ \cup {b}]
           digests == Payload(b0) \cup Payload(b1) \cup Payload(b)
           cleaned == cleanup_proposer(stored, digests)
           payload == cleanup_payload(cleaned, Round(b0))
           decided == IF Round(b0) + 1 = Round(b1) THEN commit(payload, b0)
                      ELSE cleaned
<1>1. CASE ~ Stored(s, Parent(p.block))
  <2>1. Good(fresh, N, n, [s EXCEPT !.pending = @ \cup {p}])
    BY suspendGood
  <2> QED BY <1>1, <2>1 DEF process_block, suspend
<1>2. CASE Stored(s, Parent(p.block))
  <2>1. /\ b \in Block /\ b1 \in Block /\ b0 \in Block
        /\ digests \in SUBSET Digest
        /\ Round(b0) \in Nat /\ Round(b1) \in Nat
        /\ b1 = Parent(b) /\ b0 = Parent(b1)
    BY BlockAssumption DEF Proposal
  <2>2. CertifiedIn(N, b1) /\ Stored(s, b1)
    BY <1>2 DEF SoundProposal
  <2>p. process_block(s, n, p) = make_vote(decided, n, p)
    BY <1>2 DEF process_block
  <2>h. fresh => Round(b1) <= Round(s.high_qc)
    OBVIOUS
  <2>3. stored \in CoreState
    BY <2>1, Zenon DEF CoreState
  <2> HIDE DEF b, b1, b0, digests
  <2>4. /\ stored.sent = s.sent
        /\ stored.votes = s.votes /\ stored.timeouts = s.timeouts
        /\ stored.rx_loopback = s.rx_loopback /\ stored.pending = s.pending
        /\ stored.waiting = s.waiting
        /\ stored.round = s.round /\ stored.tx_commit = s.tx_commit
        /\ stored.high_qc = s.high_qc /\ stored.tx_proposer = s.tx_proposer
        /\ stored.last_voted_round = s.last_voted_round
        /\ stored.store = s.store \cup {b}
    BY DEF CoreState
  <2> HIDE DEF stored
  <2>5. Good(fresh, N, n, stored)
    <3>1. /\ SoundSent(N, n, stored) /\ SoundKept(N, stored)
          /\ SoundQC(N, stored) /\ SoundCommits(N, stored)
      BY <2>4 DEF Good, SoundCore, SoundSent, SoundKept, SoundQC, SoundCommits
    <3>2. SoundStore(N, stored)
      <4>1. SoundStore(N, s)
        BY DEF Good, SoundCore
      <4> QED BY <4>1, <2>1, <2>2, <2>4 DEF SoundStore, Stored
    <3>3. SentVotes(stored) = SentVotes(s) /\ SentTimeouts(stored) = SentTimeouts(s)
      BY <2>4 DEF SentVotes, SentTimeouts
    <3>4. Faithful(s) => Faithful(stored)
      BY <2>4, <3>3 DEF Faithful, RemembersRounds, RemembersQCs, VotesOnce,
                        ReportsVotes
    <3> QED BY <3>1, <3>2, <3>4 DEF Good, SoundCore
  <2>6. /\ cleaned \in CoreState /\ Good(fresh, N, n, cleaned)
        /\ cleaned.store = s.store \cup {b} /\ cleaned.high_qc = s.high_qc
    <3>1. cleaned \in CoreState
      BY <2>1, <2>3, cleanup_proposerType
    <3>2. /\ Good(fresh, N, n, cleaned) /\ cleaned.store = stored.store
          /\ cleaned.high_qc = stored.high_qc
      BY <2>1, <2>3, <2>5, cleanup_proposerGood
    <3> QED BY <3>1, <3>2, <2>4
  <2> HIDE DEF cleaned
  <2>7. /\ payload \in CoreState /\ Good(fresh, N, n, payload)
        /\ payload.high_qc = s.high_qc
    BY <2>6, cleanup_payloadType, cleanup_payloadGood
  <2> HIDE DEF payload
  <2>8. ASSUME Round(b0) + 1 = Round(b1), b0 # Genesis PROVE ChosenIn(N, b0)
    <3>1. b1 # Genesis
      BY <2>1, <2>8, BlockAssumption
    <3>2. b1 \in s.store
      BY <2>2, <3>1 DEF Stored
    <3>3. CertifiedIn(N, b0)
      BY <2>1, <3>2 DEF Good, SoundCore, SoundStore
    <3> QED BY <2>1, <2>2, <2>8, <3>3 DEF ChosenIn
  <2>9. /\ decided \in CoreState /\ Good(fresh, N, n, decided)
        /\ decided.high_qc = s.high_qc
    <3>1. CASE Round(b0) + 1 = Round(b1)
      <4>1. /\ commit(payload, b0) \in CoreState
            /\ Good(fresh, N, n, commit(payload, b0))
            /\ commit(payload, b0).high_qc = s.high_qc
        BY <2>1, <2>7, <2>8, <3>1, commitType, commitGood, commitFrame
      <4> QED BY <3>1, <4>1
    <3>2. CASE ~ (Round(b0) + 1 = Round(b1))
      BY <2>6, <3>2
    <3> QED BY <3>1, <3>2
  <2> HIDE DEF decided
  <2>10. fresh => Round(Parent(p.block)) <= Round(decided.high_qc)
    BY <2>9
  <2>11. make_vote(decided, n, p).sent \subseteq N
    BY <2>p
  <2> QED BY <2>p, <2>9, <2>10, <2>11, make_voteGood
<1> QED BY <1>1, <1>2

\* MempoolDriver::verify keeps the block or lets it pass.
LEMMA verify_payloadGood ==
  ASSUME NEW fresh, NEW N \in SUBSET Message, NEW n \in Authorities,
         NEW s \in CoreState, NEW p \in Proposal, p \in N, SoundProposal(N, p),
         fresh => Round(Parent(p.block)) <= Round(s.high_qc),
         Good(fresh, N, n, s), verify_payload(s, n, p).sent \subseteq N
  PROVE  Good(fresh, N, n, verify_payload(s, n, p))
<1>1. Good(fresh, N, n, [s EXCEPT !.waiting = @ \cup {p}])
  BY suspendGood
<1> QED BY <1>1, process_blockGood DEF verify_payload

LEMMA verify_payloadSends ==
  ASSUME NEW n \in Authorities, NEW s \in CoreState, NEW p \in Proposal
  PROVE  s.sent \subseteq verify_payload(s, n, p).sent
<1>1. [s EXCEPT !.waiting = @ \cup {p}].sent = s.sent
  BY DEF CoreState
<1> QED BY <1>1, process_blockSends DEF verify_payload

\* handle_proposal takes the QC of the block first, so that the high QC is not
\* below it when the block comes to a vote, at once or out of a task.
LEMMA handle_proposalSends ==
  ASSUME NEW n \in Authorities, NEW s \in CoreState, NEW p \in Proposal
  PROVE  s.sent \subseteq handle_proposal(s, n, p).sent
<1>1. Parent(p.block) \in Block /\ (p.tc # NoTC => p.tc.round \in Nat)
  BY BlockAssumption DEF Proposal, TC
<1> DEFINE moved == process_qc(s, Parent(p.block))
           t == IF p.tc = NoTC THEN moved ELSE advance_round(moved, p.tc.round)
<1>2. moved \in CoreState /\ moved.sent = s.sent
  BY <1>1, process_qcType, process_qcFrame
<1>3. handle_proposal(s, n, p) \in {s, verify_payload(t, n, p)}
  BY DEF handle_proposal
<1> HIDE DEF moved
<1>4. t \in CoreState /\ t.sent = s.sent
  BY <1>1, <1>2, advance_roundType, advance_roundFrame
<1> HIDE DEF t
<1> QED BY <1>3, <1>4, verify_payloadSends

LEMMA handle_proposalGood ==
  ASSUME NEW fresh, NEW N \in SUBSET Message, NEW n \in Authorities,
         NEW s \in CoreState, NEW p \in Proposal, p \in N, SoundProposal(N, p),
         Good(fresh, N, n, s), handle_proposal(s, n, p).sent \subseteq N
  PROVE  Good(fresh, N, n, handle_proposal(s, n, p))
<1> DEFINE qc == Parent(p.block)
           moved == process_qc(s, qc)
           t == IF p.tc = NoTC THEN moved ELSE advance_round(moved, p.tc.round)
<1>1. qc \in Block /\ CertifiedIn(N, qc) /\ (p.tc # NoTC => p.tc.round \in Nat)
  BY BlockAssumption DEF Proposal, TC, SoundProposal
<1>c. handle_proposal(s, n, p) \in {s, verify_payload(t, n, p)}
  BY DEF handle_proposal
<1>q. qc = Parent(p.block) /\ Round(qc) \in Nat
  BY <1>1, ParentRound
<1> HIDE DEF qc
<1>2. /\ moved \in CoreState /\ Good(fresh, N, n, moved)
      /\ Round(moved.high_qc) >= Round(qc)
  BY <1>1, process_qcType, process_qcGood, process_qcFrame
<1> HIDE DEF moved
<1>3. /\ t \in CoreState /\ Good(fresh, N, n, t) /\ t.high_qc = moved.high_qc
  BY <1>1, <1>2, advance_roundType, advance_roundGood, advance_roundFrame
<1> HIDE DEF t
<1>4. Round(Parent(p.block)) <= Round(t.high_qc)
  <2>1. Round(t.high_qc) \in Nat
    BY <1>3, ParentRound DEF CoreState
  <2> QED BY <2>1, <1>2, <1>3, <1>q
<1>5. CASE handle_proposal(s, n, p) = s
  BY <1>5
<1>6. CASE handle_proposal(s, n, p) = verify_payload(t, n, p)
  <2>1. verify_payload(t, n, p).sent \subseteq N
    BY <1>6
  <2>2. Good(fresh, N, n, verify_payload(t, n, p))
    BY <2>1, <1>3, <1>4, verify_payloadGood
  <2> QED BY <2>2, <1>6
<1> QED BY <1>c, <1>5, <1>6

-----------------------------------------------------------------------------
(* The Proposer, and the start of a node. *)

\* A proposal is made of what a Make carries, which is sound.
LEMMA MakeBlockGood ==
  ASSUME NEW fresh, NEW N \in SUBSET Message, NEW n \in Authorities,
         NEW s \in CoreState, NEW m \in Make, NEW b \in Block,
         Parent(b) = m.qc, SoundMake(N, m),
         fresh => Round(m.qc) <= Round(s.high_qc),
         Good(fresh, N, n, s), MakeBlock(s, n, m, b).sent \subseteq N
  PROVE  Good(fresh, N, n, MakeBlock(s, n, m, b))
<1> DEFINE p == [type |-> "Propose", author |-> n, block |-> b, tc |-> m.tc]
           u == Send(s, p)
           R == u.rx_loopback \cup {p}
           t == [u EXCEPT !.buffer = {}, !.rx_loopback = R]
<1>1. p \in Proposal /\ p \in Message /\ p.author = n /\ p.block = b
  BY DEF Make, Proposal, Message
<1>2. SoundProposal(N, p) /\ SoundMessage(N, p)
  BY DEF Make, SoundMake, SoundProposal, SoundMessage
<1>m. MakeBlock(s, n, m, b) = t /\ MakeBlock(s, n, m, b) \in CoreState
  BY MakeBlockType DEF MakeBlock
<1> HIDE DEF p
<1>3. u \in CoreState /\ u.sent = s.sent \cup {p} /\ u.high_qc = s.high_qc
  BY <1>1, SendType, SendFrame
<1> HIDE DEF u
<1>t. t \in CoreState
  BY <1>m
<1>4. /\ t.sent = u.sent /\ t.store = u.store /\ t.tx_commit = u.tx_commit
      /\ t.high_qc = u.high_qc /\ t.tx_proposer = u.tx_proposer
      /\ t.round = u.round /\ t.last_voted_round = u.last_voted_round
      /\ t.votes = u.votes /\ t.timeouts = u.timeouts
      /\ Held(t) = Held(u) \cup {p}
  BY <1>3 DEF CoreState, Held
<1>5. p \in N
  BY <1>3, <1>4, <1>m
<1>6. Good(fresh, N, n, u)
  BY <1>1, <1>2, <1>5, SendGood DEF u
<1> HIDE DEF t
<1>7. u.round \in Nat /\ u.last_voted_round \in Nat
  BY <1>3 DEF CoreState
<1>8. u.votes \subseteq N /\ u.timeouts \subseteq N
  BY <1>6 DEF Good, SoundCore, SoundKept
<1>9. /\ t.round >= u.round /\ t.last_voted_round >= u.last_voted_round
      /\ t.votes \subseteq N /\ t.timeouts \subseteq N
      /\ \A q \in Held(t) : \/ q \in Held(u)
                            \/ /\ q \in N
                               /\ fresh => Round(Parent(q.block))
                                             <= Round(u.high_qc)
  BY <1>1, <1>3, <1>4, <1>5, <1>7, <1>8
<1>10. Good(fresh, N, n, t)
  BY <1>3, <1>4, <1>6, <1>9, <1>t, Rearranged
<1> QED BY <1>3, <1>4, <1>10, <1>m

LEMMA MakeBlockSends ==
  ASSUME NEW n \in Authorities, NEW s \in CoreState, NEW m \in Make,
         NEW b \in Block
  PROVE  s.sent \subseteq MakeBlock(s, n, m, b).sent
<1> DEFINE p == [type |-> "Propose", author |-> n, block |-> b, tc |-> m.tc]
<1>1. p \in Message
  BY DEF Make, Proposal, Message
<1> HIDE DEF p
<1>2. Send(s, p) \in CoreState /\ s.sent \subseteq Send(s, p).sent
  BY <1>1, SendType, SendFrame
<1>3. \A u \in CoreState : \A R :
        [u EXCEPT !.buffer = {}, !.rx_loopback = R].sent = u.sent
  BY DEF CoreState
<1> QED BY <1>2, <1>3 DEF MakeBlock, p

\* A node starts with what it and the network have kept.
LEMMA BootSound ==
  ASSUME NEW N \in SUBSET Message, NEW n \in Authorities,
         NEW store \in SUBSET Block, NEW batches \in SUBSET Digest,
         NEW sent \in SUBSET Message, NEW tx_commit \in Seq(Block),
         LET s == Boot(n, store, batches, sent, tx_commit)
         IN  SoundSent(N, n, s) /\ SoundStore(N, s) /\ SoundCommits(N, s)
  PROVE  SoundCore(N, n, Boot(n, store, batches, sent, tx_commit))
<1> DEFINE s == Boot(n, store, batches, sent, tx_commit)
<1>1. CertifiedIn(N, Genesis) /\ Round(Genesis) = 0 /\ BackedIn(N, NoTC)
  BY BlockAssumption DEF CertifiedIn, Certified, BackedIn
<1>2. /\ s.votes = {} /\ s.timeouts = {} /\ s.rx_loopback = {}
      /\ s.pending = {} /\ s.waiting = {} /\ s.high_qc = Genesis /\ s.round = 1
      /\ s.tx_proposer = FirstMake(n)
  BY DEF Boot
<1> HIDE DEF s
<1>3. SoundQC(N, s)
  BY <1>1, <1>2 DEF SoundQC
<1>4. \A i \in DOMAIN FirstMake(n) : SoundMake(N, FirstMake(n)[i])
  <2>1. FirstMake(n) = <<>> \/
        FirstMake(n) = << [type |-> "Make", round |-> 1, qc |-> Genesis,
                           tc |-> NoTC] >>
    BY DEF FirstMake
  <2>2. SoundMake(N, [type |-> "Make", round |-> 1, qc |-> Genesis, tc |-> NoTC])
    BY <1>1 DEF SoundMake
  <2> DEFINE m == [type |-> "Make", round |-> 1, qc |-> Genesis, tc |-> NoTC]
  <2> HIDE DEF m
  <2>3. FirstMake(n) = <<>> \/ FirstMake(n) = <<m>>
    BY <2>1 DEF m
  <2>4. \A i \in DOMAIN <<m>> : <<m>>[i] = m
    OBVIOUS
  <2> QED BY <2>2, <2>3, <2>4 DEF m
<1>5. SoundKept(N, s)
  BY <1>2, <1>4 DEF SoundKept
<1>6. SoundSent(N, n, s) /\ SoundStore(N, s) /\ SoundCommits(N, s)
  BY DEF s
<1> QED BY <1>3, <1>5, <1>6 DEF SoundCore, s
=============================================================================
