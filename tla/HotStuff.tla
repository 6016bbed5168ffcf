------------------------------ MODULE HotStuff -------------------------------
(***************************************************************************)
(* The consensus nodes of consensus/src/: every node is one Core           *)
(* (core.rs), with the Aggregator, the Proposer, the Synchronizer and the  *)
(* PayloadWaiter it talks to, over a network that delays, reorders, loses  *)
(* and repeats messages.                                                   *)
(*                                                                         *)
(* A handler of the Core calls others (a vote of one's own completes a QC, *)
(* which advances the round, which cleans the aggregator up, ...), and each *)
(* of them reads what the ones before it wrote.  A method is therefore an  *)
(* operator from the state s of node n to the state it leaves, named as in *)
(* the source; an action applies one handler to one node.                  *)
(***************************************************************************)
EXTENDS Messages

CONSTANTS
  ChannelCapacity,  \* of tx_proposer (CHANNEL_CAPACITY, 1000 in consensus.rs)
  MaxRound,         \* bound: the last round a block is made for
  Timers,           \* bound: the <<node, round>> whose timer may fire
  MaxRestarts       \* bound: how many times a node is killed and restarted

ASSUME BoundsAssumption ==
  /\ ChannelCapacity \in Nat /\ MaxRound \in Nat
  /\ Timers \subseteq Authorities \X Nat /\ MaxRestarts \in Nat

VARIABLES
  core,      \* the state of every node
  restarts   \* how many restarts there have been

vars == <<core, restarts>>

-----------------------------------------------------------------------------
\* What tx_proposer carries: ProposerMessage::Make and ::Cleanup.
Make    == [type : {"Make"}, round : Nat, qc : Block, tc : TC \cup {NoTC}]
Cleanup == [type : {"Cleanup"}, digests : SUBSET Digest]

CoreState ==
  [round                : Nat,
   last_voted_round     : Nat,
   last_committed_round : Nat,
   high_qc     : Block,
   votes       : SUBSET Vote,        \* Aggregator::votes_aggregators
   timeouts    : SUBSET Timeout,     \* Aggregator::timeouts_aggregators
   store       : SUBSET Block,       \* the blocks in the store, on disk
   batches     : SUBSET Digest,      \* the batches in the store, on disk
   buffer      : SUBSET Digest,      \* Proposer::buffer
   tx_proposer : Seq(Make \cup Cleanup),
   rx_loopback : SUBSET Proposal,    \* blocks the Core is to resume
   pending     : SUBSET Proposal,    \* blocks the Synchronizer keeps
   waiting     : SUBSET Proposal,    \* blocks the PayloadWaiter keeps
   sent        : SUBSET Message,     \* all that was ever given to the network
   tx_commit   : Seq(Block)]         \* all that was ever given to the application

\* run, before its loop: the leader of round 1 proposes.
FirstMake(n) ==
  IF n = get_leader(1)
  THEN << [type |-> "Make", round |-> 1, qc |-> Genesis, tc |-> NoTC] >>
  ELSE <<>>

\* Mutant of Boot: committed rounds counted from below Genesis.
Boot_below_genesis(n, store, batches, sent, tx_commit) ==
  [round |-> 1, last_voted_round |-> 0, last_committed_round |-> -1,
   high_qc |-> Genesis, votes |-> {}, timeouts |-> {}, store |-> store,
   batches |-> batches, buffer |-> {}, tx_proposer |-> FirstMake(n),
   rx_loopback |-> {}, pending |-> {}, waiting |-> {},
   sent |-> sent, tx_commit |-> tx_commit]

\* Core::spawn: nothing is read back from the store, which holds only blocks
\* and batches.  What the network and the application have got stays.
Boot(n, store, batches, sent, tx_commit) ==
  [round |-> 1, last_voted_round |-> 0, last_committed_round |-> 0,
   high_qc |-> Genesis, votes |-> {}, timeouts |-> {}, store |-> store,
   batches |-> batches, buffer |-> {}, tx_proposer |-> FirstMake(n),
   rx_loopback |-> {}, pending |-> {}, waiting |-> {},
   sent |-> sent, tx_commit |-> tx_commit]

Init ==
  /\ core = [n \in Authorities |-> Boot(n, {}, {}, {}, <<>>)]
  /\ restarts = 0

\* Whatever was sent may arrive, at any time and any number of times, or never.
Network == UNION {core[n].sent : n \in Authorities}

Proposals == {m \in Network : m.type = "Propose"}
Votes     == {m \in Network : m.type = "Vote"}
Timeouts  == {m \in Network : m.type = "Timeout"}
TCs       == {m \in Network : m.type = "TC"}

-----------------------------------------------------------------------------
(* The methods of Core. *)

Send(s, m) == [s EXCEPT !.sent = @ \cup {m}]

generate_proposal(s, tc) ==
  [s EXCEPT !.tx_proposer = Append(@,
     [type |-> "Make", round |-> s.round, qc |-> s.high_qc, tc |-> tc])]

\* Only the leader of the round the node is now in proposes.
ProposeIfLeader(s, n, tc) ==
  IF n = get_leader(s.round) THEN generate_proposal(s, tc) ELSE s

\* Mutants of advance_round: a stale certificate takes the node back; the
\* aggregator is not cleaned up.
advance_round_unguarded(s, r) ==
  [s EXCEPT !.round = r + 1,
            !.votes = {v \in @ : Round(v.block) > r},
            !.timeouts = {t \in @ : t.round > r}]

advance_round_uncleaned(s, r) ==
  IF r < s.round THEN s ELSE [s EXCEPT !.round = r + 1]

\* advance_round, with Aggregator::cleanup.
advance_round(s, r) ==
  IF r < s.round THEN s
  ELSE [s EXCEPT !.round = r + 1,
                 !.votes = {v \in @ : Round(v.block) > r},
                 !.timeouts = {t \in @ : t.round > r}]

update_high_qc(s, qc) ==
  IF Round(qc) > Round(s.high_qc) THEN [s EXCEPT !.high_qc = qc] ELSE s

\* Mutant of process_qc: the QC is kept but the round is not advanced.
process_qc_in_place(s, qc) == update_high_qc(s, qc)

process_qc(s, qc) == update_high_qc(advance_round(s, Round(qc)), qc)

increase_last_voted_round(s, target) ==
  [s EXCEPT !.last_voted_round = Max({@, target})]

\* Mutant of handle_vote: a QC of more than a third of the stake.
handle_vote_weak_quorum(s, n, v) ==
  LET added  == [s EXCEPT !.votes = @ \cup {v}]
      voters == {w.author : w \in {x \in added.votes : x.block = v.block}}
  IN  IF Round(v.block) < s.round \/ v \in s.votes THEN s
      ELSE IF 3 * stake(voters) > stake(Authorities)
           THEN ProposeIfLeader(process_qc(added, v.block), n, NoTC)
           ELSE added

\* Aggregator::add_vote: an authority that is already in the maker of that
\* round and block is refused (AuthorityReuse); a quorum is a QC.  The vote's
\* round is the one of its block.
handle_vote(s, n, v) ==
  LET added == [s EXCEPT !.votes = @ \cup {v}]
  IN  IF Round(v.block) < s.round \/ v \in s.votes THEN s
      ELSE IF HasQuorumFor(added.votes, v.block)
           THEN ProposeIfLeader(process_qc(added, v.block), n, NoTC)
           ELSE added

\* Aggregator::add_timeout refuses a second timeout of an authority in a round.
add_timeout(s, n, t) ==
  LET added == [s EXCEPT !.timeouts = @ \cup {t}]
      tc    == MakeTC(added.timeouts, t.round)
      moved == advance_round(added, tc.round)
  IN  IF \E u \in s.timeouts : u.round = t.round /\ u.author = t.author THEN s
      ELSE IF HasQuorumIn(added.timeouts, t.round)
           THEN ProposeIfLeader(
                  Send(moved, [type |-> "TC", author |-> n, tc |-> tc]), n, tc)
           ELSE added

handle_timeout(s, n, t) ==
  IF t.round < s.round THEN s
  ELSE add_timeout(process_qc(s, t.high_qc), n, t)

\* Mutant of local_timeout_round: last_voted_round is left alone.
local_timeout_round_still_voting(s, n) ==
  LET t == [type |-> "Timeout", author |-> n, round |-> s.round,
            high_qc |-> s.high_qc]
  IN  handle_timeout(Send(s, t), n, t)

\* local_timeout_round: the node gives up voting in this round, tells the
\* others, and handles its own timeout.
local_timeout_round(s, n) ==
  LET t == [type |-> "Timeout", author |-> n, round |-> s.round,
            high_qc |-> s.high_qc]
  IN  handle_timeout(Send(increase_last_voted_round(s, s.round), t), n, t)

\* The certificate is not verified, nor is it compared with the current round.
handle_tc(s, n, tc) == ProposeIfLeader(advance_round(s, tc.round), n, tc)

\* Mutants of the rules: voting again in the last voted round; any QC will do
\* with a TC of the round before.
SafetyRule1_inclusive(s, b) == Round(b) >= s.last_voted_round
SafetyRule2_any_qc(p) ==
  \/ Round(Parent(p.block)) + 1 = Round(p.block)
  \/ p.tc # NoTC /\ p.tc.round + 1 = Round(p.block)

\* The two rules of the vote: a round later than any voted or timed out in, and
\* a block that extends a QC of the round before, or one at least as high as
\* every QC the TC of the round before reports.
SafetyRule1(s, b) == Round(b) > s.last_voted_round
SafetyRule2(p) ==
  \/ Round(Parent(p.block)) + 1 = Round(p.block)
  \/ /\ p.tc # NoTC
     /\ p.tc.round + 1 = Round(p.block)
     /\ \A r \in p.tc.high_qc_rounds : Round(Parent(p.block)) >= r

\* Mutant of AncestorsToCommit: the walk stops one block early.
AncestorsToCommit_but_one(s, b) ==
  LET walked == {i \in DOMAIN Ancestors(b) :
                   s.last_committed_round + 1
                     < Round((<<b>> \o Ancestors(b))[i])}
  IN  SubSeq(Ancestors(b), 1, Cardinality(walked) - 1)

\* The blocks commit sends before the committed one: it walks towards Genesis
\* while the child's round is above last_committed_round + 1, and sends the
\* blocks in the order it met them.
AncestorsToCommit(s, b) ==
  LET walked == {i \in DOMAIN Ancestors(b) :
                   s.last_committed_round + 1
                     < Round((<<b>> \o Ancestors(b))[i])}
  IN  SubSeq(Ancestors(b), 1, Cardinality(walked))

commit(s, b) ==
  IF s.last_committed_round >= Round(b) THEN s
  ELSE [s EXCEPT !.last_committed_round = Round(b),
                 !.tx_commit = @ \o AncestorsToCommit(s, b) \o <<b>>]

\* The payloads of a processed block and of its two ancestors leave the
\* Proposer's buffer; without any, the message changes nothing and is left out.
cleanup_proposer(s, digests) ==
  IF digests = {} THEN s
  ELSE [s EXCEPT !.tx_proposer =
          Append(@, [type |-> "Cleanup", digests |-> digests])]

\* MempoolDriver::cleanup cancels the waits of blocks up to that round.
cleanup_payload(s, r) ==
  [s EXCEPT !.waiting = {p \in @ : Round(p.block) > r}]

\* Votes go to the leader of the next round.  One's own is handled at once; it
\* is recorded among the messages so that properties see every vote, and
\* ReceiveVote does not deliver it.
vote(s, n, b) ==
  LET v     == [type |-> "Vote", author |-> n, block |-> b]
      voted == Send(increase_last_voted_round(s, Round(b)), v)
  IN  IF n = get_leader(s.round + 1) THEN handle_vote(voted, n, v) ELSE voted

make_vote(s, n, p) ==
  IF Round(p.block) = s.round /\ SafetyRule1(s, p.block) /\ SafetyRule2(p)
  THEN vote(s, n, p.block)
  ELSE s

\* Genesis needs no store; the Synchronizer keeps one block per digest.
Stored(s, b) == b = Genesis \/ b \in s.store

suspend(s, p) ==
  IF \E q \in s.pending : q.block = p.block THEN s
  ELSE [s EXCEPT !.pending = @ \cup {p}]

\* Mutants of process_block: the parent is not looked for; a block commits its
\* parent as soon as their rounds are consecutive.
process_block_any_parent(s, n, p) ==
  LET b       == p.block
      b1      == Parent(b)
      b0      == Parent(b1)
      stored  == [s EXCEPT !.store = @ \cup {b}]
      decided == IF Round(b0) + 1 = Round(b1)
                 THEN commit(cleanup_payload(stored, Round(b0)), b0)
                 ELSE stored
  IN  make_vote(decided, n, p)

process_block_one_chain(s, n, p) ==
  LET b       == p.block
      b1      == Parent(b)
      stored  == [s EXCEPT !.store = @ \cup {b}]
      decided == IF Round(b1) + 1 = Round(b)
                 THEN commit(cleanup_payload(stored, Round(b1)), b1)
                 ELSE stored
  IN  IF Stored(s, b1) THEN make_vote(decided, n, p) ELSE suspend(s, p)

process_block(s, n, p) ==
  LET b       == p.block
      b1      == Parent(b)
      b0      == Parent(b1)
      stored  == [s EXCEPT !.store = @ \cup {b}]
      cleaned == cleanup_proposer(stored,
                   Payload(b0) \cup Payload(b1) \cup Payload(b))
      decided == IF Round(b0) + 1 = Round(b1)
                 THEN commit(cleanup_payload(cleaned, Round(b0)), b0)
                 ELSE cleaned
  IN  IF Stored(s, b1) THEN make_vote(decided, n, p) ELSE suspend(s, p)

\* Mutant of verify_payload: the batches are asked for, the block goes on.
verify_payload_later(s, n, p) == process_block(s, n, p)

\* MempoolDriver::verify asks for missing batches and leaves the block with
\* the PayloadWaiter, which keeps one per digest.
verify_payload(s, n, p) ==
  IF Payload(p.block) \subseteq s.batches THEN process_block(s, n, p)
  ELSE IF \E q \in s.waiting : q.block = p.block THEN s
  ELSE [s EXCEPT !.waiting = @ \cup {p}]

handle_proposal(s, n, p) ==
  LET moved == process_qc(s, Parent(p.block))
  IN  IF p.author # get_leader(Round(p.block)) \/ ~ ValidPayload(p) THEN s
      ELSE verify_payload(
             IF p.tc = NoTC THEN moved ELSE advance_round(moved, p.tc.round),
             n, p)

-----------------------------------------------------------------------------
(* The Proposer and the tasks that feed blocks back. *)

\* Proposer::make_block: the whole buffer becomes the payload; the block is
\* broadcast and looped back to the Core.  (That the Proposer then waits for a
\* quorum of acknowledgements is the delay of its next message.)
MakeBlock(s, n, m, b) ==
  LET p == [type |-> "Propose", author |-> n, block |-> b, tc |-> m.tc]
  IN  [Send(s, p) EXCEPT !.buffer = {}, !.rx_loopback = @ \cup {p}]

SkipsEmptyBlock(s, m) == m.round > EmptyRounds /\ s.buffer = {} /\ m.tc = NoTC

HasRoom(s) == Len(s.tx_proposer) < ChannelCapacity

-----------------------------------------------------------------------------
(* The actions.  The Core takes a message only when the Proposer's channel  *)
(* has room for what the handler may send on it.                            *)

Step(n, s) == core' = [core EXCEPT ![n] = s] /\ UNCHANGED restarts

ReceiveProposal(n) ==
  /\ HasRoom(core[n])
  /\ \E p \in Proposals : Step(n, handle_proposal(core[n], n, p))

ReceiveVote(n) ==
  /\ HasRoom(core[n])
  /\ \E v \in Votes :
       /\ n = get_leader(Round(v.block) + 1) /\ v.author # n
       /\ Step(n, handle_vote(core[n], n, v))

ReceiveTimeout(n) ==
  /\ HasRoom(core[n])
  /\ \E t \in Timeouts :
       /\ t.author # n
       /\ Step(n, handle_timeout(core[n], n, t))

ReceiveTC(n) ==
  /\ HasRoom(core[n])
  /\ \E m \in TCs :
       /\ m.author # n
       /\ Step(n, handle_tc(core[n], n, m.tc))

\* The timer may fire at any time, also right after a reset.
TimerFires(n) ==
  /\ <<n, core[n].round>> \in Timers
  /\ HasRoom(core[n])
  /\ Step(n, local_timeout_round(core[n], n))

\* The Core takes a block from its loopback channel.
ReceiveLoopback(n) ==
  /\ HasRoom(core[n])
  /\ \E p \in core[n].rx_loopback :
       Step(n, process_block([core[n] EXCEPT !.rx_loopback = @ \ {p}], n, p))

\* Synchronizer: the parent of a block it keeps has been stored.
ParentStored(n) ==
  \E p \in core[n].pending :
    /\ Stored(core[n], Parent(p.block))
    /\ Step(n, [core[n] EXCEPT !.pending = @ \ {p},
                               !.rx_loopback = @ \cup {p}])

\* PayloadWaiter: the last missing batch of a block it keeps has been stored.
PayloadStored(n) ==
  \E p \in core[n].waiting :
    /\ Payload(p.block) \subseteq core[n].batches
    /\ Step(n, [core[n] EXCEPT !.waiting = @ \ {p},
                               !.rx_loopback = @ \cup {p}])

\* mempool/src/processor.rs: a batch, own or a peer's, new or sent again, is
\* stored; its digest reaches the Proposer now or with a later reception.
ReceiveBatch(n) ==
  \E d \in Digest : \E handed \in SUBSET {d} :
    Step(n, [core[n] EXCEPT !.batches = @ \cup {d},
                            !.buffer = @ \cup handed])

\* Proposer::run takes the next message of the Core.
ProposerMake(n) ==
  LET s == core[n]
      m == Head(s.tx_proposer)
      t == [s EXCEPT !.tx_proposer = Tail(@)]
  IN  /\ s.tx_proposer # <<>> /\ m.type = "Make"
      /\ \/ SkipsEmptyBlock(s, m) /\ Step(n, t)
         \/ /\ ~ SkipsEmptyBlock(s, m)
            /\ \E b \in Block :
                 /\ Round(b) = m.round /\ Parent(b) = m.qc
                 /\ Payload(b) = s.buffer
                 /\ Step(n, MakeBlock(t, n, m, b))

ProposerCleanup(n) ==
  LET s == core[n]
      m == Head(s.tx_proposer)
  IN  /\ s.tx_proposer # <<>> /\ m.type = "Cleanup"
      /\ Step(n, [s EXCEPT !.tx_proposer = Tail(@), !.buffer = @ \ m.digests])

\* The node is killed and started again.
Restart(n) ==
  /\ restarts < MaxRestarts
  /\ restarts' = restarts + 1
  /\ LET s == core[n]
     IN  core' = [core EXCEPT ![n] =
                    Boot(n, s.store, s.batches, s.sent, s.tx_commit)]

Next ==
  \E n \in Authorities :
    \/ ReceiveProposal(n) \/ ReceiveVote(n) \/ ReceiveTimeout(n)
    \/ ReceiveTC(n) \/ TimerFires(n) \/ ReceiveLoopback(n)
    \/ ParentStored(n) \/ PayloadStored(n) \/ ReceiveBatch(n)
    \/ ProposerMake(n) \/ ProposerCleanup(n) \/ Restart(n)

Spec == Init /\ [][Next]_vars

-----------------------------------------------------------------------------
(* What the votes and timeouts sent so far decide. *)

Certified(votes, b) == b = Genesis \/ HasQuorumFor(votes, b)

CertifiedBlocks ==
  LET votes == Votes
  IN  {b \in {Genesis} \cup {v.block : v \in votes} : Certified(votes, b)}

\* The commit rule of process_block: a certified block with a certified child
\* in the next round.
ChosenBlocks ==
  LET certified == CertifiedBlocks
  IN  {b \in certified \ {Genesis} :
         \E c \in certified : Parent(c) = b /\ Round(c) = Round(b) + 1}

\* A quorum of timeouts of a round behind the TC and what it reports.
Backed(timeouts, tc) ==
  \E T \in SUBSET {t \in timeouts : t.round = tc.round} :
    HasQuorumIn(T, tc.round) /\ tc = MakeTC(T, tc.round)

Committed(n) == Range(core[n].tx_commit)

-----------------------------------------------------------------------------
(* Properties *)

\* Every variable has its type; in particular the methods leave a Core in a
\* state of its struct (core.rs:26-45), whichever handler ran.
TypeOK == core \in [Authorities -> CoreState] /\ restarts \in 0..MaxRestarts

\* core.rs:112 "Ensure we won't vote for contradicting blocks": whatever
\* proposals, timers and loopbacks a node saw, in whatever order, it has voted
\* for at most one block of a round.
VoteOnce ==
  \A v, w \in Votes :
    v.author = w.author /\ Round(v.block) = Round(w.block) => v.block = w.block

\* The safety of the protocol: once a block is chosen (core.rs:331), no block
\* of its round or a later one is certified unless it extends the chosen one,
\* however many rounds timed out in between (make_vote, both rules).
ChosenIsFinal ==
  \A c \in ChosenBlocks, d \in CertifiedBlocks :
    Round(d) >= Round(c) => Extends(d, c)

\* A timeout tells the others of every vote that came before it: its author
\* has voted in no round up to the timeout's for a block that extends a QC
\* higher than the high_qc it reports.  This is what TC::high_qc_rounds is
\* worth to the next leader (local_timeout_round, make_vote).
TimeoutReportsVotes ==
  \A t \in Timeouts, v \in Votes :
    v.author = t.author /\ Round(v.block) <= t.round
      => Round(Parent(v.block)) <= Round(t.high_qc)

\* No two nodes send their application blocks of different chains, and all
\* that is sent is chosen or an ancestor of a chosen block (commit).
Agreement ==
  /\ \A m, n \in Authorities : \A a \in Committed(m), b \in Committed(n) :
       Extends(a, b) \/ Extends(b, a)
  /\ \A n \in Authorities : \A a \in Committed(n) :
       \E c \in ChosenBlocks : Extends(c, a)

\* core.rs:123 "Ensure we commit the entire chain": with a block the
\* application has got each of its ancestors but Genesis.
CommitsWholeChain ==
  \A n \in Authorities : \A a \in Committed(n) :
    Range(Ancestors(a)) \ {Genesis} \subseteq Committed(n)

\* Certificates are not made up: the high QC of a node, the QC of a proposal or
\* a timeout has a quorum of votes behind it, and a TC a quorum of timeouts of
\* its round whose high QCs are of the rounds it reports (QCMaker, TCMaker).
CertificatesBacked ==
  LET certified == CertifiedBlocks
      timeouts  == Timeouts
  IN  /\ \A n \in Authorities : core[n].high_qc \in certified
      /\ \A p \in Proposals :
           /\ Parent(p.block) \in certified
           /\ p.tc # NoTC => Backed(timeouts, p.tc)
      /\ \A t \in timeouts : t.high_qc \in certified
      /\ \A m \in TCs : Backed(timeouts, m.tc)

\* "We should have all ancestors of delivered blocks" (synchronizer.rs:146) and
\* "We should have all the ancestors by now" (core.rs:132): the walks of
\* get_ancestors and commit never meet a block that is not stored.
StoreClosed ==
  \A n \in Authorities : \A b \in core[n].store : Stored(core[n], Parent(b))

\* A node's round is past its high QC, so is the round of a timeout or of a
\* proposal it makes: process_qc advances the round before it takes the QC.
RoundAfterQC ==
  /\ \A n \in Authorities :
       /\ Round(core[n].high_qc) < core[n].round
       /\ \A i \in DOMAIN core[n].tx_proposer :
            LET m == core[n].tx_proposer[i]
            IN  m.type = "Make" => Round(m.qc) < m.round
  /\ \A t \in Timeouts : Round(t.high_qc) < t.round

\* The aggregator holds nothing of a round that is over, and never a quorum:
\* QCs and TCs are made once (aggregator.rs:86, 131) because the round the
\* quorum belongs to is over in the same handler.
AggregatorClean ==
  \A n \in Authorities :
    LET s == core[n]
    IN  /\ \A v \in s.votes : Round(v.block) >= s.round
                              /\ ~ HasQuorumFor(s.votes, v.block)
        /\ \A t \in s.timeouts : t.round >= s.round
                                 /\ ~ HasQuorumIn(s.timeouts, t.round)

\* The application gets a chain from its oldest block on, as the nodes that
\* "synchronize" by handling the committed transactions need (README.md:28):
\* each block extends all the ones it got before, but for Genesis, which has no
\* transactions.
CommitsInChainOrder ==
  \A n \in Authorities :
    LET out == core[n].tx_commit
    IN  \A i, j \in DOMAIN out :
          i < j /\ out[j] # Genesis => Extends(out[j], out[i])

\* A node votes for a block, and hands it to the application, only when it
\* holds all the batches of its payload, also when the block came back from
\* the Synchronizer or the PayloadWaiter (handle_proposal, process_block).
PayloadAvailable ==
  \A n \in Authorities :
    /\ \A v \in core[n].sent \cap Vote : Payload(v.block) \subseteq core[n].batches
    /\ \A b \in Committed(n) : Payload(b) \subseteq core[n].batches

\* Rounds only grow, also when a stale or repeated TC reaches handle_tc, which
\* checks nothing; and every step that changes the high QC raises it.
NeverRegresses ==
  \A n \in Authorities :
    /\ core'[n].round >= core[n].round
    /\ core'[n].last_voted_round >= core[n].last_voted_round
    /\ core'[n].last_committed_round >= core[n].last_committed_round
    /\ \/ core'[n].high_qc = core[n].high_qc
       \/ Round(core'[n].high_qc) > Round(core[n].high_qc)

Monotone == [][NeverRegresses]_vars
=============================================================================
