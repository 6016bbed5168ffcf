-------------------------- MODULE HotStuffInvariant --------------------------
(***************************************************************************)
(* The inductive invariant behind the safety of HotStuff.                  *)
(*                                                                         *)
(* N is a set of messages that holds at least all those sent.  Everything  *)
(* a node believes on account of the messages it has (that a block is      *)
(* certified, that a TC has its timeouts) stays true as N grows, so the    *)
(* invariant of one node is not disturbed by the steps of the others.      *)
(***************************************************************************)
EXTENDS HotStuff

VotesIn(N)    == {m \in N : m.type = "Vote"}
TimeoutsIn(N) == {m \in N : m.type = "Timeout"}

CertifiedIn(N, b) == b \in Block /\ Certified(VotesIn(N), b)

BackedIn(N, tc) == tc # NoTC => Backed(TimeoutsIn(N), tc)

ChosenIn(N, b) ==
  /\ b # Genesis /\ CertifiedIn(N, b)
  /\ \E c \in Block : /\ CertifiedIn(N, c)
                      /\ Parent(c) = b /\ Round(c) = Round(b) + 1

\* What make_vote checks: the second rule, with the timeouts of a TC.
Justified(N, b) ==
  \/ Round(Parent(b)) + 1 = Round(b)
  \/ \E T \in SUBSET TimeoutsIn(N) :
       /\ IsQuorum({t.author : t \in T})
       /\ \A t \in T : /\ t.round + 1 = Round(b)
                      /\ Round(Parent(b)) >= Round(t.high_qc)

-----------------------------------------------------------------------------
(* What every message says is so. *)

SoundProposal(N, p) == CertifiedIn(N, Parent(p.block)) /\ BackedIn(N, p.tc)

SoundVote(N, v) ==
  /\ v.block # Genesis
  /\ CertifiedIn(N, Parent(v.block)) /\ Justified(N, v.block)

SoundTimeout(N, t) == CertifiedIn(N, t.high_qc) /\ Round(t.high_qc) < t.round

SoundMessage(N, m) ==
  /\ m.type = "Propose" => SoundProposal(N, m)
  /\ m.type = "Vote"    => SoundVote(N, m)
  /\ m.type = "Timeout" => SoundTimeout(N, m)
  /\ m.type = "TC"      => BackedIn(N, m.tc)

\* What a node keeps comes from the messages, and what it does with it is
\* covered by certificates.  None of it is lost with a restart.
SoundMake(N, m) ==
  m.type = "Make" =>
    CertifiedIn(N, m.qc) /\ Round(m.qc) < m.round /\ BackedIn(N, m.tc)

SoundSent(N, n, s) ==
  /\ s.sent \subseteq N
  /\ \A m \in s.sent : m.author = n /\ SoundMessage(N, m)

SoundKept(N, s) ==
  /\ s.votes \subseteq N /\ s.timeouts \subseteq N
  /\ s.rx_loopback \subseteq N /\ s.pending \subseteq N /\ s.waiting \subseteq N
  /\ \A i \in DOMAIN s.tx_proposer : SoundMake(N, s.tx_proposer[i])

SoundQC(N, s) == CertifiedIn(N, s.high_qc) /\ Round(s.high_qc) < s.round

SoundStore(N, s) ==
  \A b \in s.store : Stored(s, Parent(b)) /\ CertifiedIn(N, Parent(b))

SoundCommits(N, s) ==
  \A i \in DOMAIN s.tx_commit :
    \E c \in Block : ChosenIn(N, c) /\ Extends(c, s.tx_commit[i])

SoundCore(N, n, s) ==
  /\ SoundSent(N, n, s) /\ SoundKept(N, s) /\ SoundQC(N, s)
  /\ SoundStore(N, s) /\ SoundCommits(N, s)

Sound == \A n \in Authorities : SoundCore(Network, n, core[n])

-----------------------------------------------------------------------------
(* What a node remembers of its votes, as long as it is not restarted. *)

SentVotes(s)    == s.sent \cap Vote
SentTimeouts(s) == s.sent \cap Timeout

\* last_voted_round is not below any round voted or timed out in.
RemembersRounds(s) ==
  /\ \A v \in SentVotes(s) : Round(v.block) <= s.last_voted_round
  /\ \A t \in SentTimeouts(s) : t.round <= s.last_voted_round

\* high_qc is not below the QC of any block voted for, or that may come to a
\* vote: one a task keeps, or the Proposer is to make.
RemembersQCs(s) ==
  /\ \A v \in SentVotes(s) : Round(Parent(v.block)) <= Round(s.high_qc)
  /\ \A p \in s.rx_loopback \cup s.pending \cup s.waiting :
       Round(Parent(p.block)) <= Round(s.high_qc)
  /\ \A i \in DOMAIN s.tx_proposer :
       s.tx_proposer[i].type = "Make" =>
         Round(s.tx_proposer[i].qc) <= Round(s.high_qc)

VotesOnce(s) ==
  \A v, w \in SentVotes(s) : Round(v.block) = Round(w.block) => v = w

ReportsVotes(s) ==
  \A t \in SentTimeouts(s), v \in SentVotes(s) :
    Round(v.block) <= t.round => Round(Parent(v.block)) <= Round(t.high_qc)

Faithful(s) ==
  RemembersRounds(s) /\ RemembersQCs(s) /\ VotesOnce(s) /\ ReportsVotes(s)

Remembering == restarts = 0 => \A n \in Authorities : Faithful(core[n])

\* The invariant the proofs rest on.  A QC or a TC that a node takes in
\* (process_qc, handle_tc) is one some quorum has made, and what a node votes,
\* reports and proposes is covered by what it remembers in its Core.
Inv == TypeOK /\ Sound /\ Remembering
=============================================================================
