---------------------------- MODULE HotStuffNode ----------------------------
(***************************************************************************)
(* What each node of HotStuff keeps in order by itself, for every          *)
(* committee, block tree and bound: its aggregator, the batches of what it *)
(* votes for, its rounds, and the chain it commits.                        *)
(***************************************************************************)
EXTENDS HotStuffTheorems

-----------------------------------------------------------------------------
(* The invariant of one node.                                              *)

\* Nothing of a round that is over, and no quorum, is left in the aggregator.
Clean(s) ==
  /\ \A v \in s.votes : Round(v.block) >= s.round /\ ~ HasQuorumFor(s.votes, v.block)
  /\ \A t \in s.timeouts : t.round >= s.round /\ ~ HasQuorumIn(s.timeouts, t.round)

\* The node has the batches of all that passed verify_payload, and of what its
\* Proposer is to propose.
Stocked(s) ==
  /\ \A b \in s.store : Payload(b) \subseteq s.batches
  /\ \A v \in s.sent \cap Vote : Payload(v.block) \subseteq s.batches
  /\ \A i \in DOMAIN s.tx_commit : Payload(s.tx_commit[i]) \subseteq s.batches
  /\ \A p \in s.rx_loopback \cup s.pending : Payload(p.block) \subseteq s.batches
  /\ s.buffer \subseteq s.batches

Closed(s) == \A b \in s.store : Stored(s, Parent(b))

Tidy(s) == Clean(s) /\ Stocked(s) /\ Closed(s)

\* From s to t nothing goes back.
Advances(s, t) ==
  /\ t.round >= s.round
  /\ t.last_voted_round >= s.last_voted_round
  /\ t.last_committed_round >= s.last_committed_round
  /\ t.high_qc = s.high_qc \/ Round(t.high_qc) > Round(s.high_qc)

LEMMA AdvancesOn ==
  ASSUME NEW s \in CoreState, NEW t \in CoreState, NEW u \in CoreState,
         Advances(s, t), Advances(t, u)
  PROVE  Advances(s, u)
<1>1. /\ \A x \in {s, t, u} : /\ x.round \in Nat /\ x.last_voted_round \in Nat
                              /\ x.last_committed_round \in Nat
                              /\ Round(x.high_qc) \in Nat
  BY ParentRound DEF CoreState
<1> QED BY <1>1 DEF Advances

LEMMA AdvancesNot ==
  ASSUME NEW s \in CoreState, NEW t,
         t.round = s.round, t.last_voted_round = s.last_voted_round,
         t.last_committed_round = s.last_committed_round, t.high_qc = s.high_qc
  PROVE  Advances(s, t)
BY DEF Advances, CoreState

\* What these predicates do not see: the Proposer's channel, the blocks the
\* PayloadWaiter keeps, and what is sent beside votes.
Alike(s, t) ==
  /\ t.round = s.round /\ t.last_voted_round = s.last_voted_round
  /\ t.last_committed_round = s.last_committed_round /\ t.high_qc = s.high_qc
  /\ t.votes = s.votes /\ t.timeouts = s.timeouts
  /\ t.store = s.store /\ t.batches = s.batches /\ t.buffer = s.buffer
  /\ t.rx_loopback = s.rx_loopback /\ t.pending = s.pending
  /\ t.tx_commit = s.tx_commit
  /\ t.sent \cap Vote = s.sent \cap Vote

LEMMA AlikeKeeps ==
  ASSUME NEW s \in CoreState, NEW t, Tidy(s), Alike(s, t)
  PROVE  Tidy(t) /\ Advances(s, t)
<1>1. Advances(s, t)
  BY AdvancesNot DEF Alike
<1>2. Clean(t)
  BY DEF Tidy, Alike, Clean
<1>3. Stocked(t)
  BY DEF Tidy, Alike, Stocked
<1>4. Closed(t)
  BY DEF Tidy, Alike, Closed, Stored
<1> QED BY <1>1, <1>2, <1>3, <1>4 DEF Tidy

\* What Stocked and Closed look at.
SameStock(s, t) ==
  /\ t.store = s.store /\ t.batches = s.batches /\ t.buffer = s.buffer
  /\ t.rx_loopback = s.rx_loopback /\ t.pending = s.pending
  /\ t.tx_commit = s.tx_commit /\ t.sent = s.sent

LEMMA StockKept ==
  ASSUME NEW s, NEW t, SameStock(s, t)
  PROVE  (Stocked(s) => Stocked(t)) /\ (Closed(s) => Closed(t))
BY DEF SameStock, Stocked, Closed, Stored

-----------------------------------------------------------------------------
(* The aggregator. *)

\* Fewer votes or timeouts are no quorum if more were none.
LEMMA NoQuorumOfFewer ==
  ASSUME NEW V \in SUBSET Vote, NEW W \in SUBSET Vote, V \subseteq W, NEW b,
         ~ HasQuorumFor(W, b)
  PROVE  ~ HasQuorumFor(V, b)
BY VotesGrow

LEMMA NoQuorumOfFewerTimeouts ==
  ASSUME NEW V \in SUBSET Timeout, NEW W \in SUBSET Timeout, V \subseteq W, NEW r,
         ~ HasQuorumIn(W, r)
  PROVE  ~ HasQuorumIn(V, r)
<1> SUFFICES ASSUME HasQuorumIn(V, r) PROVE HasQuorumIn(W, r)
  OBVIOUS
<1> DEFINE A(X) == {t.author : t \in {u \in X : u.round = r}}
<1>1. A(V) \in SUBSET Authorities /\ A(W) \in SUBSET Authorities
  BY DEF Timeout
<1>2. A(V) \subseteq A(W)
  OBVIOUS
<1>3. IsQuorum(A(V))
  BY DEF HasQuorumIn
<1> HIDE DEF A
<1>4. IsQuorum(A(W))
  BY <1>1, <1>2, <1>3, QuorumGrows
<1> QED BY <1>4 DEF HasQuorumIn, A

\* A vote for another block, or a timeout of another round, makes no quorum.
LEMMA NoQuorumOfOthers ==
  ASSUME NEW V, NEW v, NEW b, v.block # b, ~ HasQuorumFor(V, b)
  PROVE  ~ HasQuorumFor(V \cup {v}, b)
<1>1. {w \in V \cup {v} : w.block = b} = {w \in V : w.block = b}
  OBVIOUS
<1> QED BY <1>1 DEF HasQuorumFor

LEMMA NoQuorumOfOtherTimeouts ==
  ASSUME NEW T, NEW t, NEW r, t.round # r, ~ HasQuorumIn(T, r)
  PROVE  ~ HasQuorumIn(T \cup {t}, r)
<1>1. {u \in T \cup {t} : u.round = r} = {u \in T : u.round = r}
  OBVIOUS
<1> QED BY <1>1 DEF HasQuorumIn

\* A quorum at most for one block or round, which is cleaned up at once.
AlmostClean(s, r) ==
  /\ \A v \in s.votes :
       Round(v.block) > r => Round(v.block) >= s.round /\ ~ HasQuorumFor(s.votes, v.block)
  /\ \A t \in s.timeouts :
       t.round > r => t.round >= s.round /\ ~ HasQuorumIn(s.timeouts, t.round)

LEMMA advance_roundFields ==
  ASSUME NEW s \in CoreState, NEW r \in Nat
  PROVE  LET t == advance_round(s, r)
         IN  /\ SameStock(s, t) /\ t.high_qc = s.high_qc
             /\ t.last_voted_round = s.last_voted_round
             /\ t.last_committed_round = s.last_committed_round
             /\ \/ r < s.round /\ t = s
                \/ /\ r >= s.round /\ t.round = r + 1
                   /\ t.votes = {v \in s.votes : Round(v.block) > r}
                   /\ t.timeouts = {u \in s.timeouts : u.round > r}
<1> DEFINE V == {v \in s.votes : Round(v.block) > r}
           T == {t \in s.timeouts : t.round > r}
<1>1. advance_round(s, r) =
        IF r < s.round THEN s
        ELSE [s EXCEPT !.round = r + 1, !.votes = V, !.timeouts = T]
  BY DEF advance_round
<1>2. s.round \in Nat
  BY DEF CoreState
<1> HIDE DEF V, T
<1>3. CASE r < s.round
  BY <1>1, <1>3 DEF SameStock
<1>4. CASE ~ (r < s.round)
  <2>1. advance_round(s, r) = [s EXCEPT !.round = r + 1, !.votes = V, !.timeouts = T]
    BY <1>1, <1>4
  <2>2. r >= s.round
    BY <1>2, <1>4
  <2> QED BY <2>1, <2>2 DEF CoreState, SameStock, V, T
<1> QED BY <1>3, <1>4

\* advance_round leaves the aggregator clean, if what it held in excess is of
\* rounds up to r.
LEMMA advance_roundKeeps ==
  ASSUME NEW s \in CoreState, NEW r \in Nat, Stocked(s), Closed(s),
         Clean(s) \/ (r >= s.round /\ AlmostClean(s, r))
  PROVE  LET t == advance_round(s, r)
         IN  Tidy(t) /\ Advances(s, t)
<1> DEFINE t == advance_round(s, r)
<1>1. /\ SameStock(s, t) /\ t.high_qc = s.high_qc
      /\ t.last_voted_round = s.last_voted_round
      /\ t.last_committed_round = s.last_committed_round
      /\ \/ r < s.round /\ t = s
         \/ /\ r >= s.round /\ t.round = r + 1
            /\ t.votes = {v \in s.votes : Round(v.block) > r}
            /\ t.timeouts = {u \in s.timeouts : u.round > r}
  BY advance_roundFields
<1>2. /\ s.round \in Nat /\ s.votes \in SUBSET Vote /\ s.timeouts \in SUBSET Timeout
      /\ \A v \in s.votes : Round(v.block) \in Nat
      /\ \A u \in s.timeouts : u.round \in Nat
  BY ParentRound DEF CoreState, Vote, Timeout
<1> HIDE DEF t
<1>3. CASE r < s.round
  <2>1. t = s /\ Clean(s)
    BY <1>1, <1>2, <1>3
  <2>2. Advances(s, s)
    BY AdvancesNot
  <2> QED BY <2>1, <2>2 DEF Tidy, t
<1>4. CASE ~ (r < s.round)
  <2>1. /\ t.round = r + 1 /\ t.votes = {v \in s.votes : Round(v.block) > r}
        /\ t.timeouts = {u \in s.timeouts : u.round > r}
    BY <1>1, <1>2, <1>4
  <2>2. ASSUME NEW v \in t.votes
        PROVE  Round(v.block) >= t.round /\ ~ HasQuorumFor(t.votes, v.block)
    <3>1. v \in s.votes /\ Round(v.block) > r
      BY <2>1
    <3>2. ~ HasQuorumFor(s.votes, v.block)
      BY <3>1 DEF Clean, AlmostClean
    <3>3. t.votes \in SUBSET Vote /\ t.votes \subseteq s.votes
      BY <1>2, <2>1
    <3> QED BY <1>2, <2>1, <3>1, <3>2, <3>3, NoQuorumOfFewer
  <2>3. ASSUME NEW u \in t.timeouts
        PROVE  u.round >= t.round /\ ~ HasQuorumIn(t.timeouts, u.round)
    <3>1. u \in s.timeouts /\ u.round > r
      BY <2>1
    <3>2. ~ HasQuorumIn(s.timeouts, u.round)
      BY <3>1 DEF Clean, AlmostClean
    <3>3. t.timeouts \in SUBSET Timeout /\ t.timeouts \subseteq s.timeouts
      BY <1>2, <2>1
    <3> QED BY <1>2, <2>1, <3>1, <3>2, <3>3, NoQuorumOfFewerTimeouts
  <2>4. Clean(t)
    BY <2>2, <2>3 DEF Clean
  <2>5. Stocked(t) /\ Closed(t)
    BY <1>1, StockKept
  <2>6. Advances(s, t)
    <3>1. t.round >= s.round
      BY <1>2, <1>4, <2>1
    <3>2. s.last_voted_round \in Nat /\ s.last_committed_round \in Nat
      BY DEF CoreState
    <3> QED BY <1>1, <3>1, <3>2 DEF Advances
  <2> QED BY <2>4, <2>5, <2>6 DEF Tidy, t
<1> QED BY <1>3, <1>4

LEMMA update_high_qcKeeps ==
  ASSUME NEW s \in CoreState, NEW qc \in Block, Tidy(s)
  PROVE  LET t == update_high_qc(s, qc)
         IN  Tidy(t) /\ Advances(s, t)
<1> DEFINE t == [s EXCEPT !.high_qc = qc]
<1>1. /\ SameStock(s, t) /\ t.high_qc = qc /\ t.round = s.round
      /\ t.votes = s.votes /\ t.timeouts = s.timeouts
      /\ t.last_voted_round = s.last_voted_round
      /\ t.last_committed_round = s.last_committed_round
  BY DEF CoreState, SameStock
<1>2. /\ s.round \in Nat /\ s.last_voted_round \in Nat /\ s.last_committed_round \in Nat
  BY DEF CoreState
<1> HIDE DEF t
<1>3. CASE Round(qc) > Round(s.high_qc)
  <2>1. update_high_qc(s, qc) = t
    BY <1>3 DEF update_high_qc, t
  <2>2. Tidy(t)
    BY <1>1, StockKept DEF Tidy, Clean
  <2>3. Advances(s, t)
    BY <1>1, <1>2, <1>3 DEF Advances
  <2> QED BY <2>1, <2>2, <2>3
<1>4. CASE ~ (Round(qc) > Round(s.high_qc))
  <2>1. update_high_qc(s, qc) = s
    BY <1>4 DEF update_high_qc
  <2> QED BY <2>1, AdvancesNot
<1> QED BY <1>3, <1>4

LEMMA process_qcKeeps ==
  ASSUME NEW s \in CoreState, NEW qc \in Block, Stocked(s), Closed(s),
         Clean(s) \/ (Round(qc) >= s.round /\ AlmostClean(s, Round(qc)))
  PROVE  LET t == process_qc(s, qc)
         IN  Tidy(t) /\ Advances(s, t)
<1> DEFINE a == advance_round(s, Round(qc))
           t == update_high_qc(a, qc)
<1>1. Round(qc) \in Nat /\ a \in CoreState /\ Tidy(a) /\ Advances(s, a)
  BY ParentRound, advance_roundType, advance_roundKeeps
<1>2. t = process_qc(s, qc) /\ t \in CoreState
  BY process_qcType DEF process_qc
<1> HIDE DEF a
<1>3. Tidy(t) /\ Advances(a, t)
  BY <1>1, update_high_qcKeeps
<1> HIDE DEF t
<1> QED BY <1>1, <1>2, <1>3, AdvancesOn

LEMMA ProposeIfLeaderAlike ==
  ASSUME NEW s \in CoreState, NEW n, NEW tc
  PROVE  Alike(s, ProposeIfLeader(s, n, tc))
BY DEF ProposeIfLeader, generate_proposal, CoreState, Alike

\* A step that adds one to what the node keeps and then does no harm.
LEMMA TidyThen ==
  ASSUME NEW s \in CoreState, NEW t \in CoreState, NEW u \in CoreState,
         Advances(s, t), Tidy(t), Alike(t, u)
  PROVE  Tidy(u) /\ Advances(s, u)
<1>1. Tidy(u) /\ Advances(t, u)
  BY AlikeKeeps
<1> QED BY <1>1, AdvancesOn

LEMMA ProposeIfLeaderKeeps ==
  ASSUME NEW s \in CoreState, NEW t \in CoreState, NEW n, NEW tc \in TC \cup {NoTC},
         Advances(s, t), Tidy(t)
  PROVE  LET u == ProposeIfLeader(t, n, tc)
         IN  Tidy(u) /\ Advances(s, u)
<1>1. ProposeIfLeader(t, n, tc) \in CoreState /\ Alike(t, ProposeIfLeader(t, n, tc))
  BY ProposeIfLeaderType, ProposeIfLeaderAlike
<1> QED BY <1>1, TidyThen

LEMMA handle_voteKeeps ==
  ASSUME NEW s \in CoreState, NEW n, NEW v \in Vote, Tidy(s)
  PROVE  LET t == handle_vote(s, n, v)
         IN  Tidy(t) /\ Advances(s, t)
<1> DEFINE added == [s EXCEPT !.votes = @ \cup {v}]
           moved == process_qc(added, v.block)
           t == handle_vote(s, n, v)
<1>1. /\ SameStock(s, added) /\ added.votes = s.votes \cup {v}
      /\ added.timeouts = s.timeouts /\ added.round = s.round
      /\ added.last_voted_round = s.last_voted_round
      /\ added.last_committed_round = s.last_committed_round
      /\ added.high_qc = s.high_qc
  BY DEF CoreState, SameStock
<1>2. added \in CoreState
  BY Zenon DEF CoreState
<1>3. /\ v.block \in Block /\ Round(v.block) \in Nat /\ s.round \in Nat
      /\ s.votes \in SUBSET Vote
      /\ \A w \in s.votes : w.block \in Block /\ Round(w.block) \in Nat
  BY ParentRound DEF CoreState, Vote
<1>4. t = IF Round(v.block) < s.round \/ v \in s.votes THEN s
          ELSE IF HasQuorumFor(added.votes, v.block)
               THEN ProposeIfLeader(moved, n, NoTC)
               ELSE added
  BY Zenon DEF handle_vote
<1>5. Stocked(added) /\ Closed(added) /\ Advances(s, added)
  BY <1>1, StockKept, AdvancesNot DEF Tidy
<1> HIDE DEF added, t
<1>6. CASE Round(v.block) < s.round \/ v \in s.votes
  BY <1>4, <1>6, AdvancesNot DEF t
<1>7. ASSUME ~ (Round(v.block) < s.round \/ v \in s.votes), NEW w \in added.votes,
             w.block # v.block
      PROVE  Round(w.block) >= added.round /\ ~ HasQuorumFor(added.votes, w.block)
  <2>1. w \in s.votes
    BY <1>1, <1>7
  <2>2. Round(w.block) >= s.round /\ ~ HasQuorumFor(s.votes, w.block)
    BY <2>1 DEF Tidy, Clean
  <2> QED BY <1>1, <1>7, <2>2, NoQuorumOfOthers
<1>8. CASE /\ ~ (Round(v.block) < s.round \/ v \in s.votes)
           /\ HasQuorumFor(added.votes, v.block)
  <2>1. AlmostClean(added, Round(v.block))
    <3>1. ASSUME NEW w \in added.votes, Round(w.block) > Round(v.block)
          PROVE  Round(w.block) >= added.round /\ ~ HasQuorumFor(added.votes, w.block)
      <4>1. w.block # v.block
        BY <1>3, <3>1
      <4> QED BY <1>7, <1>8, <4>1
    <3>2. ASSUME NEW u \in added.timeouts
          PROVE  u.round >= added.round /\ ~ HasQuorumIn(added.timeouts, u.round)
      BY <1>1 DEF Tidy, Clean
    <3> QED BY <3>1, <3>2 DEF AlmostClean
  <2>2. Round(v.block) >= added.round
    BY <1>1, <1>3, <1>8
  <2>3. moved \in CoreState /\ Tidy(moved) /\ Advances(added, moved)
    BY <1>2, <1>3, <1>5, <2>1, <2>2, process_qcKeeps, process_qcType
  <2>4. Advances(s, moved)
    BY <1>2, <1>5, <2>3, AdvancesOn
  <2>5. t = ProposeIfLeader(moved, n, NoTC)
    BY <1>4, <1>8
  <2> HIDE DEF moved
  <2> QED BY <2>3, <2>4, <2>5, ProposeIfLeaderKeeps DEF t
<1>9. CASE /\ ~ (Round(v.block) < s.round \/ v \in s.votes)
           /\ ~ HasQuorumFor(added.votes, v.block)
  <2>1. ASSUME NEW w \in added.votes
        PROVE  Round(w.block) >= added.round /\ ~ HasQuorumFor(added.votes, w.block)
    <3>1. CASE w.block = v.block
      BY <1>1, <1>3, <1>9, <3>1
    <3>2. CASE w.block # v.block
      BY <1>7, <1>9, <3>2
    <3> QED BY <3>1, <3>2
  <2>2. ASSUME NEW u \in added.timeouts
        PROVE  u.round >= added.round /\ ~ HasQuorumIn(added.timeouts, u.round)
    BY <1>1 DEF Tidy, Clean
  <2>3. Clean(added)
    BY <2>1, <2>2 DEF Clean
  <2>4. t = added
    BY <1>4, <1>9
  <2> QED BY <1>5, <2>3, <2>4 DEF Tidy, t
<1> QED BY <1>6, <1>8, <1>9

LEMMA SendAlike ==
  ASSUME NEW s \in CoreState, NEW m \in Proposal \cup Timeout \cup TCMsg
  PROVE  Alike(s, Send(s, m))
<1>1. m \notin Vote
  BY DEF Proposal, Timeout, TCMsg, Vote
<1> QED BY <1>1 DEF Send, CoreState, Alike

LEMMA add_timeoutKeeps ==
  ASSUME NEW s \in CoreState, NEW n \in Authorities, NEW t \in Timeout, Tidy(s),
         t.round >= s.round
  PROVE  LET u == add_timeout(s, n, t)
         IN  Tidy(u) /\ Advances(s, u)
<1> DEFINE added == [s EXCEPT !.timeouts = @ \cup {t}]
           tc    == MakeTC(added.timeouts, t.round)
           moved == advance_round(added, tc.round)
           m     == [type |-> "TC", author |-> n, tc |-> tc]
           sent  == Send(moved, m)
           u     == add_timeout(s, n, t)
<1>1. /\ SameStock(s, added) /\ added.timeouts = s.timeouts \cup {t}
      /\ added.votes = s.votes /\ added.round = s.round
      /\ added.last_voted_round = s.last_voted_round
      /\ added.last_committed_round = s.last_committed_round
      /\ added.high_qc = s.high_qc
  BY DEF CoreState, SameStock
<1>2. added \in CoreState
  BY Zenon DEF CoreState
<1>3. /\ t.round \in Nat /\ s.round \in Nat
      /\ \A w \in s.timeouts : w.round \in Nat
  BY DEF CoreState, Timeout
<1>4. u = IF \E w \in s.timeouts : w.round = t.round /\ w.author = t.author THEN s
          ELSE IF HasQuorumIn(added.timeouts, t.round)
               THEN ProposeIfLeader(sent, n, tc)
               ELSE added
  BY Zenon DEF add_timeout
<1>5. Stocked(added) /\ Closed(added) /\ Advances(s, added)
  BY <1>1, StockKept, AdvancesNot DEF Tidy
<1>6. tc \in TC /\ tc.round = t.round
  <2>1. \A w \in added.timeouts : w.high_qc \in Block
    BY <1>2 DEF CoreState, Timeout
  <2>2. \A w \in added.timeouts : Round(w.high_qc) \in Nat
    BY <2>1, ParentRound
  <2> HIDE DEF added
  <2> QED BY <1>3, <2>2 DEF MakeTC, TC
<1> HIDE DEF added, tc, u
<1>7. CASE \E w \in s.timeouts : w.round = t.round /\ w.author = t.author
  BY <1>4, <1>7, AdvancesNot DEF u
<1>8. ASSUME NEW w \in added.timeouts, w.round # t.round
      PROVE  w.round >= added.round /\ ~ HasQuorumIn(added.timeouts, w.round)
  <2>1. w \in s.timeouts
    BY <1>1, <1>8
  <2>2. w.round >= s.round /\ ~ HasQuorumIn(s.timeouts, w.round)
    BY <2>1 DEF Tidy, Clean
  <2> QED BY <1>1, <1>8, <2>2, NoQuorumOfOtherTimeouts
<1>9. ASSUME NEW v \in added.votes
      PROVE  Round(v.block) >= added.round /\ ~ HasQuorumFor(added.votes, v.block)
  BY <1>1 DEF Tidy, Clean
<1>10. CASE /\ ~ \E w \in s.timeouts : w.round = t.round /\ w.author = t.author
            /\ HasQuorumIn(added.timeouts, t.round)
  <2>1. AlmostClean(added, t.round)
    <3>1. ASSUME NEW w \in added.timeouts, w.round > t.round
          PROVE  w.round >= added.round /\ ~ HasQuorumIn(added.timeouts, w.round)
      <4>1. w.round # t.round
        BY <1>3, <3>1
      <4> QED BY <1>8, <4>1
    <3> QED BY <1>9, <3>1 DEF AlmostClean
  <2>2. t.round >= added.round
    BY <1>1
  <2>3. moved \in CoreState /\ Tidy(moved) /\ Advances(added, moved)
    BY <1>2, <1>3, <1>5, <1>6, <2>1, <2>2, advance_roundKeeps, advance_roundType
  <2>4. Advances(s, moved)
    BY <1>2, <1>5, <2>3, AdvancesOn
  <2>5. m \in TCMsg
    BY <1>6 DEF TCMsg
  <2>6. u = ProposeIfLeader(sent, n, tc)
    BY <1>4, <1>10
  <2> HIDE DEF moved, m
  <2>7. sent \in CoreState /\ Alike(moved, sent)
    BY <2>3, <2>5, SendType, SendAlike DEF Message
  <2> HIDE DEF sent
  <2>8. Tidy(sent) /\ Advances(s, sent)
    BY <2>3, <2>4, <2>7, TidyThen
  <2> QED BY <1>6, <2>6, <2>7, <2>8, ProposeIfLeaderKeeps DEF u
<1>11. CASE /\ ~ \E w \in s.timeouts : w.round = t.round /\ w.author = t.author
            /\ ~ HasQuorumIn(added.timeouts, t.round)
  <2>1. ASSUME NEW w \in added.timeouts
        PROVE  w.round >= added.round /\ ~ HasQuorumIn(added.timeouts, w.round)
    <3>1. CASE w.round = t.round
      BY <1>1, <1>11, <3>1
    <3>2. CASE w.round # t.round
      BY <1>8, <3>2
    <3> QED BY <3>1, <3>2
  <2>2. Clean(added)
    BY <1>9, <2>1 DEF Clean
  <2>3. u = added
    BY <1>4, <1>11
  <2> QED BY <1>5, <2>2, <2>3 DEF Tidy, u
<1> QED BY <1>7, <1>10, <1>11

LEMMA process_qcCleanKeeps ==
  ASSUME NEW s \in CoreState, NEW qc \in Block, Tidy(s)
  PROVE  LET t == process_qc(s, qc)
         IN  t \in CoreState /\ Tidy(t) /\ Advances(s, t)
BY process_qcKeeps, process_qcType DEF Tidy

LEMMA advance_roundCleanKeeps ==
  ASSUME NEW s \in CoreState, NEW r \in Nat, Tidy(s)
  PROVE  LET t == advance_round(s, r)
         IN  t \in CoreState /\ Tidy(t) /\ Advances(s, t)
BY advance_roundKeeps, advance_roundType DEF Tidy

\* A timeout's QC is of an earlier round (SoundTimeout), so taking it in leaves
\* the node at or before the timeout's round.
LEMMA handle_timeoutKeeps ==
  ASSUME NEW s \in CoreState, NEW n \in Authorities, NEW t \in Timeout, Tidy(s),
         Round(t.high_qc) < t.round
  PROVE  LET u == handle_timeout(s, n, t)
         IN  Tidy(u) /\ Advances(s, u)
<1> DEFINE moved == process_qc(s, t.high_qc)
           a == advance_round(s, Round(t.high_qc))
           u == add_timeout(moved, n, t)
<1>1. /\ t.high_qc \in Block /\ Round(t.high_qc) \in Nat
      /\ t.round \in Nat /\ s.round \in Nat
  BY ParentRound DEF Timeout, CoreState
<1>2. moved \in CoreState /\ Tidy(moved) /\ Advances(s, moved)
  BY <1>1, process_qcCleanKeeps
<1>3. CASE t.round < s.round
  <2>1. handle_timeout(s, n, t) = s
    BY <1>3 DEF handle_timeout
  <2> QED BY <2>1, AdvancesNot
<1>4. CASE ~ (t.round < s.round)
  <2>1. handle_timeout(s, n, t) = u
    BY <1>4 DEF handle_timeout
  <2>2. moved.round = a.round
    <3>1. a \in CoreState
      BY <1>1, advance_roundType
    <3> HIDE DEF a
    <3>2. update_high_qc(a, t.high_qc).round = a.round
      BY <3>1 DEF update_high_qc, CoreState
    <3> QED BY <3>2 DEF process_qc, a
  <2>3. a.round = s.round \/ a.round = Round(t.high_qc) + 1
    BY <1>1, advance_roundFields
  <2>4. t.round >= moved.round
    BY <1>1, <1>4, <2>2, <2>3
  <2>5. u \in CoreState
    BY <1>2, add_timeoutType
  <2> HIDE DEF moved
  <2>6. Tidy(u) /\ Advances(moved, u)
    BY <1>2, <2>4, add_timeoutKeeps
  <2> HIDE DEF u
  <2>7. Advances(s, u)
    BY <1>2, <2>5, <2>6, AdvancesOn
  <2> QED BY <2>1, <2>6, <2>7
<1> QED BY <1>3, <1>4

LEMMA handle_tcKeeps ==
  ASSUME NEW s \in CoreState, NEW n, NEW tc \in TC, Tidy(s)
  PROVE  LET u == handle_tc(s, n, tc)
         IN  Tidy(u) /\ Advances(s, u)
<1> DEFINE a == advance_round(s, tc.round)
<1>1. tc.round \in Nat
  BY DEF TC
<1>2. a \in CoreState /\ Tidy(a) /\ Advances(s, a)
  BY <1>1, advance_roundCleanKeeps
<1>3. handle_tc(s, n, tc) = ProposeIfLeader(a, n, tc)
  BY DEF handle_tc
<1> HIDE DEF a
<1> QED BY <1>2, <1>3, ProposeIfLeaderKeeps

LEMMA increase_last_voted_roundKeeps ==
  ASSUME NEW s \in CoreState, NEW r \in Nat, Tidy(s)
  PROVE  LET t == increase_last_voted_round(s, r)
         IN  Tidy(t) /\ Advances(s, t) /\ SameStock(s, t)
<1> DEFINE k == Max({s.last_voted_round, r})
           t == [s EXCEPT !.last_voted_round = k]
<1>1. increase_last_voted_round(s, r) = t
  BY DEF increase_last_voted_round
<1>2. t.last_voted_round >= s.last_voted_round
  BY <1>1, increase_last_voted_roundFrame
<1>3. /\ SameStock(s, t) /\ t.round = s.round /\ t.high_qc = s.high_qc
      /\ t.votes = s.votes /\ t.timeouts = s.timeouts
      /\ t.last_committed_round = s.last_committed_round
  BY DEF CoreState, SameStock
<1> HIDE DEF t
<1>4. Tidy(t)
  BY <1>3, StockKept DEF Tidy, Clean
<1>5. Advances(s, t)
  BY <1>2, <1>3 DEF Advances, CoreState
<1> QED BY <1>1, <1>3, <1>4, <1>5

LEMMA local_timeout_roundKeeps ==
  ASSUME NEW s \in CoreState, NEW n \in Authorities, Tidy(s),
         Round(s.high_qc) < s.round
  PROVE  LET u == local_timeout_round(s, n)
         IN  Tidy(u) /\ Advances(s, u)
<1> DEFINE t == [type |-> "Timeout", author |-> n, round |-> s.round,
                 high_qc |-> s.high_qc]
           a == increase_last_voted_round(s, s.round)
           b == Send(a, t)
           u == handle_timeout(b, n, t)
<1>1. t \in Timeout /\ s.round \in Nat /\ Round(t.high_qc) < t.round
  BY DEF Timeout, CoreState
<1>2. a \in CoreState /\ Tidy(a) /\ Advances(s, a)
  BY <1>1, increase_last_voted_roundKeeps, increase_last_voted_roundType
<1>3. u = local_timeout_round(s, n)
  BY DEF local_timeout_round
<1> HIDE DEF t, a
<1>4. b \in CoreState /\ Alike(a, b)
  BY <1>1, <1>2, SendType, SendAlike DEF Message
<1> HIDE DEF b
<1>5. Tidy(b) /\ Advances(s, b)
  BY <1>2, <1>4, TidyThen
<1>6. u \in CoreState /\ Tidy(u) /\ Advances(b, u)
  BY <1>1, <1>4, <1>5, handle_timeoutType, handle_timeoutKeeps
<1> HIDE DEF u
<1>7. Advances(s, u)
  BY <1>4, <1>5, <1>6, AdvancesOn
<1> QED BY <1>3, <1>6, <1>7

-----------------------------------------------------------------------------
(* What is committed, voted for and kept. *)

\* A node that has a block has all the block builds on.
LEMMA AncestorsStored ==
  ASSUME NEW s \in CoreState, Closed(s), NEW a \in Block, Stored(s, a),
         NEW b \in Block, Extends(a, b)
  PROVE  Stored(s, b)
<1> DEFINE Bad(x) == Stored(s, x) /\ Extends(x, b) /\ ~ Stored(s, b)
           S == {Round(x) : x \in {y \in Block : Bad(y)}}
<1> SUFFICES ASSUME ~ Stored(s, b) PROVE FALSE
  OBVIOUS
<1>1. Round(a) \in S /\ S \in SUBSET Nat
  BY ParentRound
<1> HIDE DEF S
<1>2. PICK r \in S : \A q \in S : r <= q
  BY <1>1, SmallestNat
<1>3. PICK x \in Block : Bad(x) /\ r = Round(x)
  BY <1>2 DEF S
<1>4. x # b
  BY <1>3
<1>5. x # Genesis /\ Extends(Parent(x), b)
  BY <1>3, <1>4, ExtendsParent
<1>6. x \in s.store
  BY <1>3, <1>5 DEF Stored
<1>7. Parent(x) \in Block /\ Stored(s, Parent(x))
  BY <1>6, ParentRound DEF Closed
<1>8. Round(Parent(x)) \in S
  BY <1>3, <1>5, <1>7 DEF S
<1>9. Round(Parent(x)) < Round(x) /\ Round(x) \in Nat /\ Round(Parent(x)) \in Nat
  BY <1>5, <1>7, ParentRound
<1> QED BY <1>2, <1>3, <1>8, <1>9

\* How many of the numbers up to k there are in a set.
LEMMA Counted ==
  ASSUME NEW k \in Nat
  PROVE  /\ Cardinality(1..k) = k
         /\ \A S \in SUBSET (1..k) :
              IsFiniteSet(S) /\ Cardinality(S) \in Nat /\ Cardinality(S) <= k
<1>1. IsFiniteSet(1..k) /\ Cardinality(1..k) = IF 1 > k THEN 0 ELSE k - 1 + 1
  BY FS_Interval
<1>2. Cardinality(1..k) = k
  <2>1. k = 0 \/ k >= 1
    OBVIOUS
  <2> QED BY <1>1, <2>1
<1>3. ASSUME NEW S \in SUBSET (1..k)
      PROVE  IsFiniteSet(S) /\ Cardinality(S) \in Nat /\ Cardinality(S) <= k
  <2>1. IsFiniteSet(S) /\ Cardinality(S) <= Cardinality(1..k)
    BY <1>1, FS_Subset
  <2>2. Cardinality(S) \in Nat
    BY <2>1, FS_CardinalityType
  <2> QED BY <1>2, <2>1, <2>2
<1> QED BY <1>2, <1>3

\* All that commit sends is the block or an ancestor of it.
LEMMA WalkStaysBelow ==
  ASSUME NEW s \in CoreState, NEW b \in Block, NEW i \in DOMAIN AncestorsToCommit(s, b)
  PROVE  LET a == AncestorsToCommit(s, b)[i]
         IN  a \in Block /\ Extends(b, a)
<1> DEFINE A == Ancestors(b)
           k == Cardinality({j \in DOMAIN A :
                  s.last_committed_round + 1 < Round((<<b>> \o A)[j])})
<1>1. A \in Seq(Block)
  BY AncestorsAssumption
<1>2. AncestorsToCommit(s, b) = SubSeq(A, 1, k)
  BY DEF AncestorsToCommit
<1>3. k \in Nat /\ k <= Len(A)
  <2>1. Len(A) \in Nat
    BY <1>1
  <2>2. {j \in DOMAIN A : s.last_committed_round + 1 < Round((<<b>> \o A)[j])}
          \in SUBSET (1..Len(A))
    BY <1>1
  <2> HIDE DEF A
  <2> QED BY <2>1, <2>2, Counted
<1> HIDE DEF k
<1>4. i \in DOMAIN A /\ SubSeq(A, 1, k)[i] = A[i]
  <2> HIDE DEF A
  <2> QED BY <1>1, <1>2, <1>3
<1> QED BY <1>2, <1>4, ExtendsAncestors

LEMMA commitKeeps ==
  ASSUME NEW s \in CoreState, NEW b \in Block, Tidy(s), Stored(s, b)
  PROVE  LET t == commit(s, b)
         IN  Tidy(t) /\ Advances(s, t)
<1> DEFINE A == AncestorsToCommit(s, b)
           out == s.tx_commit \o A \o <<b>>
           t == [s EXCEPT !.last_committed_round = Round(b), !.tx_commit = out]
<1>1. Round(b) \in Nat /\ s.last_committed_round \in Nat /\ s.tx_commit \in Seq(Block)
  BY ParentRound DEF CoreState
<1>2. CASE s.last_committed_round >= Round(b)
  <2>1. commit(s, b) = s
    BY <1>2 DEF commit
  <2> QED BY <2>1, AdvancesNot
<1>3. CASE ~ (s.last_committed_round >= Round(b))
  <2>1. commit(s, b) = t
    BY <1>3, Zenon DEF commit
  <2>2. /\ t.store = s.store /\ t.batches = s.batches /\ t.buffer = s.buffer
        /\ t.rx_loopback = s.rx_loopback /\ t.pending = s.pending
        /\ t.sent = s.sent /\ t.votes = s.votes /\ t.timeouts = s.timeouts
        /\ t.round = s.round /\ t.high_qc = s.high_qc
        /\ t.last_voted_round = s.last_voted_round
        /\ t.last_committed_round = Round(b) /\ t.tx_commit = out
    BY DEF CoreState
  <2>3. A \in Seq(Block) /\ \A i \in DOMAIN A : Stored(s, A[i])
    <3>1. A \in Seq(Block) /\ \A i \in DOMAIN A : A[i] \in Block /\ Extends(b, A[i])
      BY AncestorsToCommitType, WalkStaysBelow
    <3> HIDE DEF A
    <3> QED BY <3>1, AncestorsStored DEF Tidy
  <2> HIDE DEF A
  <2>4. \A i \in DOMAIN out : \/ Stored(s, out[i])
                              \/ \E j \in DOMAIN s.tx_commit : out[i] = s.tx_commit[j]
    <3> DEFINE q == s.tx_commit \o A
    <3>1. q \in Seq(Block) /\ <<b>> \in Seq(Block) /\ Len(<<b>>) = 1 /\ <<b>>[1] = b
      BY <1>1, <2>3
    <3>2. \A i \in 1..Len(q) : \/ Stored(s, q[i])
                               \/ \E j \in DOMAIN s.tx_commit : q[i] = s.tx_commit[j]
      <4> TAKE i \in 1..Len(q)
      <4>1. CASE i \in 1..Len(s.tx_commit)
        BY <1>1, <2>3, <4>1, Concatenated
      <4>2. CASE i - Len(s.tx_commit) \in 1..Len(A)
        <5>1. q[Len(s.tx_commit) + (i - Len(s.tx_commit))] = A[i - Len(s.tx_commit)]
          BY <1>1, <2>3, <4>2, Concatenated
        <5>2. Len(s.tx_commit) + (i - Len(s.tx_commit)) = i
          BY <1>1
        <5>3. i - Len(s.tx_commit) \in DOMAIN A
          BY <2>3, <4>2
        <5> QED BY <2>3, <5>1, <5>2, <5>3
      <4> QED BY <1>1, <2>3, <4>1, <4>2, Concatenated
    <3>3. out = q \o <<b>>
      OBVIOUS
    <3> HIDE DEF q, out
    <3>4. /\ out \in Seq(Block) /\ Len(out) = Len(q) + 1 /\ Len(q) \in Nat
          /\ out[Len(q) + 1] = b
          /\ \A i \in 1..Len(q) : out[i] = q[i]
      <4>1. 1 \in 1..Len(<<b>>)
        BY <3>1
      <4>2. out \in Seq(Block) /\ Len(out) = Len(q) + Len(<<b>>) /\ Len(q) \in Nat
        BY <3>1, <3>3, Concatenated
      <4>3. out[Len(q) + 1] = <<b>>[1]
        BY <3>1, <3>3, <4>1, Concatenated
      <4>4. \A i \in 1..Len(q) : out[i] = q[i]
        BY <3>1, <3>3, Concatenated
      <4> QED BY <3>1, <4>2, <4>3, <4>4
    <3>5. DOMAIN out = 1..(Len(q) + 1)
      BY <3>4
    <3>6. \A i \in DOMAIN out : i = Len(q) + 1 \/ i \in 1..Len(q)
      BY <3>4, <3>5
    <3> QED BY <3>2, <3>4, <3>6
  <2> HIDE DEF t, out
  <2>5. \A c : Stored(s, c) => Payload(c) \subseteq s.batches
    BY BlockAssumption DEF Tidy, Stocked, Stored
  <2>6. Stocked(t)
    <3>1. \A i \in DOMAIN t.tx_commit : Payload(t.tx_commit[i]) \subseteq t.batches
      BY <2>2, <2>4, <2>5 DEF Tidy, Stocked
    <3> QED BY <2>2, <3>1 DEF Tidy, Stocked
  <2>7. Clean(t) /\ Closed(t)
    BY <2>2 DEF Tidy, Clean, Closed, Stored
  <2>8. Advances(s, t)
    BY <1>1, <1>3, <2>2 DEF Advances, CoreState
  <2> QED BY <2>1, <2>6, <2>7, <2>8 DEF Tidy
<1> QED BY <1>2, <1>3

LEMMA make_voteKeeps ==
  ASSUME NEW s \in CoreState, NEW n \in Authorities, NEW p \in Proposal, Tidy(s),
         Payload(p.block) \subseteq s.batches
  PROVE  LET t == make_vote(s, n, p)
         IN  Tidy(t) /\ Advances(s, t)
<1> DEFINE b == p.block
           v == [type |-> "Vote", author |-> n, block |-> b]
           a == increase_last_voted_round(s, Round(b))
           voted == Send(a, v)
           t == make_vote(s, n, p)
<1>1. b \in Block /\ Round(b) \in Nat /\ v \in Vote
  BY ParentRound DEF Proposal, Vote
<1>2. a \in CoreState /\ Tidy(a) /\ Advances(s, a) /\ SameStock(s, a)
  BY <1>1, increase_last_voted_roundKeeps, increase_last_voted_roundType
<1>3. \/ t = s
      \/ t = voted
      \/ t = handle_vote(voted, n, v)
  BY DEF make_vote, vote
<1> HIDE DEF t
<1>4. v.block = b
  OBVIOUS
<1> HIDE DEF a, v
<1>5. /\ voted \in CoreState /\ voted.sent = a.sent \cup {v} /\ voted.votes = a.votes
      /\ voted.timeouts = a.timeouts /\ voted.round = a.round
      /\ voted.high_qc = a.high_qc /\ voted.store = a.store
      /\ voted.last_voted_round = a.last_voted_round
      /\ voted.last_committed_round = a.last_committed_round
      /\ voted.batches = a.batches /\ voted.buffer = a.buffer
      /\ voted.rx_loopback = a.rx_loopback /\ voted.pending = a.pending
      /\ voted.tx_commit = a.tx_commit
  <2>1. voted \in CoreState
    BY <1>1, <1>2, SendType DEF Message
  <2> QED BY <1>2, <2>1 DEF Send, CoreState
<1> HIDE DEF voted
<1>6. Stocked(voted)
  <2>1. Payload(v.block) \subseteq a.batches
    BY <1>2, <1>4 DEF SameStock
  <2> QED BY <1>2, <1>5, <2>1 DEF Tidy, Stocked
<1>7. Clean(voted) /\ Closed(voted)
  BY <1>2, <1>5 DEF Tidy, Clean, Closed, Stored
<1>8. Tidy(voted) /\ Advances(s, voted)
  <2>1. Advances(a, voted)
    BY <1>2, <1>5, AdvancesNot
  <2> QED BY <1>2, <1>5, <1>6, <1>7, <2>1, AdvancesOn DEF Tidy
<1>9. CASE t = handle_vote(voted, n, v)
  <2>1. t \in CoreState /\ Tidy(t) /\ Advances(voted, t)
    BY <1>1, <1>5, <1>8, <1>9, handle_voteKeeps, handle_voteType
  <2>2. Advances(s, t)
    BY <1>5, <1>8, <2>1, AdvancesOn
  <2> QED BY <2>1, <2>2 DEF t
<1>10. CASE t = voted
  BY <1>8, <1>10 DEF t
<1>11. CASE t = s
  BY <1>11, AdvancesNot DEF t
<1> QED BY <1>3, <1>9, <1>10, <1>11

LEMMA suspendKeeps ==
  ASSUME NEW s \in CoreState, NEW p \in Proposal, Tidy(s),
         Payload(p.block) \subseteq s.batches
  PROVE  LET t == suspend(s, p)
         IN  Tidy(t) /\ Advances(s, t)
<1> DEFINE t == [s EXCEPT !.pending = @ \cup {p}]
<1>1. /\ t.pending = s.pending \cup {p} /\ t.round = s.round
      /\ t.high_qc = s.high_qc /\ t.votes = s.votes /\ t.timeouts = s.timeouts
      /\ t.last_voted_round = s.last_voted_round
      /\ t.last_committed_round = s.last_committed_round
      /\ t.store = s.store /\ t.batches = s.batches /\ t.buffer = s.buffer
      /\ t.rx_loopback = s.rx_loopback /\ t.tx_commit = s.tx_commit
      /\ t.sent = s.sent
  BY DEF CoreState
<1>2. suspend(s, p) = s \/ suspend(s, p) = t
  BY DEF suspend
<1> HIDE DEF t
<1>3. Stocked(t)
  BY <1>1 DEF Tidy, Stocked
<1>4. Clean(t) /\ Closed(t) /\ Advances(s, t) /\ Advances(s, s)
  BY <1>1, AdvancesNot DEF Tidy, Clean, Closed, Stored
<1> QED BY <1>2, <1>3, <1>4 DEF Tidy

LEMMA CleanupsAlike ==
  ASSUME NEW s \in CoreState, NEW digests \in SUBSET Digest, NEW r
  PROVE  Alike(s, cleanup_proposer(s, digests)) /\ Alike(s, cleanup_payload(s, r))
<1>1. Alike(s, cleanup_proposer(s, digests))
  BY DEF cleanup_proposer, CoreState, Alike
<1>2. Alike(s, cleanup_payload(s, r))
  BY DEF cleanup_payload, CoreState, Alike
<1> QED BY <1>1, <1>2

LEMMA process_blockKeeps ==
  ASSUME NEW s \in CoreState, NEW n \in Authorities, NEW p \in Proposal, Tidy(s),
         Payload(p.block) \subseteq s.batches
  PROVE  LET t == process_block(s, n, p)
         IN  Tidy(t) /\ Advances(s, t)
<1> DEFINE b       == p.block
           b1      == Parent(b)
           b0      == Parent(b1)
           digests == Payload(b0) \cup Payload(b1) \cup Payload(b)
           stored  == [s EXCEPT !.store = @ \cup {b}]
           cleaned == cleanup_proposer(stored, digests)
           kept    == cleanup_payload(cleaned, Round(b0))
           decided == IF Round(b0) + 1 = Round(b1) THEN commit(kept, b0) ELSE cleaned
           t       == make_vote(decided, n, p)
<1>1. /\ b \in Block /\ b1 \in Block /\ b0 \in Block
      /\ Round(b0) \in Nat /\ digests \in SUBSET Digest
  BY BlockAssumption DEF Proposal
<1>2. process_block(s, n, p) = IF Stored(s, b1) THEN t ELSE suspend(s, p)
  BY DEF process_block
<1>3. CASE ~ Stored(s, b1)
  BY <1>2, <1>3, suspendKeeps
<1>4. CASE Stored(s, b1)
  <2>1. stored \in CoreState
    BY <1>1, Zenon DEF CoreState
  <2>2. /\ stored.store = s.store \cup {b} /\ stored.round = s.round
        /\ stored.high_qc = s.high_qc /\ stored.votes = s.votes
        /\ stored.timeouts = s.timeouts /\ stored.pending = s.pending
        /\ stored.last_voted_round = s.last_voted_round
        /\ stored.last_committed_round = s.last_committed_round
        /\ stored.batches = s.batches /\ stored.buffer = s.buffer
        /\ stored.rx_loopback = s.rx_loopback /\ stored.tx_commit = s.tx_commit
        /\ stored.sent = s.sent
    BY DEF CoreState
  <2> HIDE DEF stored
  <2>3. Stocked(stored)
    BY <2>2 DEF Tidy, Stocked
  <2>4. Closed(stored)
    BY <1>4, <2>2 DEF Tidy, Closed, Stored
  <2>5. Clean(stored) /\ Advances(s, stored)
    BY <2>2, AdvancesNot DEF Tidy, Clean
  <2>6. Stored(stored, b0) /\ Payload(b) \subseteq stored.batches
    <3>1. CASE b1 = Genesis
      BY <2>2, <3>1, BlockAssumption DEF Stored
    <3>2. CASE b1 # Genesis
      BY <1>4, <2>2, <3>2 DEF Tidy, Closed, Stored
    <3> QED BY <3>1, <3>2
  <2>7. cleaned \in CoreState /\ Alike(stored, cleaned)
    BY <1>1, <2>1, cleanup_proposerType, CleanupsAlike
  <2> HIDE DEF digests, cleaned
  <2>8. Tidy(cleaned) /\ Advances(s, cleaned)
    BY <2>1, <2>3, <2>4, <2>5, <2>7, TidyThen DEF Tidy
  <2>9. kept \in CoreState /\ Alike(cleaned, kept)
    BY <1>1, <2>7, cleanup_payloadType, CleanupsAlike
  <2> HIDE DEF kept
  <2>10. Tidy(kept) /\ Advances(s, kept)
    BY <2>7, <2>8, <2>9, TidyThen
  <2>11. kept.store = stored.store /\ kept.batches = stored.batches
         /\ cleaned.batches = stored.batches
    BY <2>7, <2>9 DEF Alike
  <2>12. Stored(kept, b0)
    BY <2>6, <2>11 DEF Stored
  <2>13. /\ commit(kept, b0) \in CoreState /\ Tidy(commit(kept, b0))
         /\ Advances(kept, commit(kept, b0))
    BY <1>1, <2>9, <2>10, <2>12, commitKeeps, commitType
  <2>14. Advances(s, commit(kept, b0))
    BY <2>9, <2>10, <2>13, AdvancesOn
  <2>15. commit(kept, b0).batches = kept.batches
    BY <2>9 DEF commit, CoreState
  <2>16. /\ decided \in CoreState /\ Tidy(decided) /\ Advances(s, decided)
         /\ decided.batches = stored.batches
    BY <2>7, <2>8, <2>11, <2>13, <2>14, <2>15
  <2> HIDE DEF decided
  <2>17. t \in CoreState /\ Tidy(t) /\ Advances(decided, t)
    BY <2>6, <2>16, make_voteKeeps, make_voteType
  <2> HIDE DEF t
  <2>18. Advances(s, t)
    BY <2>16, <2>17, AdvancesOn
  <2> QED BY <1>2, <1>4, <2>17, <2>18
<1> QED BY <1>3, <1>4

LEMMA verify_payloadKeeps ==
  ASSUME NEW s \in CoreState, NEW n \in Authorities, NEW p \in Proposal, Tidy(s)
  PROVE  LET t == verify_payload(s, n, p)
         IN  Tidy(t) /\ Advances(s, t)
<1> DEFINE w == [s EXCEPT !.waiting = @ \cup {p}]
<1>1. Alike(s, w) /\ Advances(s, s)
  BY AdvancesNot DEF Alike, CoreState
<1>2. CASE Payload(p.block) \subseteq s.batches
  BY <1>2, process_blockKeeps DEF verify_payload
<1>3. CASE ~ (Payload(p.block) \subseteq s.batches)
  <2>1. verify_payload(s, n, p) = s \/ verify_payload(s, n, p) = w
    BY <1>3 DEF verify_payload
  <2> HIDE DEF w
  <2> QED BY <1>1, <2>1, AlikeKeeps
<1> QED BY <1>2, <1>3

LEMMA handle_proposalKeeps ==
  ASSUME NEW s \in CoreState, NEW n \in Authorities, NEW p \in Proposal, Tidy(s)
  PROVE  LET t == handle_proposal(s, n, p)
         IN  Tidy(t) /\ Advances(s, t)
<1> DEFINE moved == process_qc(s, Parent(p.block))
           later == IF p.tc = NoTC THEN moved ELSE advance_round(moved, p.tc.round)
           t     == verify_payload(later, n, p)
<1>1. /\ Parent(p.block) \in Block
      /\ p.tc # NoTC => p.tc.round \in Nat
  BY ParentRound DEF Proposal, TC
<1>2. handle_proposal(s, n, p) = s \/ handle_proposal(s, n, p) = t
  BY DEF handle_proposal
<1>3. moved \in CoreState /\ Tidy(moved) /\ Advances(s, moved)
  BY <1>1, process_qcCleanKeeps
<1> HIDE DEF moved
<1>4. later \in CoreState /\ Tidy(later) /\ Advances(s, later)
  <2>1. CASE p.tc = NoTC
    BY <1>3, <2>1
  <2>2. CASE p.tc # NoTC
    <3> DEFINE a == advance_round(moved, p.tc.round)
    <3>1. a \in CoreState /\ Tidy(a) /\ Advances(moved, a)
      BY <1>1, <1>3, <2>2, advance_roundCleanKeeps
    <3>2. later = a
      BY <2>2
    <3> HIDE DEF a, later
    <3> QED BY <1>3, <3>1, <3>2, AdvancesOn
  <2> QED BY <2>1, <2>2
<1> HIDE DEF later
<1>5. t \in CoreState /\ Tidy(t) /\ Advances(later, t)
  BY <1>4, verify_payloadKeeps, verify_payloadType
<1> HIDE DEF t
<1>6. Advances(s, t)
  BY <1>3, <1>4, <1>5, AdvancesOn
<1> QED BY <1>2, <1>5, <1>6, AdvancesNot

LEMMA MakeBlockKeeps ==
  ASSUME NEW s \in CoreState, NEW n \in Authorities, NEW m \in Make,
         NEW b \in Block, Payload(b) = s.buffer, Tidy(s)
  PROVE  LET t == MakeBlock(s, n, m, b)
         IN  Tidy(t) /\ Advances(s, t)
<1> DEFINE p == [type |-> "Propose", author |-> n, block |-> b, tc |-> m.tc]
           a == Send(s, p)
           t == [a EXCEPT !.buffer = {}, !.rx_loopback = @ \cup {p}]
<1>1. p \in Proposal /\ p.block = b
  BY DEF Make, Proposal
<1>2. t = MakeBlock(s, n, m, b)
  BY DEF MakeBlock
<1> HIDE DEF p
<1>3. a \in CoreState /\ Alike(s, a)
  BY <1>1, SendType, SendAlike DEF Message
<1> HIDE DEF a
<1>4. Tidy(a) /\ Advances(s, a) /\ a.buffer = s.buffer
  BY <1>3, AlikeKeeps DEF Alike
<1>5. /\ t.buffer = {} /\ t.rx_loopback = a.rx_loopback \cup {p} /\ t.round = a.round
      /\ t.high_qc = a.high_qc /\ t.votes = a.votes /\ t.timeouts = a.timeouts
      /\ t.last_voted_round = a.last_voted_round
      /\ t.last_committed_round = a.last_committed_round
      /\ t.store = a.store /\ t.batches = a.batches
      /\ t.pending = a.pending /\ t.tx_commit = a.tx_commit
      /\ t.sent = a.sent
  BY <1>3 DEF CoreState
<1>6. t \in CoreState
  BY <1>2, MakeBlockType
<1> HIDE DEF t
<1>7. Payload(p.block) \subseteq a.batches
  BY <1>1, <1>4 DEF Tidy, Stocked
<1>8. Stocked(t)
  BY <1>4, <1>5, <1>7 DEF Tidy, Stocked
<1>9. Clean(t) /\ Closed(t)
  BY <1>4, <1>5 DEF Tidy, Clean, Closed, Stored
<1>10. Advances(a, t)
  BY <1>3, <1>5, AdvancesNot
<1>11. Advances(s, t)
  BY <1>3, <1>4, <1>6, <1>10, AdvancesOn
<1> QED BY <1>2, <1>8, <1>9, <1>11 DEF Tidy

LEMMA BootTidy ==
  ASSUME NEW s \in CoreState, NEW n, Tidy(s)
  PROVE  Tidy(Boot(n, s.store, s.batches, s.sent, s.tx_commit))
<1> DEFINE t == Boot(n, s.store, s.batches, s.sent, s.tx_commit)
<1>1. /\ t.votes = {} /\ t.timeouts = {} /\ t.buffer = {} /\ t.rx_loopback = {}
      /\ t.pending = {} /\ t.store = s.store /\ t.batches = s.batches
      /\ t.sent = s.sent /\ t.tx_commit = s.tx_commit
  BY DEF Boot
<1> HIDE DEF t
<1>2. Clean(t) /\ Stocked(t) /\ Closed(t)
  BY <1>1 DEF Tidy, Clean, Stocked, Closed, Stored
<1> QED BY <1>2 DEF Tidy, t

-----------------------------------------------------------------------------
(* What a handler gives the application. *)

SameChain(s, t) ==
  t.tx_commit = s.tx_commit /\ t.last_committed_round = s.last_committed_round

\* The node commits b, a chosen block of a later round than its last one.
CommitsBlock(N, s, t, b) ==
  /\ ChosenIn(N, b) /\ Round(b) > s.last_committed_round
  /\ t.last_committed_round = Round(b)
  /\ t.tx_commit = s.tx_commit \o AncestorsToCommit(s, b) \o <<b>>

Commits(N, s, t) == SameChain(s, t) \/ \E b \in Block : CommitsBlock(N, s, t, b)

LEMMA AdvanceSameChain ==
  ASSUME NEW s \in CoreState, NEW r \in Nat
  PROVE  SameChain(s, advance_round(s, r))
BY advance_roundFields DEF SameChain, SameStock

LEMMA process_qcSameChain ==
  ASSUME NEW s \in CoreState, NEW qc \in Block
  PROVE  SameChain(s, process_qc(s, qc))
<1> DEFINE a == advance_round(s, Round(qc))
<1>1. a \in CoreState /\ SameChain(s, a)
  BY ParentRound, AdvanceSameChain, advance_roundType
<1>2. process_qc(s, qc) = update_high_qc(a, qc)
  BY DEF process_qc
<1> HIDE DEF a
<1> QED BY <1>1, <1>2 DEF update_high_qc, SameChain, CoreState

LEMMA ProposeIfLeaderSameChain ==
  ASSUME NEW s \in CoreState, NEW n, NEW tc
  PROVE  SameChain(s, ProposeIfLeader(s, n, tc))
BY ProposeIfLeaderAlike DEF SameChain, Alike

LEMMA handle_voteSameChain ==
  ASSUME NEW s \in CoreState, NEW n, NEW v \in Vote
  PROVE  SameChain(s, handle_vote(s, n, v))
<1> DEFINE added == [s EXCEPT !.votes = @ \cup {v}]
           moved == process_qc(added, v.block)
<1>1. added \in CoreState
  BY Zenon DEF CoreState
<1>2. SameChain(s, added)
  BY DEF CoreState, SameChain
<1>3. \/ handle_vote(s, n, v) = s
      \/ handle_vote(s, n, v) = added
      \/ handle_vote(s, n, v) = ProposeIfLeader(moved, n, NoTC)
  BY DEF handle_vote
<1> HIDE DEF added
<1>4. moved \in CoreState /\ SameChain(added, moved)
  BY <1>1, process_qcType, process_qcSameChain DEF Vote
<1> HIDE DEF moved
<1>5. SameChain(moved, ProposeIfLeader(moved, n, NoTC))
  BY <1>4, ProposeIfLeaderSameChain
<1> QED BY <1>2, <1>3, <1>4, <1>5 DEF SameChain

LEMMA SendSameChain ==
  ASSUME NEW s \in CoreState, NEW m
  PROVE  SameChain(s, Send(s, m))
BY DEF Send, SameChain, CoreState

LEMMA add_timeoutSameChain ==
  ASSUME NEW s \in CoreState, NEW n \in Authorities, NEW t \in Timeout
  PROVE  SameChain(s, add_timeout(s, n, t))
<1> DEFINE added == [s EXCEPT !.timeouts = @ \cup {t}]
           tc    == MakeTC(added.timeouts, t.round)
           moved == advance_round(added, tc.round)
           m     == [type |-> "TC", author |-> n, tc |-> tc]
           sent  == Send(moved, m)
<1>1. added \in CoreState
  BY Zenon DEF CoreState
<1>2. SameChain(s, added)
  BY DEF CoreState, SameChain
<1>3. tc \in TC /\ tc.round \in Nat
  <2>1. \A w \in added.timeouts : w.high_qc \in Block
    BY <1>1 DEF CoreState, Timeout
  <2>2. \A w \in added.timeouts : Round(w.high_qc) \in Nat
    BY <2>1, ParentRound
  <2>3. t.round \in Nat
    BY DEF Timeout
  <2> HIDE DEF added
  <2> QED BY <2>2, <2>3 DEF MakeTC, TC
<1>4. \/ add_timeout(s, n, t) = s
      \/ add_timeout(s, n, t) = added
      \/ add_timeout(s, n, t) = ProposeIfLeader(sent, n, tc)
  BY DEF add_timeout
<1>5. m \in TCMsg
  BY <1>3 DEF TCMsg
<1> HIDE DEF added, tc, m
<1>6. moved \in CoreState /\ SameChain(added, moved)
  BY <1>1, <1>3, advance_roundType, AdvanceSameChain
<1> HIDE DEF moved
<1>7. sent \in CoreState /\ SameChain(moved, sent)
  BY <1>5, <1>6, SendType, SendSameChain DEF Message
<1> HIDE DEF sent
<1>8. SameChain(sent, ProposeIfLeader(sent, n, tc))
  BY <1>7, ProposeIfLeaderSameChain
<1> QED BY <1>2, <1>4, <1>6, <1>7, <1>8 DEF SameChain

LEMMA handle_timeoutSameChain ==
  ASSUME NEW s \in CoreState, NEW n \in Authorities, NEW t \in Timeout
  PROVE  SameChain(s, handle_timeout(s, n, t))
<1> DEFINE a == process_qc(s, t.high_qc)
<1>1. a \in CoreState /\ SameChain(s, a)
  BY process_qcType, process_qcSameChain DEF Timeout
<1>2. handle_timeout(s, n, t) = s \/ handle_timeout(s, n, t) = add_timeout(a, n, t)
  BY DEF handle_timeout
<1> HIDE DEF a
<1>3. SameChain(a, add_timeout(a, n, t))
  BY <1>1, add_timeoutSameChain
<1> QED BY <1>1, <1>2, <1>3 DEF SameChain

LEMMA IncreaseSameChain ==
  ASSUME NEW s \in CoreState, NEW r
  PROVE  SameChain(s, increase_last_voted_round(s, r))
BY DEF increase_last_voted_round, SameChain, CoreState

LEMMA local_timeout_roundSameChain ==
  ASSUME NEW s \in CoreState, NEW n \in Authorities
  PROVE  SameChain(s, local_timeout_round(s, n))
<1> DEFINE t == [type |-> "Timeout", author |-> n, round |-> s.round,
                 high_qc |-> s.high_qc]
           a == increase_last_voted_round(s, s.round)
           b == Send(a, t)
<1>1. t \in Timeout
  BY DEF Timeout, CoreState
<1>2. a \in CoreState /\ SameChain(s, a)
  BY IncreaseSameChain, increase_last_voted_roundType DEF CoreState
<1>3. local_timeout_round(s, n) = handle_timeout(b, n, t)
  BY DEF local_timeout_round
<1> HIDE DEF t, a
<1>4. b \in CoreState /\ SameChain(a, b)
  BY <1>1, <1>2, SendType, SendSameChain DEF Message
<1> HIDE DEF b
<1>5. SameChain(b, handle_timeout(b, n, t))
  BY <1>1, <1>4, handle_timeoutSameChain
<1> QED BY <1>2, <1>3, <1>4, <1>5 DEF SameChain

LEMMA handle_tcSameChain ==
  ASSUME NEW s \in CoreState, NEW n, NEW tc \in TC
  PROVE  SameChain(s, handle_tc(s, n, tc))
<1> DEFINE a == advance_round(s, tc.round)
<1>1. a \in CoreState /\ SameChain(s, a)
  BY advance_roundType, AdvanceSameChain DEF TC
<1>2. handle_tc(s, n, tc) = ProposeIfLeader(a, n, tc)
  BY DEF handle_tc
<1> HIDE DEF a
<1> QED BY <1>1, <1>2, ProposeIfLeaderSameChain DEF SameChain

LEMMA make_voteSameChain ==
  ASSUME NEW s \in CoreState, NEW n \in Authorities, NEW p \in Proposal
  PROVE  SameChain(s, make_vote(s, n, p))
<1> DEFINE b == p.block
           v == [type |-> "Vote", author |-> n, block |-> b]
           a == increase_last_voted_round(s, Round(b))
           voted == Send(a, v)
<1>1. v \in Vote /\ Round(b) \in Nat
  BY ParentRound DEF Proposal, Vote
<1>2. a \in CoreState /\ SameChain(s, a)
  BY <1>1, IncreaseSameChain, increase_last_voted_roundType
<1>3. \/ make_vote(s, n, p) = s
      \/ make_vote(s, n, p) = voted
      \/ make_vote(s, n, p) = handle_vote(voted, n, v)
  BY DEF make_vote, vote
<1> HIDE DEF a, v
<1>4. voted \in CoreState /\ SameChain(a, voted)
  BY <1>1, <1>2, SendType, SendSameChain DEF Message
<1> HIDE DEF voted
<1>5. SameChain(voted, handle_vote(voted, n, v))
  BY <1>1, <1>4, handle_voteSameChain
<1> QED BY <1>2, <1>3, <1>4, <1>5 DEF SameChain

\* commit reads nothing but last_committed_round and tx_commit.
LEMMA commitCommits ==
  ASSUME NEW N, NEW s \in CoreState, NEW t \in CoreState, NEW b \in Block,
         SameChain(s, t), b # Genesis => ChosenIn(N, b)
  PROVE  Commits(N, s, commit(t, b))
<1> DEFINE out == t.tx_commit \o AncestorsToCommit(t, b) \o <<b>>
           u == [t EXCEPT !.last_committed_round = Round(b), !.tx_commit = out]
<1>1. /\ Round(b) \in Nat /\ t.last_committed_round \in Nat
      /\ b = Genesis => Round(b) = 0
  BY BlockAssumption DEF CoreState
<1>2. CASE t.last_committed_round >= Round(b)
  <2>1. commit(t, b) = t
    BY <1>2 DEF commit
  <2> QED BY <2>1 DEF Commits
<1>3. CASE ~ (t.last_committed_round >= Round(b))
  <2>1. commit(t, b) = u
    BY <1>3, Zenon DEF commit
  <2>2. ChosenIn(N, b) /\ Round(b) > t.last_committed_round
    BY <1>1, <1>3
  <2>3. AncestorsToCommit(t, b) = AncestorsToCommit(s, b)
    BY DEF AncestorsToCommit, SameChain
  <2>4. u.last_committed_round = Round(b) /\ u.tx_commit = out
    BY DEF CoreState
  <2>5. CommitsBlock(N, s, u, b)
    BY <2>2, <2>3, <2>4 DEF CommitsBlock, SameChain
  <2> QED BY <2>1, <2>5 DEF Commits
<1> QED BY <1>2, <1>3

LEMMA process_blockCommits ==
  ASSUME NEW N, NEW s \in CoreState, NEW n \in Authorities, NEW p \in Proposal,
         CertifiedIn(N, Parent(p.block)), SoundStore(N, s)
  PROVE  Commits(N, s, process_block(s, n, p))
<1> DEFINE b       == p.block
           b1      == Parent(b)
           b0      == Parent(b1)
           digests == Payload(b0) \cup Payload(b1) \cup Payload(b)
           stored  == [s EXCEPT !.store = @ \cup {b}]
           cleaned == cleanup_proposer(stored, digests)
           kept    == cleanup_payload(cleaned, Round(b0))
           decided == IF Round(b0) + 1 = Round(b1) THEN commit(kept, b0) ELSE cleaned
           t       == make_vote(decided, n, p)
<1>1. /\ b \in Block /\ b1 \in Block /\ b0 \in Block
      /\ digests \in SUBSET Digest
  BY BlockAssumption DEF Proposal
<1>2. process_block(s, n, p) = IF Stored(s, b1) THEN t ELSE suspend(s, p)
  BY DEF process_block
<1>3. CASE ~ Stored(s, b1)
  <2>1. SameChain(s, suspend(s, p))
    BY DEF suspend, SameChain, CoreState
  <2> QED BY <1>2, <1>3, <2>1 DEF Commits
<1>4. CASE Stored(s, b1)
  <2>1. stored \in CoreState
    BY <1>1, Zenon DEF CoreState
  <2>2. SameChain(s, stored)
    BY DEF CoreState, SameChain
  <2> HIDE DEF stored
  <2>3. cleaned \in CoreState /\ SameChain(stored, cleaned)
    BY <1>1, <2>1, cleanup_proposerType, CleanupsAlike DEF Alike, SameChain
  <2> HIDE DEF digests, cleaned
  <2>4. kept \in CoreState /\ SameChain(cleaned, kept)
    BY <1>1, <2>3, cleanup_payloadType, CleanupsAlike DEF Alike, SameChain
  <2> HIDE DEF kept
  <2>5. SameChain(s, cleaned) /\ SameChain(s, kept)
    BY <2>2, <2>3, <2>4 DEF SameChain
  <2>6. ASSUME Round(b0) + 1 = Round(b1), b0 # Genesis
        PROVE  ChosenIn(N, b0)
    <3>1. b1 # Genesis
      BY <2>6, BlockAssumption
    <3>2. CertifiedIn(N, b0)
      BY <1>4, <3>1 DEF SoundStore, Stored
    <3> QED BY <1>1, <2>6, <3>2 DEF ChosenIn
  <2>7. decided \in CoreState /\ Commits(N, s, decided)
    <3>1. CASE Round(b0) + 1 = Round(b1)
      <4>1. commit(kept, b0) \in CoreState /\ Commits(N, s, commit(kept, b0))
        BY <1>1, <2>4, <2>5, <2>6, <3>1, commitCommits, commitType
      <4> QED BY <3>1, <4>1
    <3>2. CASE Round(b0) + 1 # Round(b1)
      BY <2>3, <2>5, <3>2 DEF Commits
    <3> QED BY <3>1, <3>2
  <2> HIDE DEF decided
  <2>8. SameChain(decided, t)
    BY <2>7, make_voteSameChain
  <2> HIDE DEF t
  <2>9. Commits(N, s, t)
    BY <2>7, <2>8 DEF Commits, CommitsBlock, SameChain
  <2> QED BY <1>2, <1>4, <2>9
<1> QED BY <1>3, <1>4

LEMMA handle_proposalCommits ==
  ASSUME NEW N, NEW s \in CoreState, NEW n \in Authorities, NEW p \in Proposal,
         CertifiedIn(N, Parent(p.block)), SoundStore(N, s)
  PROVE  Commits(N, s, handle_proposal(s, n, p))
<1> DEFINE moved == process_qc(s, Parent(p.block))
           later == IF p.tc = NoTC THEN moved ELSE advance_round(moved, p.tc.round)
           t     == verify_payload(later, n, p)
           w     == [later EXCEPT !.waiting = @ \cup {p}]
<1>1. /\ Parent(p.block) \in Block
      /\ p.tc # NoTC => p.tc.round \in Nat
  BY ParentRound DEF Proposal, TC
<1>2. handle_proposal(s, n, p) = s \/ handle_proposal(s, n, p) = t
  BY DEF handle_proposal
<1>3. moved \in CoreState /\ SameChain(s, moved) /\ moved.store = s.store
  BY <1>1, process_qcType, process_qcSameChain, process_qcFrame
<1> HIDE DEF moved
<1>4. later \in CoreState /\ SameChain(s, later) /\ later.store = s.store
  <2>1. CASE p.tc = NoTC
    BY <1>3, <2>1
  <2>2. CASE p.tc # NoTC
    <3> DEFINE a == advance_round(moved, p.tc.round)
    <3>1. a \in CoreState /\ SameChain(moved, a) /\ a.store = moved.store
      BY <1>1, <1>3, <2>2, advance_roundType, AdvanceSameChain, advance_roundFrame
    <3>2. later = a
      BY <2>2
    <3> HIDE DEF a, later
    <3> QED BY <1>3, <3>1, <3>2 DEF SameChain
  <2> QED BY <2>1, <2>2
<1> HIDE DEF later
<1>5. SoundStore(N, later)
  BY <1>4 DEF SoundStore, Stored
<1>6. Commits(N, later, process_block(later, n, p))
  BY <1>4, <1>5, process_blockCommits
<1>7. SameChain(later, w)
  BY <1>4 DEF SameChain, CoreState
<1>8. t = process_block(later, n, p) \/ t = later \/ t = w
  BY DEF verify_payload
<1> HIDE DEF t, w
<1>9. \A b : AncestorsToCommit(later, b) = AncestorsToCommit(s, b)
  BY <1>4 DEF AncestorsToCommit, SameChain
<1>10. Commits(N, later, t)
  BY <1>6, <1>7, <1>8 DEF Commits, SameChain
<1>11. Commits(N, s, t)
  BY <1>4, <1>9, <1>10 DEF Commits, CommitsBlock, SameChain
<1> QED BY <1>2, <1>11 DEF Commits, SameChain

-----------------------------------------------------------------------------
(* The steps of a node. *)

\* Steps in which blocks and batches change hands between the tasks.
LEMMA HandedOn ==
  ASSUME NEW s \in CoreState, NEW t, Tidy(s),
         t.round = s.round, t.high_qc = s.high_qc, t.votes = s.votes,
         t.timeouts = s.timeouts, t.last_voted_round = s.last_voted_round,
         t.last_committed_round = s.last_committed_round, t.store = s.store,
         t.tx_commit = s.tx_commit, t.sent = s.sent, s.batches \subseteq t.batches,
         \A p \in t.rx_loopback \cup t.pending : Payload(p.block) \subseteq t.batches,
         t.buffer \subseteq t.batches
  PROVE  Tidy(t) /\ Advances(s, t) /\ SameChain(s, t)
<1>1. Stocked(t)
  BY DEF Tidy, Stocked
<1>2. Clean(t) /\ Closed(t)
  BY DEF Tidy, Clean, Closed, Stored
<1>3. Advances(s, t)
  BY AdvancesNot
<1> QED BY <1>1, <1>2, <1>3 DEF Tidy, SameChain

Moves(N, s, t) == Tidy(t) /\ Advances(s, t) /\ Commits(N, s, t)

\* Whatever a node does but restart leaves it in order, takes it forward, and
\* commits at most one chosen block with its ancestors.
LEMMA NodeMoves ==
  ASSUME Inv, NEW n \in Authorities, Tidy(core[n]),
         \/ ReceiveProposal(n) \/ ReceiveVote(n)
         \/ ReceiveTimeout(n) \/ ReceiveTC(n) \/ TimerFires(n)
         \/ ReceiveLoopback(n) \/ ParentStored(n)
         \/ PayloadStored(n) \/ ReceiveBatch(n) \/ ProposerMake(n)
         \/ ProposerCleanup(n)
  PROVE  \E s \in CoreState : Step(n, s) /\ Moves(Network, core[n], s)
<1> DEFINE c == core[n]
           N == Network
           Goal == \E s \in CoreState : Step(n, s) /\ Moves(N, c, s)
<1>c. c \in CoreState /\ SoundCore(N, n, c) /\ Tidy(c)
  BY Delivered DEF Good
<1>s. SoundStore(N, c) /\ SoundQC(N, c) /\ SoundKept(N, c)
  BY <1>c DEF SoundCore
<1>5. /\ \A m \in Proposals : m \in Network /\ m \in Proposal /\ m.type = "Propose"
      /\ \A m \in Votes : m \in Network /\ m \in Vote
      /\ \A m \in Timeouts : m \in Network /\ m \in Timeout /\ m.type = "Timeout"
      /\ \A m \in TCs : m \in Network /\ m \in TCMsg /\ m.type = "TC"
  <2>1. Network \in SUBSET Message
    BY Delivered
  <2> QED BY <2>1 DEF Proposals, Votes, Timeouts, TCs, Message, Proposal, Vote,
                      Timeout, TCMsg
<1>m. \A m \in N : SoundMessage(N, m)
  BY Delivered
<1>3. ASSUME NEW s \in CoreState, Step(n, s), Tidy(s), Advances(c, s), SameChain(c, s)
      PROVE  Goal
  BY <1>3 DEF Moves, Commits
<1>6. CASE ReceiveProposal(n)
  <2>1. PICK p \in Proposals : Step(n, handle_proposal(c, n, p))
    BY <1>6 DEF ReceiveProposal
  <2>2. p \in Proposal /\ CertifiedIn(N, Parent(p.block))
    BY <1>5, <1>m DEF SoundMessage, SoundProposal
  <2> DEFINE s == handle_proposal(c, n, p)
  <2> HIDE DEF c, N
  <2>3. s \in CoreState /\ Tidy(s) /\ Advances(c, s)
    BY <1>c, <2>2, handle_proposalType, handle_proposalKeeps
  <2>4. Commits(N, c, s)
    BY <1>c, <1>s, <2>2, handle_proposalCommits
  <2> HIDE DEF s
  <2>5. Goal
    BY <2>1, <2>3, <2>4 DEF Moves, s
  <2> QED BY <2>5 DEF c, N
<1>7. CASE ReceiveVote(n)
  <2>1. PICK v \in Votes : Step(n, handle_vote(c, n, v))
    BY <1>7 DEF ReceiveVote
  <2> DEFINE s == handle_vote(c, n, v)
  <2>2. v \in Vote
    BY <1>5
  <2> HIDE DEF c, N
  <2>3. s \in CoreState /\ Tidy(s) /\ Advances(c, s) /\ SameChain(c, s)
    BY <1>c, <2>2, handle_voteType, handle_voteKeeps, handle_voteSameChain
  <2> HIDE DEF Goal, s
  <2>4. Goal
    BY <1>3, <2>1, <2>3 DEF s
  <2> QED BY <2>4 DEF Goal, c, N
<1>8. CASE ReceiveTimeout(n)
  <2>1. PICK t \in Timeouts : Step(n, handle_timeout(c, n, t))
    BY <1>8 DEF ReceiveTimeout
  <2> DEFINE s == handle_timeout(c, n, t)
  <2>2. t \in Timeout /\ Round(t.high_qc) < t.round
    BY <1>5, <1>m DEF SoundMessage, SoundTimeout
  <2> HIDE DEF c, N
  <2>3. s \in CoreState /\ Tidy(s) /\ Advances(c, s) /\ SameChain(c, s)
    BY <1>c, <2>2, handle_timeoutType, handle_timeoutKeeps, handle_timeoutSameChain
  <2> HIDE DEF Goal, s
  <2>4. Goal
    BY <1>3, <2>1, <2>3 DEF s
  <2> QED BY <2>4 DEF Goal, c, N
<1>9. CASE ReceiveTC(n)
  <2>1. PICK m \in TCs : Step(n, handle_tc(c, n, m.tc))
    BY <1>9 DEF ReceiveTC
  <2> DEFINE s == handle_tc(c, n, m.tc)
  <2>2. m.tc \in TC
    BY <1>5 DEF TCMsg
  <2> HIDE DEF c, N
  <2>3. s \in CoreState /\ Tidy(s) /\ Advances(c, s) /\ SameChain(c, s)
    BY <1>c, <2>2, handle_tcType, handle_tcKeeps, handle_tcSameChain
  <2> HIDE DEF Goal, s
  <2>4. Goal
    BY <1>3, <2>1, <2>3 DEF s
  <2> QED BY <2>4 DEF Goal, c, N
<1>10. CASE TimerFires(n)
  <2> DEFINE s == local_timeout_round(c, n)
  <2>1. Step(n, s)
    BY <1>10 DEF TimerFires
  <2>2. Round(c.high_qc) < c.round
    BY <1>s DEF SoundQC
  <2> HIDE DEF c, N
  <2>3. s \in CoreState /\ Tidy(s) /\ Advances(c, s) /\ SameChain(c, s)
    BY <1>c, <2>2, local_timeout_roundType, local_timeout_roundKeeps,
       local_timeout_roundSameChain
  <2> HIDE DEF Goal, s
  <2>4. Goal
    BY <1>3, <2>1, <2>3 DEF s
  <2> QED BY <2>4 DEF Goal, c, N
<1>11. CASE ReceiveLoopback(n)
  <2>1. PICK p \in c.rx_loopback :
          Step(n, process_block([c EXCEPT !.rx_loopback = @ \ {p}], n, p))
    BY <1>11 DEF ReceiveLoopback
  <2> DEFINE L == c.rx_loopback \ {p}
             u == [c EXCEPT !.rx_loopback = L]
             s == process_block(u, n, p)
  <2>2. Step(n, s)
    BY <2>1
  <2>3. p \in Proposal /\ CertifiedIn(N, Parent(p.block)) /\ Payload(p.block) \subseteq c.batches
    <3>1. p \in Proposal /\ p \in N
      BY <1>c, <1>s, <2>1 DEF CoreState, SoundKept
    <3>2. SoundProposal(N, p)
      BY <1>m, <3>1 DEF SoundMessage, Proposal
    <3>3. Payload(p.block) \subseteq c.batches
      BY <1>c, <2>1 DEF Tidy, Stocked
    <3> QED BY <3>1, <3>2, <3>3 DEF SoundProposal
  <2> HIDE DEF c, N
  <2>4. /\ u.rx_loopback = L /\ u.pending = c.pending /\ u.round = c.round
        /\ u.high_qc = c.high_qc /\ u.votes = c.votes /\ u.timeouts = c.timeouts
        /\ u.last_voted_round = c.last_voted_round
        /\ u.last_committed_round = c.last_committed_round
        /\ u.store = c.store /\ u.batches = c.batches /\ u.buffer = c.buffer
        /\ u.tx_commit = c.tx_commit /\ u.sent = c.sent
    BY <1>c DEF CoreState
  <2>5. u \in CoreState
    BY <1>c, Zenon DEF CoreState
  <2> HIDE DEF u
  <2>6. Tidy(u) /\ Advances(c, u) /\ SameChain(c, u)
    <3>1. \A q \in u.rx_loopback \cup u.pending : Payload(q.block) \subseteq u.batches
      BY <1>c, <2>4 DEF Tidy, Stocked
    <3>2. u.buffer \subseteq u.batches /\ c.batches \subseteq u.batches
      BY <1>c, <2>4 DEF Tidy, Stocked
    <3> QED BY <1>c, <2>4, <3>1, <3>2, HandedOn
  <2>7. SoundStore(N, u)
    BY <1>s, <2>4 DEF SoundStore, Stored
  <2>8. s \in CoreState /\ Tidy(s) /\ Advances(u, s)
    BY <2>3, <2>4, <2>5, <2>6, process_blockType, process_blockKeeps
  <2>9. Commits(N, u, s)
    BY <2>3, <2>5, <2>7, process_blockCommits
  <2> HIDE DEF s
  <2>10. Advances(c, s)
    BY <1>c, <2>5, <2>6, <2>8, AdvancesOn
  <2>11. Commits(N, c, s)
    <3>1. \A b : AncestorsToCommit(u, b) = AncestorsToCommit(c, b)
      BY <2>6 DEF AncestorsToCommit, SameChain
    <3> QED BY <2>6, <2>9, <3>1 DEF Commits, CommitsBlock, SameChain
  <2>12. Goal
    BY <2>2, <2>8, <2>10, <2>11 DEF Moves, s
  <2> QED BY <2>12 DEF c, N
<1>12. CASE ParentStored(n)
  <2>1. PICK p \in c.pending :
          Step(n, [c EXCEPT !.pending = @ \ {p}, !.rx_loopback = @ \cup {p}])
    BY <1>12 DEF ParentStored
  <2> HIDE DEF c, N
  <2> DEFINE P == c.pending \ {p}
             L == c.rx_loopback \cup {p}
             s == [c EXCEPT !.pending = P, !.rx_loopback = L]
  <2>2. s \in CoreState /\ Step(n, s)
    BY <1>c, <2>1, Zenon DEF CoreState
  <2>3. /\ s.rx_loopback = L /\ s.pending = P /\ s.round = c.round
        /\ s.high_qc = c.high_qc /\ s.votes = c.votes /\ s.timeouts = c.timeouts
        /\ s.last_voted_round = c.last_voted_round
        /\ s.last_committed_round = c.last_committed_round
        /\ s.store = c.store /\ s.batches = c.batches /\ s.buffer = c.buffer
        /\ s.tx_commit = c.tx_commit /\ s.sent = c.sent
    BY <1>c DEF CoreState
  <2> HIDE DEF s, Goal
  <2>4. \A q \in s.rx_loopback \cup s.pending : Payload(q.block) \subseteq s.batches
    BY <1>c, <2>1, <2>3 DEF Tidy, Stocked
  <2>5. s.buffer \subseteq s.batches /\ c.batches \subseteq s.batches
    BY <1>c, <2>3 DEF Tidy, Stocked
  <2>6. Tidy(s) /\ Advances(c, s) /\ SameChain(c, s)
    BY <1>c, <2>3, <2>4, <2>5, HandedOn
  <2>7. Goal
    BY <1>3, <2>2, <2>6
  <2> QED BY <2>7 DEF Goal, c, N
<1>13. CASE PayloadStored(n)
  <2>1. PICK p \in c.waiting :
          /\ Payload(p.block) \subseteq c.batches
          /\ Step(n, [c EXCEPT !.waiting = @ \ {p}, !.rx_loopback = @ \cup {p}])
    BY <1>13 DEF PayloadStored
  <2> HIDE DEF c, N
  <2> DEFINE W == c.waiting \ {p}
             L == c.rx_loopback \cup {p}
             s == [c EXCEPT !.waiting = W, !.rx_loopback = L]
  <2>2. s \in CoreState /\ Step(n, s)
    BY <1>c, <2>1, Zenon DEF CoreState
  <2>3. /\ s.rx_loopback = L /\ s.pending = c.pending /\ s.round = c.round
        /\ s.high_qc = c.high_qc /\ s.votes = c.votes /\ s.timeouts = c.timeouts
        /\ s.last_voted_round = c.last_voted_round
        /\ s.last_committed_round = c.last_committed_round
        /\ s.store = c.store /\ s.batches = c.batches /\ s.buffer = c.buffer
        /\ s.tx_commit = c.tx_commit /\ s.sent = c.sent
    BY <1>c DEF CoreState
  <2> HIDE DEF s, Goal
  <2>4. \A q \in s.rx_loopback \cup s.pending : Payload(q.block) \subseteq s.batches
    BY <1>c, <2>1, <2>3 DEF Tidy, Stocked
  <2>5. s.buffer \subseteq s.batches /\ c.batches \subseteq s.batches
    BY <1>c, <2>3 DEF Tidy, Stocked
  <2>6. Tidy(s) /\ Advances(c, s) /\ SameChain(c, s)
    BY <1>c, <2>3, <2>4, <2>5, HandedOn
  <2>7. Goal
    BY <1>3, <2>2, <2>6
  <2> QED BY <2>7 DEF Goal, c, N
<1>14. CASE ReceiveBatch(n)
  <2>d. PICK d \in Digest : \E handed \in SUBSET {d} :
          Step(n, [c EXCEPT !.batches = @ \cup {d}, !.buffer = @ \cup handed])
    BY <1>14 DEF ReceiveBatch
  <2>1. PICK handed \in SUBSET {d} :
          Step(n, [c EXCEPT !.batches = @ \cup {d}, !.buffer = @ \cup handed])
    BY <2>d
  <2> HIDE DEF c, N
  <2> DEFINE B == c.batches \cup {d}
             H == c.buffer \cup handed
             s == [c EXCEPT !.batches = B, !.buffer = H]
  <2>2. s \in CoreState /\ Step(n, s)
    <3>1. handed \in SUBSET Digest
      OBVIOUS
    <3> QED BY <1>c, <2>1, <3>1, Zenon DEF CoreState
  <2>3. /\ s.rx_loopback = c.rx_loopback /\ s.pending = c.pending /\ s.round = c.round
        /\ s.high_qc = c.high_qc /\ s.votes = c.votes /\ s.timeouts = c.timeouts
        /\ s.last_voted_round = c.last_voted_round
        /\ s.last_committed_round = c.last_committed_round
        /\ s.store = c.store /\ s.batches = B /\ s.buffer = H
        /\ s.tx_commit = c.tx_commit /\ s.sent = c.sent
    BY <1>c DEF CoreState
  <2> HIDE DEF s, Goal
  <2>4. \A q \in s.rx_loopback \cup s.pending : Payload(q.block) \subseteq s.batches
    BY <1>c, <2>3 DEF Tidy, Stocked
  <2>5. s.buffer \subseteq s.batches /\ c.batches \subseteq s.batches
    BY <1>c, <2>1, <2>3 DEF Tidy, Stocked
  <2>6. Tidy(s) /\ Advances(c, s) /\ SameChain(c, s)
    BY <1>c, <2>3, <2>4, <2>5, HandedOn
  <2>7. Goal
    BY <1>3, <2>2, <2>6
  <2> QED BY <2>7 DEF Goal, c, N
\* The Proposer's steps start from the state without the message.
<1>15. ASSUME c.tx_proposer # <<>>
       PROVE  LET u == [c EXCEPT !.tx_proposer = Tail(@)]
              IN  /\ u \in CoreState /\ Alike(c, u) /\ SameChain(c, u)
                  /\ Head(c.tx_proposer) \in Make \cup Cleanup
  <2> HIDE DEF c, N
  <2> DEFINE q == Tail(c.tx_proposer)
             u == [c EXCEPT !.tx_proposer = q]
  <2>1. q \in Seq(Make \cup Cleanup) /\ Head(c.tx_proposer) \in Make \cup Cleanup
    BY <1>c, <1>15 DEF CoreState
  <2>2. u \in CoreState
    BY <1>c, <2>1, Zenon DEF CoreState
  <2>3. Alike(c, u) /\ SameChain(c, u)
    BY <1>c DEF CoreState, Alike, SameChain
  <2> QED BY <2>1, <2>2, <2>3
<1>16. CASE ProposerMake(n)
  <2> DEFINE m == Head(c.tx_proposer)
             u == [c EXCEPT !.tx_proposer = Tail(@)]
  <2>1. /\ c.tx_proposer # <<>> /\ m.type = "Make"
        /\ \/ Step(n, u)
           \/ \E b \in Block : Payload(b) = c.buffer /\ Step(n, MakeBlock(u, n, m, b))
    BY <1>16 DEF ProposerMake
  <2>2. u \in CoreState /\ Alike(c, u) /\ SameChain(c, u) /\ m \in Make
    BY <1>15, <2>1 DEF Make, Cleanup
  <2> HIDE DEF c, N, m, u
  <2>3. Tidy(u) /\ Advances(c, u)
    BY <1>c, <2>2, AlikeKeeps
  <2>4. CASE Step(n, u)
    <3> HIDE DEF Goal
    <3>1. Goal
      BY <1>3, <2>2, <2>3, <2>4
    <3> QED BY <3>1 DEF Goal, c, N
  <2>5. CASE \E b \in Block : Payload(b) = c.buffer /\ Step(n, MakeBlock(u, n, m, b))
    <3>1. PICK b \in Block : Payload(b) = c.buffer /\ Step(n, MakeBlock(u, n, m, b))
      BY <2>5
    <3> DEFINE s == MakeBlock(u, n, m, b)
    <3>2. u.buffer = c.buffer
      BY <2>2 DEF Alike
    <3>3. s \in CoreState /\ Tidy(s) /\ Advances(u, s)
      BY <2>2, <2>3, <3>1, <3>2, MakeBlockType, MakeBlockKeeps
    <3>4. SameChain(u, s)
      BY <2>2 DEF MakeBlock, Send, SameChain, CoreState
    <3> HIDE DEF s
    <3>5. Advances(c, s) /\ SameChain(c, s)
      BY <1>c, <2>2, <2>3, <3>3, <3>4, AdvancesOn DEF SameChain
    <3> HIDE DEF Goal
    <3>6. Goal
      BY <1>3, <3>1, <3>3, <3>5 DEF s
    <3> QED BY <3>6 DEF Goal, c, N
  <2> QED BY <2>1, <2>4, <2>5 DEF c, N
<1>17. CASE ProposerCleanup(n)
  <2> DEFINE q == Tail(c.tx_proposer)
             B == c.buffer \ Head(c.tx_proposer).digests
             s == [c EXCEPT !.tx_proposer = q, !.buffer = B]
  <2>1. c.tx_proposer # <<>> /\ Step(n, s)
    BY <1>17 DEF ProposerCleanup
  <2> HIDE DEF c, N
  <2>2. q \in Seq(Make \cup Cleanup) /\ B \in SUBSET Digest
    BY <1>c, <2>1 DEF CoreState
  <2>3. s \in CoreState
    BY <1>c, <2>2, Zenon DEF CoreState
  <2>4. /\ s.rx_loopback = c.rx_loopback /\ s.pending = c.pending /\ s.round = c.round
        /\ s.high_qc = c.high_qc /\ s.votes = c.votes /\ s.timeouts = c.timeouts
        /\ s.last_voted_round = c.last_voted_round
        /\ s.last_committed_round = c.last_committed_round
        /\ s.store = c.store /\ s.batches = c.batches /\ s.buffer = B
        /\ s.tx_commit = c.tx_commit /\ s.sent = c.sent
    BY <1>c DEF CoreState
  <2>5. B \subseteq c.buffer
    OBVIOUS
  <2> HIDE DEF s, Goal, B
  <2>6. /\ \A x \in s.rx_loopback \cup s.pending : Payload(x.block) \subseteq s.batches
        /\ s.buffer \subseteq s.batches /\ c.batches \subseteq s.batches
    BY <1>c, <2>4, <2>5 DEF Tidy, Stocked
  <2>7. Tidy(s) /\ Advances(c, s) /\ SameChain(c, s)
    BY <1>c, <2>4, <2>6, HandedOn
  <2>8. Goal
    BY <1>3, <2>1, <2>3, <2>7
  <2> QED BY <2>8 DEF Goal, c, N
<1> QED BY <1>6, <1>7, <1>8, <1>9, <1>10, <1>11, <1>12, <1>13, <1>14, <1>16, <1>17

-----------------------------------------------------------------------------
(* Whatever the others do, and however often it is restarted, a node keeps *)
(* itself in order.                                                        *)

Orderly == \A n \in Authorities : Tidy(core[n])

LEMMA InitOrderly == Init => Orderly
<1> SUFFICES ASSUME Init, NEW n \in Authorities PROVE Tidy(core[n])
  BY DEF Orderly
<1> DEFINE s == core[n]
<1>1. s = Boot(n, {}, {}, {}, <<>>)
  BY DEF Init
<1>2. /\ s.votes = {} /\ s.timeouts = {} /\ s.buffer = {} /\ s.rx_loopback = {}
      /\ s.pending = {} /\ s.store = {} /\ s.sent = {} /\ s.tx_commit = <<>>
  BY <1>1 DEF Boot
<1> HIDE DEF s
<1>3. Clean(s) /\ Stocked(s) /\ Closed(s)
  BY <1>2 DEF Clean, Stocked, Closed
<1> QED BY <1>3 DEF Tidy, s

\* What every step does: it is a restart, or takes one node on.
LEMMA AnyStep ==
  ASSUME Inv, Orderly, [Next]_vars
  PROVE  \/ UNCHANGED vars
         \/ \E n \in Authorities : Restart(n)
         \/ \E n \in Authorities : \E s \in CoreState :
              Step(n, s) /\ Moves(Network, core[n], s)
<1> SUFFICES ASSUME NEW n \in Authorities,
                    \/ ReceiveProposal(n) \/ ReceiveVote(n)
                    \/ ReceiveTimeout(n) \/ ReceiveTC(n) \/ TimerFires(n)
                    \/ ReceiveLoopback(n) \/ ParentStored(n)
                    \/ PayloadStored(n) \/ ReceiveBatch(n) \/ ProposerMake(n)
                    \/ ProposerCleanup(n) \/ Restart(n)
             PROVE  \/ Restart(n)
                    \/ \E s \in CoreState : Step(n, s) /\ Moves(Network, core[n], s)
  BY DEF Next
<1>1. Tidy(core[n])
  BY DEF Orderly
<1> QED BY <1>1, NodeMoves

LEMMA OrderlyStep == Inv /\ Orderly /\ [Next]_vars => Orderly'
<1> SUFFICES ASSUME Inv, Orderly, [Next]_vars, NEW k \in Authorities
             PROVE  Tidy(core'[k])
  BY DEF Orderly
<1>1. Tidy(core[k]) /\ core \in [Authorities -> CoreState]
  BY DEF Orderly, Inv, TypeOK
<1>2. CASE UNCHANGED vars
  BY <1>1, <1>2 DEF vars
<1>3. ASSUME NEW n \in Authorities, Restart(n)
      PROVE  Tidy(core'[k])
  <2>1. core'[k] = IF k = n THEN Boot(n, core[n].store, core[n].batches, core[n].sent,
                                      core[n].tx_commit)
                   ELSE core[k]
    BY <1>1, <1>3 DEF Restart
  <2>2. core[n] \in CoreState /\ Tidy(core[n])
    BY <1>1 DEF Orderly
  <2> QED BY <1>1, <2>1, <2>2, BootTidy
<1>4. ASSUME NEW n \in Authorities, NEW s \in CoreState, Step(n, s),
             Moves(Network, core[n], s)
      PROVE  Tidy(core'[k])
  <2>1. core'[k] = IF k = n THEN s ELSE core[k]
    BY <1>1, <1>4 DEF Step
  <2> QED BY <1>1, <1>4, <2>1 DEF Moves
<1> QED BY <1>2, <1>3, <1>4, AnyStep

\* The invariant behind the theorems below: every node is Tidy.
LEMMA StaysOrderly == Spec => [](Inv /\ Orderly)
<1>1. Init => Inv /\ Orderly
  BY InitInv, InitOrderly
<1>2. (Inv /\ Orderly) /\ [Next]_vars => (Inv /\ Orderly)'
  BY InvStep, OrderlyStep
<1> QED BY <1>1, <1>2, PTL DEF Spec

\* AggregatorClean: whichever handler completes a quorum of votes or timeouts
\* ends its round in the same call, so that neither the votes_aggregators nor
\* the timeouts_aggregators (aggregator.rs) ever keep a quorum or a round that
\* is over, for every committee and after any restarts.
THEOREM AggregatorsAreClean == Spec => []AggregatorClean
<1>1. Orderly => AggregatorClean
  BY DEF Orderly, Tidy, Clean, AggregatorClean
<1> QED BY <1>1, StaysOrderly, PTL

\* PayloadAvailable: whichever way a block came to process_block (verify_payload,
\* the PayloadWaiter, the Synchronizer, or the node's own Proposer), its batches
\* were in the store before the node voted for it or committed it.
THEOREM PayloadsAreAvailable == Spec => []PayloadAvailable
<1>1. Orderly => PayloadAvailable
  <2> SUFFICES ASSUME Orderly, NEW n \in Authorities
               PROVE  /\ \A v \in core[n].sent \cap Vote :
                           Payload(v.block) \subseteq core[n].batches
                      /\ \A b \in Committed(n) : Payload(b) \subseteq core[n].batches
    BY DEF PayloadAvailable
  <2>1. Stocked(core[n])
    BY DEF Orderly, Tidy
  <2> QED BY <2>1 DEF Stocked, Committed, Range
<1> QED BY <1>1, StaysOrderly, PTL

\* Steps that restart no node take no node back.
NeverRegressesAlive == restarts' = restarts => NeverRegresses

\* Between restarts every handler, whatever message it is given, leaves the
\* round, last_voted_round and last_committed_round of every node where they
\* were or higher, and replaces high_qc only by a higher one (core.rs).
THEOREM NeverBack == Spec => [][NeverRegressesAlive]_vars
<1>1. Inv /\ Orderly /\ [Next]_vars => [NeverRegressesAlive]_vars
  <2> SUFFICES ASSUME Inv, Orderly, [Next]_vars, restarts' = restarts,
                      NEW k \in Authorities
               PROVE  Advances(core[k], core'[k])
    BY DEF NeverRegressesAlive, NeverRegresses, Advances
  <2>1. core[k] \in CoreState /\ core \in [Authorities -> CoreState] /\ restarts \in Nat
    BY BoundsAssumption DEF Inv, TypeOK
  <2>2. Advances(core[k], core[k])
    BY <2>1, AdvancesNot
  <2>3. CASE UNCHANGED vars
    BY <2>2, <2>3 DEF vars
  <2>4. \A n \in Authorities : ~ Restart(n)
    BY <2>1 DEF Restart
  <2>5. ASSUME NEW n \in Authorities, NEW s \in CoreState, Step(n, s),
               Moves(Network, core[n], s)
        PROVE  Advances(core[k], core'[k])
    <3>1. core'[k] = IF k = n THEN s ELSE core[k]
      BY <2>1, <2>5 DEF Step
    <3> QED BY <2>2, <2>5, <3>1 DEF Moves
  <2> QED BY <2>3, <2>4, <2>5, AnyStep
<1> QED BY <1>1, StaysOrderly, PTL DEF Spec

\* Monotone, as the run checks it: where no node is restarted, no step takes a
\* node back (advance_round's guard against stale certificates, core.rs:270).
THEOREM RoundsOnlyGrow ==
  ASSUME MaxRestarts = 0
  PROVE  Spec => Monotone
<1>1. TypeOK /\ TypeOK' => restarts' = restarts
  BY DEF TypeOK
<1>2. TypeOK /\ TypeOK' /\ [NeverRegressesAlive]_vars => [NeverRegresses]_vars
  BY <1>1 DEF NeverRegressesAlive
<1> QED BY <1>2, NeverBack, TypeCorrect, PTL DEF Monotone

-----------------------------------------------------------------------------
(* The chain a node commits. *)

\* The block and those it builds on, as commit walks them.
Walk(b) == <<b>> \o Ancestors(b)

LEMMA WalkFields ==
  ASSUME NEW x \in Block
  PROVE  /\ Walk(x) \in Seq(Block) /\ Ancestors(x) \in Seq(Block)
         /\ Len(Ancestors(x)) \in Nat /\ Len(Walk(x)) = Len(Ancestors(x)) + 1
         /\ DOMAIN Ancestors(x) = 1..Len(Ancestors(x))
         /\ DOMAIN Walk(x) = 1..Len(Walk(x)) /\ Walk(x)[1] = x
         /\ \A i \in DOMAIN Ancestors(x) : Walk(x)[i + 1] = Ancestors(x)[i]
<1> DEFINE A == Ancestors(x)
<1>1. A \in Seq(Block)
  BY AncestorsAssumption
<1> HIDE DEF A
<1>2. /\ <<x>> \o A \in Seq(Block) /\ Len(<<x>> \o A) = Len(A) + 1 /\ (<<x>> \o A)[1] = x
      /\ \A i \in DOMAIN A : (<<x>> \o A)[i + 1] = A[i]
      /\ Len(A) \in Nat /\ DOMAIN A = 1..Len(A)
      /\ DOMAIN (<<x>> \o A) = 1..Len(<<x>> \o A)
  BY <1>1
<1> QED BY <1>1, <1>2 DEF Walk, A

\* The rounds go down along the walk, strictly.
LEMMA WalkDescends ==
  ASSUME NEW b \in Block
  PROVE  \A i, j \in DOMAIN Walk(b) : j < i => Round(Walk(b)[i]) < Round(Walk(b)[j])
<1> DEFINE Bad(x) == \E i, j \in DOMAIN Walk(x) :
                       j < i /\ ~ (Round(Walk(x)[i]) < Round(Walk(x)[j]))
           S == {Round(x) : x \in {y \in Block : Bad(y)}}
<1>2. ASSUME Bad(b) PROVE FALSE
  <2>1. Round(b) \in S /\ S \in SUBSET Nat
    BY <1>2, ParentRound
  <2> HIDE DEF S
  <2>2. PICK r \in S : \A q \in S : r <= q
    BY <2>1, SmallestNat
  <2>3. PICK x \in Block : Bad(x) /\ r = Round(x)
    BY <2>2 DEF S
  <2> DEFINE y == Parent(x)
  <2>4. x # Genesis
    <3>1. CASE x = Genesis
      <4>1. Len(Ancestors(x)) = 0
        BY <3>1, AncestorsAssumption
      <4>2. DOMAIN Walk(x) = 1..1
        <5>1. DOMAIN Walk(x) = 1..Len(Walk(x)) /\ Len(Walk(x)) = Len(Ancestors(x)) + 1
          BY WalkFields
        <5>2. Len(Walk(x)) = 1
          BY <4>1, <5>1
        <5> QED BY <5>1, <5>2
      <4>3. \A i, j \in 1..1 : ~ (j < i)
        OBVIOUS
      <4> QED BY <2>3, <4>2, <4>3
    <3> QED BY <3>1
  <2>5. y \in Block /\ Round(y) \in Nat /\ Round(x) \in Nat /\ Round(y) < Round(x)
    BY <2>4, ParentRound
  <2>6. Ancestors(x) = Walk(y)
    BY <2>4, AncestorsAssumption DEF Walk
  <2>7. ~ Bad(y)
    <3>1. CASE Bad(y)
      <4>1. Round(y) \in S
        BY <2>5, <3>1 DEF S
      <4> HIDE DEF Bad
      <4> QED BY <2>2, <2>3, <2>5, <4>1
    <3> QED BY <3>1
  <2>8. PICK i, j \in DOMAIN Walk(x) : j < i /\ ~ (Round(Walk(x)[i]) < Round(Walk(x)[j]))
    BY <2>3
  <2> DEFINE W == Walk(x)
             V == Walk(y)
  <2>9. /\ W \in Seq(Block) /\ V \in Seq(Block) /\ Len(W) = Len(V) + 1
        /\ W[1] = x /\ V[1] = y /\ Len(V) \in Nat /\ Len(V) >= 1
        /\ DOMAIN V = 1..Len(V) /\ DOMAIN W = 1..Len(W)
        /\ \A k \in 1..Len(V) : W[k + 1] = V[k]
    <3>1. /\ Len(V) = Len(Ancestors(y)) + 1 /\ Len(Ancestors(y)) \in Nat
          /\ DOMAIN V = 1..Len(V) /\ V \in Seq(Block) /\ V[1] = y
      BY <2>5, WalkFields
    <3>2. /\ W \in Seq(Block) /\ Len(W) = Len(V) + 1 /\ W[1] = x
          /\ DOMAIN W = 1..Len(W) /\ \A k \in DOMAIN V : W[k + 1] = V[k]
      BY <2>6, WalkFields
    <3> HIDE DEF W, V
    <3> QED BY <3>1, <3>2
  <2>10. \A k, l \in DOMAIN V : l < k => Round(V[k]) < Round(V[l])
    BY <2>7
  <2>11. i \in DOMAIN W /\ j \in DOMAIN W /\ j < i /\ ~ (Round(W[i]) < Round(W[j]))
    BY <2>8
  <2> HIDE DEF W, V, y
  <2>12. /\ i - 1 \in 1..Len(V) /\ W[i] = V[i - 1] /\ i \in Nat /\ j \in Nat
         /\ j >= 1
    <3>1. i \in 1..(Len(V) + 1) /\ j \in 1..(Len(V) + 1)
      BY <2>9, <2>11
    <3>2. i - 1 \in 1..Len(V)
      BY <2>9, <2>11, <3>1
    <3>3. (i - 1) + 1 = i
      BY <3>1
    <3>4. W[(i - 1) + 1] = V[i - 1]
      BY <2>9, <3>2
    <3> QED BY <3>1, <3>2, <3>3, <3>4
  <2>13. \A k \in 1..Len(V) : Round(V[k]) \in Nat
    <3>1. \A k \in 1..Len(V) : V[k] \in Block
      BY <2>9
    <3> QED BY <3>1, ParentRound
  <2>14. CASE j = 1
    <3>1. Round(V[i - 1]) <= Round(y)
      <4>1. CASE i - 1 = 1
        BY <2>5, <2>9, <4>1
      <4>2. CASE i - 1 # 1
        <5>1. Round(V[i - 1]) < Round(V[1])
          BY <2>9, <2>10, <2>12, <4>2
        <5> QED BY <2>5, <2>9, <2>12, <2>13, <5>1
      <4> QED BY <4>1, <4>2
    <3>2. Round(V[i - 1]) < Round(x)
      BY <2>5, <2>12, <2>13, <3>1
    <3> QED BY <2>9, <2>11, <2>12, <2>14, <3>2
  <2>15. CASE j # 1
    <3>1. j - 1 \in 1..Len(V) /\ j - 1 < i - 1
      BY <2>9, <2>11, <2>12, <2>15
    <3>2. W[(j - 1) + 1] = V[j - 1] /\ (j - 1) + 1 = j
      BY <2>9, <2>12, <3>1
    <3>3. Round(V[i - 1]) < Round(V[j - 1])
      BY <2>10, <2>12, <3>1
    <3> QED BY <2>11, <2>12, <3>2, <3>3
  <2> QED BY <2>14, <2>15
<1> QED BY <1>2

\* commit's walk misses no ancestor of a round it has not committed.
LEMMA WalkIsComplete ==
  ASSUME NEW s \in CoreState, NEW b \in Block, NEW x \in Block, Extends(b, x), x # b,
         Round(x) > s.last_committed_round
  PROVE  \E i \in DOMAIN AncestorsToCommit(s, b) : AncestorsToCommit(s, b)[i] = x
<1> DEFINE A == Ancestors(b)
           W == Walk(b)
           walked == {i \in DOMAIN A : s.last_committed_round + 1 < Round(W[i])}
           k == Cardinality(walked)
<1>1. /\ W \in Seq(Block) /\ A \in Seq(Block) /\ Len(W) = Len(A) + 1
      /\ \A i \in DOMAIN A : W[i + 1] = A[i]
      /\ \A i, j \in DOMAIN W : j < i => Round(W[i]) < Round(W[j])
  BY WalkFields, WalkDescends
<1>2. PICK i \in DOMAIN A : A[i] = x
  BY DEF Extends
<1>3. AncestorsToCommit(s, b) = SubSeq(A, 1, k)
  BY DEF AncestorsToCommit, Walk
<1> HIDE DEF A, W
<1>4. /\ Len(A) \in Nat /\ DOMAIN A = 1..Len(A) /\ DOMAIN W = 1..(Len(A) + 1)
      /\ i \in 1..Len(A)
  BY <1>1, <1>2
<1>5. \A j \in 1..(Len(A) + 1) : Round(W[j]) \in Nat
  <2>1. \A j \in 1..(Len(A) + 1) : W[j] \in Block
    BY <1>1, <1>4
  <2> QED BY <2>1, ParentRound
<1>6. s.last_committed_round \in Nat
  BY DEF CoreState
<1>7. ASSUME NEW j \in 1..i PROVE j \in walked
  <2>1. j \in 1..Len(A) /\ j \in DOMAIN W /\ i + 1 \in DOMAIN W /\ j < i + 1
    BY <1>4
  <2>2. Round(W[i + 1]) < Round(W[j])
    BY <1>1, <2>1
  <2>3. Round(W[i + 1]) = Round(x)
    BY <1>1, <1>2
  <2>4. Round(W[j]) \in Nat /\ Round(x) \in Nat
    BY <1>5, <2>1, ParentRound
  <2> QED BY <1>4, <1>6, <2>1, <2>2, <2>3, <2>4
<1>8. k \in Nat /\ k <= Len(A) /\ i <= k
  <2>1. walked \subseteq 1..Len(A) /\ 1..i \subseteq walked
    BY <1>4, <1>7
  <2>2. i \in Nat
    BY <1>4
  <2> HIDE DEF walked
  <2>3. IsFiniteSet(walked) /\ Cardinality(walked) \in Nat /\ Cardinality(walked) <= Len(A)
    BY <1>4, <2>1, Counted
  <2>4. Cardinality(1..i) = i
    BY <2>2, Counted
  <2>5. Cardinality(1..i) <= Cardinality(walked)
    BY <2>1, <2>3, FS_Subset
  <2> QED BY <2>3, <2>4, <2>5
<1> HIDE DEF k
<1>9. i \in DOMAIN SubSeq(A, 1, k) /\ SubSeq(A, 1, k)[i] = A[i]
  BY <1>1, <1>4, <1>8
<1> QED BY <1>2, <1>3, <1>9

\* last_committed_round is the round of a block sent to the application, or of
\* Genesis, and what was sent is closed under ancestors.
Given(s) == {s.tx_commit[i] : i \in DOMAIN s.tx_commit}

WholeChain(s) ==
  /\ \E last \in Given(s) \cup {Genesis} : Round(last) = s.last_committed_round
  /\ \A a \in Given(s), x \in Block : Extends(a, x) /\ x # Genesis => x \in Given(s)

LEMMA GivenBlocks ==
  ASSUME NEW s \in CoreState
  PROVE  Given(s) \in SUBSET Block
<1>1. s.tx_commit \in Seq(Block)
  BY DEF CoreState
<1> QED BY <1>1 DEF Given

\* What a commit adds to what was given.
LEMMA GivenAfter ==
  ASSUME NEW N, NEW s \in CoreState, NEW t \in CoreState, NEW b \in Block,
         CommitsBlock(N, s, t, b)
  PROVE  Given(t) = Given(s) \cup {AncestorsToCommit(s, b)[i] :
                                     i \in DOMAIN AncestorsToCommit(s, b)} \cup {b}
<1> DEFINE p == s.tx_commit
           q == AncestorsToCommit(s, b)
           R(z) == {z[i] : i \in DOMAIN z}
<1>1. p \in Seq(Block) /\ q \in Seq(Block) /\ t.tx_commit = p \o q \o <<b>>
  BY AncestorsToCommitType DEF CommitsBlock, CoreState
<1> HIDE DEF p, q
<1>2. ASSUME NEW y \in Seq(Block), NEW z \in Seq(Block)
      PROVE  R(y \o z) = R(y) \cup R(z)
  <2>1. /\ y \o z \in Seq(Block) /\ DOMAIN (y \o z) = 1..Len(y \o z)
        /\ DOMAIN y = 1..Len(y) /\ DOMAIN z = 1..Len(z)
        /\ Len(y \o z) = Len(y) + Len(z) /\ Len(y) \in Nat /\ Len(z) \in Nat
        /\ \A i \in 1..Len(y) : (y \o z)[i] = y[i]
        /\ \A i \in 1..Len(z) : (y \o z)[Len(y) + i] = z[i]
        /\ \A i \in 1..Len(y \o z) : i \in 1..Len(y) \/ i - Len(y) \in 1..Len(z)
    BY Concatenated, LenProperties
  <2>2. ASSUME NEW i \in 1..Len(y \o z) PROVE (y \o z)[i] \in R(y) \cup R(z)
    <3>1. CASE i \in 1..Len(y)
      BY <2>1, <3>1
    <3>2. CASE i - Len(y) \in 1..Len(z)
      <4>1. Len(y) + (i - Len(y)) = i
        BY <2>1
      <4>2. (y \o z)[Len(y) + (i - Len(y))] = z[i - Len(y)]
        BY <2>1, <3>2
      <4> QED BY <2>1, <3>2, <4>1, <4>2
    <3> QED BY <2>1, <3>1, <3>2
  <2>3. ASSUME NEW i \in 1..Len(y) PROVE y[i] \in R(y \o z)
    <3>1. i \in 1..Len(y \o z)
      BY <2>1
    <3> QED BY <2>1, <3>1
  <2>4. ASSUME NEW i \in 1..Len(z) PROVE z[i] \in R(y \o z)
    <3>1. Len(y) + i \in 1..Len(y \o z)
      BY <2>1
    <3> QED BY <2>1, <3>1
  <2> QED BY <2>1, <2>2, <2>3, <2>4
<1>3. p \o q \in Seq(Block) /\ <<b>> \in Seq(Block)
  BY <1>1
<1>4. R(<<b>>) = {b}
  OBVIOUS
<1>5. R(p \o q \o <<b>>) = R(p) \cup R(q) \cup {b}
  <2> HIDE DEF R
  <2>1. R(p \o q \o <<b>>) = R(p \o q) \cup R(<<b>>)
    BY <1>2, <1>3
  <2>2. R(p \o q) = R(p) \cup R(q)
    BY <1>1, <1>2
  <2> QED BY <1>4, <2>1, <2>2
<1> QED BY <1>1, <1>5 DEF Given, p, q

\* Two chosen blocks are on one chain (InvChosenIsFinal).
LEMMA ChosenAreOneChain ==
  ASSUME Inv, restarts = 0, NEW c, NEW d, ChosenIn(Network, c), ChosenIn(Network, d)
  PROVE  c \in Block /\ d \in Block /\ (Extends(c, d) \/ Extends(d, c))
<1>1. c \in Block /\ d \in Block /\ CertifiedIn(Network, c) /\ CertifiedIn(Network, d)
  BY DEF ChosenIn, CertifiedIn
<1>2. /\ c \in ChosenBlocks /\ d \in ChosenBlocks
      /\ c \in CertifiedBlocks /\ d \in CertifiedBlocks
  BY <1>1, CertifiedBridge
<1>3. Round(c) \in Nat /\ Round(d) \in Nat
  BY <1>1, ParentRound
<1>4. ChosenIsFinal
  BY InvChosenIsFinal
<1> QED BY <1>1, <1>2, <1>3, <1>4 DEF ChosenIsFinal

\* A block that is committed later builds on the last one committed: both are
\* chosen.  So the walk, which stops at last_committed_round, leaves nothing out.
LEMMA WholeChainAfter ==
  ASSUME Inv, restarts = 0, NEW n \in Authorities, NEW t \in CoreState, NEW b \in Block,
         WholeChain(core[n]), CommitsBlock(Network, core[n], t, b)
  PROVE  WholeChain(t)
<1> DEFINE s == core[n]
           A == AncestorsToCommit(s, b)
           Sent == {A[i] : i \in DOMAIN A}
<1>1. s \in CoreState /\ SoundCommits(Network, s) /\ WholeChain(s)
  BY Delivered DEF Good, SoundCore
<1>2. /\ ChosenIn(Network, b) /\ Round(b) > s.last_committed_round
      /\ t.last_committed_round = Round(b)
  BY DEF CommitsBlock
<1>3. Given(t) = Given(s) \cup Sent \cup {b}
  BY <1>1, GivenAfter
<1>4. PICK last \in Given(s) \cup {Genesis} : Round(last) = s.last_committed_round
  BY <1>1 DEF WholeChain
<1>5. s.last_committed_round \in Nat /\ Given(s) \in SUBSET Block
  BY <1>1, GivenBlocks DEF CoreState
<1>6. \A a \in Given(s) : \E c \in Block : ChosenIn(Network, c) /\ Extends(c, a)
  BY <1>1 DEF SoundCommits, Given
<1>7. \A a \in Sent : a \in Block /\ Extends(b, a)
  BY <1>1, WalkStaysBelow
<1>8. ASSUME NEW x \in Block, Extends(b, x), x # b, Round(x) > s.last_committed_round
      PROVE  x \in Sent
  BY <1>1, <1>8, WalkIsComplete
<1> HIDE DEF s, A, Sent
<1>9. last = Genesis \/ (last \in Given(s) /\ last \in Block /\ Extends(b, last))
  <2>1. CASE last \in Given(s)
    <3>1. PICK c \in Block : ChosenIn(Network, c) /\ Extends(c, last)
      BY <1>6, <2>1
    <3>2. last \in Block
      BY <1>5, <2>1
    <3>3. Extends(c, b) \/ Extends(b, c)
      BY <1>2, <3>1, ChosenAreOneChain
    <3>4. CASE Extends(b, c)
      BY <2>1, <3>1, <3>2, <3>4, ExtendsTransitive
    <3>5. CASE Extends(c, b)
      <4>1. Extends(b, last) \/ Extends(last, b)
        BY <3>1, <3>2, <3>5, ExtendsLinear
      <4>2. ~ Extends(last, b)
        <5>1. Extends(last, b) => last = b \/ Round(b) < Round(last)
          BY <3>2, ExtendsRound
        <5>2. Round(b) \in Nat /\ Round(last) \in Nat
          BY <3>2, ParentRound
        <5> QED BY <1>2, <1>4, <5>1, <5>2
      <4> QED BY <2>1, <3>2, <4>1, <4>2
    <3> QED BY <3>3, <3>4, <3>5
  <2> QED BY <1>4, <2>1
<1>10. ASSUME NEW x \in Block, Extends(b, x), x # Genesis
       PROVE  x \in Given(t)
  <2>1. Round(x) \in Nat /\ Round(x) # 0
    BY <1>10, ParentRound
  <2>2. CASE x = b
    BY <1>3, <2>2
  <2>3. CASE x # b /\ Round(x) > s.last_committed_round
    BY <1>3, <1>8, <1>10, <2>3
  <2>4. CASE ~ (Round(x) > s.last_committed_round)
    <3>1. last # Genesis
      <4>1. Round(Genesis) = 0
        BY BlockAssumption
      <4> QED BY <1>4, <1>5, <2>1, <2>4, <4>1
    <3>2. last \in Given(s) /\ last \in Block /\ Extends(b, last)
      BY <1>9, <3>1
    <3>3. Extends(last, x) \/ Extends(x, last)
      BY <1>10, <3>2, ExtendsLinear
    <3>4. Extends(last, x)
      <4>1. CASE Extends(x, last)
        <5>1. x = last \/ Round(last) < Round(x)
          BY <3>2, <4>1, ExtendsRound
        <5>2. x = last
          BY <1>4, <1>5, <2>1, <2>4, <5>1
        <5> QED BY <5>2 DEF Extends
      <4> QED BY <3>3, <4>1
    <3>5. x \in Given(s)
      BY <1>1, <1>10, <3>2, <3>4 DEF WholeChain
    <3> QED BY <1>3, <3>5
  <2> QED BY <2>2, <2>3, <2>4
<1>11. ASSUME NEW a \in Given(t), NEW x \in Block, Extends(a, x), x # Genesis
       PROVE  x \in Given(t)
  <2>1. CASE a \in Given(s)
    <3>1. x \in Given(s)
      BY <1>1, <1>11, <2>1 DEF WholeChain
    <3> QED BY <1>3, <3>1
  <2>2. CASE a \in Sent \cup {b}
    <3>1. a \in Block /\ Extends(b, a)
      BY <1>7, <2>2 DEF Extends
    <3>2. Extends(b, x)
      BY <1>11, <3>1, ExtendsTransitive
    <3> QED BY <1>10, <1>11, <3>2
  <2> QED BY <1>3, <1>11, <2>1, <2>2
<1>12. \E l \in Given(t) \cup {Genesis} : Round(l) = t.last_committed_round
  BY <1>2, <1>3
<1> QED BY <1>11, <1>12 DEF WholeChain

WholeChains == restarts = 0 => \A n \in Authorities : WholeChain(core[n])

LEMMA InitWholeChains == Init => WholeChains
<1> SUFFICES ASSUME Init, NEW n \in Authorities PROVE WholeChain(core[n])
  BY DEF WholeChains
<1>1. core[n].tx_commit = <<>> /\ core[n].last_committed_round = 0
  BY DEF Init, Boot
<1>2. Given(core[n]) = {}
  BY <1>1 DEF Given
<1> QED BY <1>1, <1>2, BlockAssumption DEF WholeChain

LEMMA WholeChainsStep == Inv /\ Orderly /\ WholeChains /\ [Next]_vars => WholeChains'
<1> SUFFICES ASSUME Inv, Orderly, WholeChains, [Next]_vars, restarts' = 0,
                    NEW k \in Authorities
             PROVE  WholeChain(core'[k])
  BY DEF WholeChains
<1>1. core \in [Authorities -> CoreState] /\ restarts \in Nat
  BY BoundsAssumption DEF Inv, TypeOK
<1>2. CASE UNCHANGED vars
  BY <1>2 DEF vars, WholeChains
<1>3. \A n \in Authorities : ~ Restart(n)
  BY <1>1 DEF Restart
<1>4. ASSUME NEW n \in Authorities, NEW s \in CoreState, Step(n, s),
             Moves(Network, core[n], s)
      PROVE  WholeChain(core'[k])
  <2>1. core'[k] = (IF k = n THEN s ELSE core[k]) /\ restarts = 0
    BY <1>1, <1>4 DEF Step
  <2>2. WholeChain(core[n]) /\ WholeChain(core[k])
    BY <2>1 DEF WholeChains
  <2>3. WholeChain(s)
    <3>1. CASE SameChain(core[n], s)
      BY <2>2, <3>1 DEF SameChain, WholeChain, Given
    <3>2. CASE \E b \in Block : CommitsBlock(Network, core[n], s, b)
      BY <2>1, <2>2, <3>2, WholeChainAfter
    <3> QED BY <1>4, <3>1, <3>2 DEF Moves, Commits
  <2> QED BY <2>1, <2>2, <2>3
<1> QED BY <1>2, <1>3, <1>4, AnyStep

\* CommitsWholeChain, until the first restart: commit's walk stops at
\* last_committed_round because what it has sent before is on the same chain
\* (core.rs:123-145); for that the votes must be safe (InvChosenIsFinal).
THEOREM ChainsAreWhole == Spec => [](restarts = 0 => CommitsWholeChain)
<1>1. (Inv /\ WholeChains) => (restarts = 0 => CommitsWholeChain)
  <2> SUFFICES ASSUME Inv, WholeChains, restarts = 0, NEW n \in Authorities,
                      NEW a \in Committed(n), NEW x \in Range(Ancestors(a)), x # Genesis
               PROVE  x \in Committed(n)
    BY DEF CommitsWholeChain
  <2>1. Committed(n) = Given(core[n]) /\ core[n] \in CoreState
    BY DEF Committed, Range, Given, Inv, TypeOK
  <2>2. a \in Block
    BY <2>1, GivenBlocks
  <2>3. PICK i \in DOMAIN Ancestors(a) : x = Ancestors(a)[i]
    BY DEF Range
  <2>4. x \in Block /\ Extends(a, x)
    BY <2>2, <2>3, ExtendsAncestors
  <2> QED BY <2>1, <2>4 DEF WholeChains, WholeChain
<1>2. Init => WholeChains
  BY InitWholeChains
<1>3. Inv /\ Orderly /\ WholeChains /\ [Next]_vars => WholeChains'
  BY WholeChainsStep
<1> QED BY <1>1, <1>2, <1>3, StaysOrderly, PTL DEF Spec
=============================================================================
