-------------------------- MODULE HotStuffTheorems --------------------------
(***************************************************************************)
(* The safety of HotStuff, for every committee, block tree and bound: the  *)
(* invariant of HotStuffInvariant is inductive and implies the properties, *)
(* and HotStuff implements Voting.  What rests on what a node remembers of *)
(* its votes holds until the first restart.                                *)
(*                                                                         *)
(* That a step is one of Voting is shown from what the handler signs,      *)
(* which is read off its operator; that Voting allows it follows from the  *)
(* invariant.                                                              *)
(***************************************************************************)
EXTENDS HotStuffMethods, HotStuffVoting

\* It holds at the start.
LEMMA InitInv == Init => Inv
<1> SUFFICES ASSUME Init PROVE Inv
  OBVIOUS
<1> DEFINE s(n) == Boot(n, {}, {}, {}, <<>>)
<1>1. TypeOK
  <2>1. \A n \in Authorities : Boot(n, {}, {}, {}, <<>>) \in CoreState
    BY BootType, EmptySeq
  <2> QED BY <2>1, BoundsAssumption DEF Init, TypeOK
<1>2. \A n \in Authorities : core[n] = s(n)
  BY DEF Init
<1>3. \A n : /\ s(n).sent = {} /\ s(n).store = {} /\ s(n).tx_commit = <<>>
             /\ s(n).rx_loopback = {} /\ s(n).pending = {} /\ s(n).waiting = {}
             /\ s(n).high_qc = Genesis /\ s(n).tx_proposer = FirstMake(n)
  BY DEF Boot
<1>4. Network \in SUBSET Message
  BY <1>1 DEF Network, CoreState, TypeOK
<1> HIDE DEF s
<1>5. Sound
  <2>1. ASSUME NEW n \in Authorities PROVE SoundCore(Network, n, core[n])
    <3>1. SoundSent(Network, n, s(n)) /\ SoundStore(Network, s(n))
          /\ SoundCommits(Network, s(n))
      BY <1>3 DEF SoundSent, SoundStore, SoundCommits
    <3>2. {} \in SUBSET Block /\ {} \in SUBSET Digest /\ {} \in SUBSET Message
          /\ <<>> \in Seq(Block)
      BY EmptySeq
    <3>3. SoundCore(Network, n, Boot(n, {}, {}, {}, <<>>))
      BY <1>4, <3>1, <3>2, BootSound DEF s
    <3> QED BY <1>2, <3>3 DEF s
  <2> QED BY <2>1 DEF Sound
<1>6. Remembering
  <2>1. ASSUME NEW n \in Authorities PROVE Faithful(s(n))
    <3>1. SentVotes(s(n)) = {} /\ SentTimeouts(s(n)) = {}
      BY <1>3 DEF SentVotes, SentTimeouts
    <3>2. \A i \in DOMAIN FirstMake(n) : FirstMake(n)[i].qc = Genesis
      <4> DEFINE m == [type |-> "Make", round |-> 1, qc |-> Genesis, tc |-> NoTC]
      <4>1. FirstMake(n) = IF n = get_leader(1) THEN <<m>> ELSE <<>>
        BY DEF FirstMake
      <4>2. m.qc = Genesis
        OBVIOUS
      <4> HIDE DEF m
      <4>3. \A i \in DOMAIN <<m>> : <<m>>[i] = m
        OBVIOUS
      <4> QED BY <4>1, <4>2, <4>3
    <3>3. Round(Genesis) <= Round(Genesis)
      BY BlockAssumption
    <3> QED BY <1>3, <3>1, <3>2, <3>3
            DEF Faithful, RemembersRounds, RemembersQCs, VotesOnce, ReportsVotes
  <2> QED BY <1>2, <2>1 DEF Remembering
<1> QED BY <1>1, <1>5, <1>6 DEF Inv

\* All that arrives is sound.
LEMMA Delivered ==
  ASSUME Inv
  PROVE  /\ Network \in SUBSET Message
         /\ \A m \in Network : SoundMessage(Network, m)
         /\ \A n \in Authorities :
              /\ core[n] \in CoreState
              /\ Good(restarts = 0, Network, n, core[n])
<1>1. \A n \in Authorities : core[n] \in CoreState /\ SoundCore(Network, n, core[n])
  BY DEF Inv, TypeOK, Sound
<1>2. \A n \in Authorities : Good(restarts = 0, Network, n, core[n])
  BY <1>1 DEF Inv, Remembering, Good
<1>3. Network \in SUBSET Message
  BY <1>1 DEF Network, CoreState
<1>4. \A m \in Network : SoundMessage(Network, m)
  <2>1. \A m \in Network : \E n \in Authorities : m \in core[n].sent
    BY DEF Network
  <2> QED BY <1>1, <2>1 DEF SoundCore, SoundSent
<1> QED BY <1>1, <1>2, <1>3, <1>4

\* What a step of node n starts from, seen with the messages there are after it.
LEMMA Before ==
  ASSUME Inv, NEW n \in Authorities, NEW s \in CoreState,
         core' = [core EXCEPT ![n] = s], core[n].sent \subseteq s.sent
  PROVE  /\ Network' \in SUBSET Message /\ s.sent \subseteq Network'
         /\ Network \subseteq Network'
         /\ \A m \in Network : SoundMessage(Network', m)
         /\ \A k \in Authorities : Good(restarts = 0, Network', k, core[k])
<1> DEFINE N == Network
           M == Network'
<1>1. core \in [Authorities -> CoreState]
  BY DEF Inv, TypeOK
<1>2. \A k \in Authorities : core'[k] = IF k = n THEN s ELSE core[k]
  BY <1>1
<1>3. M = UNION {core'[k].sent : k \in Authorities}
  BY DEF Network
<1>4. N = UNION {core[k].sent : k \in Authorities}
  BY DEF Network
<1>5. M \in SUBSET Message
  BY <1>1, <1>2, <1>3 DEF CoreState
<1>6. s.sent \subseteq M /\ N \subseteq M
  BY <1>2, <1>3, <1>4
<1>7. /\ N \in SUBSET Message /\ \A m \in N : SoundMessage(N, m)
      /\ \A k \in Authorities : Good(restarts = 0, N, k, core[k])
  BY Delivered
<1> HIDE DEF N, M
<1>8. \A m \in N : SoundMessage(M, m)
  BY <1>5, <1>6, <1>7, MessageGrows
<1>9. \A k \in Authorities : Good(restarts = 0, M, k, core[k])
  BY <1>5, <1>6, <1>7, CoreGrows DEF Good
<1> QED BY <1>5, <1>6, <1>8, <1>9 DEF N, M

\* A step of node n keeps the invariant when it keeps the part about n.
LEMMA NodeStep ==
  ASSUME Inv, TypeOK', NEW n \in Authorities, NEW s \in CoreState,
         core' = [core EXCEPT ![n] = s], core[n].sent \subseteq s.sent,
         restarts' = 0 => restarts = 0,
         Good(restarts' = 0, Network', n, s)
  PROVE  Inv'
<1>1. core \in [Authorities -> CoreState]
  BY DEF Inv, TypeOK
<1>2. \A k \in Authorities : core'[k] = IF k = n THEN s ELSE core[k]
  BY <1>1
<1>3. \A k \in Authorities : Good(restarts = 0, Network', k, core[k])
  BY Before
<1>4. Sound'
  BY <1>2, <1>3 DEF Sound, Good
<1>5. Remembering'
  BY <1>2, <1>3 DEF Remembering, Good
<1> QED BY <1>4, <1>5 DEF Inv

-----------------------------------------------------------------------------
(* The actions. *)

\* Every step keeps it: one case per action of Next.
LEMMA InvStep == Inv /\ [Next]_vars => Inv'
<1> SUFFICES ASSUME Inv, [Next]_vars PROVE Inv'
  OBVIOUS
<1>1. TypeOK'
  BY TypeStep DEF Inv
<1>2. CASE UNCHANGED vars
  <2>1. core' = core /\ restarts' = restarts /\ Network' = Network
    BY <1>2 DEF vars, Network
  <2> QED BY <2>1, <1>1 DEF Inv, Sound, Remembering
<1> SUFFICES ASSUME NEW n \in Authorities,
                    \/ ReceiveProposal(n) \/ ReceiveVote(n)
                    \/ ReceiveTimeout(n) \/ ReceiveTC(n) \/ TimerFires(n)
                    \/ ReceiveLoopback(n) \/ ParentStored(n)
                    \/ PayloadStored(n) \/ ReceiveBatch(n) \/ ProposerMake(n)
                    \/ ProposerCleanup(n) \/ Restart(n)
             PROVE  Inv'
  BY <1>2 DEF Next
<1> DEFINE c == core[n]
           N == Network'
           fresh == restarts = 0
<1>c. c \in CoreState
  BY DEF Inv, TypeOK
\* What a step needs: s is reached by Step, adds to what was sent, and is good.
<1>3. ASSUME NEW s \in CoreState, Step(n, s), c.sent \subseteq s.sent,
             Good(fresh, N, n, s)
      PROVE  Inv'
  <2>1. core' = [core EXCEPT ![n] = s] /\ restarts' = restarts
    BY <1>3 DEF Step
  <2> QED BY <1>1, <1>3, <2>1, NodeStep
<1>4. ASSUME NEW s \in CoreState, Step(n, s), c.sent \subseteq s.sent
      PROVE  /\ N \in SUBSET Message /\ s.sent \subseteq N
             /\ Network \subseteq N
             /\ \A m \in Network : SoundMessage(N, m)
             /\ Good(fresh, N, n, c)
  <2>1. core' = [core EXCEPT ![n] = s]
    BY <1>4 DEF Step
  <2> QED BY <1>4, <2>1, Before
<1>5. /\ \A m \in Proposals : m \in Network /\ m \in Proposal /\ m.type = "Propose"
      /\ \A m \in Votes : m \in Network /\ m \in Vote
      /\ \A m \in Timeouts : m \in Network /\ m \in Timeout /\ m.type = "Timeout"
      /\ \A m \in TCs : m \in Network /\ m \in TCMsg /\ m.type = "TC"
  <2>1. Network \in SUBSET Message
    BY Delivered
  <2> QED BY <2>1 DEF Proposals, Votes, Timeouts, TCs, Message, Proposal, Vote,
                      Timeout, TCMsg
<1> HIDE DEF fresh, N
<1>6. CASE ReceiveProposal(n)
  <2>1. PICK p \in Proposals : Step(n, handle_proposal(c, n, p))
    BY <1>6 DEF ReceiveProposal
  <2>2. p \in Network /\ p \in Proposal /\ p.type = "Propose"
    BY <1>5
  <2> DEFINE s == handle_proposal(c, n, p)
  <2>3. s \in CoreState /\ c.sent \subseteq s.sent /\ Step(n, s)
    BY <1>c, <2>1, <2>2, handle_proposalType, handle_proposalSends
  <2>4. /\ N \in SUBSET Message /\ s.sent \subseteq N /\ p \in N
        /\ SoundMessage(N, p) /\ Good(fresh, N, n, c)
    <3> HIDE DEF c, s
    <3> QED BY <1>4, <2>2, <2>3
  <2>5. SoundProposal(N, p)
    BY <2>2, <2>4 DEF SoundMessage
  <2> HIDE DEF c
  <2>6. Good(fresh, N, n, s)
    BY <1>c, <2>2, <2>4, <2>5, handle_proposalGood
  <2> HIDE DEF s
  <2> QED BY <2>3, <2>6, <1>3
<1>7. CASE ReceiveVote(n)
  <2>1. PICK v \in Votes : Step(n, handle_vote(c, n, v))
    BY <1>7 DEF ReceiveVote
  <2>2. v \in Network /\ v \in Vote
    BY <1>5
  <2> DEFINE s == handle_vote(c, n, v)
  <2>3. s \in CoreState /\ c.sent \subseteq s.sent /\ Step(n, s)
    BY <1>c, <2>1, <2>2, handle_voteType, handle_voteSends
  <2> HIDE DEF c
  <2>4. N \in SUBSET Message /\ v \in N /\ Good(fresh, N, n, c)
    <3> HIDE DEF s
    <3> QED BY <1>4, <2>2, <2>3
  <2>5. Good(fresh, N, n, s)
    BY <1>c, <2>2, <2>4, handle_voteGood
  <2> HIDE DEF s
  <2> QED BY <2>3, <2>5, <1>3
<1>8. CASE ReceiveTimeout(n)
  <2>1. PICK t \in Timeouts : Step(n, handle_timeout(c, n, t))
    BY <1>8 DEF ReceiveTimeout
  <2>2. t \in Network /\ t \in Timeout /\ t.type = "Timeout"
    BY <1>5
  <2> DEFINE s == handle_timeout(c, n, t)
  <2>3. s \in CoreState /\ c.sent \subseteq s.sent /\ Step(n, s)
    BY <1>c, <2>1, <2>2, handle_timeoutType, handle_timeoutSends
  <2> HIDE DEF c
  <2>4. /\ N \in SUBSET Message /\ s.sent \subseteq N /\ t \in N
        /\ SoundMessage(N, t) /\ Good(fresh, N, n, c)
    <3> HIDE DEF s
    <3> QED BY <1>4, <2>2, <2>3
  <2>5. SoundTimeout(N, t)
    BY <2>2, <2>4 DEF SoundMessage
  <2>6. Good(fresh, N, n, s)
    BY <1>c, <2>2, <2>4, <2>5, handle_timeoutGood
  <2> HIDE DEF s
  <2> QED BY <2>3, <2>6, <1>3
<1>9. CASE ReceiveTC(n)
  <2>1. PICK m \in TCs : Step(n, handle_tc(c, n, m.tc))
    BY <1>9 DEF ReceiveTC
  <2>2. m \in Network /\ m \in TCMsg /\ m.type = "TC" /\ m.tc \in TC
    BY <1>5 DEF TCMsg
  <2> DEFINE s == handle_tc(c, n, m.tc)
  <2>3. s \in CoreState /\ c.sent \subseteq s.sent /\ Step(n, s)
    BY <1>c, <2>1, <2>2, handle_tcType, handle_tcSends
  <2> HIDE DEF c
  <2>4. /\ N \in SUBSET Message /\ SoundMessage(N, m) /\ Good(fresh, N, n, c)
    <3> HIDE DEF s
    <3> QED BY <1>4, <2>2, <2>3
  <2>5. BackedIn(N, m.tc)
    BY <2>2, <2>4 DEF SoundMessage
  <2>6. Good(fresh, N, n, s)
    BY <1>c, <2>2, <2>4, <2>5, handle_tcGood
  <2> HIDE DEF s
  <2> QED BY <2>3, <2>6, <1>3
<1>10. CASE TimerFires(n)
  <2> DEFINE s == local_timeout_round(c, n)
  <2>1. Step(n, s)
    BY <1>10 DEF TimerFires
  <2>2. s \in CoreState /\ c.sent \subseteq s.sent
    BY <1>c, local_timeout_roundType, local_timeout_roundSends
  <2> HIDE DEF c
  <2>3. N \in SUBSET Message /\ s.sent \subseteq N /\ Good(fresh, N, n, c)
    <3> HIDE DEF s
    <3> QED BY <1>4, <2>1, <2>2
  <2>4. Good(fresh, N, n, s)
    BY <1>c, <2>3, local_timeout_roundGood
  <2> HIDE DEF s
  <2> QED BY <2>1, <2>2, <2>4, <1>3
\* Steps in which messages only change hands between the tasks of the node.
<1>11. ASSUME NEW s \in CoreState, Step(n, s),
              s.sent = c.sent, s.store = c.store, s.tx_commit = c.tx_commit,
              s.high_qc = c.high_qc, s.tx_proposer = c.tx_proposer,
              s.round = c.round, s.last_voted_round = c.last_voted_round,
              s.votes = c.votes, s.timeouts = c.timeouts,
              Held(s) \subseteq Held(c)
       PROVE  Inv'
  <2> HIDE DEF c
  <2>1. c.sent \subseteq s.sent
    BY <1>11
  <2>2. N \in SUBSET Message /\ Good(fresh, N, n, c)
    BY <1>4, <1>11, <2>1
  <2>3. /\ s.round >= c.round /\ s.last_voted_round >= c.last_voted_round
        /\ s.votes \subseteq N /\ s.timeouts \subseteq N
        /\ \A p \in Held(s) : p \in Held(c)
    <3>1. c.round \in Nat /\ c.last_voted_round \in Nat
      BY <1>c DEF CoreState
    <3>2. c.votes \subseteq N /\ c.timeouts \subseteq N
      BY <2>2 DEF Good, SoundCore, SoundKept
    <3> QED BY <1>11, <3>1, <3>2
  <2>4. Good(fresh, N, n, s)
    BY <1>c, <1>11, <2>2, <2>3, Rearranged
  <2> QED BY <1>3, <1>11, <2>1, <2>4
<1>12. CASE ReceiveLoopback(n)
  <2>1. PICK p \in c.rx_loopback :
          Step(n, process_block([c EXCEPT !.rx_loopback = @ \ {p}], n, p))
    BY <1>12 DEF ReceiveLoopback
  <2> HIDE DEF c
  <2> DEFINE L == c.rx_loopback \ {p}
             u == [c EXCEPT !.rx_loopback = L]
             s == process_block(u, n, p)
  <2>2. u \in CoreState /\ p \in Proposal /\ Step(n, s)
    BY <1>c, <2>1, Zenon DEF CoreState
  <2>3. /\ u.sent = c.sent /\ u.store = c.store /\ u.tx_commit = c.tx_commit
        /\ u.high_qc = c.high_qc /\ u.tx_proposer = c.tx_proposer
        /\ u.round = c.round /\ u.last_voted_round = c.last_voted_round
        /\ u.votes = c.votes /\ u.timeouts = c.timeouts
        /\ Held(u) \subseteq Held(c)
    BY <1>c DEF CoreState, Held
  <2> HIDE DEF u
  <2>4. s \in CoreState /\ c.sent \subseteq s.sent
    BY <2>2, <2>3, process_blockType, process_blockSends
  <2>5. /\ N \in SUBSET Message /\ s.sent \subseteq N /\ Network \subseteq N
        /\ \A m \in Network : SoundMessage(N, m)
        /\ Good(fresh, N, n, c)
    <3> HIDE DEF s
    <3> QED BY <1>4, <2>2, <2>4
  <2>6. Good(fresh, N, n, u)
    <3>1. /\ u.round >= c.round /\ u.last_voted_round >= c.last_voted_round
          /\ u.votes \subseteq N /\ u.timeouts \subseteq N
          /\ \A q \in Held(u) : q \in Held(c)
      <4>1. c.round \in Nat /\ c.last_voted_round \in Nat
        BY <1>c DEF CoreState
      <4>2. c.votes \subseteq N /\ c.timeouts \subseteq N
        BY <2>5 DEF Good, SoundCore, SoundKept
      <4> QED BY <2>3, <4>1, <4>2
    <3> QED BY <1>c, <2>2, <2>3, <2>5, <3>1, Rearranged
  <2>7. p \in Network
    <3>1. SoundCore(Network, n, c)
      BY Delivered DEF Good, c
    <3> QED BY <2>1, <3>1 DEF SoundCore, SoundKept
  <2>8. p \in N /\ SoundProposal(N, p)
    BY <2>2, <2>5, <2>7 DEF SoundMessage, Proposal
  <2>9. fresh => Round(Parent(p.block)) <= Round(u.high_qc)
    BY <2>1, <2>3, <2>5 DEF Good, Faithful, RemembersQCs
  <2>10. Good(fresh, N, n, s)
    BY <2>2, <2>5, <2>6, <2>8, <2>9, process_blockGood
  <2> HIDE DEF s
  <2> QED BY <2>2, <2>4, <2>10, <1>3
<1>13. CASE ParentStored(n)
  <2>1. PICK p \in c.pending :
          Step(n, [c EXCEPT !.pending = @ \ {p}, !.rx_loopback = @ \cup {p}])
    BY <1>13 DEF ParentStored
  <2> HIDE DEF c
  <2> DEFINE P == c.pending \ {p}
             L == c.rx_loopback \cup {p}
             s == [c EXCEPT !.pending = P, !.rx_loopback = L]
  <2>2. s \in CoreState /\ Step(n, s)
    BY <1>c, <2>1, Zenon DEF CoreState
  <2>3. /\ s.sent = c.sent /\ s.store = c.store /\ s.tx_commit = c.tx_commit
        /\ s.high_qc = c.high_qc /\ s.tx_proposer = c.tx_proposer
        /\ s.round = c.round /\ s.last_voted_round = c.last_voted_round
        /\ s.votes = c.votes /\ s.timeouts = c.timeouts
        /\ Held(s) \subseteq Held(c)
    BY <1>c, <2>1 DEF CoreState, Held
  <2> HIDE DEF s
  <2> QED BY <1>11, <2>2, <2>3
<1>14. CASE PayloadStored(n)
  <2>1. PICK p \in c.waiting :
          Step(n, [c EXCEPT !.waiting = @ \ {p}, !.rx_loopback = @ \cup {p}])
    BY <1>14 DEF PayloadStored
  <2> HIDE DEF c
  <2> DEFINE W == c.waiting \ {p}
             L == c.rx_loopback \cup {p}
             s == [c EXCEPT !.waiting = W, !.rx_loopback = L]
  <2>2. s \in CoreState /\ Step(n, s)
    BY <1>c, <2>1, Zenon DEF CoreState
  <2>3. /\ s.sent = c.sent /\ s.store = c.store /\ s.tx_commit = c.tx_commit
        /\ s.high_qc = c.high_qc /\ s.tx_proposer = c.tx_proposer
        /\ s.round = c.round /\ s.last_voted_round = c.last_voted_round
        /\ s.votes = c.votes /\ s.timeouts = c.timeouts
        /\ Held(s) \subseteq Held(c)
    BY <1>c, <2>1 DEF CoreState, Held
  <2> HIDE DEF s
  <2> QED BY <1>11, <2>2, <2>3
<1>15. CASE ReceiveBatch(n)
  <2>d. PICK d \in Digest : \E handed \in SUBSET {d} :
          Step(n, [c EXCEPT !.batches = @ \cup {d}, !.buffer = @ \cup handed])
    BY <1>15 DEF ReceiveBatch
  <2>1. PICK handed \in SUBSET {d} :
          Step(n, [c EXCEPT !.batches = @ \cup {d}, !.buffer = @ \cup handed])
    BY <2>d
  <2> HIDE DEF c
  <2> DEFINE B == c.batches \cup {d}
             H == c.buffer \cup handed
             s == [c EXCEPT !.batches = B, !.buffer = H]
  <2>2. s \in CoreState /\ Step(n, s)
    <3>1. handed \in SUBSET Digest
      OBVIOUS
    <3> QED BY <1>c, <2>1, <3>1, Zenon DEF CoreState
  <2>3. /\ s.sent = c.sent /\ s.store = c.store /\ s.tx_commit = c.tx_commit
        /\ s.high_qc = c.high_qc /\ s.tx_proposer = c.tx_proposer
        /\ s.round = c.round /\ s.last_voted_round = c.last_voted_round
        /\ s.votes = c.votes /\ s.timeouts = c.timeouts
        /\ Held(s) \subseteq Held(c)
    BY <1>c DEF CoreState, Held
  <2> HIDE DEF s
  <2> QED BY <1>11, <2>2, <2>3
\* The Proposer's steps start from the state without the message.
<1>16. ASSUME c.tx_proposer # <<>>, NEW u \in CoreState,
              u.sent = c.sent, u.store = c.store, u.tx_commit = c.tx_commit,
              u.high_qc = c.high_qc, u.tx_proposer = Tail(c.tx_proposer),
              u.round = c.round, u.last_voted_round = c.last_voted_round,
              u.votes = c.votes, u.timeouts = c.timeouts, Held(u) = Held(c),
              N \in SUBSET Message, Good(fresh, N, n, c)
       PROVE  Good(fresh, N, n, u)
  <2> HIDE DEF c
  <2>1. \A i \in DOMAIN u.tx_proposer : \E j \in DOMAIN c.tx_proposer :
          u.tx_proposer[i] = c.tx_proposer[j]
    <3> DEFINE q == c.tx_proposer
    <3>1. q \in Seq(Make \cup Cleanup) /\ q # <<>>
      BY <1>c, <1>16 DEF CoreState
    <3> HIDE DEF q
    <3>2. \A i \in DOMAIN Tail(q) : i + 1 \in DOMAIN q /\ Tail(q)[i] = q[i + 1]
      BY <3>1
    <3> QED BY <1>16, <3>2 DEF q
  <2> QED BY <1>c, <1>16, <2>1, Dequeued
<1>17. ASSUME c.tx_proposer # <<>>
       PROVE  /\ 1 \in DOMAIN c.tx_proposer
              /\ Head(c.tx_proposer) = c.tx_proposer[1]
              /\ Head(c.tx_proposer) \in Make \cup Cleanup
              /\ Tail(c.tx_proposer) \in Seq(Make \cup Cleanup)
  <2> DEFINE q == c.tx_proposer
  <2>1. q \in Seq(Make \cup Cleanup) /\ q # <<>>
    BY <1>c, <1>17 DEF CoreState
  <2> HIDE DEF q
  <2>2. /\ 1 \in DOMAIN q /\ Head(q) = q[1]
        /\ Head(q) \in Make \cup Cleanup /\ Tail(q) \in Seq(Make \cup Cleanup)
    BY <2>1, HeadTailProperties
  <2> QED BY <2>2 DEF q
<1>18. CASE ProposerMake(n)
  <2> DEFINE m == Head(c.tx_proposer)
             rest == Tail(c.tx_proposer)
             u == [c EXCEPT !.tx_proposer = rest]
  <2>1. /\ c.tx_proposer # <<>> /\ m.type = "Make"
        /\ \/ Step(n, u)
           \/ \E b \in Block : Parent(b) = m.qc /\ Step(n, MakeBlock(u, n, m, b))
    BY <1>18 DEF ProposerMake
  <2>2. /\ m \in Make /\ rest \in Seq(Make \cup Cleanup)
        /\ 1 \in DOMAIN c.tx_proposer /\ m = c.tx_proposer[1]
    BY <1>17, <2>1 DEF Make, Cleanup
  <2>r. rest = Tail(c.tx_proposer)
    OBVIOUS
  <2> HIDE DEF c, m, rest
  <2>3. u \in CoreState
    BY <1>c, <2>2, Zenon DEF CoreState
  <2>4. /\ u.sent = c.sent /\ u.store = c.store /\ u.tx_commit = c.tx_commit
        /\ u.high_qc = c.high_qc /\ u.tx_proposer = rest
        /\ u.round = c.round /\ u.last_voted_round = c.last_voted_round
        /\ u.votes = c.votes /\ u.timeouts = c.timeouts
        /\ Held(u) = Held(c)
    BY <1>c DEF CoreState, Held
  <2> HIDE DEF u
  <2>5. ASSUME Good(fresh, N, n, c)
        PROVE  /\ SoundMake(N, m)
               /\ fresh => Round(m.qc) <= Round(u.high_qc)
    BY <2>1, <2>2, <2>4, <2>5
       DEF Good, SoundCore, SoundKept, Faithful, RemembersQCs
  <2>6. CASE Step(n, u)
    <3>1. N \in SUBSET Message /\ Good(fresh, N, n, c)
      BY <1>4, <2>3, <2>4, <2>6
    <3>2. Good(fresh, N, n, u)
      BY <1>16, <2>1, <2>3, <2>4, <2>r, <3>1
    <3> QED BY <1>3, <2>3, <2>4, <2>6, <3>2
  <2>7. ASSUME NEW b \in Block, Parent(b) = m.qc, Step(n, MakeBlock(u, n, m, b))
        PROVE  Inv'
    <3> DEFINE s == MakeBlock(u, n, m, b)
    <3>1. s \in CoreState /\ Step(n, s)
      BY <2>2, <2>3, <2>7, MakeBlockType
    <3>2. c.sent \subseteq s.sent
      BY <2>2, <2>3, <2>4, MakeBlockSends
    <3>3. N \in SUBSET Message /\ s.sent \subseteq N /\ Good(fresh, N, n, c)
      <4> HIDE DEF s
      <4> QED BY <1>4, <3>1, <3>2
    <3>4. Good(fresh, N, n, u)
      BY <1>16, <2>1, <2>3, <2>4, <2>r, <3>3
    <3>5. Good(fresh, N, n, s)
      BY <2>2, <2>3, <2>5, <2>7, <3>3, <3>4, MakeBlockGood
    <3> HIDE DEF s
    <3> QED BY <1>3, <3>1, <3>2, <3>5
  <2> QED BY <2>1, <2>6, <2>7
<1>19. CASE ProposerCleanup(n)
  <2> DEFINE rest == Tail(c.tx_proposer)
             B == c.buffer \ Head(c.tx_proposer).digests
             u == [c EXCEPT !.tx_proposer = rest, !.buffer = B]
  <2>1. c.tx_proposer # <<>> /\ Step(n, u)
    BY <1>19 DEF ProposerCleanup
  <2>2. rest \in Seq(Make \cup Cleanup) /\ B \subseteq c.buffer
    BY <1>17, <2>1
  <2>r. rest = Tail(c.tx_proposer)
    OBVIOUS
  <2> HIDE DEF c, rest, B
  <2>3. u \in CoreState
    BY <1>c, <2>2, Zenon DEF CoreState
  <2>4. /\ u.sent = c.sent /\ u.store = c.store /\ u.tx_commit = c.tx_commit
        /\ u.high_qc = c.high_qc /\ u.tx_proposer = rest
        /\ u.round = c.round /\ u.last_voted_round = c.last_voted_round
        /\ u.votes = c.votes /\ u.timeouts = c.timeouts
        /\ Held(u) = Held(c)
    BY <1>c DEF CoreState, Held
  <2> HIDE DEF u
  <2>5. N \in SUBSET Message /\ Good(fresh, N, n, c)
    BY <1>4, <2>1, <2>3, <2>4
  <2>6. Good(fresh, N, n, u)
    BY <1>16, <2>1, <2>3, <2>4, <2>r, <2>5
  <2> QED BY <1>3, <2>1, <2>3, <2>4, <2>6
<1>20. CASE Restart(n)
  <2> DEFINE s == Boot(n, c.store, c.batches, c.sent, c.tx_commit)
  <2>1. core' = [core EXCEPT ![n] = s] /\ restarts' = restarts + 1
    BY <1>20 DEF Restart
  <2>2. restarts' # 0 /\ ~ (restarts' = 0)
    <3>1. restarts \in Nat
      BY BoundsAssumption DEF Inv, TypeOK
    <3> QED BY <2>1, <3>1
  <2>3. s \in CoreState
    BY <1>c, BootType DEF CoreState
  <2>4. s.sent = c.sent /\ s.store = c.store /\ s.tx_commit = c.tx_commit
    BY DEF Boot
  <2>5. N \in SUBSET Message /\ Good(fresh, N, n, c)
    <3> HIDE DEF s
    <3> QED BY <2>1, <2>3, <2>4, Before DEF N, fresh
  <2> HIDE DEF c
  <2>6. SoundSent(N, n, s) /\ SoundStore(N, s) /\ SoundCommits(N, s)
    <3> HIDE DEF s
    <3> QED BY <2>4, <2>5 DEF Good, SoundCore, SoundSent, SoundStore,
                              SoundCommits, Stored
  <2>7. SoundCore(N, n, s)
    BY <1>c, <2>5, <2>6, BootSound DEF CoreState
  <2> HIDE DEF s
  <2>8. Good(restarts' = 0, N, n, s)
    BY <2>2, <2>7 DEF Good
  <2> QED BY <1>1, <2>1, <2>2, <2>3, <2>4, <2>8, NodeStep DEF N, c
<1> QED BY <1>6, <1>7, <1>8, <1>9, <1>10, <1>12, <1>13, <1>14, <1>15, <1>18,
           <1>19, <1>20

\* The invariant holds throughout, whatever is lost, repeated or reordered and
\* whenever a node is restarted.
THEOREM Invariance == Spec => []Inv
BY InitInv, InvStep, PTL DEF Spec

-----------------------------------------------------------------------------
(* The sets HotStuff states its properties with, and those of the invariant. *)

\* The messages of each type.
LEMMA Bridge ==
  /\ Votes = VotesIn(Network) /\ Timeouts = TimeoutsIn(Network)
  /\ Votes \subseteq Network /\ Timeouts \subseteq Network
BY DEF Votes, Timeouts, VotesIn, TimeoutsIn

\* A block is certified when somebody voted for it: no quorum is empty.
LEMMA CertifiedBridge ==
  ASSUME Inv
  PROVE  /\ \A b : b \in CertifiedBlocks <=> CertifiedIn(Network, b)
         /\ \A b : b \in ChosenBlocks <=> ChosenIn(Network, b)
<1>1. Network \in SUBSET Message
  BY Delivered
<1>2. Votes \in SUBSET Vote
  BY <1>1, Bridge, InTypes
<1>3. ASSUME NEW b, HasQuorumFor(Votes, b) PROVE \E v \in Votes : v.block = b
  <2> DEFINE A == {v.author : v \in {w \in Votes : w.block = b}}
  <2>1. A \in SUBSET Authorities
    BY <1>2 DEF Vote
  <2>2. IsQuorum(A)
    BY <1>3 DEF HasQuorumFor
  <2>3. \E a \in Authorities : a \in A
    <3> HIDE DEF A
    <3> QED BY <2>1, <2>2, QuorumsMeet
  <2> QED BY <2>3
<1>4. \A v \in Votes : v.block \in Block
  BY <1>2 DEF Vote
<1>5. \A b : b \in CertifiedBlocks <=> CertifiedIn(Network, b)
  BY <1>3, <1>4, Bridge, BlockAssumption
     DEF CertifiedBlocks, CertifiedIn, Certified
<1>6. \A b : CertifiedIn(Network, b) => b \in Block
  BY DEF CertifiedIn
<1>7. \A b : b \in ChosenBlocks <=> ChosenIn(Network, b)
  <2> DEFINE C == CertifiedBlocks
  <2>1. ChosenBlocks = {b \in C \ {Genesis} :
                          \E c \in C : Parent(c) = b /\ Round(c) = Round(b) + 1}
    BY DEF ChosenBlocks
  <2> HIDE DEF C
  <2>2. \A b : b \in C <=> CertifiedIn(Network, b)
    BY <1>5 DEF C
  <2> QED BY <1>6, <2>1, <2>2 DEF ChosenIn
<1> QED BY <1>5, <1>7

\* Who sent a vote or a timeout is its author.
LEMMA Authors ==
  ASSUME Inv
  PROVE  /\ Votes \in SUBSET Vote /\ Timeouts \in SUBSET Timeout
         /\ \A v \in Votes :
              v.author \in Authorities /\ v \in SentVotes(core[v.author])
         /\ \A t \in Timeouts :
              t.author \in Authorities /\ t \in SentTimeouts(core[t.author])
         /\ \A v \in Votes : SoundVote(Network, v)
         /\ \A t \in Timeouts : SoundTimeout(Network, t)
<1>1. Network \in SUBSET Message /\ \A m \in Network : SoundMessage(Network, m)
  BY Delivered
<1>2. Votes \in SUBSET Vote /\ Timeouts \in SUBSET Timeout
  BY <1>1, Bridge, InTypes
<1>3. \A m \in Network : \E n \in Authorities :
        m.author = n /\ m \in core[n].sent
  <2>1. \A m \in Network : \E n \in Authorities : m \in core[n].sent
    BY DEF Network
  <2>2. \A n \in Authorities : \A m \in core[n].sent : m.author = n
    BY DEF Inv, Sound, SoundCore, SoundSent
  <2> QED BY <2>1, <2>2
<1>4. /\ \A v \in Votes : v \in Network /\ v.type = "Vote"
      /\ \A t \in Timeouts : t \in Network /\ t.type = "Timeout"
  BY DEF Votes, Timeouts
<1> QED BY <1>1, <1>2, <1>3, <1>4 DEF SoundMessage, SentVotes, SentTimeouts

-----------------------------------------------------------------------------
(* Properties that hold whatever is restarted. *)

\* StoreClosed: the walks of synchronizer.rs and commit never meet a block that
\* is not stored, after a restart either.
THEOREM StoreIsClosed == Spec => []StoreClosed
<1>1. Inv => StoreClosed
  BY DEF Inv, Sound, SoundCore, SoundStore, StoreClosed
<1> QED BY <1>1, Invariance, PTL

\* RoundAfterQC: process_qc advances the round before it takes the QC, so a
\* block or a timeout is of a later round than the QC it carries.
THEOREM RoundsFollowQCs == Spec => []RoundAfterQC
<1>1. Inv => RoundAfterQC
  <2> SUFFICES ASSUME Inv PROVE RoundAfterQC
    OBVIOUS
  <2>1. \A n \in Authorities : SoundQC(Network, core[n]) /\ SoundKept(Network, core[n])
    BY DEF Inv, Sound, SoundCore
  <2>2. \A n \in Authorities : Round(core[n].high_qc) < core[n].round
    BY <2>1 DEF SoundQC
  <2>3. \A n \in Authorities : \A i \in DOMAIN core[n].tx_proposer :
          core[n].tx_proposer[i].type = "Make" =>
            Round(core[n].tx_proposer[i].qc) < core[n].tx_proposer[i].round
    BY <2>1 DEF SoundKept, SoundMake
  <2>4. \A t \in Timeouts : Round(t.high_qc) < t.round
    BY Authors DEF SoundTimeout
  <2> QED BY <2>2, <2>3, <2>4 DEF RoundAfterQC
<1> QED BY <1>1, Invariance, PTL

\* CertificatesBacked: no QC without its votes and no TC without its timeouts
\* (QCMaker::append, TCMaker::append), kept, sent or proposed.
THEOREM CertificatesAreBacked == Spec => []CertificatesBacked
<1>1. Inv => CertificatesBacked
  <2> SUFFICES ASSUME Inv PROVE CertificatesBacked
    OBVIOUS
  <2>1. \A n \in Authorities : core[n].high_qc \in CertifiedBlocks
    BY CertifiedBridge DEF Inv, Sound, SoundCore, SoundQC
  <2>2. \A m \in Network : SoundMessage(Network, m)
    BY Delivered
  <2>3. /\ \A p \in Proposals : p \in Network /\ p.type = "Propose"
        /\ \A t \in Timeouts : t \in Network /\ t.type = "Timeout"
        /\ \A m \in TCs : m \in Network /\ m.type = "TC"
    BY DEF Proposals, Timeouts, TCs
  <2>4. \A p \in Proposals :
          /\ Parent(p.block) \in CertifiedBlocks
          /\ p.tc # NoTC => Backed(Timeouts, p.tc)
    BY <2>2, <2>3, CertifiedBridge, Bridge
       DEF SoundMessage, SoundProposal, BackedIn
  <2>5. \A t \in Timeouts : t.high_qc \in CertifiedBlocks
    BY <2>2, <2>3, CertifiedBridge DEF SoundMessage, SoundTimeout
  <2>6. \A m \in TCs : Backed(Timeouts, m.tc)
    <3>1. \A m \in TCs : m.tc # NoTC
      <4>1. \A m \in TCs : m.tc \in TC
        BY <2>3, Delivered DEF Message, Proposal, Vote, Timeout, TCMsg
      <4>2. NoTC \notin TC
        BY DEF NoTC, TC
      <4> QED BY <4>1, <4>2
    <3> QED BY <2>2, <2>3, <3>1, Bridge DEF SoundMessage, BackedIn
  <2> QED BY <2>1, <2>4, <2>5, <2>6 DEF CertificatesBacked
<1> QED BY <1>1, Invariance, PTL

-----------------------------------------------------------------------------
(* Properties of nodes that remember their votes. *)

\* VoteOnce follows from what every node remembers of its own votes.
LEMMA InvVoteOnce == Inv /\ restarts = 0 => VoteOnce
<1> SUFFICES ASSUME Inv, restarts = 0,
                    NEW v \in Votes, NEW w \in Votes,
                    v.author = w.author, Round(v.block) = Round(w.block)
             PROVE  v.block = w.block
  BY DEF VoteOnce
<1>1. /\ v \in SentVotes(core[v.author]) /\ w \in SentVotes(core[v.author])
      /\ v.author \in Authorities
  BY Authors
<1> QED BY <1>1 DEF Inv, Remembering, Faithful, VotesOnce

\* So does TimeoutReportsVotes.
LEMMA InvTimeoutReportsVotes == Inv /\ restarts = 0 => TimeoutReportsVotes
<1> SUFFICES ASSUME Inv, restarts = 0,
                    NEW t \in Timeouts, NEW v \in Votes,
                    v.author = t.author, Round(v.block) <= t.round
             PROVE  Round(Parent(v.block)) <= Round(t.high_qc)
  BY DEF TimeoutReportsVotes
<1>1. /\ v \in SentVotes(core[t.author]) /\ t \in SentTimeouts(core[t.author])
      /\ t.author \in Authorities
  BY Authors
<1> QED BY <1>1 DEF Inv, Remembering, Faithful, ReportsVotes

\* A chosen block is extended by every certified block of its round or a later
\* one: the smallest round of one that does not extend it would be that of the
\* chosen block (two votes of a node in a round), of its certified child (the
\* same), or a later one, whose QC is then below the chosen block although a
\* voter for the child is among those that timed out before it.
LEMMA InvChosenIsFinal == Inv /\ restarts = 0 => ChosenIsFinal
<1> SUFFICES ASSUME Inv, restarts = 0, NEW c \in ChosenBlocks
             PROVE  \A d \in CertifiedBlocks :
                      Round(d) >= Round(c) => Extends(d, c)
  BY DEF ChosenIsFinal
<1>1. VoteOnce /\ TimeoutReportsVotes
  BY InvVoteOnce, InvTimeoutReportsVotes
<1>2. Votes \in SUBSET Vote /\ Timeouts \in SUBSET Timeout
  BY Authors
<1>3. \A b \in CertifiedBlocks :
        /\ b \in Block /\ Round(b) \in Nat
        /\ b # Genesis => HasQuorumFor(Votes, b) /\ Parent(b) \in Block
  BY CertifiedBridge, Bridge, ParentRound DEF CertifiedIn, Certified
<1>4. PICK c1 \in CertifiedBlocks : Parent(c1) = c /\ Round(c1) = Round(c) + 1
  BY DEF ChosenBlocks
<1>5. c \in CertifiedBlocks /\ c # Genesis
  BY DEF ChosenBlocks
<1>6. /\ c \in Block /\ c1 \in Block /\ c1 # Genesis
      /\ Round(c) \in Nat /\ Round(c1) \in Nat /\ Round(c) # 0
      /\ HasQuorumFor(Votes, c) /\ HasQuorumFor(Votes, c1)
  <2>1. c \in Block /\ c1 \in Block /\ Round(c) \in Nat /\ Round(c1) \in Nat
    BY <1>3, <1>4, <1>5
  <2>2. c1 # Genesis
    BY <1>4, <2>1, BlockAssumption
  <2> QED BY <1>3, <1>4, <1>5, <2>1, <2>2, ParentRound
<1> DEFINE Bad == {x \in CertifiedBlocks : Round(x) >= Round(c) /\ ~ Extends(x, c)}
           S == {Round(x) : x \in Bad}
<1> SUFFICES ASSUME Bad # {} PROVE FALSE
  OBVIOUS
<1>7. PICK d \in Bad : \A x \in Bad : Round(d) <= Round(x)
  <2>1. S \in SUBSET Nat /\ S # {}
    BY <1>3
  <2>2. PICK r \in S : \A y \in S : r <= y
    <3> HIDE DEF S
    <3> QED BY <2>1, SmallestNat
  <2> QED BY <2>2
<1>8. /\ d \in CertifiedBlocks /\ Round(d) >= Round(c) /\ ~ Extends(d, c)
      /\ d \in Block /\ Round(d) \in Nat
  BY <1>3, <1>7
<1>9. d # Genesis /\ HasQuorumFor(Votes, d)
  <2>1. d # Genesis
    BY <1>6, <1>8, BlockAssumption
  <2> QED BY <1>3, <1>8, <2>1
<1>10. Extends(c, c)
  BY DEF Extends
<1>11. CASE Round(d) = Round(c)
  <2>1. PICK v \in Votes, w \in Votes :
          v.author = w.author /\ v.block = c /\ w.block = d
    BY <1>2, <1>6, <1>9, VotersMeet
  <2> QED BY <1>1, <1>8, <1>10, <1>11, <2>1 DEF VoteOnce
<1>12. CASE Round(d) = Round(c) + 1
  <2>1. PICK v \in Votes, w \in Votes :
          v.author = w.author /\ v.block = c1 /\ w.block = d
    BY <1>2, <1>6, <1>9, VotersMeet
  <2>2. d = c1
    BY <1>1, <1>4, <1>12, <2>1 DEF VoteOnce
  <2> QED BY <1>4, <1>6, <1>8, <1>9, <1>10, <2>2, ExtendsParent
<1>13. CASE Round(d) > Round(c) + 1
  <2>1. PICK w \in Votes : w.block = d
    BY <1>2, <1>6, <1>9, VotersMeet
  <2>2. CertifiedIn(Network, Parent(d)) /\ Justified(Network, d)
    BY <2>1, Authors DEF SoundVote
  <2>3. Parent(d) \in CertifiedBlocks
    BY <2>2, CertifiedBridge
  <2>4. Round(Parent(d)) \in Nat /\ Round(Parent(d)) < Round(d)
    BY <1>8, <1>9, <2>3, <1>3, ParentRound
  <2>5. Round(Parent(d)) >= Round(c)
    <3>1. CASE Round(Parent(d)) + 1 = Round(d)
      BY <1>6, <1>8, <1>13, <2>4, <3>1
    <3>2. CASE ~ (Round(Parent(d)) + 1 = Round(d))
      <4>1. PICK T \in SUBSET Timeouts :
              /\ IsQuorum({t.author : t \in T})
              /\ \A t \in T : /\ t.round + 1 = Round(d)
                              /\ Round(Parent(d)) >= Round(t.high_qc)
        BY <2>2, <3>2, Bridge DEF Justified
      <4>2. PICK v \in Votes, t \in T : v.author = t.author /\ v.block = c1
        BY <1>2, <1>6, <4>1, VotersTimedOut
      <4>3. t \in Timeouts /\ t.round \in Nat /\ t.high_qc \in Block
            /\ Round(t.high_qc) \in Nat
        BY <1>2, <4>1, ParentRound DEF Timeout
      <4>4. t.round + 1 = Round(d) /\ Round(Parent(d)) >= Round(t.high_qc)
        BY <4>1, <4>2
      <4>5. Round(v.block) <= t.round
        BY <1>4, <1>6, <1>8, <1>13, <4>2, <4>3, <4>4
      <4>6. Round(c) <= Round(t.high_qc)
        BY <1>1, <1>4, <4>2, <4>3, <4>5 DEF TimeoutReportsVotes
      <4> QED BY <1>6, <2>4, <4>3, <4>4, <4>6
    <3> QED BY <3>1, <3>2
  <2>6. Extends(Parent(d), c)
    <3>1. Parent(d) \notin Bad
      BY <1>7, <1>8, <2>4
    <3> QED BY <2>3, <2>5, <3>1
  <2> QED BY <1>6, <1>8, <1>9, <2>6, ExtendsParent
<1> QED BY <1>6, <1>8, <1>11, <1>12, <1>13

\* Two committed blocks are ancestors of chosen ones, and of two chosen blocks
\* the later extends the earlier.
LEMMA InvAgreement == Inv /\ restarts = 0 => Agreement
<1> SUFFICES ASSUME Inv, restarts = 0 PROVE Agreement
  OBVIOUS
<1>1. \A n \in Authorities : \A a \in Committed(n) :
        a \in Block /\ \E c \in ChosenBlocks : Extends(c, a)
  <2> TAKE n \in Authorities
  <2> TAKE a \in Committed(n)
  <2>1. PICK i \in DOMAIN core[n].tx_commit : core[n].tx_commit[i] = a
    BY DEF Committed, Range
  <2>2. a \in Block
    <3>1. core[n].tx_commit \in Seq(Block)
      BY DEF Inv, TypeOK, CoreState
    <3> QED BY <2>1, <3>1
  <2>3. SoundCommits(Network, core[n])
    BY DEF Inv, Sound, SoundCore
  <2> QED BY <2>1, <2>2, <2>3, CertifiedBridge DEF SoundCommits
<1>2. \A c \in ChosenBlocks : c \in CertifiedBlocks /\ c \in Block /\ Round(c) \in Nat
  BY CertifiedBridge, ParentRound DEF ChosenIn, CertifiedIn
<1>3. \A c, d \in ChosenBlocks : Extends(c, d) \/ Extends(d, c)
  <2>1. \A c, d \in ChosenBlocks : Round(d) >= Round(c) => Extends(d, c)
    BY <1>2, InvChosenIsFinal DEF ChosenIsFinal
  <2> QED BY <1>2, <2>1
<1>4. ASSUME NEW a \in Block, NEW b \in Block,
             NEW c \in ChosenBlocks, NEW d \in ChosenBlocks,
             Extends(c, a), Extends(d, b)
      PROVE  Extends(a, b) \/ Extends(b, a)
  <2>1. CASE Extends(c, d)
    <3>1. Extends(c, b)
      BY <1>2, <1>4, <2>1, ExtendsTransitive
    <3> QED BY <1>2, <1>4, <3>1, ExtendsLinear
  <2>2. CASE Extends(d, c)
    <3>1. Extends(d, a)
      BY <1>2, <1>4, <2>2, ExtendsTransitive
    <3> QED BY <1>2, <1>4, <3>1, ExtendsLinear
  <2> QED BY <1>3, <2>1, <2>2
<1> QED BY <1>1, <1>4 DEF Agreement

\* VoteOnce, until the first restart: core.rs:112 keeps its promise on every
\* interleaving of proposals, timeouts and blocks that come back from a task.
THEOREM VotesAreOnce == Spec => [](restarts = 0 => VoteOnce)
BY InvVoteOnce, Invariance, PTL

\* TimeoutReportsVotes, until the first restart: the high QC in a timeout of
\* local_timeout_round is not below the QC of any earlier vote.
THEOREM TimeoutsReportVotes == Spec => [](restarts = 0 => TimeoutReportsVotes)
BY InvTimeoutReportsVotes, Invariance, PTL

\* ChosenIsFinal, until the first restart: the two rules of make_vote and the
\* TCs keep a block that is chosen on every later chain.
THEOREM ChoiceIsFinal == Spec => [](restarts = 0 => ChosenIsFinal)
BY InvChosenIsFinal, Invariance, PTL

\* Agreement, until the first restart: what commit sends to the applications
\* lies on one chain.
THEOREM NodesAgree == Spec => [](restarts = 0 => Agreement)
BY InvAgreement, Invariance, PTL

-----------------------------------------------------------------------------
(* What the methods sign. *)

\* From s to t the node signs no vote and no timeout.
Silent(s, t) ==
  /\ s.sent \subseteq t.sent
  /\ \A m \in t.sent : m \in s.sent \/ m.type \notin {"Vote", "Timeout"}

\* What Voting asks of a vote for b, said of the state of one node.
MayVote(N, s, b) ==
  b # Genesis /\ s.last_voted_round < Round(b) /\ CertifiedIn(N, Parent(b)) /\ Justified(N, b)

\* From s to t node n signs a vote, which the messages in N allow.
SignsVote(N, n, s, t) ==
  \E b \in Block :
    /\ MayVote(N, s, b)
    /\ t.sent = s.sent \cup {[type |-> "Vote", author |-> n, block |-> b]}

\* A proposal that passes both rules of make_vote may be voted for.
LEMMA RulesSuffice ==
  ASSUME NEW N \in SUBSET Message, NEW s \in CoreState, NEW p \in Proposal,
         SoundProposal(N, p), SafetyRule1(s, p.block), SafetyRule2(p)
  PROVE  MayVote(N, s, p.block)
<1> DEFINE b == p.block
<1>1. b \in Block /\ Round(b) \in Nat
  BY ParentRound DEF Proposal
<1>2. s.last_voted_round < Round(b) /\ b # Genesis
  <2>1. s.last_voted_round \in Nat /\ Round(Genesis) = 0
    BY BlockAssumption DEF CoreState
  <2> QED BY <1>1, <2>1 DEF SafetyRule1
<1>3. Justified(N, b)
  <2>1. CASE Round(Parent(b)) + 1 = Round(b)
    BY <2>1 DEF Justified
  <2>2. CASE ~ (Round(Parent(b)) + 1 = Round(b))
    <3>1. /\ p.tc # NoTC /\ p.tc.round + 1 = Round(b)
          /\ \A r \in p.tc.high_qc_rounds : Round(Parent(b)) >= r
      BY <2>2 DEF SafetyRule2
    <3>2. PICK T \in SUBSET {t \in TimeoutsIn(N) : t.round = p.tc.round} :
            HasQuorumIn(T, p.tc.round) /\ p.tc = MakeTC(T, p.tc.round)
      BY <3>1 DEF SoundProposal, BackedIn, Backed
    <3>3. {u \in T : u.round = p.tc.round} = T
      BY <3>2
    <3>4. IsQuorum({t.author : t \in T})
      BY <3>2, <3>3 DEF HasQuorumIn
    <3>5. \A t \in T : Round(t.high_qc) \in p.tc.high_qc_rounds
      <4>1. MakeTC(T, p.tc.round).high_qc_rounds = {Round(t.high_qc) : t \in T}
        BY <3>3 DEF MakeTC
      <4> QED BY <4>1, <3>2
    <3> QED BY <3>1, <3>2, <3>4, <3>5 DEF Justified
  <2> QED BY <2>1, <2>2
<1> QED BY <1>2, <1>3 DEF MayVote, SoundProposal

\* make_vote signs one vote at most, also when it completes a QC.
LEMMA make_voteSigns ==
  ASSUME NEW N \in SUBSET Message, NEW n \in Authorities, NEW s \in CoreState,
         NEW p \in Proposal, SoundProposal(N, p)
  PROVE  LET t == make_vote(s, n, p)
         IN  t.sent = s.sent \/ SignsVote(N, n, s, t)
<1> DEFINE v == [type |-> "Vote", author |-> n, block |-> p.block]
           voted == Send(increase_last_voted_round(s, Round(p.block)), v)
<1>1. p.block \in Block /\ Round(p.block) \in Nat
  BY ParentRound DEF Proposal
<1>2. v \in Vote /\ v \in Message
  BY <1>1 DEF Vote, Message
<1>e. v = [type |-> "Vote", author |-> n, block |-> p.block]
  OBVIOUS
<1> HIDE DEF v
<1>3. voted \in CoreState /\ voted.sent = s.sent \cup {v}
  BY <1>1, <1>2, SendType, SendFrame, increase_last_voted_roundType,
     increase_last_voted_roundFrame
<1>4. \/ make_vote(s, n, p) = s
      \/ /\ SafetyRule1(s, p.block) /\ SafetyRule2(p)
         /\ make_vote(s, n, p) \in {voted, handle_vote(voted, n, v)}
  BY DEF make_vote, vote, v
<1> HIDE DEF voted
<1>5. handle_vote(voted, n, v).sent = voted.sent
  BY <1>2, <1>3, handle_voteSends
<1>6. CASE make_vote(s, n, p) = s
  BY <1>6
<1>7. CASE /\ SafetyRule1(s, p.block) /\ SafetyRule2(p)
           /\ make_vote(s, n, p) \in {voted, handle_vote(voted, n, v)}
  <2>1. make_vote(s, n, p).sent = s.sent \cup {v}
    BY <1>3, <1>5, <1>7
  <2>2. MayVote(N, s, p.block)
    BY <1>7, RulesSuffice
  <2> QED BY <1>1, <1>e, <2>1, <2>2 DEF SignsVote
<1> QED BY <1>4, <1>6, <1>7

\* Storing, cleaning up and committing sign nothing and leave last_voted_round.
LEMMA process_blockSigns ==
  ASSUME NEW N \in SUBSET Message, NEW n \in Authorities, NEW s \in CoreState,
         NEW p \in Proposal, SoundProposal(N, p)
  PROVE  LET t == process_block(s, n, p)
         IN  t.sent = s.sent \/ SignsVote(N, n, s, t)
<1> DEFINE b       == p.block
           b1      == Parent(b)
           b0      == Parent(b1)
           stored  == [s EXCEPT !.store = @ \cup {b}]
           digests == Payload(b0) \cup Payload(b1) \cup Payload(b)
           cleaned == cleanup_proposer(stored, digests)
           decided == IF Round(b0) + 1 = Round(b1)
                      THEN commit(cleanup_payload(cleaned, Round(b0)), b0)
                      ELSE cleaned
           Same(t) == /\ t \in CoreState /\ t.sent = s.sent
                      /\ t.last_voted_round = s.last_voted_round
<1>1. b \in Block /\ b1 \in Block /\ b0 \in Block /\ digests \in SUBSET Digest
  BY BlockAssumption DEF Proposal
<1>2. Same(stored)
  <2>1. stored \in CoreState
    BY <1>1, Zenon DEF CoreState
  <2> QED BY <2>1 DEF CoreState
<1> HIDE DEF b, b1, b0, stored, digests
<1>3. Same(cleaned)
  <2>1. cleaned \in CoreState
    BY <1>1, <1>2, cleanup_proposerType
  <2> QED BY <2>1, <1>2 DEF cleanup_proposer, CoreState
<1> HIDE DEF cleaned
<1>4. Same(decided)
  <2>1. \A r : Same(cleanup_payload(cleaned, r))
    BY <1>3, cleanup_payloadType DEF cleanup_payload, CoreState
  <2>2. Same(commit(cleanup_payload(cleaned, Round(b0)), b0))
    BY <1>1, <2>1, commitType, commitFrame
  <2> QED BY <1>3, <2>2
<1>5. process_block(s, n, p) \in {make_vote(decided, n, p), suspend(s, p)}
  BY DEF process_block, decided, cleaned, digests, stored, b, b1, b0
<1> HIDE DEF decided
<1>6. LET t == make_vote(decided, n, p)
      IN  t.sent = decided.sent \/ SignsVote(N, n, decided, t)
  BY <1>4, make_voteSigns
<1>7. suspend(s, p).sent = s.sent
  BY DEF suspend, CoreState
<1> QED BY <1>4, <1>5, <1>6, <1>7 DEF SignsVote, MayVote

\* Nor does taking in the QC and the TC of a proposal.
LEMMA handle_proposalSigns ==
  ASSUME NEW N \in SUBSET Message, NEW n \in Authorities, NEW s \in CoreState,
         NEW p \in Proposal, SoundProposal(N, p)
  PROVE  LET t == handle_proposal(s, n, p)
         IN  t.sent = s.sent \/ SignsVote(N, n, s, t)
<1>1. Parent(p.block) \in Block /\ (p.tc # NoTC => p.tc.round \in Nat)
  BY BlockAssumption DEF Proposal, TC
<1> DEFINE moved == process_qc(s, Parent(p.block))
           u == IF p.tc = NoTC THEN moved ELSE advance_round(moved, p.tc.round)
<1>2. /\ moved \in CoreState /\ moved.sent = s.sent
      /\ moved.last_voted_round = s.last_voted_round
  BY <1>1, process_qcType, process_qcFrame
<1>3. handle_proposal(s, n, p) \in {s, verify_payload(u, n, p)}
  BY DEF handle_proposal
<1> HIDE DEF moved
<1>4. /\ u \in CoreState /\ u.sent = s.sent
      /\ u.last_voted_round = s.last_voted_round
  BY <1>1, <1>2, advance_roundType, advance_roundFrame
<1> HIDE DEF u
<1>5. LET t == verify_payload(u, n, p)
      IN  t.sent = u.sent \/ SignsVote(N, n, u, t)
  <2>1. [u EXCEPT !.waiting = @ \cup {p}].sent = u.sent
    BY <1>4 DEF CoreState
  <2> QED BY <1>4, <2>1, process_blockSigns DEF verify_payload
<1> QED BY <1>3, <1>4, <1>5 DEF SignsVote, MayVote

\* A timeout that arrives may complete a TC, which is all that is sent.
LEMMA add_timeoutSigns ==
  ASSUME NEW n \in Authorities, NEW s \in CoreState, NEW t \in Timeout
  PROVE  Silent(s, add_timeout(s, n, t))
<1> DEFINE added == [s EXCEPT !.timeouts = @ \cup {t}]
           tc    == MakeTC(added.timeouts, t.round)
           moved == advance_round(added, tc.round)
           m     == [type |-> "TC", author |-> n, tc |-> tc]
<1>1. added \in CoreState /\ added.sent = s.sent
  BY DEF CoreState
<1>2. tc.round \in Nat
  BY DEF MakeTC, Timeout
<1>t. tc \in TC
  BY <1>1, BlockAssumption DEF CoreState, MakeTC, TC, Timeout
<1>m. m \in Message /\ m.type \notin {"Vote", "Timeout"}
  BY <1>t DEF Message, TCMsg
<1> HIDE DEF added, tc
<1>3. moved \in CoreState /\ moved.sent = s.sent
  BY <1>1, <1>2, advance_roundType, advance_roundFrame
<1> HIDE DEF moved, m
<1>4. Send(moved, m) \in CoreState /\ Send(moved, m).sent = s.sent \cup {m}
  BY <1>3, <1>m, SendType, SendFrame
<1>5. ProposeIfLeader(Send(moved, m), n, tc).sent = Send(moved, m).sent
  BY <1>4, ProposeIfLeaderSends
<1>6. add_timeout(s, n, t) \in {s, added, ProposeIfLeader(Send(moved, m), n, tc)}
  BY DEF add_timeout, added, tc, moved, m
<1> QED BY <1>1, <1>4, <1>5, <1>6, <1>m DEF Silent

LEMMA handle_timeoutSigns ==
  ASSUME NEW n \in Authorities, NEW s \in CoreState, NEW t \in Timeout
  PROVE  Silent(s, handle_timeout(s, n, t))
<1>1. t.high_qc \in Block
  BY DEF Timeout
<1>2. process_qc(s, t.high_qc) \in CoreState
      /\ process_qc(s, t.high_qc).sent = s.sent
  BY <1>1, process_qcType, process_qcFrame
<1>3. Silent(process_qc(s, t.high_qc), add_timeout(process_qc(s, t.high_qc), n, t))
  BY <1>2, add_timeoutSigns
<1> QED BY <1>2, <1>3 DEF handle_timeout, Silent

\* The timer: one timeout of the round and with the high QC that the node has
\* before it handles its own timeout.
LEMMA local_timeout_roundSigns ==
  ASSUME NEW n \in Authorities, NEW s \in CoreState
  PROVE  LET t == [type |-> "Timeout", author |-> n, round |-> s.round,
                   high_qc |-> s.high_qc]
             u == local_timeout_round(s, n)
         IN  /\ s.sent \cup {t} \subseteq u.sent
             /\ \A m \in u.sent :
                  m \in s.sent \cup {t} \/ m.type \notin {"Vote", "Timeout"}
<1> DEFINE t == [type |-> "Timeout", author |-> n, round |-> s.round,
                 high_qc |-> s.high_qc]
           u == Send(increase_last_voted_round(s, s.round), t)
<1>1. t \in Timeout /\ t \in Message /\ s.round \in Nat
  BY DEF CoreState, Timeout, Message
<1>2. local_timeout_round(s, n) = handle_timeout(u, n, t)
  BY DEF local_timeout_round
<1> HIDE DEF t
<1>3. u \in CoreState /\ u.sent = s.sent \cup {t}
  BY <1>1, SendType, SendFrame, increase_last_voted_roundType,
     increase_last_voted_roundFrame
<1> HIDE DEF u
<1>4. Silent(u, handle_timeout(u, n, t))
  BY <1>1, <1>3, handle_timeoutSigns
<1> QED BY <1>2, <1>3, <1>4 DEF Silent, t

\* The Proposer sends proposals only.
LEMMA MakeBlockSigns ==
  ASSUME NEW n \in Authorities, NEW s \in CoreState, NEW m \in Make,
         NEW b \in Block
  PROVE  Silent(s, MakeBlock(s, n, m, b))
<1> DEFINE p == [type |-> "Propose", author |-> n, block |-> b, tc |-> m.tc]
<1>1. p \in Message /\ p.type \notin {"Vote", "Timeout"}
  BY DEF Make, Proposal, Message
<1> HIDE DEF p
<1>2. Send(s, p) \in CoreState /\ Send(s, p).sent = s.sent \cup {p}
  BY <1>1, SendType, SendFrame
<1>3. \A u \in CoreState : \A R :
        [u EXCEPT !.buffer = {}, !.rx_loopback = R].sent = u.sent
  BY DEF CoreState
<1> QED BY <1>1, <1>2, <1>3 DEF MakeBlock, p, Silent

-----------------------------------------------------------------------------
(* Steps of HotStuff are steps of Voting. *)

\* The votes and timeouts there are after a step of node n.
LEMMA SignedAfter ==
  ASSUME Inv, NEW n \in Authorities, NEW s \in CoreState, Step(n, s),
         core[n].sent \subseteq s.sent
  PROVE  /\ Votes' = Votes \cup {m \in s.sent : m.type = "Vote"}
         /\ Timeouts' = Timeouts \cup {m \in s.sent : m.type = "Timeout"}
<1>1. core \in [Authorities -> CoreState] /\ core' = [core EXCEPT ![n] = s]
  BY DEF Inv, TypeOK, Step
<1>2. \A k \in Authorities : core'[k] = IF k = n THEN s ELSE core[k]
  BY <1>1
<1>3. Network' = Network \cup s.sent
  BY <1>2 DEF Network
<1> QED BY <1>3 DEF Votes, Timeouts

\* A step in which nothing is signed leaves Voting where it is.
LEMMA SilentStep ==
  ASSUME Inv, NEW n \in Authorities, NEW s \in CoreState, Step(n, s),
         Silent(core[n], s)
  PROVE  UNCHANGED Protocol!vars
<1>1. \A m \in core[n].sent : m \in Network
  BY DEF Network
<1>2. /\ \A m \in s.sent : m.type = "Vote" => m \in Votes
      /\ \A m \in s.sent : m.type = "Timeout" => m \in Timeouts
  BY <1>1 DEF Silent, Votes, Timeouts
<1>3. Votes' = Votes /\ Timeouts' = Timeouts
  BY <1>2, SignedAfter DEF Silent
<1> QED BY <1>3 DEF Protocol!vars

\* A certificate is the same thing to both.
LEMMA SameCertificates ==
  ASSUME NEW b
  PROVE  CertifiedIn(Network, b) => Protocol!Certified(b)
BY Bridge DEF CertifiedIn, Certified, HasQuorumFor, Protocol!Certified

\* A vote of make_vote is one that Voting allows: last_voted_round is not below
\* the rounds of all that the node has signed.
LEMMA VoteStep ==
  ASSUME Inv, restarts = 0, NEW n \in Authorities, NEW s \in CoreState,
         Step(n, s), SignsVote(Network, n, core[n], s)
  PROVE  \E b \in Block : Protocol!CastVote(n, b)
<1> DEFINE c == core[n]
<1>1. PICK b \in Block :
        /\ MayVote(Network, c, b)
        /\ s.sent = c.sent \cup {[type |-> "Vote", author |-> n, block |-> b]}
  BY DEF SignsVote
<1>2. c \in CoreState /\ Faithful(c)
  BY DEF Inv, TypeOK, Remembering
<1> DEFINE v == [type |-> "Vote", author |-> n, block |-> b]
<1>3. \A m \in c.sent : m \in Network
  BY DEF Network
<1>4. Votes' = Votes \cup {v} /\ Timeouts' = Timeouts
  <2>1. /\ Votes' = Votes \cup {m \in s.sent : m.type = "Vote"}
        /\ Timeouts' = Timeouts \cup {m \in s.sent : m.type = "Timeout"}
    BY <1>1, SignedAfter
  <2>2. v.type = "Vote" /\ v \in s.sent /\ \A m \in s.sent : m \in c.sent \/ m = v
    BY <1>1
  <2> HIDE DEF v, c
  <2>3. /\ \A m \in s.sent : m.type = "Vote" => m \in Votes \/ m = v
        /\ \A m \in s.sent : m.type = "Timeout" => m \in Timeouts
    BY <1>3, <2>2 DEF Votes, Timeouts
  <2> QED BY <2>1, <2>2, <2>3
<1>5. b # Genesis /\ c.last_voted_round < Round(b)
      /\ CertifiedIn(Network, Parent(b)) /\ Justified(Network, b)
  BY <1>1 DEF MayVote
<1>6. c.last_voted_round \in Nat /\ Round(b) \in Nat
  BY <1>2, ParentRound DEF CoreState
<1>7. \A w \in Votes : w.author = n => Round(w.block) < Round(b)
  <2>1. \A w \in Votes : w.author = n => Round(w.block) <= c.last_voted_round
    BY <1>2, Authors DEF Faithful, RemembersRounds
  <2>2. \A w \in Votes : Round(w.block) \in Nat
    BY Authors, ParentRound DEF Vote
  <2> QED BY <1>5, <1>6, <2>1, <2>2
<1>8. \A t \in Timeouts : t.author = n => t.round < Round(b)
  <2>1. \A t \in Timeouts : t.author = n => t.round <= c.last_voted_round
    BY <1>2, Authors DEF Faithful, RemembersRounds
  <2>2. \A t \in Timeouts : t.round \in Nat
    BY Authors DEF Timeout
  <2> QED BY <1>5, <1>6, <2>1, <2>2
<1>9. Round(Parent(b)) + 1 = Round(b) \/ Protocol!Unblocked(b)
  <2>1. CASE Round(Parent(b)) + 1 = Round(b)
    BY <2>1
  <2>2. CASE ~ (Round(Parent(b)) + 1 = Round(b))
    <3>1. PICK T \in SUBSET Timeouts :
            /\ IsQuorum({t.author : t \in T})
            /\ \A t \in T : t.round + 1 = Round(b)
                            /\ Round(Parent(b)) >= Round(t.high_qc)
      BY <1>5, <2>2, Bridge DEF Justified
    <3>2. T \in SUBSET {t \in Timeouts : t.round + 1 = Round(b)}
      BY <3>1
    <3> QED BY <3>1, <3>2 DEF Protocol!Unblocked
  <2> QED BY <2>1, <2>2
<1>10. Protocol!Certified(Parent(b))
  BY <1>5, SameCertificates
<1> HIDE DEF c
<1>11. Protocol!CastVote(n, b)
  BY <1>4, <1>5, <1>7, <1>8, <1>9, <1>10 DEF Protocol!CastVote
<1> QED BY <1>11


\* The timeout of local_timeout_round is one that Voting allows: high_qc is not
\* below the QC of any block that the node has voted for.
LEMMA TimeoutStep ==
  ASSUME Inv, restarts = 0, NEW n \in Authorities, TimerFires(n)
  PROVE  \E r \in {x[2] : x \in Timers}, qc \in Block : Protocol!TimeOut(n, r, qc)
<1> DEFINE c == core[n]
           s == local_timeout_round(c, n)
           t == [type |-> "Timeout", author |-> n, round |-> c.round,
                 high_qc |-> c.high_qc]
<1>1. c \in CoreState /\ Faithful(c) /\ SoundQC(Network, c)
  BY DEF Inv, TypeOK, Remembering, Sound, SoundCore
<1>2. Step(n, s) /\ <<n, c.round>> \in Timers
  BY DEF TimerFires
<1>3. /\ s \in CoreState /\ c.sent \subseteq s.sent /\ t \in s.sent
      /\ \A m \in s.sent :
           m \in c.sent \/ m = t \/ m.type \notin {"Vote", "Timeout"}
  BY <1>1, local_timeout_roundType, local_timeout_roundSigns
<1>4. c.high_qc \in Block /\ c.round \in {x[2] : x \in Timers}
  BY <1>1, <1>2 DEF CoreState
<1>5. Votes' = Votes /\ Timeouts' = Timeouts \cup {t}
  <2>1. /\ Votes' = Votes \cup {m \in s.sent : m.type = "Vote"}
        /\ Timeouts' = Timeouts \cup {m \in s.sent : m.type = "Timeout"}
    <3> HIDE DEF s
    <3> QED BY <1>2, <1>3, SignedAfter
  <2>2. t.type = "Timeout" /\ \A m \in c.sent : m \in Network
    BY DEF Network
  <2> HIDE DEF s, t, c
  <2>3. /\ \A m \in s.sent : m.type = "Vote" => m \in Votes
        /\ \A m \in s.sent : m.type = "Timeout" => m \in Timeouts \/ m = t
    BY <1>3, <2>2 DEF Votes, Timeouts
  <2> QED BY <1>3, <2>1, <2>2, <2>3
<1>6. \A v \in Votes : v.author = n => Round(Parent(v.block)) <= Round(c.high_qc)
  BY <1>1, Authors DEF Faithful, RemembersQCs
<1>7. Round(c.high_qc) < c.round /\ Protocol!Certified(c.high_qc)
  BY <1>1, SameCertificates DEF SoundQC
<1>8. Protocol!TimeOut(n, c.round, c.high_qc)
  BY <1>5, <1>6, <1>7 DEF Protocol!TimeOut
<1> QED BY <1>4, <1>8

\* Every step of a system without restarts is a step of Voting or changes
\* nothing of it: one case per action of Next.
LEMMA StepRefines ==
  ASSUME MaxRestarts = 0, Inv, [Next]_vars
  PROVE  [Protocol!Next]_(Protocol!vars)
<1>r. restarts = 0
  BY DEF Inv, TypeOK
<1>1. CASE UNCHANGED vars
  BY <1>1 DEF vars, Protocol!vars, Votes, Timeouts, Network
<1> SUFFICES ASSUME NEW n \in Authorities,
                    \/ ReceiveProposal(n) \/ ReceiveVote(n)
                    \/ ReceiveTimeout(n) \/ ReceiveTC(n) \/ TimerFires(n)
                    \/ ReceiveLoopback(n) \/ ParentStored(n)
                    \/ PayloadStored(n) \/ ReceiveBatch(n) \/ ProposerMake(n)
                    \/ ProposerCleanup(n) \/ Restart(n)
             PROVE  [Protocol!Next]_(Protocol!vars)
  BY <1>1 DEF Next
<1> DEFINE c == core[n]
<1>c. c \in CoreState /\ Network \in SUBSET Message
  BY Delivered DEF Inv, TypeOK
<1>m. /\ \A m \in Proposals : m \in Network /\ m \in Proposal /\ m.type = "Propose"
      /\ \A m \in Votes : m \in Vote
      /\ \A m \in Timeouts : m \in Timeout
      /\ \A m \in TCs : m \in TCMsg
  BY <1>c DEF Proposals, Votes, Timeouts, TCs, Message, Proposal, Vote, Timeout,
              TCMsg
<1>2. ASSUME NEW s \in CoreState, Step(n, s), Silent(c, s)
      PROVE  [Protocol!Next]_(Protocol!vars)
  BY <1>2, SilentStep
<1>3. ASSUME NEW s \in CoreState, Step(n, s),
             s.sent = c.sent \/ SignsVote(Network, n, c, s)
      PROVE  [Protocol!Next]_(Protocol!vars)
  <2>1. CASE s.sent = c.sent
    BY <1>2, <1>3, <2>1 DEF Silent
  <2>2. CASE SignsVote(Network, n, c, s)
    BY <1>r, <1>3, <2>2, VoteStep DEF Protocol!Next
  <2> QED BY <1>3, <2>1, <2>2
<1>4. \A p \in Network : p.type = "Propose" => SoundProposal(Network, p)
  BY Delivered DEF SoundMessage
<1>h. ASSUME NEW p \in Held(c)
      PROVE  p \in Network /\ p \in Proposal /\ p.type = "Propose"
  <2>1. SoundCore(Network, n, c)
    BY Delivered DEF Good
  <2>2. p \in Network /\ p \in Proposal
    BY <1>c, <2>1 DEF Held, SoundCore, SoundKept, CoreState
  <2> QED BY <2>2 DEF Proposal
<1> HIDE DEF c
<1>5. CASE ReceiveProposal(n)
  <2>1. PICK p \in Proposals : Step(n, handle_proposal(c, n, p))
    BY <1>5 DEF ReceiveProposal, c
  <2> DEFINE s == handle_proposal(c, n, p)
  <2>2. p \in Proposal /\ SoundProposal(Network, p)
    BY <1>m, <1>4
  <2>3. s \in CoreState /\ (s.sent = c.sent \/ SignsVote(Network, n, c, s))
    BY <1>c, <2>2, handle_proposalType, handle_proposalSigns
  <2> HIDE DEF s
  <2> QED BY <1>3, <2>1, <2>3 DEF s
<1>6. CASE ReceiveVote(n)
  <2>1. PICK v \in Votes : Step(n, handle_vote(c, n, v))
    BY <1>6 DEF ReceiveVote, c
  <2> DEFINE s == handle_vote(c, n, v)
  <2>2. s \in CoreState /\ s.sent = c.sent /\ Step(n, s)
    BY <1>c, <1>m, <2>1, handle_voteType, handle_voteSends
  <2> HIDE DEF s
  <2> QED BY <1>3, <2>2
<1>7. CASE ReceiveTimeout(n)
  <2>1. PICK t \in Timeouts : Step(n, handle_timeout(c, n, t))
    BY <1>7 DEF ReceiveTimeout, c
  <2> DEFINE s == handle_timeout(c, n, t)
  <2>2. s \in CoreState /\ Silent(c, s) /\ Step(n, s)
    BY <1>c, <1>m, <2>1, handle_timeoutType, handle_timeoutSigns
  <2> HIDE DEF s
  <2> QED BY <1>2, <2>2
<1>8. CASE ReceiveTC(n)
  <2>1. PICK m \in TCs : Step(n, handle_tc(c, n, m.tc))
    BY <1>8 DEF ReceiveTC, c
  <2> DEFINE s == handle_tc(c, n, m.tc)
  <2>2. m.tc \in TC
    BY <1>m DEF TCMsg
  <2>3. s \in CoreState /\ s.sent = c.sent /\ Step(n, s)
    BY <1>c, <2>1, <2>2, handle_tcType, handle_tcSends
  <2> HIDE DEF s
  <2> QED BY <1>3, <2>3
<1>9. CASE TimerFires(n)
  BY <1>r, <1>9, TimeoutStep DEF Protocol!Next
<1>10. CASE ReceiveLoopback(n)
  <2>1. PICK p \in c.rx_loopback :
          Step(n, process_block([c EXCEPT !.rx_loopback = @ \ {p}], n, p))
    BY <1>10 DEF ReceiveLoopback, c
  <2> DEFINE L == c.rx_loopback \ {p}
             u == [c EXCEPT !.rx_loopback = L]
             s == process_block(u, n, p)
  <2>2. u \in CoreState /\ Step(n, s)
    BY <1>c, <2>1, Zenon DEF CoreState
  <2>3. u.sent = c.sent /\ u.last_voted_round = c.last_voted_round
    BY <1>c DEF CoreState
  <2>4. p \in Proposal /\ SoundProposal(Network, p)
    BY <1>h, <1>4, <2>1 DEF Held
  <2> HIDE DEF u
  <2>5. s \in CoreState /\ (s.sent = u.sent \/ SignsVote(Network, n, u, s))
    BY <1>c, <2>2, <2>4, process_blockType, process_blockSigns
  <2> HIDE DEF s
  <2>6. s.sent = c.sent \/ SignsVote(Network, n, c, s)
    BY <2>3, <2>5 DEF SignsVote, MayVote
  <2> QED BY <1>3, <2>2, <2>5, <2>6
<1>11. CASE ParentStored(n)
  <2>1. PICK p \in c.pending :
          Step(n, [c EXCEPT !.pending = @ \ {p}, !.rx_loopback = @ \cup {p}])
    BY <1>11 DEF ParentStored, c
  <2> DEFINE P == c.pending \ {p}
             L == c.rx_loopback \cup {p}
             s == [c EXCEPT !.pending = P, !.rx_loopback = L]
  <2>2. s \in CoreState /\ Step(n, s)
    BY <1>c, <2>1, Zenon DEF CoreState
  <2>3. s.sent = c.sent
    BY <1>c DEF CoreState
  <2> HIDE DEF s
  <2> QED BY <1>3, <2>2, <2>3
<1>12. CASE PayloadStored(n)
  <2>1. PICK p \in c.waiting :
          Step(n, [c EXCEPT !.waiting = @ \ {p}, !.rx_loopback = @ \cup {p}])
    BY <1>12 DEF PayloadStored, c
  <2> DEFINE W == c.waiting \ {p}
             L == c.rx_loopback \cup {p}
             s == [c EXCEPT !.waiting = W, !.rx_loopback = L]
  <2>2. s \in CoreState /\ Step(n, s)
    BY <1>c, <2>1, Zenon DEF CoreState
  <2>3. s.sent = c.sent
    BY <1>c DEF CoreState
  <2> HIDE DEF s
  <2> QED BY <1>3, <2>2, <2>3
<1>13. CASE ReceiveBatch(n)
  <2>d. PICK d \in Digest : \E handed \in SUBSET {d} :
          Step(n, [c EXCEPT !.batches = @ \cup {d}, !.buffer = @ \cup handed])
    BY <1>13 DEF ReceiveBatch, c
  <2>1. PICK handed \in SUBSET {d} :
          Step(n, [c EXCEPT !.batches = @ \cup {d}, !.buffer = @ \cup handed])
    BY <2>d
  <2> DEFINE B == c.batches \cup {d}
             H == c.buffer \cup handed
             s == [c EXCEPT !.batches = B, !.buffer = H]
  <2>2. s \in CoreState /\ Step(n, s)
    <3>1. handed \in SUBSET Digest
      OBVIOUS
    <3> QED BY <1>c, <2>1, <3>1, Zenon DEF CoreState
  <2>3. s.sent = c.sent
    BY <1>c DEF CoreState
  <2> HIDE DEF s
  <2> QED BY <1>3, <2>2, <2>3
<1>14. ASSUME c.tx_proposer # <<>>
       PROVE  /\ Head(c.tx_proposer) \in Make \cup Cleanup
              /\ Tail(c.tx_proposer) \in Seq(Make \cup Cleanup)
  <2> DEFINE q == c.tx_proposer
  <2>1. q \in Seq(Make \cup Cleanup) /\ q # <<>>
    BY <1>c, <1>14 DEF CoreState
  <2> HIDE DEF q
  <2>2. Head(q) \in Make \cup Cleanup /\ Tail(q) \in Seq(Make \cup Cleanup)
    BY <2>1, HeadTailProperties
  <2> QED BY <2>2 DEF q
<1>15. CASE ProposerMake(n)
  <2> DEFINE m == Head(c.tx_proposer)
             rest == Tail(c.tx_proposer)
             u == [c EXCEPT !.tx_proposer = rest]
  <2>1. /\ c.tx_proposer # <<>> /\ m.type = "Make"
        /\ Step(n, u) \/ \E b \in Block : Step(n, MakeBlock(u, n, m, b))
    BY <1>15 DEF ProposerMake, c
  <2>2. m \in Make /\ rest \in Seq(Make \cup Cleanup)
    BY <1>14, <2>1 DEF Make, Cleanup
  <2> HIDE DEF m, rest
  <2>3. u \in CoreState
    BY <1>c, <2>2, Zenon DEF CoreState
  <2>4. u.sent = c.sent
    BY <1>c DEF CoreState
  <2> HIDE DEF u
  <2>5. CASE Step(n, u)
    BY <1>3, <2>3, <2>4, <2>5
  <2>6. ASSUME NEW b \in Block, Step(n, MakeBlock(u, n, m, b))
        PROVE  [Protocol!Next]_(Protocol!vars)
    <3> DEFINE s == MakeBlock(u, n, m, b)
    <3>1. s \in CoreState /\ Silent(u, s) /\ Step(n, s)
      BY <2>2, <2>3, <2>6, MakeBlockType, MakeBlockSigns
    <3> HIDE DEF s
    <3>2. Silent(c, s)
      BY <2>4, <3>1 DEF Silent
    <3> QED BY <1>2, <3>1, <3>2
  <2> QED BY <2>1, <2>5, <2>6
<1>16. CASE ProposerCleanup(n)
  <2> DEFINE rest == Tail(c.tx_proposer)
             B == c.buffer \ Head(c.tx_proposer).digests
             u == [c EXCEPT !.tx_proposer = rest, !.buffer = B]
  <2>1. c.tx_proposer # <<>> /\ Step(n, u)
    BY <1>16 DEF ProposerCleanup, c
  <2>2. rest \in Seq(Make \cup Cleanup) /\ B \subseteq c.buffer
    BY <1>14, <2>1
  <2> HIDE DEF rest, B
  <2>3. u \in CoreState
    BY <1>c, <2>2, Zenon DEF CoreState
  <2>4. u.sent = c.sent
    BY <1>c DEF CoreState
  <2> HIDE DEF u
  <2> QED BY <1>3, <2>1, <2>3, <2>4
<1>17. CASE Restart(n)
  BY <1>r, <1>17 DEF Restart
<1> QED BY <1>5, <1>6, <1>7, <1>8, <1>9, <1>10, <1>11, <1>12, <1>13, <1>15,
           <1>16, <1>17

\* FollowsProtocol, for a system without restarts: the numbers a Core keeps
\* (last_voted_round, round, high_qc) are enough to sign only what the two-chain
\* protocol allows, whatever is lost, repeated or reordered.
THEOREM ImplementsVoting ==
  ASSUME MaxRestarts = 0
  PROVE  Spec => FollowsProtocol
<1>1. Init => Protocol!Init
  <2>1. \A n : Boot(n, {}, {}, {}, <<>>).sent = {}
    BY DEF Boot
  <2>2. Init => Network = {}
    BY <2>1 DEF Init, Network
  <2> QED BY <2>2 DEF Protocol!Init, Votes, Timeouts
<1>2. Inv /\ [Next]_vars => [Protocol!Next]_(Protocol!vars)
  BY StepRefines
<1> QED BY <1>1, <1>2, Invariance, PTL DEF Spec, FollowsProtocol, Protocol!Spec
=============================================================================
