------------------------ MODULE BatchPipelineProofs -------------------------
(***************************************************************************)
(* The way of the transactions into blocks, for every committee, batch     *)
(* size and channel capacity, and any number of transactions: the          *)
(* invariant of BatchPipeline, and that it uses its links as AckedDelivery *)
(* says.                                                                   *)
(***************************************************************************)
EXTENDS BatchPipeline, BasicLemmas

-----------------------------------------------------------------------------
(* The inductive invariant. *)

\* s counts from m + 1 to n.
IsRun(s, m, n) ==
  /\ s \in Seq(Nat) /\ m \in Nat /\ n \in Nat /\ Len(s) = n - m
  /\ \A i \in 1..Len(s) : s[i] = m + i

Types ==
  /\ accepted \in 0..MaxTransactions
  /\ sealed \in Seq(Seq(Nat))
  /\ waiting \in Batch \cup {NoBatch} /\ counted \in [Batch -> SUBSET Peers]
  /\ acks \subseteq Peers /\ proposing \in BOOLEAN /\ makes \in 0..MaxMakes
  /\ {received, queued, stored} \subseteq [Peers -> SUBSET (1..Len(sealed))]
  /\ crashed \subseteq Peers

\* Each batch goes on where the one before ended.
Cut ==
  /\ End(sealed, Len(sealed)) <= accepted
  /\ \A b \in 1..Len(sealed) :
       /\ sealed[b] # <<>>
       /\ IsRun(sealed[b], End(sealed, b - 1), End(sealed, b))
       /\ b <= End(sealed, b) /\ End(sealed, b) <= accepted

\* ... and the transactions that are not sealed yet where the last one ended.
NotYetSealed ==
  LET next == accepted - Len(tx_batch_maker)
  IN  /\ IsRun(current_batch, End(sealed, Len(sealed)), next)
      /\ IsRun(tx_batch_maker, next, accepted)

\* How many batches the Proposer has got, the Processor has passed on, and the
\* QuorumWaiter has passed on or let go.
processed == Len(sealed) - Len(tx_quorum_waiter) - (IF waiting = NoBatch THEN 0 ELSE 1)
               - Len(tx_processor)
passed    == processed - Len(tx_consensus)

\* Where each batch is.
InOrder ==
  /\ IsRun(tx_consensus, passed, processed)
  /\ IsRun(tx_processor, processed, processed + Len(tx_processor))
  /\ waiting # NoBatch => waiting = processed + Len(tx_processor) + 1
  /\ IsRun(tx_quorum_waiter, Len(sealed) - Len(tx_quorum_waiter), Len(sealed))

\* Nothing is passed on in a committee of one; in any other nothing gets lost.
AtProposer ==
  /\ buffer \cup proposed \subseteq 1..passed
  /\ store \subseteq 1..processed
  /\ Peers = {} => tx_processor = <<>> /\ tx_consensus = <<>>
  /\ Peers # {} => 1..passed \subseteq buffer \cup proposed

\* What the Processor has passed on is stored, and what the QuorumWaiter has
\* passed on was acknowledged by a quorum.
Acknowledged ==
  /\ Range(tx_consensus) \cup buffer \subseteq store
  /\ \A b \in Range(tx_processor) \cup Range(tx_consensus) \cup buffer :
       IsQuorum({Me} \cup counted[b])

\* An Ack is that of a peer that has got the batch, and keeps it unless it
\* crashes.
PeersHave ==
  /\ \A p \in Peers : \A b \in Batch : p \in counted[b] => b \in received[p]
  /\ \A p \in Peers \ crashed : received[p] \subseteq queued[p] \cup stored[p]

IInv ==
  /\ Types /\ Cut /\ NotYetSealed /\ InOrder /\ AtProposer /\ Acknowledged /\ PeersHave

-----------------------------------------------------------------------------
(* Runs of numbers. *)

LEMMA RunNumbers ==
  ASSUME NEW s, NEW m, NEW n, IsRun(s, m, n)
  PROVE  s = Numbers(m, n) /\ m <= n
<1>1. s \in Seq(Nat) /\ Len(s) = n - m /\ m \in Nat /\ n \in Nat
  BY DEF IsRun
<1>2. Len(s) \in Nat /\ DOMAIN s = 1..Len(s) /\ s = [i \in 1..Len(s) |-> s[i]]
  BY <1>1
<1>3. \A i \in 1..Len(s) : s[i] = m + i
  BY DEF IsRun
<1>4. [i \in 1..Len(s) |-> s[i]] = [i \in 1..Len(s) |-> m + i]
  BY <1>3
<1>5. s = Numbers(m, n)
  BY <1>1, <1>2, <1>4 DEF Numbers
<1> QED BY <1>1, <1>2, <1>5

LEMMA RunEmpty ==
  ASSUME NEW m \in Nat
  PROVE  IsRun(<<>>, m, m)
BY DEF IsRun

LEMMA RunOne ==
  ASSUME NEW m \in Nat
  PROVE  IsRun(<<m + 1>>, m, m + 1)
BY DEF IsRun

LEMMA RunAppend ==
  ASSUME NEW s, NEW m, NEW n, IsRun(s, m, n)
  PROVE  IsRun(Append(s, n + 1), m, n + 1)
<1>1. s \in Seq(Nat) /\ Len(s) = n - m /\ m \in Nat /\ n \in Nat /\ n + 1 \in Nat
  BY DEF IsRun
<1> DEFINE t == Append(s, n + 1)
<1>2. /\ t \in Seq(Nat) /\ Len(s) \in Nat /\ Len(t) = Len(s) + 1 /\ t[Len(s) + 1] = n + 1
      /\ \A i \in 1..Len(s) : t[i] = s[i]
  <2> DEFINE x == n + 1
  <2>1. s \in Seq(Nat) /\ x \in Nat
    BY <1>1
  <2> HIDE DEF x
  <2>2. /\ Append(s, x) \in Seq(Nat) /\ Len(s) \in Nat /\ Len(Append(s, x)) = Len(s) + 1
        /\ Append(s, x)[Len(s) + 1] = x /\ \A i \in 1..Len(s) : Append(s, x)[i] = s[i]
    BY <2>1, Appended
  <2> QED BY <2>2 DEF x
<1> HIDE DEF t
<1>3. \A i \in 1..Len(t) : t[i] = m + i
  <2> TAKE i \in 1..Len(t)
  <2>1. CASE i = Len(s) + 1
    BY <2>1, <1>1, <1>2
  <2>2. CASE i # Len(s) + 1
    <3>1. i \in 1..Len(s)
      BY <2>2, <1>2
    <3> QED BY <3>1, <1>2 DEF IsRun
  <2> QED BY <2>1, <2>2
<1>4. Len(t) = (n + 1) - m
  BY <1>1, <1>2
<1>5. IsRun(t, m, n + 1)
  BY <1>1, <1>2, <1>3, <1>4 DEF IsRun
<1> QED BY <1>5 DEF t

LEMMA RunTail ==
  ASSUME NEW s, NEW m, NEW n, IsRun(s, m, n), s # <<>>
  PROVE  Head(s) = m + 1 /\ IsRun(Tail(s), m + 1, n) /\ Len(Tail(s)) = Len(s) - 1 /\ m < n
<1>1. s \in Seq(Nat) /\ Len(s) = n - m /\ m \in Nat /\ n \in Nat /\ m + 1 \in Nat
  BY DEF IsRun
<1> DEFINE t == Tail(s)
<1>2. /\ t \in Seq(Nat) /\ Len(s) \in Nat \ {0} /\ Len(t) = Len(s) - 1 /\ Head(s) = s[1]
      /\ DOMAIN t = 1..Len(t) /\ DOMAIN s = 1..Len(s)
      /\ \A i \in DOMAIN t : i + 1 \in DOMAIN s /\ t[i] = s[i + 1]
  BY <1>1, Shortened
<1> HIDE DEF t
<1>3. \A i \in 1..Len(t) : t[i] = m + 1 + i
  <2> TAKE i \in 1..Len(t)
  <2>1. i + 1 \in 1..Len(s) /\ t[i] = s[i + 1]
    BY <1>2
  <2>2. s[i + 1] = m + (i + 1)
    BY <2>1 DEF IsRun
  <2> QED BY <1>1, <1>2, <2>1, <2>2
<1>4. Head(s) = m + 1
  <2>1. 1 \in 1..Len(s)
    BY <1>2
  <2> QED BY <1>2, <2>1 DEF IsRun
<1>5. Len(t) = n - (m + 1) /\ m < n
  BY <1>1, <1>2
<1>6. IsRun(t, m + 1, n)
  BY <1>1, <1>2, <1>3, <1>5 DEF IsRun
<1> QED BY <1>2, <1>4, <1>5, <1>6 DEF t

LEMMA RunConcat ==
  ASSUME NEW s, NEW t, NEW l, NEW m, NEW n, IsRun(s, l, m), IsRun(t, m, n)
  PROVE  IsRun(s \o t, l, n)
<1>1. /\ s \in Seq(Nat) /\ Len(s) = m - l /\ t \in Seq(Nat) /\ Len(t) = n - m
      /\ l \in Nat /\ m \in Nat /\ n \in Nat
  BY DEF IsRun
<1> DEFINE c == s \o t
<1>2. /\ c \in Seq(Nat) /\ Len(c) = Len(s) + Len(t) /\ Len(s) \in Nat /\ Len(t) \in Nat
      /\ \A i \in 1..Len(s) : c[i] = s[i]
      /\ \A i \in 1..Len(t) : c[Len(s) + i] = t[i]
      /\ \A i \in 1..Len(c) : i \in 1..Len(s) \/ i - Len(s) \in 1..Len(t)
  <2>1. s \in Seq(Nat) /\ t \in Seq(Nat)
    BY <1>1
  <2>2. /\ s \o t \in Seq(Nat) /\ Len(s \o t) = Len(s) + Len(t)
        /\ Len(s) \in Nat /\ Len(t) \in Nat
        /\ \A i \in 1..Len(s) : (s \o t)[i] = s[i]
        /\ \A i \in 1..Len(t) : (s \o t)[Len(s) + i] = t[i]
        /\ \A i \in 1..Len(s \o t) : i \in 1..Len(s) \/ i - Len(s) \in 1..Len(t)
    BY <2>1, Concatenated
  <2> QED BY <2>2
<1> HIDE DEF c
<1>3. \A i \in 1..Len(c) : c[i] = l + i
  <2> TAKE i \in 1..Len(c)
  <2>1. CASE i \in 1..Len(s)
    BY <2>1, <1>2 DEF IsRun
  <2>2. CASE i - Len(s) \in 1..Len(t)
    <3>1. t[i - Len(s)] = m + (i - Len(s))
      BY <2>2 DEF IsRun
    <3>2. c[Len(s) + (i - Len(s))] = t[i - Len(s)]
      BY <2>2, <1>2
    <3>3. Len(s) + (i - Len(s)) = i
      BY <1>2
    <3> QED BY <1>1, <1>2, <3>1, <3>2, <3>3
  <2> QED BY <1>2, <2>1, <2>2
<1>4. Len(c) = n - l
  BY <1>1, <1>2
<1>5. IsRun(c, l, n)
  BY <1>1, <1>2, <1>3, <1>4 DEF IsRun
<1> QED BY <1>5 DEF c

LEMMA RunRange ==
  ASSUME NEW s, NEW m, NEW n, IsRun(s, m, n)
  PROVE  Range(s) = (m + 1)..n
<1>1. s \in Seq(Nat) /\ Len(s) = n - m /\ m \in Nat /\ n \in Nat
  BY DEF IsRun
<1>2. DOMAIN s = 1..Len(s) /\ Len(s) \in Nat
  BY <1>1
<1>3. \A i \in DOMAIN s : s[i] = m + i
  BY <1>2 DEF IsRun
<1>4. ASSUME NEW x \in (m + 1)..n
      PROVE  x \in Range(s)
  <2>1. x - m \in DOMAIN s /\ m + (x - m) = x
    BY <1>1, <1>2
  <2> QED BY <1>3, <2>1 DEF Range
<1>5. ASSUME NEW i \in DOMAIN s
      PROVE  s[i] \in (m + 1)..n
  BY <1>1, <1>2, <1>3
<1> QED BY <1>4, <1>5 DEF Range

LEMMA RunEnd ==
  ASSUME NEW s, NEW m, NEW n, IsRun(s, m, n), s # <<>>
  PROVE  s[Len(s)] = n /\ m < n /\ n \in Nat
<1>1. s \in Seq(Nat) /\ Len(s) = n - m /\ m \in Nat /\ n \in Nat
  BY DEF IsRun
<1>2. Len(s) \in Nat \ {0}
  BY <1>1
<1>3. s[Len(s)] = m + Len(s)
  BY <1>2 DEF IsRun
<1> QED BY <1>1, <1>2, <1>3

-----------------------------------------------------------------------------
(* What the invariant says of the channels. *)

\* No batch is empty, so there are no more batches than transactions.
LEMMA FewBatches ==
  ASSUME Types, Cut
  PROVE  /\ Len(sealed) \in Nat /\ DOMAIN sealed = 1..Len(sealed)
         /\ Len(sealed) <= End(sealed, Len(sealed)) /\ End(sealed, Len(sealed)) \in Nat
         /\ Len(sealed) <= accepted /\ accepted \in Nat /\ accepted <= MaxTransactions
         /\ MaxTransactions \in Nat
         /\ \A b \in 1..Len(sealed) : b \in Batch
<1>1. /\ Len(sealed) \in Nat /\ DOMAIN sealed = 1..Len(sealed) /\ MaxTransactions \in Nat
      /\ accepted \in Nat /\ accepted <= MaxTransactions
  BY BatchPipelineAssumption DEF Types
<1>2. CASE Len(sealed) = 0
  <2>1. End(sealed, 0) = 0
    BY DEF End
  <2> QED BY <1>1, <1>2, <2>1 DEF Batch
<1>3. CASE Len(sealed) # 0
  <2>1. Len(sealed) \in 1..Len(sealed)
    BY <1>1, <1>3
  <2>2. /\ Len(sealed) <= End(sealed, Len(sealed)) /\ End(sealed, Len(sealed)) <= accepted
        /\ IsRun(sealed[Len(sealed)], End(sealed, Len(sealed) - 1), End(sealed, Len(sealed)))
    BY <2>1 DEF Cut
  <2>3. End(sealed, Len(sealed)) \in Nat
    BY <2>2 DEF IsRun
  <2> QED BY <1>1, <2>2, <2>3 DEF Batch
<1> QED BY <1>2, <1>3

\* Where the batches are: those that the Proposer has got first, and those that
\* the QuorumWaiter has not taken last.
LEMMA Places ==
  ASSUME Types, InOrder
  PROVE  /\ Len(sealed) \in Nat /\ passed \in Nat /\ processed \in Nat
         /\ tx_quorum_waiter \in Seq(Nat) /\ tx_processor \in Seq(Nat)
         /\ tx_consensus \in Seq(Nat)
         /\ Len(tx_quorum_waiter) \in Nat /\ Len(tx_processor) \in Nat
         /\ Len(tx_consensus) \in Nat /\ processed = passed + Len(tx_consensus)
         /\ waiting = NoBatch =>
              processed + Len(tx_processor) + Len(tx_quorum_waiter) = Len(sealed)
         /\ waiting # NoBatch =>
              processed + Len(tx_processor) + 1 + Len(tx_quorum_waiter) = Len(sealed)
         /\ Range(tx_consensus) = (passed + 1)..processed
         /\ Range(tx_processor) = (processed + 1)..(processed + Len(tx_processor))
         /\ Range(tx_quorum_waiter) = (Len(sealed) - Len(tx_quorum_waiter) + 1)..Len(sealed)
<1>1. Len(sealed) \in Nat
  BY DEF Types
<1>2. /\ passed \in Nat /\ processed \in Nat
      /\ tx_quorum_waiter \in Seq(Nat) /\ tx_processor \in Seq(Nat)
      /\ tx_consensus \in Seq(Nat)
  BY DEF InOrder, IsRun
<1>3. /\ Len(tx_quorum_waiter) \in Nat /\ Len(tx_processor) \in Nat
      /\ Len(tx_consensus) \in Nat
  BY <1>2
<1>4. /\ processed = passed + Len(tx_consensus)
      /\ waiting = NoBatch =>
           processed + Len(tx_processor) + Len(tx_quorum_waiter) = Len(sealed)
      /\ waiting # NoBatch =>
           processed + Len(tx_processor) + 1 + Len(tx_quorum_waiter) = Len(sealed)
  BY <1>1, <1>2, <1>3 DEF passed, processed
<1>5. /\ Range(tx_consensus) = (passed + 1)..processed
      /\ Range(tx_processor) = (processed + 1)..(processed + Len(tx_processor))
      /\ Range(tx_quorum_waiter) = (Len(sealed) - Len(tx_quorum_waiter) + 1)..Len(sealed)
  BY RunRange DEF InOrder
<1> QED BY <1>1, <1>2, <1>3, <1>4, <1>5

\* A step that touches no channel of batches leaves them where they are.
LEMMA PlacesLeft ==
  ASSUME Types, InOrder
  PROVE  /\ passed \in Nat /\ processed \in Nat /\ passed <= processed
         /\ Len(sealed) \in Nat /\ processed <= Len(sealed)
<1>1. /\ passed \in Nat /\ processed \in Nat /\ Len(sealed) \in Nat
      /\ Len(tx_consensus) \in Nat /\ Len(tx_processor) \in Nat /\ Len(tx_quorum_waiter) \in Nat
      /\ processed = passed + Len(tx_consensus)
  BY Places
<1>2. \/ processed + Len(tx_processor) + Len(tx_quorum_waiter) = Len(sealed)
      \/ processed + Len(tx_processor) + 1 + Len(tx_quorum_waiter) = Len(sealed)
  BY Places
<1> HIDE DEF passed, processed
<1> QED BY <1>1, <1>2

LEMMA PlacesKept ==
  ASSUME InOrder, UNCHANGED <<sealed, tx_quorum_waiter, waiting, tx_processor, tx_consensus>>
  PROVE  processed' = processed /\ passed' = passed /\ InOrder'
<1>1. processed' = processed
  BY DEF processed
<1>2. passed' = passed
  BY <1>1 DEF passed
<1> QED BY <1>1, <1>2 DEF InOrder

\* ... and one that touches none of the Proposer's sets keeps what is said of them.
LEMMA ProposerKept ==
  ASSUME AtProposer, Acknowledged, processed' = processed, passed' = passed,
         UNCHANGED <<tx_processor, tx_consensus, store, buffer, proposed, counted>>
  PROVE  AtProposer' /\ Acknowledged'
BY DEF AtProposer, Acknowledged

-----------------------------------------------------------------------------
(* The steps of the BatchMaker. *)

\* A batch that goes on where the last one ended is sealed.
LEMMA SealKeeps ==
  ASSUME Types, Cut, InOrder, NEW batch, NEW j, seal(batch),
         IsRun(batch, End(sealed, Len(sealed)), j), batch # <<>>, j <= accepted,
         UNCHANGED <<accepted, waiting, tx_processor, tx_consensus>>
  PROVE  /\ Len(sealed') = Len(sealed) + 1 /\ sealed' \in Seq(Seq(Nat))
         /\ End(sealed', Len(sealed')) = j /\ Len(sealed) < MaxTransactions
         /\ IsRun(current_batch', j, j)
         /\ Cut' /\ InOrder' /\ processed' = processed /\ passed' = passed
<1> DEFINE n == Len(sealed)
<1>1. /\ n \in Nat /\ n <= End(sealed, n) /\ End(sealed, n) \in Nat /\ accepted \in Nat
      /\ accepted <= MaxTransactions /\ MaxTransactions \in Nat
  BY FewBatches
<1>2. batch \in Seq(Nat) /\ batch[Len(batch)] = j /\ End(sealed, n) < j /\ j \in Nat
  <2>1. batch \in Seq(Nat)
    BY DEF IsRun
  <2> HIDE DEF n
  <2> QED BY <2>1, RunEnd DEF n
<1>3. /\ sealed' \in Seq(Seq(Nat)) /\ Len(sealed') = n + 1 /\ sealed'[n + 1] = batch
      /\ \A b \in 1..n : sealed'[b] = sealed[b]
  <2>1. sealed \in Seq(Seq(Nat)) /\ sealed' = Append(sealed, batch)
    BY DEF Types, seal
  <2> QED BY <1>2, <2>1, Appended
<1>4. /\ End(sealed', n + 1) = j
      /\ \A b \in 0..n : End(sealed', b) = End(sealed, b)
  <2>1. n + 1 # 0 /\ \A b \in 0..n : b = 0 \/ b \in 1..n
    BY <1>1
  <2> QED BY <1>2, <1>3, <2>1 DEF End
<1>5. IsRun(current_batch', j, j)
  <2>1. current_batch' = <<>>
    BY DEF seal
  <2> QED BY <1>2, <2>1, RunEmpty
<1>6. Cut'
  <2>1. ASSUME NEW b \in 1..(n + 1)
        PROVE  /\ sealed'[b] # <<>>
               /\ IsRun(sealed'[b], End(sealed', b - 1), End(sealed', b))
               /\ b <= End(sealed', b) /\ End(sealed', b) <= accepted
    <3>1. CASE b = n + 1
      <4>1. b - 1 = n /\ n \in 0..n
        BY <1>1, <3>1
      <4>2. sealed'[b] = batch /\ End(sealed', b) = j /\ End(sealed', b - 1) = End(sealed, n)
        BY <1>3, <1>4, <3>1, <4>1
      <4> QED BY <1>1, <1>2, <3>1, <4>2
    <3>2. CASE b # n + 1
      <4>1. b \in 1..n /\ b \in 0..n /\ b - 1 \in 0..n
        BY <1>1, <3>2
      <4>2. sealed'[b] = sealed[b] /\ End(sealed', b) = End(sealed, b)
            /\ End(sealed', b - 1) = End(sealed, b - 1)
        BY <1>3, <1>4, <4>1
      <4> QED BY <4>1, <4>2 DEF Cut
    <3> QED BY <3>1, <3>2
  <2>2. End(sealed', n + 1) <= accepted
    BY <1>4
  <2> HIDE DEF n
  <2> QED BY <1>3, <2>1, <2>2 DEF Cut
<1>7. /\ tx_quorum_waiter' = Append(tx_quorum_waiter, n + 1)
      /\ Len(tx_quorum_waiter') = Len(tx_quorum_waiter) + 1
      /\ Len(tx_quorum_waiter) \in Nat
      /\ IsRun(tx_quorum_waiter', n - Len(tx_quorum_waiter), n + 1)
  <2>1. tx_quorum_waiter' = Append(tx_quorum_waiter, n + 1)
    BY <1>3 DEF seal
  <2>2. tx_quorum_waiter \in Seq(Nat) /\ n + 1 \in Nat
    BY <1>1, Places
  <2>3. IsRun(tx_quorum_waiter, n - Len(tx_quorum_waiter), n)
    BY DEF InOrder
  <2> HIDE DEF n
  <2> QED BY <2>1, <2>2, <2>3, RunAppend, Appended
<1>8. processed' = processed /\ passed' = passed
  <2>1. processed' = processed
    BY <1>1, <1>3, <1>7, Places DEF processed
  <2> QED BY <2>1 DEF passed
<1>9. InOrder'
  <2>1. Len(sealed') - Len(tx_quorum_waiter') = n - Len(tx_quorum_waiter)
    BY <1>1, <1>3, <1>7
  <2>2. IsRun(tx_quorum_waiter', Len(sealed') - Len(tx_quorum_waiter'), Len(sealed'))
    BY <1>3, <1>7, <2>1
  <2> QED BY <1>8, <2>2 DEF InOrder
<1> QED BY <1>1, <1>2, <1>3, <1>4, <1>5, <1>6, <1>8, <1>9

LEMMA AcceptKeeps ==
  ASSUME IInv, AcceptTransaction
  PROVE  IInv'
<1> USE DEF IInv
<1>1. /\ accepted < MaxTransactions /\ accepted' = accepted + 1
      /\ tx_batch_maker' = Append(tx_batch_maker, accepted + 1)
      /\ UNCHANGED <<current_batch, sealed, tx_quorum_waiter, waiterVars,
                     tx_processor, store, tx_consensus, proposerVars, peerVars>>
  BY DEF AcceptTransaction
<1>2. accepted \in Nat /\ MaxTransactions \in Nat
  BY FewBatches
<1>3. Types'
  BY <1>1, <1>2 DEF Types, waiterVars, proposerVars, peerVars
<1>4. Cut'
  <2>1. \A x \in Nat : x <= accepted => x <= accepted + 1
    BY <1>2
  <2>2. End(sealed, Len(sealed)) <= accepted + 1
    BY <2>1, FewBatches DEF Cut
  <2>3. ASSUME NEW b \in 1..Len(sealed)
        PROVE  /\ sealed[b] # <<>>
               /\ IsRun(sealed[b], End(sealed, b - 1), End(sealed, b))
               /\ b <= End(sealed, b) /\ End(sealed, b) <= accepted + 1
    BY <2>1 DEF Cut, IsRun
  <2> QED BY <1>1, <2>2, <2>3 DEF Cut
<1>5. NotYetSealed'
  <2> DEFINE next == accepted - Len(tx_batch_maker)
  <2>1. IsRun(current_batch, End(sealed, Len(sealed)), next) /\ IsRun(tx_batch_maker, next, accepted)
    BY DEF NotYetSealed
  <2>2. tx_batch_maker \in Seq(Nat) /\ accepted + 1 \in Nat
    BY <1>2, <2>1 DEF IsRun
  <2>3. Len(tx_batch_maker') = Len(tx_batch_maker) + 1 /\ Len(tx_batch_maker) \in Nat
    BY <1>1, <2>2, Appended
  <2>4. accepted' - Len(tx_batch_maker') = next
    BY <1>1, <1>2, <2>3
  <2> HIDE DEF next
  <2>5. IsRun(tx_batch_maker', next, accepted')
    BY <1>1, <2>1, RunAppend
  <2> QED BY <1>1, <2>1, <2>4, <2>5 DEF NotYetSealed
<1>6. InOrder' /\ processed' = processed /\ passed' = passed
  BY <1>1, PlacesKept DEF waiterVars
<1>7. AtProposer' /\ Acknowledged'
  BY <1>1, <1>6, ProposerKept DEF waiterVars, proposerVars
<1>8. PeersHave'
  BY <1>1 DEF PeersHave, waiterVars, peerVars
<1> QED BY <1>3, <1>4, <1>5, <1>6, <1>7, <1>8

\* A step that seals a batch, wherever its last transaction comes from.
LEMMA SealingKeeps ==
  ASSUME IInv, NEW batch, NEW j, seal(batch),
         IsRun(batch, End(sealed, Len(sealed)), j), batch # <<>>,
         IsRun(tx_batch_maker', j, accepted),
         UNCHANGED <<accepted, waiterVars, tx_processor, store, tx_consensus,
                     proposerVars, peerVars>>
  PROVE  IInv' /\ Len(sealed) < MaxTransactions /\ Len(sealed') = Len(sealed) + 1
<1> USE DEF IInv
<1>1. j \in Nat /\ accepted \in Nat /\ Len(tx_batch_maker') = accepted - j /\ j <= accepted
  <2>1. j \in Nat /\ accepted \in Nat /\ Len(tx_batch_maker') = accepted - j
        /\ tx_batch_maker' \in Seq(Nat)
    BY DEF IsRun
  <2>2. Len(tx_batch_maker') \in Nat
    BY <2>1
  <2> QED BY <2>1, <2>2
<1>2. /\ Len(sealed') = Len(sealed) + 1 /\ sealed' \in Seq(Seq(Nat))
      /\ End(sealed', Len(sealed')) = j /\ Len(sealed) < MaxTransactions
      /\ IsRun(current_batch', j, j)
      /\ Cut' /\ InOrder' /\ processed' = processed /\ passed' = passed
  BY <1>1, SealKeeps DEF waiterVars
<1>3. Types'
  <2>1. Len(sealed) \in Nat
    BY FewBatches
  <2>2. \A X \in SUBSET (1..Len(sealed)) : X \in SUBSET (1..Len(sealed'))
    BY <1>2, <2>1
  <2>3. {received, queued, stored} \subseteq [Peers -> SUBSET (1..Len(sealed'))]
    <3>1. \A f \in [Peers -> SUBSET (1..Len(sealed))] : f \in [Peers -> SUBSET (1..Len(sealed'))]
      BY <2>2
    <3> QED BY <3>1 DEF Types
  <2> QED BY <1>2, <2>3 DEF Types, waiterVars, proposerVars, peerVars
<1>4. NotYetSealed'
  <2>1. accepted' - Len(tx_batch_maker') = j
    BY <1>1
  <2> QED BY <1>2, <2>1 DEF NotYetSealed
<1>5. AtProposer' /\ Acknowledged'
  BY <1>2, ProposerKept DEF waiterVars, proposerVars
<1>6. PeersHave'
  BY DEF PeersHave, waiterVars, peerVars
<1> QED BY <1>2, <1>3, <1>4, <1>5, <1>6

LEMMA TakeTransactionKeeps ==
  ASSUME IInv, TakeTransaction
  PROVE  /\ IInv'
         /\ UNCHANGED <<waiterVars, peerVars>>
         /\ \/ UNCHANGED <<sealed, tx_quorum_waiter>>
            \/ Len(sealed) < MaxTransactions /\ Len(sealed') = Len(sealed) + 1
                 /\ tx_quorum_waiter' = Append(tx_quorum_waiter, Len(sealed'))
<1> USE DEF IInv
<1> DEFINE next  == accepted - Len(tx_batch_maker)
           batch == Append(current_batch, Head(tx_batch_maker))
<1>1. /\ tx_batch_maker # <<>> /\ tx_batch_maker' = Tail(tx_batch_maker)
      /\ IF Len(batch) >= BatchSize THEN seal(batch)
         ELSE current_batch' = batch /\ UNCHANGED <<sealed, tx_quorum_waiter>>
      /\ UNCHANGED <<accepted, waiterVars, tx_processor, store, tx_consensus,
                     proposerVars, peerVars>>
  BY DEF TakeTransaction
<1>2. /\ IsRun(current_batch, End(sealed, Len(sealed)), next)
      /\ IsRun(tx_batch_maker, next, accepted)
  BY DEF NotYetSealed
<1>3. /\ next \in Nat /\ accepted \in Nat /\ tx_batch_maker \in Seq(Nat)
      /\ current_batch \in Seq(Nat) /\ next + 1 \in Nat
  BY <1>2 DEF IsRun
<1> HIDE DEF next
<1>4. /\ Head(tx_batch_maker) = next + 1 /\ IsRun(tx_batch_maker', next + 1, accepted)
      /\ Len(tx_batch_maker') = Len(tx_batch_maker) - 1 /\ Len(tx_batch_maker) \in Nat
  <2>1. /\ Head(tx_batch_maker) = next + 1 /\ IsRun(Tail(tx_batch_maker), next + 1, accepted)
        /\ Len(Tail(tx_batch_maker)) = Len(tx_batch_maker) - 1
    BY <1>1, <1>2, RunTail
  <2>2. Len(tx_batch_maker) \in Nat
    BY <1>3
  <2> QED BY <1>1, <2>1, <2>2
<1>5. batch = Append(current_batch, next + 1)
  BY <1>4
<1> HIDE DEF batch
<1>6. IsRun(batch, End(sealed, Len(sealed)), next + 1)
  BY <1>2, <1>5, RunAppend
<1>7. batch # <<>>
  <2>1. Len(batch) = Len(current_batch) + 1 /\ Len(current_batch) \in Nat
    BY <1>3, <1>5, Appended
  <2> QED BY <2>1
<1>8. CASE seal(batch)
  <2>1. IInv' /\ Len(sealed) < MaxTransactions /\ Len(sealed') = Len(sealed) + 1
    BY <1>1, <1>4, <1>6, <1>7, <1>8, SealingKeeps
  <2>2. tx_quorum_waiter' = Append(tx_quorum_waiter, Len(sealed'))
    BY <1>8 DEF seal
  <2> QED BY <1>1, <2>1, <2>2
<1>9. CASE current_batch' = batch /\ UNCHANGED <<sealed, tx_quorum_waiter>>
  <2>1. NotYetSealed'
    <3>1. accepted' - Len(tx_batch_maker') = next + 1
      BY <1>1, <1>3, <1>4 DEF next
    <3> QED BY <1>1, <1>4, <1>6, <1>9, <3>1 DEF NotYetSealed
  <2>2. Types' /\ Cut'
    BY <1>1, <1>9 DEF Types, Cut, waiterVars, proposerVars, peerVars
  <2>3. InOrder' /\ processed' = processed /\ passed' = passed
    BY <1>1, <1>9, PlacesKept DEF waiterVars
  <2>4. AtProposer' /\ Acknowledged'
    BY <1>1, <2>3, ProposerKept DEF waiterVars, proposerVars
  <2>5. PeersHave'
    BY <1>1 DEF PeersHave, waiterVars, peerVars
  <2> QED BY <1>1, <1>9, <2>1, <2>2, <2>3, <2>4, <2>5
<1> QED BY <1>1, <1>8, <1>9

LEMMA BatchTimerKeeps ==
  ASSUME IInv, BatchTimer
  PROVE  /\ IInv'
         /\ UNCHANGED <<waiterVars, peerVars>>
         /\ Len(sealed) < MaxTransactions /\ Len(sealed') = Len(sealed) + 1
         /\ tx_quorum_waiter' = Append(tx_quorum_waiter, Len(sealed'))
<1> DEFINE next == accepted - Len(tx_batch_maker)
<1>1. /\ current_batch # <<>> /\ seal(current_batch)
      /\ UNCHANGED <<accepted, tx_batch_maker, waiterVars, tx_processor, store,
                     tx_consensus, proposerVars, peerVars>>
  BY DEF BatchTimer
<1>2. /\ IsRun(current_batch, End(sealed, Len(sealed)), next)
      /\ IsRun(tx_batch_maker', next, accepted)
  BY <1>1 DEF IInv, NotYetSealed
<1> HIDE DEF next
<1>3. IInv' /\ Len(sealed) < MaxTransactions /\ Len(sealed') = Len(sealed) + 1
  BY <1>1, <1>2, SealingKeeps
<1> QED BY <1>1, <1>3 DEF seal

-----------------------------------------------------------------------------
(* The steps of the QuorumWaiter and the Processor. *)

LEMMA TakeBatchKeeps ==
  ASSUME IInv, TakeBatch
  PROVE  IInv' /\ Range(tx_quorum_waiter) = Range(tx_quorum_waiter') \cup {Head(tx_quorum_waiter)}
<1> USE DEF IInv
<1> DEFINE n == Len(sealed)
           q == Len(tx_quorum_waiter)
<1>1. /\ waiting = NoBatch /\ tx_quorum_waiter # <<>>
      /\ tx_quorum_waiter' = Tail(tx_quorum_waiter)
      /\ waiting' = IF Peers = {} THEN NoBatch ELSE Head(tx_quorum_waiter)
      /\ UNCHANGED <<makerVars, counted, tx_processor, store, tx_consensus,
                     proposerVars, peerVars>>
  BY DEF TakeBatch
<1>2. /\ n \in Nat /\ passed \in Nat /\ processed \in Nat /\ q \in Nat
      /\ Len(tx_processor) \in Nat /\ Len(tx_consensus) \in Nat
      /\ processed + Len(tx_processor) + q = n
      /\ processed = passed + Len(tx_consensus)
      /\ Range(tx_quorum_waiter) = (n - q + 1)..n
  BY <1>1, Places
<1>3. /\ Head(tx_quorum_waiter) = n - q + 1 /\ IsRun(tx_quorum_waiter', n - q + 1, n)
      /\ Len(tx_quorum_waiter') = q - 1 /\ n - q < n
  <2>1. IsRun(tx_quorum_waiter, n - q, n)
    BY DEF InOrder
  <2> HIDE DEF n, q
  <2>2. /\ Head(tx_quorum_waiter) = n - q + 1 /\ IsRun(Tail(tx_quorum_waiter), n - q + 1, n)
        /\ Len(Tail(tx_quorum_waiter)) = Len(tx_quorum_waiter) - 1 /\ n - q < n
    BY <1>1, <2>1, RunTail
  <2> QED BY <1>1, <2>2 DEF q
<1>4. Range(tx_quorum_waiter') = (n - q + 2)..n
  <2>1. Range(tx_quorum_waiter') = (n - q + 1 + 1)..n
    BY <1>3, RunRange
  <2> QED BY <1>2, <2>1
<1>5. Head(tx_quorum_waiter) \in Batch
  BY <1>2, <1>3, FewBatches
<1>6. Types'
  BY <1>1, <1>5 DEF Types, makerVars, proposerVars, peerVars
<1>7. Cut' /\ NotYetSealed' /\ PeersHave'
  BY <1>1 DEF Cut, NotYetSealed, PeersHave, makerVars, peerVars
<1>8. sealed' = sealed
  BY <1>1 DEF makerVars
<1>9. InOrder' /\ AtProposer' /\ Acknowledged'
  <2>1. CASE Peers = {}
    <3>1. waiting' = NoBatch /\ tx_processor = <<>> /\ tx_consensus = <<>>
      BY <1>1, <2>1 DEF AtProposer
    <3>2. Len(tx_processor) = 0 /\ Len(tx_consensus) = 0
      BY <3>1
    <3>3. processed' = processed + 1
      BY <1>1, <1>2, <1>3, <1>8, <3>1, <3>2 DEF processed
    <3>4. passed' = processed + 1 /\ passed = processed
      BY <1>1, <1>2, <3>2, <3>3 DEF passed
    <3>5. InOrder'
      <4>1. IsRun(<<>>, processed + 1, processed + 1)
        BY <1>2, RunEmpty
      <4>2. Len(sealed') - Len(tx_quorum_waiter') = n - q + 1 /\ Len(sealed') = n
        BY <1>2, <1>3, <1>8
      <4>3. IsRun(tx_quorum_waiter', Len(sealed') - Len(tx_quorum_waiter'), Len(sealed'))
        BY <1>3, <4>2
      <4>4. processed' + Len(tx_processor') = processed + 1
        BY <1>1, <1>2, <3>2, <3>3
      <4> QED BY <1>1, <3>1, <3>3, <3>4, <4>1, <4>3, <4>4 DEF InOrder
    <3>6. AtProposer'
      <4>1. \A X : X \subseteq 1..processed => X \subseteq 1..(processed + 1)
        BY <1>2
      <4> QED BY <1>1, <2>1, <3>1, <3>3, <3>4, <4>1 DEF AtProposer, proposerVars
    <3> QED BY <1>1, <3>5, <3>6 DEF Acknowledged, proposerVars
  <2>2. CASE Peers # {}
    <3>1. waiting' = n - q + 1 /\ waiting' # NoBatch
      BY <1>1, <1>2, <1>3, <2>2 DEF NoBatch
    <3>2. processed' = processed
      BY <1>1, <1>2, <1>3, <1>8, <3>1 DEF processed
    <3>3. passed' = passed
      BY <1>1, <3>2 DEF passed
    <3>4. InOrder'
      <4>1. Len(sealed') - Len(tx_quorum_waiter') = n - q + 1 /\ Len(sealed') = n
        BY <1>2, <1>3, <1>8
      <4>2. IsRun(tx_quorum_waiter', Len(sealed') - Len(tx_quorum_waiter'), Len(sealed'))
        BY <1>3, <4>1
      <4>3. waiting' = processed + Len(tx_processor) + 1
        BY <1>2, <3>1
      <4> QED BY <1>1, <3>2, <3>3, <4>2, <4>3 DEF InOrder
    <3>5. AtProposer' /\ Acknowledged'
      BY <1>1, <3>2, <3>3, ProposerKept DEF proposerVars
    <3> QED BY <3>4, <3>5
  <2> QED BY <2>1, <2>2
<1>10. Range(tx_quorum_waiter) = Range(tx_quorum_waiter') \cup {Head(tx_quorum_waiter)}
  BY <1>2, <1>3, <1>4
<1> QED BY <1>6, <1>7, <1>9, <1>10

LEMMA TakeAckKeeps ==
  ASSUME IInv, NEW p \in Peers, TakeAck(p)
  PROVE  IInv'
<1> USE DEF IInv
<1> DEFINE S == counted[waiting] \cup {p}
           quorum == total_stake(S) >= quorum_threshold
<1>1. /\ waiting # NoBatch
      /\ waiting \in received[p] /\ p \notin counted[waiting]
      /\ counted' = [counted EXCEPT ![waiting] = S]
      /\ waiting' = IF quorum THEN NoBatch ELSE waiting
      /\ tx_processor' = IF quorum THEN Append(tx_processor, waiting) ELSE tx_processor
      /\ UNCHANGED <<makerVars, tx_quorum_waiter, store, tx_consensus,
                     proposerVars, peerVars>>
  BY DEF TakeAck
<1>2. waiting \in Batch /\ counted \in [Batch -> SUBSET Peers]
  BY <1>1 DEF Types
<1>3. /\ counted' \in [Batch -> SUBSET Peers]
      /\ counted'[waiting] = S
      /\ \A b \in Batch : b # waiting => counted'[b] = counted[b]
  BY <1>1, <1>2
<1>4. quorum <=> IsQuorum({Me} \cup S)
  BY DEF IsQuorum, total_stake
<1> HIDE DEF quorum, S
<1>5. Types'
  BY <1>1, <1>2, <1>3 DEF Types, makerVars, proposerVars, peerVars
<1>6. Cut' /\ NotYetSealed'
  BY <1>1 DEF Cut, NotYetSealed, makerVars
<1>7. PeersHave'
  <2>1. ASSUME NEW r \in Peers, NEW b \in Batch, r \in counted'[b]
        PROVE  b \in received[r]
    BY <1>1, <1>3, <2>1 DEF PeersHave, S
  <2> QED BY <1>1, <2>1 DEF PeersHave, peerVars
<1>8. /\ passed \in Nat /\ processed \in Nat /\ Len(tx_quorum_waiter) \in Nat
      /\ Len(tx_processor) \in Nat /\ Len(tx_consensus) \in Nat /\ Len(sealed) \in Nat
      /\ tx_processor \in Seq(Nat) /\ processed = passed + Len(tx_consensus)
      /\ processed + Len(tx_processor) + 1 + Len(tx_quorum_waiter) = Len(sealed)
      /\ waiting = processed + Len(tx_processor) + 1
      /\ Range(tx_consensus) = (passed + 1)..processed
      /\ Range(tx_processor) = (processed + 1)..(processed + Len(tx_processor))
  BY <1>1, Places DEF InOrder
<1>9. buffer \subseteq 1..passed
  BY DEF AtProposer
<1>10. \A b \in Range(tx_processor) \cup Range(tx_consensus) \cup buffer :
         b \in Batch /\ b # waiting
  <2>1. \A b \in Range(tx_processor) \cup Range(tx_consensus) \cup buffer :
          b \in 1..(processed + Len(tx_processor))
    <3>1. /\ \A b \in Range(tx_processor) : b \in (processed + 1)..(processed + Len(tx_processor))
          /\ \A b \in Range(tx_consensus) : b \in (passed + 1)..processed
          /\ \A b \in buffer : b \in 1..passed
      BY <1>8, <1>9
    <3>2. \A b : \/ b \in (processed + 1)..(processed + Len(tx_processor))
                 \/ b \in (passed + 1)..processed
                 \/ b \in 1..passed
                 => b \in 1..(processed + Len(tx_processor))
      BY <1>8
    <3> QED BY <3>1, <3>2
  <2>2. \A b \in 1..(processed + Len(tx_processor)) : b \in 1..Len(sealed) /\ b # waiting
    BY <1>8
  <2> QED BY <2>1, <2>2, FewBatches
<1>11. CASE quorum
  <2>1. /\ waiting' = NoBatch /\ tx_processor' = Append(tx_processor, waiting)
        /\ sealed' = sealed /\ tx_consensus' = tx_consensus
        /\ tx_quorum_waiter' = tx_quorum_waiter
    BY <1>1, <1>11 DEF makerVars
  <2>2. Len(tx_processor') = Len(tx_processor) + 1
    BY <1>8, <2>1, Appended
  <2>3. processed' = processed
    <3>1. processed' = Len(sealed) - Len(tx_quorum_waiter) - 0 - (Len(tx_processor) + 1)
      BY <2>1, <2>2 DEF processed
    <3> QED BY <1>8, <3>1
  <2>4. passed' = passed
    BY <2>1, <2>3 DEF passed
  <2>5. IsRun(tx_processor', processed, processed + Len(tx_processor'))
    <3>1. IsRun(tx_processor, processed, processed + Len(tx_processor))
      BY DEF InOrder
    <3>2. IsRun(Append(tx_processor, processed + Len(tx_processor) + 1), processed,
                processed + Len(tx_processor) + 1)
      BY <3>1, RunAppend
    <3>3. processed + Len(tx_processor) + 1 = processed + Len(tx_processor')
      BY <1>8, <2>2
    <3> QED BY <1>8, <2>1, <3>2, <3>3
  <2>6. InOrder'
    BY <2>1, <2>3, <2>4, <2>5 DEF InOrder
  <2>7. AtProposer'
    BY <1>1, <2>3, <2>4 DEF AtProposer, proposerVars
  <2>8. Range(tx_processor') = Range(tx_processor) \cup {waiting}
    <3>1. Range(tx_processor') = (processed + 1)..(processed + Len(tx_processor'))
      BY <2>5, RunRange
    <3> QED BY <1>8, <2>2, <3>1
  <2>9. Acknowledged'
    <3>1. ASSUME NEW b \in Range(tx_processor') \cup Range(tx_consensus) \cup buffer
          PROVE  IsQuorum({Me} \cup counted'[b])
      <4>1. CASE b = waiting
        BY <1>3, <1>4, <1>11, <4>1
      <4>2. CASE b # waiting
        <5>1. b \in Range(tx_processor) \cup Range(tx_consensus) \cup buffer
          BY <2>8, <3>1, <4>2
        <5>2. counted'[b] = counted[b]
          BY <1>3, <1>10, <4>2, <5>1
        <5> QED BY <5>1, <5>2 DEF Acknowledged
      <4> QED BY <4>1, <4>2
    <3> QED BY <1>1, <2>1, <3>1 DEF Acknowledged, proposerVars
  <2> QED BY <1>5, <1>6, <1>7, <2>6, <2>7, <2>9
<1>12. CASE ~ quorum
  <2>1. /\ UNCHANGED <<sealed, tx_quorum_waiter, waiting, tx_processor, tx_consensus>>
        /\ buffer' = buffer /\ proposed' = proposed /\ store' = store
    BY <1>1, <1>12 DEF makerVars, proposerVars
  <2>2. processed' = processed /\ passed' = passed /\ InOrder'
    BY <2>1, PlacesKept
  <2>3. AtProposer'
    BY <2>1, <2>2 DEF AtProposer
  <2>4. Acknowledged'
    BY <1>3, <1>10, <2>1 DEF Acknowledged
  <2> QED BY <1>5, <1>6, <1>7, <2>2, <2>3, <2>4
<1> QED BY <1>11, <1>12

\* A channel passes its oldest number on to the next one.
LEMMA PassedOn ==
  ASSUME NEW a \in Nat, NEW b \in Nat, NEW c \in Nat, a <= b, b + 1 <= c
  PROVE  /\ (a + 1)..(b + 1) = ((a + 1)..b) \cup {b + 1}
         /\ (b + 1)..c = ((b + 1 + 1)..c) \cup {b + 1}
<1>1. \A x : x \in (a + 1)..(b + 1) <=> x \in ((a + 1)..b) \cup {b + 1}
  OBVIOUS
<1>2. \A x : x \in (b + 1)..c <=> x \in ((b + 1 + 1)..c) \cup {b + 1}
  OBVIOUS
<1>3. (a + 1)..(b + 1) = ((a + 1)..b) \cup {b + 1}
  BY <1>1
<1> QED BY <1>2, <1>3

LEMMA ProcessKeeps ==
  ASSUME IInv, Process
  PROVE  IInv'
<1> USE DEF IInv
<1>1. /\ tx_processor # <<>> /\ tx_processor' = Tail(tx_processor)
      /\ store' = store \cup {Head(tx_processor)}
      /\ tx_consensus' = Append(tx_consensus, Head(tx_processor))
      /\ UNCHANGED <<makerVars, tx_quorum_waiter, waiterVars, proposerVars, peerVars>>
  BY DEF Process
<1>2. /\ passed \in Nat /\ processed \in Nat /\ Len(tx_quorum_waiter) \in Nat
      /\ Len(tx_processor) \in Nat /\ Len(tx_consensus) \in Nat /\ Len(sealed) \in Nat
      /\ tx_consensus \in Seq(Nat) /\ processed + 1 \in Nat
      /\ processed = passed + Len(tx_consensus)
      /\ Range(tx_consensus) = (passed + 1)..processed
      /\ Range(tx_processor) = (processed + 1)..(processed + Len(tx_processor))
  BY Places
<1>3. /\ Head(tx_processor) = processed + 1
      /\ IsRun(tx_processor', processed + 1, processed + Len(tx_processor))
      /\ Len(tx_processor') = Len(tx_processor) - 1
  <2>1. IsRun(tx_processor, processed, processed + Len(tx_processor))
    BY DEF InOrder
  <2>2. /\ Head(tx_processor) = processed + 1
        /\ IsRun(Tail(tx_processor), processed + 1, processed + Len(tx_processor))
        /\ Len(Tail(tx_processor)) = Len(tx_processor) - 1
    BY <1>1, <2>1, RunTail
  <2> QED BY <1>1, <2>2
<1>4. /\ IsRun(tx_consensus', passed, processed + 1)
      /\ Len(tx_consensus') = Len(tx_consensus) + 1
  <2>1. IsRun(tx_consensus, passed, processed)
    BY DEF InOrder
  <2>2. IsRun(Append(tx_consensus, processed + 1), passed, processed + 1)
    BY <2>1, RunAppend
  <2>3. Len(Append(tx_consensus, processed + 1)) = Len(tx_consensus) + 1
    BY <1>2, Appended
  <2> QED BY <1>1, <1>3, <2>2, <2>3
<1>5. processed' = processed + 1
  <2>1. processed' = Len(sealed) - Len(tx_quorum_waiter)
                       - (IF waiting = NoBatch THEN 0 ELSE 1) - (Len(tx_processor) - 1)
    BY <1>1, <1>3 DEF processed, makerVars, waiterVars
  <2>2. processed = Len(sealed) - Len(tx_quorum_waiter)
                      - (IF waiting = NoBatch THEN 0 ELSE 1) - Len(tx_processor)
    BY DEF processed
  <2> QED BY <1>2, <2>1, <2>2
<1>6. passed' = passed
  <2>1. passed' = (processed + 1) - (Len(tx_consensus) + 1)
    BY <1>4, <1>5 DEF passed
  <2> QED BY <1>2, <2>1
<1>7. Types' /\ Cut' /\ NotYetSealed' /\ PeersHave'
  BY <1>1 DEF Types, Cut, NotYetSealed, PeersHave, makerVars, waiterVars, proposerVars, peerVars
<1>8. processed' + Len(tx_processor') = processed + Len(tx_processor)
  BY <1>2, <1>3, <1>5
<1>9. InOrder'
  <2>1. IsRun(tx_processor', processed', processed' + Len(tx_processor'))
    BY <1>3, <1>5, <1>8
  <2> QED BY <1>1, <1>4, <1>5, <1>6, <1>8, <2>1 DEF InOrder, makerVars, waiterVars
<1>10. AtProposer'
  <2>1. store' \subseteq 1..(processed + 1)
    <3>1. store \subseteq 1..processed /\ store' = store \cup {processed + 1}
      BY <1>1, <1>3 DEF AtProposer
    <3>2. \A b \in 1..processed : b \in 1..(processed + 1)
      BY <1>2
    <3>3. processed + 1 \in 1..(processed + 1)
      BY <1>2
    <3> QED BY <3>1, <3>2, <3>3
  <2>2. Peers # {}
    BY <1>1 DEF AtProposer
  <2> QED BY <1>1, <1>5, <1>6, <2>1, <2>2 DEF AtProposer, proposerVars
<1>11. /\ Range(tx_consensus') = Range(tx_consensus) \cup {processed + 1}
       /\ Range(tx_processor) = Range(tx_processor') \cup {processed + 1}
  <2>1. /\ Range(tx_consensus') = (passed + 1)..(processed + 1)
        /\ Range(tx_processor') = (processed + 1 + 1)..(processed + Len(tx_processor))
    BY <1>3, <1>4, RunRange
  <2>2. Len(tx_processor) >= 1
    BY <1>1, <1>2
  <2> DEFINE c == processed + Len(tx_processor)
  <2>3. c \in Nat /\ passed <= processed /\ processed + 1 <= c
    BY <1>2, <2>2
  <2>4. passed \in Nat /\ processed \in Nat
    BY <1>2
  <2> HIDE DEF c, passed, processed
  <2>5. /\ (passed + 1)..(processed + 1) = ((passed + 1)..processed) \cup {processed + 1}
        /\ (processed + 1)..c = ((processed + 1 + 1)..c) \cup {processed + 1}
    BY <2>3, <2>4, PassedOn
  <2>6. /\ Range(tx_consensus) = (passed + 1)..processed /\ Range(tx_processor) = (processed + 1)..c
        /\ Range(tx_processor') = (processed + 1 + 1)..c
    BY <1>2, <2>1 DEF c
  <2> QED BY <2>1, <2>5, <2>6
<1>12. Acknowledged'
  <2>1. Range(tx_consensus') \cup buffer \subseteq store'
    BY <1>1, <1>3, <1>11 DEF Acknowledged
  <2>2. \A b \in Range(tx_processor') \cup Range(tx_consensus') \cup buffer :
          IsQuorum({Me} \cup counted[b])
    BY <1>11 DEF Acknowledged
  <2> QED BY <1>1, <2>1, <2>2 DEF Acknowledged, proposerVars, waiterVars
<1> QED BY <1>7, <1>9, <1>10, <1>12

-----------------------------------------------------------------------------
(* The steps of the Proposer. *)

LEMMA TakeDigestKeeps ==
  ASSUME IInv, TakeDigest
  PROVE  IInv'
<1> USE DEF IInv
<1>1. /\ tx_consensus # <<>> /\ tx_consensus' = Tail(tx_consensus)
      /\ buffer' = buffer \cup {Head(tx_consensus)}
      /\ UNCHANGED <<makerVars, tx_quorum_waiter, waiterVars, tx_processor, store,
                     acks, proposing, proposed, makes, peerVars>>
  BY DEF TakeDigest
<1>2. /\ passed \in Nat /\ processed \in Nat /\ Len(tx_consensus) \in Nat
      /\ processed = passed + Len(tx_consensus)
      /\ Range(tx_consensus) = (passed + 1)..processed
  BY Places
<1>3. /\ Head(tx_consensus) = passed + 1 /\ IsRun(tx_consensus', passed + 1, processed)
      /\ Len(tx_consensus') = Len(tx_consensus) - 1 /\ passed < processed
  <2>1. IsRun(tx_consensus, passed, processed)
    BY DEF InOrder
  <2>2. /\ Head(tx_consensus) = passed + 1 /\ IsRun(Tail(tx_consensus), passed + 1, processed)
        /\ Len(Tail(tx_consensus)) = Len(tx_consensus) - 1 /\ passed < processed
    BY <1>1, <2>1, RunTail
  <2> QED BY <1>1, <2>2
<1>4. processed' = processed
  BY <1>1 DEF processed, makerVars, waiterVars
<1>5. passed' = passed + 1
  <2>1. passed' = processed - (Len(tx_consensus) - 1)
    BY <1>3, <1>4 DEF passed
  <2> QED BY <1>2, <2>1
<1>6. Types' /\ Cut' /\ NotYetSealed' /\ PeersHave'
  BY <1>1 DEF Types, Cut, NotYetSealed, PeersHave, makerVars, waiterVars, peerVars
<1>7. InOrder'
  BY <1>1, <1>3, <1>4, <1>5 DEF InOrder, makerVars, waiterVars
<1>8. AtProposer'
  <2>1. buffer' \cup proposed' \subseteq 1..(passed + 1)
    BY <1>1, <1>2, <1>3 DEF AtProposer
  <2>2. Peers # {} /\ 1..passed \subseteq buffer \cup proposed
    BY <1>1 DEF AtProposer
  <2>3. 1..(passed + 1) \subseteq buffer' \cup proposed'
    BY <1>1, <1>2, <1>3, <2>2
  <2> QED BY <1>1, <1>4, <1>5, <2>1, <2>2, <2>3 DEF AtProposer
<1>9. Range(tx_consensus) = Range(tx_consensus') \cup {Head(tx_consensus)}
  <2>1. Range(tx_consensus') = (passed + 1 + 1)..processed
    BY <1>3, RunRange
  <2> QED BY <1>2, <1>3, <2>1
<1>10. Acknowledged'
  <2>1. Range(tx_consensus') \cup buffer' = Range(tx_consensus) \cup buffer
    BY <1>1, <1>9
  <2> QED BY <1>1, <2>1 DEF Acknowledged, waiterVars
<1> QED BY <1>6, <1>7, <1>8, <1>10

\* A step of the Proposer that takes no digest: what leaves the buffer is in a
\* block.
LEMMA ProposingKeeps ==
  ASSUME IInv,
         UNCHANGED <<makerVars, tx_quorum_waiter, waiterVars, tx_processor, store,
                     tx_consensus, peerVars>>,
         acks' \subseteq Peers, proposing' \in BOOLEAN, makes' \in 0..MaxMakes,
         buffer' \subseteq buffer, buffer' \cup proposed' = buffer \cup proposed
  PROVE  IInv'
<1> USE DEF IInv
<1>1. Types' /\ Cut' /\ NotYetSealed' /\ PeersHave'
  BY DEF Types, Cut, NotYetSealed, PeersHave, makerVars, waiterVars, peerVars
<1>2. processed' = processed /\ passed' = passed /\ InOrder'
  BY PlacesKept DEF makerVars, waiterVars
<1>3. AtProposer'
  BY <1>2 DEF AtProposer
<1>4. Acknowledged'
  BY DEF Acknowledged, waiterVars
<1> QED BY <1>1, <1>2, <1>3, <1>4

LEMMA ProposerKeeps ==
  ASSUME IInv,
         make_block \/ (\E p \in Peers : BlockAck(p)) \/ (\E b \in Batch : Cleanup(b))
  PROVE  /\ IInv'
         /\ UNCHANGED <<makerVars, tx_quorum_waiter, waiterVars, peerVars>>
<1>1. acks \subseteq Peers /\ proposing \in BOOLEAN /\ makes \in 0..MaxMakes
  BY DEF IInv, Types
<1>2. CASE make_block
  <2>1. makes < MaxMakes /\ makes' = makes + 1 /\ makes' \in 0..MaxMakes
    BY <1>1, <1>2, BatchPipelineAssumption DEF make_block
  <2>2. buffer' \subseteq buffer /\ buffer' \cup proposed' = buffer \cup proposed
        /\ acks' \subseteq Peers /\ proposing' \in BOOLEAN
    BY <1>2 DEF make_block
  <2>3. UNCHANGED <<makerVars, tx_quorum_waiter, waiterVars, tx_processor, store,
                    tx_consensus, peerVars>>
    BY <1>2 DEF make_block
  <2> QED BY <2>1, <2>2, <2>3, ProposingKeeps
<1>3. CASE \E p \in Peers : BlockAck(p)
  <2>1. PICK p \in Peers : BlockAck(p)
    BY <1>3
  <2>2. UNCHANGED <<makerVars, tx_quorum_waiter, waiterVars, tx_processor, store,
                    tx_consensus, buffer, proposed, makes, peerVars>>
    BY <2>1 DEF BlockAck
  <2>3. acks' \subseteq Peers /\ proposing' \in BOOLEAN
    BY <1>1, <2>1 DEF BlockAck
  <2> QED BY <1>1, <2>2, <2>3, ProposingKeeps
<1>4. CASE \E b \in Batch : Cleanup(b)
  <2>1. PICK b \in Batch : Cleanup(b)
    BY <1>4
  <2>2. UNCHANGED <<makerVars, tx_quorum_waiter, waiterVars, tx_processor, store,
                    tx_consensus, acks, proposing, makes, peerVars>>
    BY <2>1 DEF Cleanup
  <2>3. buffer' \subseteq buffer /\ buffer' \cup proposed' = buffer \cup proposed
    BY <2>1 DEF Cleanup
  <2> QED BY <1>1, <2>2, <2>3, ProposingKeeps
<1> QED BY <1>2, <1>3, <1>4

-----------------------------------------------------------------------------
(* The steps of the peers. *)

\* A peer may get, store and lose batches, as long as it keeps what it got
\* while it is up.
LEMMA PeersKeep ==
  ASSUME IInv,
         UNCHANGED <<makerVars, tx_quorum_waiter, waiterVars, tx_processor, store,
                     tx_consensus, proposerVars>>,
         {received', queued', stored'} \subseteq [Peers -> SUBSET (1..Len(sealed))],
         crashed' \subseteq Peers,
         \A p \in Peers : received[p] \subseteq received'[p],
         \A p \in Peers \ crashed' : received'[p] \subseteq queued'[p] \cup stored'[p]
  PROVE  IInv'
<1> USE DEF IInv
<1>1. Types' /\ Cut' /\ NotYetSealed'
  BY DEF Types, Cut, NotYetSealed, makerVars, waiterVars, proposerVars
<1>2. processed' = processed /\ passed' = passed /\ InOrder'
  BY PlacesKept DEF makerVars, waiterVars
<1>3. AtProposer' /\ Acknowledged'
  BY <1>2, ProposerKept DEF proposerVars, waiterVars
<1>4. PeersHave'
  BY DEF PeersHave, waiterVars
<1> QED BY <1>1, <1>2, <1>3, <1>4

LEMMA PeerKeeps ==
  ASSUME IInv, NEW p \in Peers,
         Crash(p) \/ (\E b \in Batch : Receive(p, b) \/ ProcessPeer(p, b))
  PROVE  IInv'
<1> DEFINE Sets == [Peers -> SUBSET (1..Len(sealed))]
<1>1. /\ received \in Sets /\ queued \in Sets /\ stored \in Sets /\ crashed \subseteq Peers
      /\ \A r \in Peers \ crashed : received[r] \subseteq queued[r] \cup stored[r]
      /\ Len(sealed) \in Nat
  BY DEF IInv, Types, PeersHave
<1>2. CASE Crash(p)
  <2>1. /\ queued' \in Sets /\ received' = received /\ stored' = stored
        /\ crashed' = crashed \cup {p}
        /\ \A r \in Peers : r # p => queued'[r] = queued[r]
        /\ UNCHANGED <<makerVars, tx_quorum_waiter, waiterVars, tx_processor, store,
                       tx_consensus, proposerVars>>
    BY <1>1, <1>2 DEF Crash
  <2>2. \A r \in Peers \ crashed' : received'[r] \subseteq queued'[r] \cup stored'[r]
    BY <1>1, <2>1
  <2>3. {received', queued', stored'} \subseteq Sets /\ crashed' \subseteq Peers
        /\ \A r \in Peers : received[r] \subseteq received'[r]
    BY <1>1, <2>1
  <2> QED BY <2>1, <2>2, <2>3, PeersKeep
<1>3. ASSUME NEW b \in Batch, Receive(p, b)
      PROVE  IInv'
  <2>1. b \in 1..Len(sealed)
    BY <1>1, <1>3 DEF Receive, Batch
  <2>2. /\ received' = [received EXCEPT ![p] = @ \cup {b}]
        /\ queued' = [queued EXCEPT ![p] = @ \cup {b}]
        /\ stored' = stored /\ crashed' = crashed
        /\ UNCHANGED <<makerVars, tx_quorum_waiter, waiterVars, tx_processor, store,
                       tx_consensus, proposerVars>>
    BY <1>3 DEF Receive
  <2>3. received' \in Sets /\ queued' \in Sets
    BY <1>1, <2>1, <2>2
  <2>4. \A r \in Peers : /\ received[r] \subseteq received'[r]
                         /\ r \notin crashed => received'[r] \subseteq queued'[r] \cup stored'[r]
    BY <1>1, <2>2
  <2>5. /\ {received', queued', stored'} \subseteq Sets /\ crashed' \subseteq Peers
        /\ \A r \in Peers : received[r] \subseteq received'[r]
        /\ \A r \in Peers \ crashed' : received'[r] \subseteq queued'[r] \cup stored'[r]
    BY <1>1, <2>2, <2>3, <2>4
  <2> QED BY <2>2, <2>5, PeersKeep
<1>4. ASSUME NEW b \in Batch, ProcessPeer(p, b)
      PROVE  IInv'
  <2>1. b \in 1..Len(sealed)
    BY <1>1, <1>4 DEF ProcessPeer
  <2>2. /\ queued' = [queued EXCEPT ![p] = @ \ {b}]
        /\ stored' = [stored EXCEPT ![p] = @ \cup {b}]
        /\ received' = received /\ crashed' = crashed
        /\ UNCHANGED <<makerVars, tx_quorum_waiter, waiterVars, tx_processor, store,
                       tx_consensus, proposerVars>>
    BY <1>4 DEF ProcessPeer
  <2>3. queued' \in Sets /\ stored' \in Sets
    BY <1>1, <2>1, <2>2
  <2>4. \A r \in Peers : r \notin crashed => received[r] \subseteq queued'[r] \cup stored'[r]
    BY <1>1, <2>2
  <2>5. /\ {received', queued', stored'} \subseteq Sets /\ crashed' \subseteq Peers
        /\ \A r \in Peers : received[r] \subseteq received'[r]
        /\ \A r \in Peers \ crashed' : received'[r] \subseteq queued'[r] \cup stored'[r]
    BY <1>1, <2>2, <2>3, <2>4
  <2> QED BY <2>2, <2>5, PeersKeep
<1> QED BY <1>2, <1>3, <1>4

-----------------------------------------------------------------------------
(* The theorems. *)

LEMMA InitInv == Init => IInv
<1> SUFFICES ASSUME Init PROVE IInv
  OBVIOUS
<1>1. /\ accepted = 0 /\ tx_batch_maker = <<>> /\ current_batch = <<>> /\ sealed = <<>>
      /\ tx_quorum_waiter = <<>> /\ tx_processor = <<>> /\ tx_consensus = <<>>
      /\ waiting = NoBatch /\ counted = [b \in Batch |-> {}]
      /\ store = {} /\ buffer = {} /\ acks = {} /\ proposing = FALSE /\ proposed = {}
      /\ makes = 0 /\ received = [p \in Peers |-> {}] /\ queued = [p \in Peers |-> {}]
      /\ stored = [p \in Peers |-> {}] /\ crashed = {}
  BY DEF Init
<1>2. Len(<<>>) = 0 /\ End(sealed, 0) = 0 /\ IsRun(<<>>, 0, 0) /\ Range(<<>>) = {}
  BY RunEmpty DEF End, Range
<1>3. processed = 0 /\ passed = 0
  <2>1. processed = 0
    <3>1. /\ Len(sealed) = 0 /\ Len(tx_quorum_waiter) = 0 /\ Len(tx_processor) = 0
          /\ waiting = NoBatch
      BY <1>1, <1>2
    <3> QED BY <3>1 DEF processed
  <2>2. Len(tx_consensus) = 0
    BY <1>1, <1>2
  <2> QED BY <2>1, <2>2 DEF passed
<1>4. Types
  <2>1. 0 \in 0..MaxTransactions /\ 0 \in 0..MaxMakes
    BY BatchPipelineAssumption
  <2>2. sealed \in Seq(Seq(Nat))
    BY <1>1
  <2>3. counted \in [Batch -> SUBSET Peers]
    BY <1>1
  <2>4. {received, queued, stored} \subseteq [Peers -> SUBSET (1..Len(sealed))]
    BY <1>1
  <2> QED BY <1>1, <2>1, <2>2, <2>3, <2>4 DEF Types
<1>5. Cut /\ NotYetSealed
  BY <1>1, <1>2 DEF Cut, NotYetSealed
<1>6. InOrder
  BY <1>1, <1>2, <1>3 DEF InOrder
<1>7. AtProposer /\ Acknowledged /\ PeersHave
  BY <1>1, <1>2, <1>3 DEF AtProposer, Acknowledged, PeersHave
<1> QED BY <1>4, <1>5, <1>6, <1>7 DEF IInv

LEMMA NextKeeps == IInv /\ [Next]_vars => IInv'
<1> SUFFICES ASSUME IInv, [Next]_vars PROVE IInv'
  OBVIOUS
<1>1. CASE UNCHANGED vars
  <2>1. UNCHANGED <<makerVars, tx_quorum_waiter, waiterVars, tx_processor, store,
                    tx_consensus, proposerVars, peerVars>>
    BY <1>1 DEF vars
  <2>2. acks' \subseteq Peers /\ proposing' \in BOOLEAN /\ makes' \in 0..MaxMakes
        /\ buffer' \subseteq buffer /\ buffer' \cup proposed' = buffer \cup proposed
    BY <2>1 DEF IInv, Types, proposerVars
  <2> QED BY <2>1, <2>2, ProposingKeeps
<1>2. CASE AcceptTransaction
  BY <1>2, AcceptKeeps
<1>3. CASE TakeTransaction
  BY <1>3, TakeTransactionKeeps
<1>4. CASE BatchTimer
  BY <1>4, BatchTimerKeeps
<1>5. CASE TakeBatch
  BY <1>5, TakeBatchKeeps
<1>6. CASE Process
  BY <1>6, ProcessKeeps
<1>7. CASE TakeDigest
  BY <1>7, TakeDigestKeeps
<1>8. CASE make_block \/ (\E p \in Peers : BlockAck(p)) \/ (\E b \in Batch : Cleanup(b))
  BY <1>8, ProposerKeeps
<1>9. ASSUME NEW p \in Peers, TakeAck(p)
      PROVE  IInv'
  BY <1>9, TakeAckKeeps
<1>10. ASSUME NEW p \in Peers,
              Crash(p) \/ (\E b \in Batch : Receive(p, b) \/ ProcessPeer(p, b))
       PROVE  IInv'
  BY <1>10, PeerKeeps
<1> QED
  BY <1>1, <1>2, <1>3, <1>4, <1>5, <1>6, <1>7, <1>8, <1>9, <1>10 DEF Next

\* The inductive invariant: each batch is with one task, in the order of the
\* tasks, and its copies with the peers the tasks still count on
\* (batch_maker.rs:77-155, quorum_waiter.rs:55-86, processor.rs:27-37).
THEOREM PipelineInvariant == Spec => []IInv
BY InitInv, NextKeeps, PTL DEF Spec

LEMMA PipelineRun ==
  ASSUME Types, InOrder
  PROVE  IsRun(InPipeline, passed, Len(sealed)) /\ passed = Len(sealed) - Len(InPipeline)
<1> DEFINE n == Len(sealed)
           q == Len(tx_quorum_waiter)
           top == processed + Len(tx_processor)
           middle == IF waiting = NoBatch THEN <<>> ELSE <<waiting>>
<1>1. /\ n \in Nat /\ passed \in Nat /\ processed \in Nat /\ q \in Nat
      /\ Len(tx_processor) \in Nat /\ top \in Nat
      /\ waiting = NoBatch => top + q = n
      /\ waiting # NoBatch => top + 1 + q = n
  BY Places
<1>2. /\ IsRun(tx_consensus, passed, processed) /\ IsRun(tx_processor, processed, top)
      /\ IsRun(tx_quorum_waiter, n - q, n)
      /\ waiting # NoBatch => waiting = top + 1
  BY DEF InOrder
<1> HIDE DEF n, q, top
<1>3. IsRun(middle, top, n - q)
  <2>1. CASE waiting = NoBatch
    <3>1. middle = <<>> /\ n - q = top
      BY <1>1, <2>1
    <3> HIDE DEF middle
    <3> QED BY <1>1, <3>1, RunEmpty
  <2>2. CASE waiting # NoBatch
    <3>1. middle = <<top + 1>> /\ n - q = top + 1
      BY <1>1, <1>2, <2>2
    <3> HIDE DEF middle
    <3> QED BY <1>1, <3>1, RunOne
  <2> QED BY <2>1, <2>2
<1> HIDE DEF middle
<1>4. IsRun(tx_consensus \o tx_processor, passed, top)
  BY <1>2, RunConcat
<1>5. IsRun(tx_consensus \o tx_processor \o middle, passed, n - q)
  BY <1>3, <1>4, RunConcat
<1>6. IsRun(tx_consensus \o tx_processor \o middle \o tx_quorum_waiter, passed, n)
  BY <1>2, <1>5, RunConcat
<1>7. IsRun(InPipeline, passed, n)
  BY <1>6 DEF InPipeline, middle
<1>8. Len(InPipeline) = n - passed
  BY <1>7 DEF IsRun
<1>9. passed = n - Len(InPipeline)
  BY <1>1, <1>8
<1> QED BY <1>7, <1>9 DEF n

\* The channels, the batches and the sets of the tasks keep their types: every
\* batch on its way has been sealed, every transaction in it was accepted.
THEOREM PipelineTypes == Spec => []TypeOK
<1>1. IInv => TypeOK
  <2> SUFFICES ASSUME IInv PROVE TypeOK
    OBVIOUS
  <2> USE DEF IInv
  <2>1. /\ accepted \in Nat /\ accepted <= MaxTransactions /\ Len(sealed) \in Nat
        /\ DOMAIN sealed = 1..Len(sealed)
        /\ End(sealed, Len(sealed)) \in Nat
    BY FewBatches
  <2>2. Range(tx_batch_maker) \cup Range(current_batch) \subseteq 1..accepted
    <3> DEFINE next == accepted - Len(tx_batch_maker)
    <3>1. /\ IsRun(current_batch, End(sealed, Len(sealed)), next)
          /\ IsRun(tx_batch_maker, next, accepted)
      BY DEF NotYetSealed
    <3>2. next \in Nat
      BY <3>1 DEF IsRun
    <3> HIDE DEF next
    <3>3. next <= accepted
      BY <3>1, RunNumbers
    <3>4. /\ Range(tx_batch_maker) = (next + 1)..accepted
          /\ Range(current_batch) = (End(sealed, Len(sealed)) + 1)..next
      BY <3>1, RunRange
    <3>5. \A x \in (next + 1)..accepted : x \in 1..accepted
      BY <2>1, <3>2
    <3>6. \A x \in (End(sealed, Len(sealed)) + 1)..next : x \in 1..accepted
      BY <2>1, <3>2, <3>3
    <3> QED BY <3>4, <3>5, <3>6
  <2>3. \A b \in DOMAIN sealed : sealed[b] \in Seq(1..accepted)
    <3> TAKE b \in DOMAIN sealed
    <3>1. /\ IsRun(sealed[b], End(sealed, b - 1), End(sealed, b)) /\ End(sealed, b) <= accepted
      BY <2>1 DEF Cut
    <3>2. Range(sealed[b]) = (End(sealed, b - 1) + 1)..End(sealed, b)
      BY <3>1, RunRange
    <3>3. /\ sealed[b] \in Seq(Nat) /\ End(sealed, b - 1) \in Nat /\ End(sealed, b) \in Nat
      BY <3>1 DEF IsRun
    <3>4. \A x \in Range(sealed[b]) : x \in 1..accepted
      BY <2>1, <3>1, <3>2, <3>3
    <3>5. \A i \in 1..Len(sealed[b]) : sealed[b][i] \in 1..accepted
      BY <3>3, <3>4 DEF Range
    <3> QED BY <3>3, <3>5, SequenceOver
  <2>4. Range(InPipeline) \cup store \cup buffer \cup proposed \subseteq DOMAIN sealed
    <3>1. /\ passed \in Nat /\ processed \in Nat /\ passed <= processed
          /\ processed <= Len(sealed)
      BY PlacesLeft
    <3>2. Range(InPipeline) = (passed + 1)..Len(sealed)
      BY PipelineRun, RunRange
    <3>3. buffer \cup proposed \subseteq 1..passed /\ store \subseteq 1..processed
      BY DEF AtProposer
    <3>4. \A x : \/ x \in (passed + 1)..Len(sealed)
                 \/ x \in 1..passed
                 \/ x \in 1..processed
                 => x \in 1..Len(sealed)
      BY <2>1, <3>1
    <3> QED BY <2>1, <3>2, <3>3, <3>4
  <2> QED BY <2>1, <2>2, <2>3, <2>4 DEF TypeOK, Types
<1> QED BY <1>1, PipelineInvariant, PTL

\* No transaction is lost, sent twice or overtaken in a committee of more than
\* one node, whatever seals, Acks and full channels meet; in a committee of one
\* the QuorumWaiter lets the batch go (quorum_waiter.rs:60-83).
THEOREM TransactionsAreKept ==
  ASSUME Peers # {}
  PROVE  Spec => []TransactionsKept
<1>1. IInv => TransactionsKept
  <2> SUFFICES ASSUME IInv PROVE TransactionsKept
    OBVIOUS
  <2> USE DEF IInv
  <2>1. DOMAIN sealed = 1..Len(sealed)
    BY FewBatches
  <2>2. \A b \in DOMAIN sealed :
          sealed[b] # <<>> /\ sealed[b] = Numbers(End(sealed, b - 1), End(sealed, b))
    BY <2>1, RunNumbers DEF Cut
  <2>3. current_batch \o tx_batch_maker = Numbers(End(sealed, Len(sealed)), accepted)
    <3>1. IsRun(current_batch \o tx_batch_maker, End(sealed, Len(sealed)), accepted)
      BY RunConcat DEF NotYetSealed
    <3> QED BY <3>1, RunNumbers
  <2>4. /\ InPipeline = Numbers(Len(sealed) - Len(InPipeline), Len(sealed))
        /\ passed = Len(sealed) - Len(InPipeline)
    BY PipelineRun, RunNumbers
  <2>5. 1..passed \subseteq buffer \cup proposed
    BY DEF AtProposer
  <2> QED BY <2>2, <2>3, <2>4, <2>5 DEF TransactionsKept
<1> QED BY <1>1, PipelineInvariant, PTL

\* A digest that reaches the Proposer is that of a batch that is stored, and
\* that a quorum of the stake has, those aside that crashed before they stored
\* it (quorum_waiter.rs:71-82, processor.rs:31-36).
THEOREM DigestsAreAvailable == Spec => []DigestsAvailable
<1>1. IInv => DigestsAvailable
  <2> SUFFICES ASSUME IInv PROVE DigestsAvailable
    OBVIOUS
  <2> USE DEF IInv
  <2>1. ASSUME NEW b \in Range(tx_consensus) \cup buffer
        PROVE  /\ b \in store
               /\ IsQuorum({Me} \cup crashed \cup {p \in Peers : b \in queued[p] \cup stored[p]})
    <3> DEFINE Has == {p \in Peers : b \in queued[p] \cup stored[p]}
    <3>1. b \in store /\ IsQuorum({Me} \cup counted[b])
      BY <2>1 DEF Acknowledged
    <3>2. b \in Batch
      <4>1. processed \in Nat /\ Len(sealed) \in Nat /\ processed <= Len(sealed)
        BY PlacesLeft
      <4>2. b \in 1..processed
        BY <3>1 DEF AtProposer
      <4> HIDE DEF processed
      <4>3. b \in 1..Len(sealed)
        BY <4>1, <4>2
      <4> QED BY <4>3, FewBatches
    <3>3. counted[b] \subseteq Peers
      BY <3>2 DEF Types
    <3>4. counted[b] \subseteq crashed \cup Has
      BY <3>2, <3>3 DEF PeersHave
    <3>5. Peers \subseteq Authorities /\ crashed \subseteq Peers /\ Me \in Authorities
      BY BatchPipelineAssumption DEF Types, Peers
    <3>6. /\ {Me} \cup counted[b] \in SUBSET Authorities
          /\ {Me} \cup crashed \cup Has \in SUBSET Authorities
          /\ {Me} \cup counted[b] \subseteq {Me} \cup crashed \cup Has
      BY <3>3, <3>4, <3>5
    <3>7. IsQuorum({Me} \cup crashed \cup Has)
      <4> HIDE DEF Has
      <4> QED BY <3>1, <3>6, QuorumAssumption
    <3> QED BY <3>1, <3>7
  <2> QED BY <2>1 DEF DigestsAvailable
<1> QED BY <1>1, PipelineInvariant, PTL

-----------------------------------------------------------------------------
(* The links. *)

LEMMA LinksInit ==
  ASSUME Init, NEW p \in Peers
  PROVE  Link(p)!Init
<1>1. sealed = <<>> /\ received = [r \in Peers |-> {}]
  BY DEF Init
<1>2. Len(sealed) = 0 /\ received[p] = {}
  BY <1>1
<1>3. \A b \in Batch : Handle(p, b) = "none"
  BY <1>2, BatchPipelineAssumption DEF Handle, Batch
<1> QED BY <1>2, <1>3 DEF Link!Init, Batch, Link!Message

LEMMA RangeAppended ==
  ASSUME NEW q \in Seq(Nat), NEW x \in Nat
  PROVE  Range(Append(q, x)) = Range(q) \cup {x}
<1>1. /\ DOMAIN q = 1..Len(q) /\ Len(q) \in Nat
      /\ DOMAIN Append(q, x) = 1..(Len(q) + 1) /\ Append(q, x)[Len(q) + 1] = x
      /\ \A i \in 1..Len(q) : Append(q, x)[i] = q[i]
  BY Appended
<1>2. \A i : i \in 1..(Len(q) + 1) <=> i \in 1..Len(q) \/ i = Len(q) + 1
  BY <1>1
<1> QED BY <1>1, <1>2 DEF Range

\* What a step of the node is for one of its links.
LEMMA LinkStays ==
  ASSUME NEW p \in Peers, Len(sealed') = Len(sealed), received'[p] = received[p],
         \A b \in Batch : Handle(p, b)' = Handle(p, b)
  PROVE  UNCHANGED Link(p)!vars
BY DEF Link!vars

LEMMA LinkSends ==
  ASSUME NEW p \in Peers, Len(sealed) < MaxTransactions, Len(sealed') = Len(sealed) + 1,
         received'[p] = received[p],
         NEW a \in Batch, a = Len(sealed) + 1, Handle(p, a)' = "open",
         \A b \in Batch : b # a => Handle(p, b)' = Handle(p, b)
  PROVE  Link(p)!Next
<1>1. [b \in Batch |-> Handle(p, b)']
        = [[b \in Batch |-> Handle(p, b)] EXCEPT ![Len(sealed')] = "open"]
  OBVIOUS
<1> QED BY <1>1 DEF Link!Next, Link!Send

LEMMA LinkCancels ==
  ASSUME NEW p \in Peers, Len(sealed') = Len(sealed), received'[p] = received[p],
         NEW a \in Batch, Handle(p, a) = "open", Handle(p, a)' = "cancelled",
         \A b \in Batch : b # a => Handle(p, b)' = Handle(p, b)
  PROVE  Link(p)!Next
<1>1. [b \in Batch |-> Handle(p, b)']
        = [[b \in Batch |-> Handle(p, b)] EXCEPT ![a] = "cancelled"]
  OBVIOUS
<1>2. Link(p)!Cancel(a)
  BY <1>1 DEF Link!Cancel
<1> QED BY <1>2 DEF Link!Next, Link!Message, Batch

LEMMA LinkAcknowledges ==
  ASSUME NEW p \in Peers, Len(sealed') = Len(sealed), received'[p] = received[p],
         NEW a \in Batch, Handle(p, a) = "open", a \in received[p], Handle(p, a)' = "acked",
         \A b \in Batch : b # a => Handle(p, b)' = Handle(p, b)
  PROVE  Link(p)!Next
<1>1. [b \in Batch |-> Handle(p, b)']
        = [[b \in Batch |-> Handle(p, b)] EXCEPT ![a] = "acked"]
  OBVIOUS
<1>2. Link(p)!Acknowledge(a)
  BY <1>1 DEF Link!Acknowledge
<1> QED BY <1>2 DEF Link!Next, Link!Message, Batch

\* A batch that is sealed is sent on every link.
LEMMA SealSends ==
  ASSUME IInv, NEW p \in Peers, UNCHANGED <<waiterVars, peerVars>>,
         Len(sealed) < MaxTransactions, Len(sealed') = Len(sealed) + 1,
         tx_quorum_waiter' = Append(tx_quorum_waiter, Len(sealed'))
  PROVE  Link(p)!Next
<1> DEFINE n == Len(sealed)
<1>1. /\ n \in Nat /\ tx_quorum_waiter \in Seq(Nat) /\ n + 1 \in Nat /\ n + 1 \in Batch
      /\ n + 1 # NoBatch /\ MaxTransactions \in Nat
  <2>1. n \in Nat /\ tx_quorum_waiter \in Seq(Nat)
    BY Places DEF IInv
  <2> QED BY <2>1, BatchPipelineAssumption DEF Batch, NoBatch
<1>2. Range(tx_quorum_waiter') = Range(tx_quorum_waiter) \cup {n + 1}
  <2> HIDE DEF n
  <2> QED BY <1>1, RangeAppended DEF n
<1>3. /\ waiting' = waiting /\ counted' = counted /\ received' = received
  BY DEF waiterVars, peerVars
<1>4. p \notin counted[n + 1]
  <2>1. received[p] \subseteq 1..n
    BY DEF IInv, Types
  <2>2. n + 1 \notin received[p]
    BY <1>1, <2>1
  <2> QED BY <1>1, <2>2 DEF IInv, PeersHave
<1>5. PICK a \in Batch : a = n + 1
  BY <1>1
<1>6. Handle(p, a)' = "open"
  <2>1. /\ ~ (a > n + 1) /\ a <= n + 1 /\ a # NoBatch /\ p \notin counted[a]
        /\ a \in Range(tx_quorum_waiter')
    BY <1>1, <1>2, <1>4, <1>5
  <2> QED BY <1>3, <2>1 DEF Handle, Dropped
<1>7. ASSUME NEW b \in Batch, b # a
      PROVE  Handle(p, b)' = Handle(p, b)
  <2>1. (b > n + 1 <=> b > n) /\ (b <= n + 1 <=> b <= n) /\ b # n + 1
    BY <1>1, <1>5, <1>7 DEF Batch
  <2> QED BY <1>2, <1>3, <2>1 DEF Handle, Dropped
<1> QED BY <1>3, <1>5, <1>6, <1>7, LinkSends

\* A step that takes and drops no handle leaves the links alone.
LEMMA HandlesStay ==
  ASSUME NEW p \in Peers, Len(sealed') = Len(sealed), counted' = counted,
         received'[p] = received[p],
         \A b \in Batch : b \in {waiting'} \cup Range(tx_quorum_waiter')
                            <=> b \in {waiting} \cup Range(tx_quorum_waiter)
  PROVE  UNCHANGED Link(p)!vars
<1>1. ASSUME NEW b \in Batch PROVE Handle(p, b)' = Handle(p, b)
  BY DEF Handle, Dropped
<1> QED BY <1>1, LinkStays

\* The handle that is resolved is counted; with a quorum the others of that
\* batch are dropped.
LEMMA AckOnLink ==
  ASSUME IInv, NEW p \in Peers, NEW r \in Peers, TakeAck(r)
  PROVE  Link(p)!Next \/ UNCHANGED Link(p)!vars
<1> DEFINE S == counted[waiting] \cup {r}
           quorum == total_stake(S) >= quorum_threshold
<1>1. /\ waiting # NoBatch
      /\ waiting \in received[r] /\ r \notin counted[waiting]
      /\ counted' = [counted EXCEPT ![waiting] = S]
      /\ waiting' = IF quorum THEN NoBatch ELSE waiting
      /\ Len(sealed') = Len(sealed) /\ tx_quorum_waiter' = tx_quorum_waiter
      /\ received' = received
  BY DEF TakeAck, makerVars, peerVars
<1>2. /\ waiting \in Batch /\ counted \in [Batch -> SUBSET Peers]
      /\ waiting <= Len(sealed) /\ waiting \in Nat /\ Len(sealed) \in Nat
      /\ waiting \notin Range(tx_quorum_waiter)
  <2> USE DEF IInv
  <2>1. waiting \in Batch /\ counted \in [Batch -> SUBSET Peers]
    BY <1>1 DEF Types
  <2>2. waiting = processed + Len(tx_processor) + 1
    BY <1>1 DEF InOrder
  <2>3. /\ processed \in Nat /\ Len(tx_processor) \in Nat /\ Len(tx_quorum_waiter) \in Nat
        /\ processed + Len(tx_processor) + 1 + Len(tx_quorum_waiter) = Len(sealed)
        /\ Len(sealed) \in Nat
        /\ Range(tx_quorum_waiter) = (Len(sealed) - Len(tx_quorum_waiter) + 1)..Len(sealed)
    BY <1>1, Places
  <2> QED BY <2>1, <2>2, <2>3
<1> HIDE DEF quorum, S
<1>3. PICK a \in Batch : a = waiting
  BY <1>2
<1>4. /\ counted'[a] = S /\ a # NoBatch
      /\ \A b \in Batch : b # a => counted'[b] = counted[b]
      /\ \A b \in Batch : b # NoBatch
  BY <1>1, <1>2, <1>3 DEF Batch, NoBatch
<1>5. ASSUME NEW b \in Batch, b # a
      PROVE  Handle(p, b)' = Handle(p, b)
  <2>1. b # waiting' /\ b # waiting
    BY <1>1, <1>3, <1>4, <1>5
  <2> QED BY <1>1, <1>4, <1>5, <2>1 DEF Handle, Dropped
<1>6. ~ (a > Len(sealed)) /\ a <= Len(sealed)
  BY <1>2, <1>3
<1>7. Handle(p, a) = IF p \in counted[a] THEN "acked" ELSE "open"
  BY <1>3, <1>6 DEF Handle, Dropped
<1>8. Handle(p, a)' = IF p \in S THEN "acked" ELSE IF quorum THEN "cancelled" ELSE "open"
  BY <1>1, <1>2, <1>3, <1>4, <1>6 DEF Handle, Dropped
<1>9. counted[a] = counted[waiting]
  BY <1>3
<1>10. CASE p = r
  <2>1. Handle(p, a) = "open" /\ Handle(p, a)' = "acked" /\ a \in received[p]
    BY <1>1, <1>3, <1>7, <1>8, <1>9, <1>10 DEF S
  <2> QED BY <1>1, <1>5, <2>1, LinkAcknowledges
<1>11. CASE p # r /\ (p \in counted[a] \/ ~ quorum)
  <2>1. Handle(p, a)' = Handle(p, a)
    BY <1>7, <1>8, <1>9, <1>11 DEF S
  <2>2. \A b \in Batch : Handle(p, b)' = Handle(p, b)
    BY <1>5, <2>1
  <2> QED BY <1>1, <2>2, LinkStays
<1>12. CASE p # r /\ p \notin counted[a] /\ quorum
  <2>1. Handle(p, a) = "open" /\ Handle(p, a)' = "cancelled"
    BY <1>7, <1>8, <1>9, <1>12 DEF S
  <2> QED BY <1>1, <1>5, <2>1, LinkCancels
<1> QED BY <1>10, <1>11, <1>12

\* A batch that a peer gets for the first time comes after those before it.
LEMMA ReceiveOnLink ==
  ASSUME IInv, NEW p \in Peers, NEW r \in Peers, NEW b \in Batch, Receive(r, b)
  PROVE  Link(p)!Next \/ UNCHANGED Link(p)!vars
<1>1. /\ b <= Len(sealed) /\ p \in DOMAIN received /\ r \in DOMAIN received
      /\ received' = [received EXCEPT ![r] = @ \cup {b}]
      /\ UNCHANGED <<sealed, counted, waiting, tx_quorum_waiter>>
      /\ \A a \in 1..(b - 1) : a \in received[r] \/ Dropped(r, a)
  BY DEF Receive, IInv, Types, makerVars, waiterVars
<1>2. \A c \in Batch : Handle(p, c)' = Handle(p, c)
  BY <1>1 DEF Handle, Dropped
<1>3. CASE p # r
  <2>1. received'[p] = received[p]
    BY <1>1, <1>3
  <2> QED BY <1>1, <1>2, <2>1, LinkStays
<1>4. CASE p = r
  <2>1. received'[p] = received[p] \cup {b}
    BY <1>1, <1>4
  <2>2. ASSUME NEW a \in 1..(b - 1), a \notin received[p]
        PROVE  [c \in Batch |-> Handle(p, c)][a] = "cancelled"
    <3>1. Dropped(p, a)
      BY <1>1, <1>4, <2>2
    <3>2. a \in Batch /\ ~ (a > Len(sealed)) /\ p \notin counted[a]
      <4>1. a <= Len(sealed) /\ p \notin counted[a]
        BY <3>1 DEF Dropped
      <4>2. Len(sealed) \in Nat
        BY Places DEF IInv
      <4> QED BY <4>1, <4>2, BatchPipelineAssumption DEF Batch
    <3> QED BY <3>1, <3>2 DEF Handle
  <2>3. Link(p)!Receive(b)
    BY <1>1, <1>2, <2>1, <2>2 DEF Link!Receive
  <2> QED BY <2>3 DEF Link!Next, Link!Message, Batch
<1> QED BY <1>3, <1>4

\* The node uses each of its links as AckedDelivery says: a handle that was
\* dropped is not counted later, and a peer gets the batches in order but for
\* those that were dropped (quorum_waiter.rs:60-83, reliable_sender.rs:201-206).
THEOREM UsesLinks == Spec => LinksUsed
<1>1. Init => \A p \in Peers : Link(p)!Init
  BY LinksInit
<1>2. IInv /\ [Next]_vars => \A p \in Peers : [Link(p)!Next]_(Link(p)!vars)
  <2> SUFFICES ASSUME IInv, [Next]_vars, NEW p \in Peers
               PROVE  Link(p)!Next \/ UNCHANGED Link(p)!vars
    OBVIOUS
  <2>1. CASE \/ AcceptTransaction \/ Process \/ TakeDigest \/ make_block \/ UNCHANGED vars
             \/ \E r \in Peers : BlockAck(r) \/ Crash(r)
             \/ \E b \in Batch : Cleanup(b) \/ \E r \in Peers : ProcessPeer(r, b)
    <3>1. UNCHANGED <<sealed, counted, waiting, tx_quorum_waiter, received>>
      BY <2>1 DEF AcceptTransaction, Process, TakeDigest, make_block, BlockAck, Crash,
                  Cleanup, ProcessPeer, vars, makerVars, waiterVars, peerVars
    <3> QED BY <3>1, HandlesStay
  <2>2. CASE TakeTransaction
    <3>1. /\ UNCHANGED <<waiterVars, peerVars>>
          /\ \/ UNCHANGED <<sealed, tx_quorum_waiter>>
             \/ Len(sealed) < MaxTransactions /\ Len(sealed') = Len(sealed) + 1
                  /\ tx_quorum_waiter' = Append(tx_quorum_waiter, Len(sealed'))
      BY <2>2, TakeTransactionKeeps
    <3>2. CASE UNCHANGED <<sealed, tx_quorum_waiter>>
      BY <3>1, <3>2, HandlesStay DEF waiterVars, peerVars
    <3> QED BY <3>1, <3>2, SealSends
  <2>3. CASE BatchTimer
    BY <2>3, BatchTimerKeeps, SealSends
  <2>4. CASE TakeBatch
    <3>1. Range(tx_quorum_waiter) = Range(tx_quorum_waiter') \cup {Head(tx_quorum_waiter)}
      BY <2>4, TakeBatchKeeps
    <3>2. /\ waiting = NoBatch /\ waiting' = Head(tx_quorum_waiter)
          /\ UNCHANGED <<sealed, counted, received>>
      BY <2>4 DEF TakeBatch, makerVars, peerVars
    <3>3. \A b \in Batch : b # waiting
      BY <3>2 DEF Batch, NoBatch
    <3> QED BY <3>1, <3>2, <3>3, HandlesStay
  <2>5. ASSUME NEW r \in Peers, TakeAck(r)
        PROVE  Link(p)!Next \/ UNCHANGED Link(p)!vars
    BY <2>5, AckOnLink
  <2>6. ASSUME NEW r \in Peers, NEW b \in Batch, Receive(r, b)
        PROVE  Link(p)!Next \/ UNCHANGED Link(p)!vars
    BY <2>6, ReceiveOnLink
  <2> QED BY <2>1, <2>2, <2>3, <2>4, <2>5, <2>6 DEF Next
<1> QED BY <1>1, <1>2, PipelineInvariant, PTL DEF Spec, LinksUsed
=============================================================================
