--------------------------- MODULE BatchPipeline ----------------------------
(***************************************************************************)
(* How the transactions of clients get into blocks: the tasks of node Me   *)
(* (mempool/src/, consensus/src/proposer.rs), one after the other, with a  *)
(* channel between each and the next,                                      *)
(*                                                                         *)
(*   TxReceiverHandler, BatchMaker, QuorumWaiter, Processor, Proposer,     *)
(*                                                                         *)
(* and the mempools of the other nodes, which get every batch over a       *)
(* ReliableSender.  A task that sends on a full channel stops until there  *)
(* is room: its message is the last of the channel here.                   *)
(*                                                                         *)
(* Transactions are numbered as they are accepted, batches as they are     *)
(* sealed; a batch stands for its digest too.                              *)
(***************************************************************************)
EXTENDS Committee

CONSTANTS
  Me,               \* the node
  BatchSize,        \* transactions that fill a batch (Parameters::batch_size)
  ChannelCapacity,  \* CHANNEL_CAPACITY (1000)
  MaxTransactions,  \* bound: transactions of clients
  MaxMakes,         \* bound: blocks the Core asks the Proposer for
  MayCrash          \* bound: the nodes that may crash; they stay down

Peers == Authorities \ {Me}
Batch == 1..MaxTransactions
NoBatch == 0

ASSUME BatchPipelineAssumption ==
  /\ Me \in Authorities
  /\ {BatchSize, ChannelCapacity} \subseteq Nat \ {0}
  /\ {MaxTransactions, MaxMakes} \subseteq Nat
  /\ MayCrash \subseteq Authorities \ {Me}

VARIABLES
  accepted,         \* how many transactions clients got an Ack for
  tx_batch_maker,   \* channel of transactions
  current_batch,    \* BatchMaker::current_batch
  sealed,           \* the batches made so far, as sequences of transactions
  tx_quorum_waiter, \* channel of batches
  waiting,          \* the batch QuorumWaiter is at, or NoBatch, and who acknowledged
  counted,          \* for each batch, whose Acks were counted by the QuorumWaiter
  tx_processor,     \* channel of batches
  store,            \* the batches of its own that the node has stored
  tx_consensus,     \* channel of digests
  buffer,           \* Proposer::buffer
  acks,             \* who acknowledged the block the Proposer waits for
  proposing,        \* whether it waits
  proposed,         \* batches in blocks, its own or those of others
  makes,            \* how many blocks the Core has asked for
  received,         \* for each peer, the batches it acknowledged
  queued,           \* ... that its Processor has yet to store
  stored,           \* ... that it has stored
  crashed           \* the peers that have crashed

makerVars    == <<accepted, tx_batch_maker, current_batch, sealed>>
waiterVars   == <<waiting, counted>>
proposerVars == <<buffer, acks, proposing, proposed, makes>>
peerVars     == <<received, queued, stored, crashed>>
vars == <<makerVars, tx_quorum_waiter, waiterVars, tx_processor, store,
          tx_consensus, proposerVars, peerVars>>

Init ==
  /\ accepted = 0 /\ tx_batch_maker = <<>> /\ current_batch = <<>> /\ sealed = <<>>
  /\ tx_quorum_waiter = <<>> /\ tx_processor = <<>> /\ tx_consensus = <<>>
  /\ waiting = NoBatch /\ counted = [b \in Batch |-> {}]
  /\ store = {}
  /\ buffer = {} /\ acks = {} /\ proposing = FALSE /\ proposed = {} /\ makes = 0
  /\ received = [p \in Peers |-> {}]
  /\ queued = [p \in Peers |-> {}] /\ stored = [p \in Peers |-> {}]
  /\ crashed = {}

\* The sender of the last message has got rid of it.
Sent(channel) == Len(channel) <= ChannelCapacity

-----------------------------------------------------------------------------
(* The clients and the BatchMaker. *)

\* TxReceiverHandler: the Ack follows when the transaction is on the channel.
AcceptTransaction ==
  /\ accepted < MaxTransactions
  /\ Len(tx_batch_maker) < ChannelCapacity
  /\ accepted' = accepted + 1
  /\ tx_batch_maker' = Append(tx_batch_maker, accepted')
  /\ UNCHANGED <<current_batch, sealed, tx_quorum_waiter, waiterVars,
                 tx_processor, store, tx_consensus, proposerVars, peerVars>>

\* Mutant: the batch is not drained.
seal_copies(batch) ==
  /\ sealed' = Append(sealed, batch)
  /\ tx_quorum_waiter' = Append(tx_quorum_waiter, Len(sealed'))
  /\ current_batch' = batch

\* Mutant: the QuorumWaiter gets a batch that is not broadcast.
seal_unsent(batch) ==
  /\ tx_quorum_waiter' = Append(tx_quorum_waiter, Len(sealed) + 1)
  /\ current_batch' = <<>>
  /\ UNCHANGED sealed

\* The batch is broadcast, and goes to the QuorumWaiter with its handlers.
seal(batch) ==
  /\ sealed' = Append(sealed, batch)
  /\ tx_quorum_waiter' = Append(tx_quorum_waiter, Len(sealed'))
  /\ current_batch' = <<>>

TakeTransaction ==
  LET batch == Append(current_batch, Head(tx_batch_maker))
  IN  /\ Sent(tx_quorum_waiter)
      /\ tx_batch_maker # <<>>
      /\ tx_batch_maker' = Tail(tx_batch_maker)
      /\ IF Len(batch) >= BatchSize THEN seal(batch)
         ELSE current_batch' = batch /\ UNCHANGED <<sealed, tx_quorum_waiter>>
      /\ UNCHANGED <<accepted, waiterVars, tx_processor, store, tx_consensus,
                     proposerVars, peerVars>>

\* max_batch_delay is over.
BatchTimer ==
  /\ Sent(tx_quorum_waiter)
  /\ current_batch # <<>>
  /\ seal(current_batch)
  /\ UNCHANGED <<accepted, tx_batch_maker, waiterVars, tx_processor, store,
                 tx_consensus, proposerVars, peerVars>>

-----------------------------------------------------------------------------
(* The QuorumWaiter. *)

\* It takes a batch when it is done with the one before.  Without handlers,
\* in a committee of one, it is done at once, and the batch is gone.
TakeBatch ==
  /\ waiting = NoBatch /\ Sent(tx_processor)
  /\ tx_quorum_waiter # <<>>
  /\ tx_quorum_waiter' = Tail(tx_quorum_waiter)
  /\ waiting' = IF Peers = {} THEN NoBatch ELSE Head(tx_quorum_waiter)
  /\ UNCHANGED <<makerVars, counted, tx_processor, store, tx_consensus,
                 proposerVars, peerVars>>

\* Mutant: its own stake is not counted.
total_stake_of_others(S) == stake(S)

\* Its own stake and that of those who acknowledged.
total_stake(S) == stake({Me} \cup S)

\* Mutant: a handle that is not resolved counts (the waiter ignores the result).
TakeAck_any(p) ==
  /\ waiting # NoBatch /\ p \notin counted[waiting]
  /\ counted' = [counted EXCEPT ![waiting] = @ \cup {p}]
  /\ waiting' = NoBatch
  /\ tx_processor' = Append(tx_processor, waiting)
  /\ UNCHANGED <<makerVars, tx_quorum_waiter, store, tx_consensus, proposerVars, peerVars>>

\* The handle of p for this batch is resolved.  With a quorum the batch goes
\* on, and the other handles are dropped.
TakeAck(p) ==
  LET S == counted[waiting] \cup {p}
      quorum == total_stake(S) >= quorum_threshold
  IN  /\ waiting # NoBatch
      /\ waiting \in received[p] /\ p \notin counted[waiting]
      /\ counted' = [counted EXCEPT ![waiting] = S]
      /\ waiting' = IF quorum THEN NoBatch ELSE waiting
      /\ tx_processor' = IF quorum THEN Append(tx_processor, waiting) ELSE tx_processor
      /\ UNCHANGED <<makerVars, tx_quorum_waiter, store, tx_consensus,
                     proposerVars, peerVars>>

-----------------------------------------------------------------------------
(* The Processor. *)

\* Mutant: the digest is handed over, the batch is not stored.
Process_unstored ==
  /\ Sent(tx_consensus)
  /\ tx_processor # <<>>
  /\ tx_processor' = Tail(tx_processor)
  /\ tx_consensus' = Append(tx_consensus, Head(tx_processor))
  /\ UNCHANGED <<makerVars, tx_quorum_waiter, waiterVars, store, proposerVars, peerVars>>

Process ==
  /\ Sent(tx_consensus)
  /\ tx_processor # <<>>
  /\ tx_processor' = Tail(tx_processor)
  /\ store' = store \cup {Head(tx_processor)}
  /\ tx_consensus' = Append(tx_consensus, Head(tx_processor))
  /\ UNCHANGED <<makerVars, tx_quorum_waiter, waiterVars, proposerVars, peerVars>>

-----------------------------------------------------------------------------
(* The Proposer. *)

TakeDigest ==
  /\ ~ proposing
  /\ tx_consensus # <<>>
  /\ tx_consensus' = Tail(tx_consensus)
  /\ buffer' = buffer \cup {Head(tx_consensus)}
  /\ UNCHANGED <<makerVars, tx_quorum_waiter, waiterVars, tx_processor, store,
                 acks, proposing, proposed, makes, peerVars>>

\* The Core asks for a block; the Proposer waits for Acks to it, if there is
\* anybody to send it to.
make_block ==
  /\ ~ proposing
  /\ makes < MaxMakes
  /\ makes' = makes + 1
  /\ proposed' = proposed \cup buffer
  /\ buffer' = {}
  /\ proposing' = (Peers # {})
  /\ acks' = {}
  /\ UNCHANGED <<makerVars, tx_quorum_waiter, waiterVars, tx_processor, store,
                 tx_consensus, peerVars>>

BlockAck(p) ==
  LET S == acks \cup {p}
      quorum == total_stake(S) >= quorum_threshold
  IN  /\ proposing
      /\ p \notin crashed \cup acks
      /\ acks' = IF quorum THEN {} ELSE S
      /\ proposing' = ~ quorum
      /\ UNCHANGED <<makerVars, tx_quorum_waiter, waiterVars, tx_processor, store,
                     tx_consensus, buffer, proposed, makes, peerVars>>

\* The Core has processed a block of a peer with b.
Cleanup(b) ==
  /\ ~ proposing
  /\ \E p \in Peers : b \in stored[p]
  /\ b \in buffer
  /\ proposed' = proposed \cup {b}
  /\ buffer' = buffer \ {b}
  /\ UNCHANGED <<makerVars, tx_quorum_waiter, waiterVars, tx_processor, store,
                 tx_consensus, acks, proposing, makes, peerVars>>

-----------------------------------------------------------------------------
(* The other nodes. *)

\* The QuorumWaiter is done with the batch and has dropped the handle.
Dropped(p, b) ==
  /\ b <= Len(sealed)
  /\ b # waiting /\ b \notin Range(tx_quorum_waiter)
  /\ p \notin counted[b]

\* MempoolReceiverHandler: the batch is acknowledged and passed to the
\* Processor.  The ReliableSender skips a batch whose handle was dropped, if it
\* has not been transmitted yet.
Receive(p, b) ==
  /\ p \notin crashed
  /\ b <= Len(sealed)
  /\ \A a \in 1..(b - 1) : a \in received[p] \/ Dropped(p, a)
  /\ b \notin received[p]
  /\ p \notin counted[b]
  /\ received' = [received EXCEPT ![p] = @ \cup {b}]
  /\ queued' = [queued EXCEPT ![p] = @ \cup {b}]
  /\ UNCHANGED <<makerVars, tx_quorum_waiter, waiterVars, tx_processor, store,
                 tx_consensus, proposerVars, stored, crashed>>

ProcessPeer(p, b) ==
  /\ b \in queued[p]
  /\ queued' = [queued EXCEPT ![p] = @ \ {b}]
  /\ stored' = [stored EXCEPT ![p] = @ \cup {b}]
  /\ UNCHANGED <<makerVars, tx_quorum_waiter, waiterVars, tx_processor, store,
                 tx_consensus, proposerVars, received, crashed>>

\* What has not been stored is lost with the process.
Crash(p) ==
  /\ p \in MayCrash \ crashed
  /\ crashed' = crashed \cup {p}
  /\ queued' = [queued EXCEPT ![p] = {}]
  /\ UNCHANGED <<makerVars, tx_quorum_waiter, waiterVars, tx_processor, store,
                 tx_consensus, proposerVars, received, stored>>

-----------------------------------------------------------------------------
Next ==
  \/ AcceptTransaction \/ TakeTransaction \/ BatchTimer
  \/ TakeBatch \/ Process \/ TakeDigest \/ make_block
  \/ \E p \in Peers : TakeAck(p) \/ BlockAck(p) \/ Crash(p)
  \/ \E b \in Batch : Cleanup(b) \/ \E p \in Peers : Receive(p, b) \/ ProcessPeer(p, b)

\* Every task goes on, and what a peer that is up has to receive it receives.
\* That clients send, the Core asks for blocks, or a peer proposes is not
\* promised.
Fairness ==
  /\ WF_vars(TakeTransaction) /\ WF_vars(BatchTimer)
  /\ WF_vars(TakeBatch) /\ WF_vars(Process) /\ WF_vars(TakeDigest)
  /\ \A p \in Peers :
       /\ WF_vars(TakeAck(p)) /\ WF_vars(BlockAck(p))
       /\ \A b \in Batch : WF_vars(~ Dropped(p, b) /\ Receive(p, b))

Spec == Init /\ [][Next]_vars /\ Fairness

-----------------------------------------------------------------------------
(* Properties. *)

Numbers(m, n) == [i \in 1..(n - m) |-> m + i]       \* m + 1, ..., n

\* The last transaction of batch b.
End(batches, b) == IF b = 0 THEN 0 ELSE batches[b][Len(batches[b])]

\* The batches that are between the BatchMaker and the Proposer, oldest first.
InPipeline ==
  tx_consensus \o tx_processor
    \o (IF waiting = NoBatch THEN <<>> ELSE <<waiting>>) \o tx_quorum_waiter

\* Every variable has its type.
TypeOK ==
  /\ accepted \in 0..MaxTransactions
  /\ Range(tx_batch_maker) \cup Range(current_batch) \subseteq 1..accepted
  /\ \A b \in DOMAIN sealed : sealed[b] \in Seq(1..accepted)
  /\ Range(InPipeline) \cup store \cup buffer \cup proposed \subseteq DOMAIN sealed
  /\ waiting \in Batch \cup {NoBatch} /\ counted \in [Batch -> SUBSET Peers]
  /\ acks \subseteq Peers /\ proposing \in BOOLEAN /\ makes \in 0..MaxMakes
  /\ {received, queued, stored} \subseteq [Peers -> SUBSET DOMAIN sealed]
  /\ crashed \subseteq Peers

\* No transaction that a client got an Ack for is lost, sent twice or overtaken
\* on its way to the Proposer, however seals by size and by timer, Acks and full
\* channels meet (batch_maker.rs:80-90, quorum_waiter.rs:76).
TransactionsKept ==
  LET passed == Len(sealed) - Len(InPipeline)
  IN  /\ \A b \in DOMAIN sealed :
           sealed[b] # <<>> /\ sealed[b] = Numbers(End(sealed, b - 1), End(sealed, b))
      /\ current_batch \o tx_batch_maker = Numbers(End(sealed, Len(sealed)), accepted)
      /\ InPipeline = Numbers(passed, Len(sealed))
      /\ 1..passed \subseteq buffer \cup proposed

\* "Then we consider the batch delivered" (quorum_waiter.rs:71): a digest that
\* reaches the Proposer is that of a batch that the node has stored, and a quorum
\* of the stake has it, those aside that crashed between Ack and store.
DigestsAvailable ==
  \A b \in Range(tx_consensus) \cup buffer :
    /\ b \in store
    /\ IsQuorum({Me} \cup crashed \cup {p \in Peers : b \in queued[p] \cup stored[p]})

\* The pipeline sends its batches as AckedDelivery says, which ReliableSender
\* implements: a handle that is dropped is never counted.
Handle(p, b) ==
  IF b > Len(sealed) THEN "none"
  ELSE IF p \in counted[b] THEN "acked"
  ELSE IF Dropped(p, b) THEN "cancelled" ELSE "open"

Link(p) == INSTANCE AckedDelivery WITH
  MaxMessages <- MaxTransactions, sent <- Len(sealed),
  handle <- [b \in Batch |-> Handle(p, b)], received <- received[p]

LinksUsed ==
  /\ \A p \in Peers : Link(p)!Init
  /\ [][\A p \in Peers : [Link(p)!Next]_(Link(p)!vars)]_vars

\* Every transaction a client got an Ack for reaches the Proposer or a block in
\* the end, while a quorum is up: no task waits for ever for the next one, and
\* the Proposer comes back from its wait for Acks (proposer.rs:121).
TransactionsArrive ==
  \A t \in 1..MaxTransactions :
    t <= accepted ~> \E b \in buffer \cup proposed : t \in Range(sealed[b])
=============================================================================
