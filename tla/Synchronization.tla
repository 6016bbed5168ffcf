-------------------------- MODULE Synchronization ---------------------------
(***************************************************************************)
(* How a node that is behind gets the blocks and batches it misses: the    *)
(* tasks around the Core of node Me, each a loop of its own.               *)
(*                                                                         *)
(*   PayloadWaiter (consensus/src/mempool.rs) keeps blocks whose batches   *)
(*   are missing, Synchronizer (consensus/src/synchronizer.rs) blocks      *)
(*   whose parent is; both hand them back to the Core when the store has   *)
(*   what they wait for.  The Synchronizer also asks others for the        *)
(*   parent, the Synchronizer of the mempool (mempool/src/synchronizer.rs) *)
(*   for the batches; the Helpers of others answer.                        *)
(*                                                                         *)
(* Of the Core there is what it does with blocks (verify, get_ancestors,   *)
(* store_block, cleanup); rounds, votes and commits are in HotStuff.       *)
(***************************************************************************)
EXTENDS Messages, Store

CONSTANTS
  Me,               \* the node
  PeerStore,        \* what the stores of the other nodes hold
  OnDisk,           \* what its disk may hold when it starts
  Proposed,         \* blocks that are proposed to the node, not only fetched
  GcDepth,          \* Parameters::gc_depth of the mempool (50)
  SyncRetryNodes,   \* Parameters::sync_retry_nodes of the mempool (3)
  ChannelCapacity,  \* of the channels of commands (1000)
  MaxFutures,       \* bound: futures of one block or batch at a time
  MaxLosses         \* bound: messages the network loses

Peers == Authorities \ {Me}
Item  == (Block \ {Genesis}) \cup Digest

ASSUME SynchronizationAssumption ==
  /\ Me \in Authorities
  /\ PeerStore \in [Peers -> SUBSET Item]
  /\ OnDisk \subseteq SUBSET Item
  /\ Proposed \subseteq Block \ {Genesis}
  /\ GcDepth \in Nat /\ SyncRetryNodes \in Nat
  /\ ChannelCapacity \in Nat \ {0} /\ MaxFutures \in Nat /\ MaxLosses \in Nat
  /\ Block \cap Digest = {}

VARIABLES
  store,            \* the Store task
  loopback,         \* blocks on its loopback channel
  to_waiter,        \* commands to the PayloadWaiter
  to_mempool,       \* commands to the mempool's Synchronizer
  inner,            \* blocks on inner_channel, to the Synchronizer
  payload_pending,  \* PayloadWaiter: pending, each block with its future
  payload_waiting,  \* PayloadWaiter: waiting, the futures
  pending,          \* Synchronizer: pending (each with a future in waiting)
  requests,         \* Synchronizer: requests, the parents asked for
  batch_pending,    \* mempool: pending, each digest with round and future
  batch_waiting,    \* mempool: waiting, the futures
  batch_round,      \* mempool: the round of the last Cleanup
  network,          \* what is on its way to the node, or asked of one that has it
  losses            \* how many messages have been lost

coreVars    == <<loopback, to_waiter, to_mempool, inner>>
waiterVars  == <<payload_pending, payload_waiting>>
syncVars    == <<pending, requests>>
mempoolVars == <<batch_pending, batch_waiting, batch_round>>
netVars     == <<network, losses>>
vars == <<store, coreVars, waiterVars, syncVars, mempoolVars, netVars>>

Future == 1..MaxFutures
Waiter == {<<"payload", b, i>> : b \in Block, i \in Future}
            \cup {<<"parent", b>> : b \in Block}
            \cup {<<"batch", d, i>> : d \in Digest, i \in Future}

Empty == [x \in {} |-> x]           \* an empty HashMap
Without(f, S) == [x \in DOMAIN f \ S |-> f[x]]

\* What a stored item refers to.
Needs(x) == IF x \in Digest THEN {} ELSE Payload(x) \cup ({Parent(x)} \ {Genesis})

\* The node starts with what its disk holds and nothing else.
Init ==
  /\ \E db \in OnDisk :
       /\ \A x \in db : Needs(x) \subseteq db
       /\ store = OpenStore(Item, db)
  /\ loopback = {} /\ inner = {}
  /\ to_waiter = <<>> /\ to_mempool = <<>>
  /\ payload_pending = {} /\ payload_waiting = {}
  /\ pending = {} /\ requests = {}
  /\ batch_pending = Empty /\ batch_waiting = {} /\ batch_round = 0
  /\ network = Proposed /\ losses = 0

\* What the Helpers of the nodes in S send of the items in X: what is in their
\* stores.  (The node itself, asked by itself, does not have it.)
Ask(S, X) == {x \in X : \E n \in S \ {Me} : x \in PeerStore[n]}

-----------------------------------------------------------------------------
(* The Core. *)

Author(b) == get_leader(Round(b))

\* Mutant: Genesis is looked for in the store.
Stored_no_genesis(b) == b \in store.db

\* The parent of a block is Genesis, or it is read from the store.
Stored(b) == b = Genesis \/ b \in store.db

\* Mutant: a block is stored before its parent is looked for.
process_block_stores_first(b) ==
  /\ store' = write(store, b)
  /\ inner' = IF Stored(Parent(b)) THEN inner ELSE inner \cup {b}
  /\ UNCHANGED <<to_waiter, to_mempool>>

\* Without its parent the block goes to the Synchronizer; otherwise it is
\* stored, and if it commits its grandparent the waits up to that round end.
process_block(b) ==
  LET b1 == Parent(b)
      b0 == Parent(b1)
      cleanup == [type |-> "Cleanup", round |-> Round(b0)]
  IN  \/ /\ ~ Stored(b1)
         /\ inner' = inner \cup {b}
         /\ UNCHANGED <<store, to_waiter, to_mempool>>
      \/ /\ Stored(b1)
         /\ store' = write(store, b)
         /\ IF Round(b0) + 1 = Round(b1)
            THEN /\ to_mempool' = Append(to_mempool, cleanup)
                 /\ to_waiter' = Append(to_waiter, cleanup)
            ELSE UNCHANGED <<to_waiter, to_mempool>>
         /\ UNCHANGED inner

\* MempoolDriver::verify: the mempool is told which batches are missing and
\* whom to ask, the PayloadWaiter which block waits for them.
verify(b) ==
  LET missing == Payload(b) \ store.db
  IN  IF missing = {} THEN process_block(b)
      ELSE /\ to_mempool' = Append(to_mempool,
                [type |-> "Synchronize", missing |-> missing, target |-> Author(b)])
           /\ to_waiter' = Append(to_waiter,
                [type |-> "Wait", missing |-> missing, block |-> b])
           /\ UNCHANGED <<store, inner>>

HasRoom == Len(to_waiter) < ChannelCapacity /\ Len(to_mempool) < ChannelCapacity

ReceiveProposal(b) ==
  /\ HasRoom
  /\ b \in network
  /\ network' = network \ {b}
  /\ verify(b)
  /\ UNCHANGED <<loopback, waiterVars, syncVars, mempoolVars, losses>>

ReceiveLoopback(b) ==
  /\ HasRoom
  /\ b \in loopback
  /\ loopback' = loopback \ {b}
  /\ process_block(b)
  /\ UNCHANGED <<waiterVars, syncVars, mempoolVars, netVars>>

-----------------------------------------------------------------------------
(* The PayloadWaiter.  pending holds the handler that cancels the block's    *)
(* future; a future that has been cancelled may go on until it is polled.    *)

\* The handlers of the keys in S are used, or dropped.
Cancel(futures, S) ==
  {IF f.key \in S THEN [f EXCEPT !.cancelled = TRUE] ELSE f : f \in futures}

FreeIds(futures, k) == Future \ {f.id : f \in {g \in futures : g.key = k}}

NewFuture(futures, k) == [key |-> k, id |-> Min(FreeIds(futures, k)), cancelled |-> FALSE]

PayloadWaiterOf(f) == <<"payload", f.key, f.id>>
BatchWaiterOf(f) == <<"batch", f.key, f.id>>

NextIs(channel, type) == channel # <<>> /\ Head(channel).type = type

\* A future that waits for all the batches is made and polled, unless the
\* block waits already.
PayloadWait ==
  LET m == Head(to_waiter)
  IN  /\ NextIs(to_waiter, "Wait")
      /\ to_waiter' = Tail(to_waiter)
      /\ \/ /\ m.block \in payload_pending
            /\ UNCHANGED <<store, waiterVars>>
         \/ /\ m.block \notin payload_pending
            /\ FreeIds(payload_waiting, m.block) # {}
            /\ LET f == NewFuture(payload_waiting, m.block)
               IN  /\ payload_pending' = payload_pending \cup {m.block}
                   /\ payload_waiting' = payload_waiting \cup {f}
                   /\ store' = notify_read(store, {PayloadWaiterOf(f)} \X m.missing)
      /\ UNCHANGED <<loopback, to_mempool, inner,
                     syncVars, mempoolVars, netVars>>

\* Mutant: the blocks stay in pending.
PayloadCleanup_keeps ==
  LET old == {b \in payload_pending : Round(b) <= Head(to_waiter).round}
  IN  /\ NextIs(to_waiter, "Cleanup")
      /\ to_waiter' = Tail(to_waiter)
      /\ payload_waiting' = Cancel(payload_waiting, old)
      /\ UNCHANGED <<payload_pending, store, loopback, to_mempool,
                     inner, syncVars, mempoolVars, netVars>>

PayloadCleanup ==
  LET old == {b \in payload_pending : Round(b) <= Head(to_waiter).round}
  IN  /\ NextIs(to_waiter, "Cleanup")
      /\ to_waiter' = Tail(to_waiter)
      /\ payload_waiting' = Cancel(payload_waiting, old)
      /\ payload_pending' = payload_pending \ old
      /\ UNCHANGED <<store, loopback, to_mempool, inner,
                     syncVars, mempoolVars, netVars>>

\* All batches are there: the block goes back to the Core, also when its
\* cancellation comes at the same time.  Its entry leaves pending, and with it
\* the handler of a later future of the same block.
PayloadReady(f) ==
  /\ f \in payload_waiting
  /\ Answered(store, PayloadWaiterOf(f))
  /\ payload_waiting' = Cancel(payload_waiting \ {f}, {f.key})
  /\ payload_pending' = payload_pending \ {f.key}
  /\ loopback' = loopback \cup {f.key}
  /\ store' = forget(store, PayloadWaiterOf(f))
  /\ UNCHANGED <<to_waiter, to_mempool, inner, syncVars, mempoolVars, netVars>>

PayloadCancelled(f) ==
  /\ f \in payload_waiting
  /\ f.cancelled
  /\ payload_waiting' = payload_waiting \ {f}
  /\ store' = forget(store, PayloadWaiterOf(f))
  /\ UNCHANGED <<payload_pending, coreVars, syncVars, mempoolVars, netVars>>

-----------------------------------------------------------------------------
(* The Synchronizer of the consensus.                                       *)

\* The future waits for the parent; the parent is asked for unless it has been
\* asked for another block.
SynchronizerTakes(b) ==
  /\ b \in inner
  /\ inner' = inner \ {b}
  /\ pending' = pending \cup {b}
  /\ store' = IF b \in pending THEN store
              ELSE notify_read(store, {<< <<"parent", b>>, Parent(b)>>})
  /\ IF b \notin pending /\ Parent(b) \notin requests
     THEN /\ requests' = requests \cup {Parent(b)}
          /\ network' = network \cup Ask({Author(b)}, {Parent(b)})
     ELSE UNCHANGED <<requests, network>>
  /\ UNCHANGED <<loopback, to_waiter, to_mempool, waiterVars,
                 mempoolVars, losses>>

\* The parent is stored: no more is it asked for, for whichever block.
ParentReady(b) ==
  /\ b \in pending
  /\ Answered(store, <<"parent", b>>)
  /\ pending' = pending \ {b}
  /\ requests' = requests \ {Parent(b)}
  /\ loopback' = loopback \cup {b}
  /\ UNCHANGED <<store, to_waiter, to_mempool, inner, waiterVars,
                 mempoolVars, netVars>>

\* Mutant: everybody is asked, once.
ParentRetry_once(b) ==
  /\ b \in requests
  /\ network' = network \cup Ask(Peers, {b})
  /\ requests' = requests \ {b}
  /\ UNCHANGED <<store, coreVars, waiterVars, pending, mempoolVars, losses>>

\* Mutant: the author is asked again.
ParentRetry_author(b) ==
  /\ b \in requests
  /\ network' = network \cup Ask({Author(c) : c \in {d \in pending : Parent(d) = b}}, {b})
  /\ UNCHANGED <<store, coreVars, waiterVars, syncVars, mempoolVars, losses>>

\* The timer: a parent asked for long ago is asked of everybody.
ParentRetry(b) ==
  /\ b \in requests
  /\ network' = network \cup Ask(Peers, {b})
  /\ UNCHANGED <<store, coreVars, waiterVars, syncVars, mempoolVars, losses>>

-----------------------------------------------------------------------------
(* The Synchronizer of the mempool.                                         *)

\* A future for each batch that is not asked for already; these are asked of
\* the target, and all have the round of the last Cleanup.
BatchSynchronize ==
  LET m == Head(to_mempool)
      missing == m.missing \ DOMAIN batch_pending
      futures == {NewFuture(batch_waiting, d) : d \in missing}
  IN  /\ NextIs(to_mempool, "Synchronize")
      /\ \A d \in missing : FreeIds(batch_waiting, d) # {}
      /\ to_mempool' = Tail(to_mempool)
      /\ batch_pending' = [d \in missing \cup DOMAIN batch_pending |->
           IF d \in missing THEN batch_round ELSE batch_pending[d]]
      /\ batch_waiting' = batch_waiting \cup futures
      /\ store' = notify_read(store, {<<BatchWaiterOf(f), f.key>> : f \in futures})
      /\ network' = network \cup Ask({m.target}, missing)
      /\ UNCHANGED <<loopback, to_waiter, inner, waiterVars, syncVars,
                     batch_round, losses>>

\* Requests made GcDepth rounds ago, by the count of Cleanups, are given up.
BatchCleanup ==
  LET round == Head(to_mempool).round
      old == {d \in DOMAIN batch_pending : batch_pending[d] <= round - GcDepth}
  IN  /\ NextIs(to_mempool, "Cleanup")
      /\ to_mempool' = Tail(to_mempool)
      /\ batch_round' = round
      /\ IF round < GcDepth THEN UNCHANGED <<batch_pending, batch_waiting>>
         ELSE /\ batch_pending' = Without(batch_pending, old)
              /\ batch_waiting' = Cancel(batch_waiting, old)
      /\ UNCHANGED <<store, loopback, to_waiter, inner, waiterVars,
                     syncVars, netVars>>

BatchReady(f) ==
  /\ f \in batch_waiting
  /\ Answered(store, BatchWaiterOf(f))
  /\ batch_waiting' = Cancel(batch_waiting \ {f}, {f.key})
  /\ batch_pending' = Without(batch_pending, {f.key})
  /\ UNCHANGED <<store, coreVars, waiterVars, syncVars, batch_round, netVars>>

BatchCancelled(f) ==
  /\ f \in batch_waiting
  /\ f.cancelled
  /\ batch_waiting' = batch_waiting \ {f}
  /\ store' = forget(store, BatchWaiterOf(f))
  /\ UNCHANGED <<coreVars, waiterVars, syncVars, batch_pending, batch_round, netVars>>

\* The timer: a batch asked for long ago is asked of SyncRetryNodes nodes
\* picked at random (lucky_broadcast).
BatchRetry(d, S) ==
  /\ d \in DOMAIN batch_pending
  /\ S \subseteq Peers /\ Cardinality(S) = Min({SyncRetryNodes, Cardinality(Peers)})
  /\ network' = network \cup Ask(S, {d})
  /\ UNCHANGED <<store, coreVars, waiterVars, syncVars, mempoolVars, losses>>

-----------------------------------------------------------------------------
(* The network, and the task that stores batches (mempool/src/processor.rs). *)

\* SimpleSender drops a request, or the answer to it.
Lose(x) ==
  /\ losses < MaxLosses
  /\ x \in network
  /\ network' = network \ {x}
  /\ losses' = losses + 1
  /\ UNCHANGED <<store, coreVars, waiterVars, syncVars, mempoolVars>>

StoreBatch(d) ==
  /\ d \in network
  /\ network' = network \ {d}
  /\ store' = write(store, d)
  /\ UNCHANGED <<coreVars, waiterVars, syncVars, mempoolVars, losses>>

-----------------------------------------------------------------------------
Next ==
  \/ \E b \in Block :
       \/ ReceiveProposal(b) \/ ReceiveLoopback(b)
       \/ SynchronizerTakes(b) \/ ParentReady(b) \/ ParentRetry(b)
  \/ PayloadWait \/ PayloadCleanup
  \/ \E f \in payload_waiting : PayloadReady(f) \/ PayloadCancelled(f)
  \/ BatchSynchronize \/ BatchCleanup
  \/ \E f \in batch_waiting : BatchReady(f) \/ BatchCancelled(f)
  \/ \E d \in Digest : (\E S \in SUBSET Peers : BatchRetry(d, S)) \/ StoreBatch(d)
  \/ \E x \in Item : Lose(x)

\* Each branch of a select! that stays ready is taken, a task that is woken
\* goes on, and what is not lost arrives.
Fairness ==
  /\ \A b \in Block \ {Genesis} : WF_vars(ReceiveProposal(b)) /\ WF_vars(ParentRetry(b))
  /\ WF_vars(\E b \in Block : ReceiveLoopback(b))
  /\ WF_vars(\E b \in Block : SynchronizerTakes(b))
  /\ WF_vars(\E b \in Block : ParentReady(b))
  /\ WF_vars(PayloadWait \/ PayloadCleanup)
  /\ WF_vars(\E f \in payload_waiting : PayloadReady(f) \/ PayloadCancelled(f))
  /\ WF_vars(BatchSynchronize \/ BatchCleanup)
  /\ WF_vars(\E f \in batch_waiting : BatchReady(f) \/ BatchCancelled(f))
  /\ \A d \in Digest : WF_vars(BatchRetry(d, Peers)) /\ WF_vars(StoreBatch(d))

Spec == Init /\ [][Next]_vars /\ Fairness

-----------------------------------------------------------------------------
(* Properties. *)

Futures(K) == [key : K, id : Future, cancelled : BOOLEAN]

\* Every variable has its type.
TypeOK ==
  /\ store \in StoreState(Item, Waiter)
  /\ loopback \cup inner \cup pending \subseteq Block
  /\ requests \cup payload_pending \subseteq Block \ {Genesis}
  /\ to_waiter \in Seq([type : {"Wait"}, missing : SUBSET Digest, block : Block]
                         \cup [type : {"Cleanup"}, round : Nat])
  /\ to_mempool \in Seq([type : {"Synchronize"}, missing : SUBSET Digest, target : Authorities]
                          \cup [type : {"Cleanup"}, round : Nat])
  /\ payload_waiting \subseteq Futures(Block)
  /\ DOMAIN batch_pending \subseteq Digest
  /\ \A d \in DOMAIN batch_pending : batch_pending[d] \in Nat
  /\ batch_waiting \subseteq Futures(Digest)
  /\ batch_round \in Nat
  /\ network \subseteq Item
  /\ losses \in 0..MaxLosses

\* Whoever waits has a future that will wake it, and only one: a block in
\* pending without it would be refused for ever (mempool.rs:138), a future
\* without an entry could not be cancelled.  This survives a block that comes
\* back and is cancelled at the same time (mempool.rs:150, 160).
OneFutureEach ==
  /\ \A b \in Block :
       Cardinality({f \in payload_waiting : f.key = b /\ ~ f.cancelled})
         = IF b \in payload_pending THEN 1 ELSE 0
  /\ \A d \in Digest :
       Cardinality({f \in batch_waiting : f.key = d /\ ~ f.cancelled})
         = IF d \in DOMAIN batch_pending THEN 1 ELSE 0

\* A parent that is waited for and is not stored stays on the list of those to
\* be asked for again, whichever of its children has been resumed or came
\* later (requests and pending have different keys: synchronizer.rs:57, 77).
MissingParentsRequested ==
  \A b \in pending : Stored(Parent(b)) \/ Parent(b) \in requests

\* Nobody waits for what is there: a waiter queued behind a write that raced
\* its read would never be woken (store/src/lib.rs:34, 47).
NobodyWaitsForStored == \A k \in store.db : store.obligations[k] = {}

\* Stored blocks have their parents and their batches, whatever the order in
\* which they are resumed.
Causal == INSTANCE CausalStore WITH Item <- Item, Needs <- Needs, have <- store.db
StoresInOrder == Causal!Spec

\* The Synchronizer never gives up: the parent of a block it keeps is stored
\* in the end, though requests are lost, the author does not hold it or is the
\* node itself, and its batches are given up by the mempool in between.
ParentsArrive == \A b \in Block : b \in pending ~> Stored(Parent(b))
=============================================================================
