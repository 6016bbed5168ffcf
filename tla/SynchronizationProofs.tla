----------------------- MODULE SynchronizationProofs ------------------------
(***************************************************************************)
(* What the store of a node that catches up promises, for every committee, *)
(* block tree, bound, and content of its disk and of the other stores.     *)
(***************************************************************************)
EXTENDS Synchronization, BasicLemmas, FiniteSetTheorems

(* The inductive invariant. *)

\* Blocks that are with the Core's tasks have their batches: the Core does not
\* look for these again when a block comes back (process_block).
HavePayload ==
  \A b \in loopback \cup inner \cup pending :
    b # Genesis /\ Payload(b) \subseteq store.db

\* A command to the PayloadWaiter names all the batches that were missing.
CommandsComplete ==
  \A i \in DOMAIN to_waiter : to_waiter[i].type = "Wait" =>
    /\ to_waiter[i].block # Genesis
    /\ Payload(to_waiter[i].block) \subseteq to_waiter[i].missing \cup store.db

\* A future of the PayloadWaiter waits for each batch that is still missing.
FuturesComplete ==
  \A f \in payload_waiting :
    /\ f.key # Genesis
    /\ \A d \in Payload(f.key) :
         d \in store.db \/ PayloadWaiterOf(f) \in store.obligations[d]

\* No two futures of a block are the same waiter.
OwnIds ==
  \A f, g \in payload_waiting : f.key = g.key /\ f.id = g.id => f = g

\* A block is with the Synchronizer because its parent was missing, and its
\* future waits for the parent as long as it is.
ParentsAwaited ==
  /\ \A b \in inner \cup pending : Parent(b) # Genesis
  /\ \A b \in pending :
       Parent(b) \in store.db \/ <<"parent", b>> \in store.obligations[Parent(b)]

StoredClosed == \A x \in store.db : Needs(x) \subseteq store.db

IInv ==
  /\ TypeOK /\ NobodyWaitsForStored /\ MissingParentsRequested
  /\ HavePayload /\ CommandsComplete /\ FuturesComplete /\ OwnIds
  /\ ParentsAwaited /\ StoredClosed

-----------------------------------------------------------------------------
(* The commands of the store. *)

LEMMA Writes ==
  ASSUME NEW K, NEW W, NEW s \in StoreState(K, W), NEW k \in K
  PROVE  LET t == write(s, k)
         IN  /\ t \in StoreState(K, W) /\ t.db = s.db \cup {k}
             /\ \A j \in K : t.obligations[j] = IF j = k THEN {} ELSE s.obligations[j]
BY DEF write, StoreState

LEMMA Reads ==
  ASSUME NEW K, NEW W, NEW s \in StoreState(K, W), NEW asks \in SUBSET (W \X K)
  PROVE  LET t == notify_read(s, asks)
         IN  /\ t \in StoreState(K, W) /\ t.db = s.db
             /\ \A k \in K :
                  /\ k \in s.db => t.obligations[k] = s.obligations[k]
                  /\ s.obligations[k] \subseteq t.obligations[k]
                  /\ \A w : <<w, k>> \in asks /\ k \notin s.db => w \in t.obligations[k]
BY DEF notify_read, StoreState

LEMMA Forgets ==
  ASSUME NEW K, NEW W, NEW s \in StoreState(K, W), NEW w
  PROVE  LET t == forget(s, w)
         IN  /\ t \in StoreState(K, W) /\ t.db = s.db
             /\ \A k \in K : t.obligations[k] = s.obligations[k] \ {w}
BY DEF forget, StoreState

-----------------------------------------------------------------------------
(* The futures. *)

LEMMA Cancels ==
  ASSUME NEW K, NEW F \in SUBSET Futures(K), NEW S
  PROVE  /\ Cancel(F, S) \in SUBSET Futures(K)
         /\ \A g \in Cancel(F, S) : \E f \in F : g.key = f.key /\ g.id = f.id
         /\ (\A f, g \in F : f.key = g.key /\ f.id = g.id => f = g)
              => \A f, g \in Cancel(F, S) : f.key = g.key /\ f.id = g.id => f = g
<1> DEFINE c(f) == IF f.key \in S THEN [f EXCEPT !.cancelled = TRUE] ELSE f
<1>1. Cancel(F, S) = {c(f) : f \in F}
  BY DEF Cancel
<1>2. \A f \in F : c(f) \in Futures(K) /\ c(f).key = f.key /\ c(f).id = f.id
  BY DEF Futures
<1> HIDE DEF c
<1> QED BY <1>1, <1>2

LEMMA NewFutures ==
  ASSUME NEW K, NEW F \in SUBSET Futures(K), NEW k \in K, FreeIds(F, k) # {}
  PROVE  /\ NewFuture(F, k) \in Futures(K) /\ NewFuture(F, k).key = k
         /\ \A g \in F : ~ (g.key = k /\ g.id = NewFuture(F, k).id)
<1> DEFINE I == FreeIds(F, k)
<1>1. I \in SUBSET Nat /\ I \in SUBSET Future /\ I # {}
  BY SynchronizationAssumption DEF FreeIds, Future
<1>2. Min(I) \in I
  <2>1. \E x \in I : \A y \in I : x <= y
    <3> HIDE DEF I
    <3> QED BY <1>1, SmallestNat
  <2> HIDE DEF I
  <2> QED BY <2>1 DEF Min
<1>3. \A g \in F : g.key = k => g.id \notin I
  BY DEF FreeIds
<1> HIDE DEF I
<1> DEFINE i == Min(I)
<1>4. i \in Future /\ \A g \in F : g.key = k => g.id # i
  BY <1>1, <1>2, <1>3
<1>5. NewFuture(F, k) = [key |-> k, id |-> i, cancelled |-> FALSE]
  BY DEF NewFuture, I
<1> HIDE DEF i
<1> QED BY <1>4, <1>5 DEF Futures

-----------------------------------------------------------------------------
(* The Core. *)

LEMMA LeaderInAuthorities ==
  ASSUME NEW r \in Nat
  PROVE  get_leader(r) \in Authorities
<1>1. Len(Keys) \in Nat \ {0} /\ Keys \in Seq(Authorities) /\ DOMAIN Keys = 1..Len(Keys)
  BY KeysAssumption
<1>2. (r % Len(Keys)) + 1 \in 1..Len(Keys)
  BY <1>1
<1> QED BY <1>1, <1>2 DEF get_leader

Wait == [type : {"Wait"}, missing : SUBSET Digest, block : Block]
Cleanup == [type : {"Cleanup"}, round : Nat]
Synchronize == [type : {"Synchronize"}, missing : SUBSET Digest, target : Authorities]

\* A block that has its batches is stored, once its parent is, or suspended.
LEMMA process_blockKeeps ==
  ASSUME IInv, NEW b \in Block, b # Genesis, Payload(b) \subseteq store.db,
         process_block(b), loopback' \subseteq loopback, network' \subseteq network,
         UNCHANGED <<waiterVars, syncVars, mempoolVars, losses>>
  PROVE  IInv'
<1> DEFINE b1 == Parent(b)
           b0 == Parent(b1)
           cleanup == [type |-> "Cleanup", round |-> Round(b0)]
<1>t. /\ store \in StoreState(Item, Waiter) /\ b \in Item /\ b \notin Digest
      /\ to_waiter \in Seq(Wait \cup Cleanup)
      /\ to_mempool \in Seq(Synchronize \cup Cleanup)
      /\ cleanup \in Cleanup
  BY BlockAssumption, SynchronizationAssumption
     DEF IInv, TypeOK, Item, Wait, Cleanup, Synchronize
<1>u. /\ payload_pending' = payload_pending /\ payload_waiting' = payload_waiting
      /\ pending' = pending /\ requests' = requests
      /\ batch_pending' = batch_pending /\ batch_waiting' = batch_waiting
      /\ batch_round' = batch_round /\ losses' = losses
  BY DEF waiterVars, syncVars, mempoolVars
<1>1. CASE /\ ~ Stored(b1) /\ inner' = inner \cup {b}
           /\ UNCHANGED <<store, to_waiter, to_mempool>>
  <2>1. b1 # Genesis
    BY <1>1 DEF Stored
  <2>2. TypeOK'
    BY <1>1, <1>u DEF IInv, TypeOK
  <2> QED BY <1>1, <1>u, <2>1, <2>2
          DEF IInv, NobodyWaitsForStored, MissingParentsRequested, HavePayload,
              CommandsComplete, FuturesComplete, OwnIds, ParentsAwaited,
              StoredClosed, Stored
<1>2. CASE /\ Stored(b1) /\ store' = write(store, b) /\ inner' = inner
           /\ \/ /\ to_mempool' = Append(to_mempool, cleanup)
                 /\ to_waiter' = Append(to_waiter, cleanup)
              \/ UNCHANGED <<to_waiter, to_mempool>>
  <2>1. /\ store' \in StoreState(Item, Waiter) /\ store'.db = store.db \cup {b}
        /\ \A k \in Item : store'.obligations[k]
                             = IF k = b THEN {} ELSE store.obligations[k]
    BY <1>t, <1>2, Writes
  <2>2. /\ to_waiter' \in Seq(Wait \cup Cleanup)
        /\ to_mempool' \in Seq(Synchronize \cup Cleanup)
        /\ \A i \in DOMAIN to_waiter' :
             \/ to_waiter'[i].type # "Wait"
             \/ i \in DOMAIN to_waiter /\ to_waiter'[i] = to_waiter[i]
    <3> HIDE DEF cleanup
    <3>1. cleanup.type # "Wait" /\ cleanup \in Wait \cup Cleanup
          /\ cleanup \in Synchronize \cup Cleanup
      BY <1>t DEF Cleanup
    <3>2. CASE to_waiter' = Append(to_waiter, cleanup) /\ to_mempool' = Append(to_mempool, cleanup)
      <4>1. to_waiter' \in Seq(Wait \cup Cleanup) /\ to_mempool' \in Seq(Synchronize \cup Cleanup)
        BY <1>t, <3>1, <3>2, Appended
      <4>2. \A i \in DOMAIN to_waiter' :
              \/ to_waiter'[i] = cleanup
              \/ i \in DOMAIN to_waiter /\ to_waiter'[i] = to_waiter[i]
        BY <1>t, <3>1, <3>2, Appended
      <4> QED BY <3>1, <4>1, <4>2
    <3>3. CASE UNCHANGED <<to_waiter, to_mempool>>
      BY <1>t, <3>3
    <3> QED BY <1>2, <3>2, <3>3
  <2> HIDE DEF cleanup
  <2>3. TypeOK'
    BY <1>2, <1>u, <2>1, <2>2 DEF IInv, TypeOK, Wait, Cleanup, Synchronize
  <2>4. NobodyWaitsForStored'
    BY <1>t, <2>1 DEF IInv, NobodyWaitsForStored, TypeOK, StoreState
  <2>5. MissingParentsRequested' /\ HavePayload' /\ CommandsComplete' /\ OwnIds'
    BY <1>2, <1>u, <2>1, <2>2
       DEF IInv, MissingParentsRequested, HavePayload, CommandsComplete, OwnIds, Stored
  <2>6. FuturesComplete'
    <3>1. \A f \in payload_waiting : Payload(f.key) \subseteq Item
      BY BlockAssumption DEF IInv, TypeOK, Futures, Item
    <3> QED BY <1>u, <2>1, <3>1 DEF IInv, FuturesComplete, PayloadWaiterOf
  <2>7. ParentsAwaited'
    <3>1. \A c \in pending : Parent(c) \in Item
      BY BlockAssumption DEF IInv, TypeOK, ParentsAwaited, Item
    <3> QED BY <1>2, <1>u, <2>1, <3>1 DEF IInv, ParentsAwaited
  <2>8. StoredClosed'
    BY <1>t, <1>2, <2>1 DEF IInv, StoredClosed, Needs, Stored
  <2> QED BY <2>3, <2>4, <2>5, <2>6, <2>7, <2>8 DEF IInv
<1> QED BY <1>1, <1>2 DEF process_block

\* A block that lacks batches is left to the mempool and the PayloadWaiter.
LEMMA ReceiveProposalKeeps ==
  ASSUME IInv, NEW b \in Block, ReceiveProposal(b)
  PROVE  IInv'
<1> DEFINE missing == Payload(b) \ store.db
           ask == [type |-> "Synchronize", missing |-> missing, target |-> Author(b)]
           wait == [type |-> "Wait", missing |-> missing, block |-> b]
<1>1. b # Genesis /\ Payload(b) \in SUBSET Digest /\ network' \subseteq network
      /\ UNCHANGED <<loopback, waiterVars, syncVars, mempoolVars, losses>>
  BY BlockAssumption, SynchronizationAssumption DEF IInv, TypeOK, ReceiveProposal, Item
<1>2. CASE missing = {} /\ process_block(b)
  BY <1>1, <1>2, process_blockKeeps
<1>3. CASE /\ to_mempool' = Append(to_mempool, ask)
           /\ to_waiter' = Append(to_waiter, wait)
           /\ UNCHANGED <<store, inner>>
  <2>1. wait \in Wait /\ ask \in Synchronize
    BY <1>1, BlockAssumption, LeaderInAuthorities DEF Wait, Synchronize, Author
  <2>2. to_waiter \in Seq(Wait \cup Cleanup) /\ to_mempool \in Seq(Synchronize \cup Cleanup)
    BY DEF IInv, TypeOK, Wait, Cleanup, Synchronize
  <2> HIDE DEF ask
  <2>3. to_waiter' \in Seq(Wait \cup Cleanup) /\ to_mempool' \in Seq(Synchronize \cup Cleanup)
    <3> HIDE DEF wait
    <3> QED BY <1>3, <2>1, <2>2, Appended
  <2>4. \A i \in DOMAIN to_waiter' :
          \/ to_waiter'[i] = wait
          \/ i \in DOMAIN to_waiter /\ to_waiter'[i] = to_waiter[i]
    <3> HIDE DEF wait
    <3> QED BY <1>3, <2>1, <2>2, Appended
  <2>5. TypeOK'
    BY <1>1, <1>3, <2>3 DEF IInv, TypeOK, waiterVars, syncVars, mempoolVars, Wait, Cleanup, Synchronize
  <2>6. CommandsComplete'
    BY <1>1, <1>3, <2>4 DEF IInv, CommandsComplete
  <2> QED BY <1>1, <1>3, <2>5, <2>6
          DEF IInv, NobodyWaitsForStored, MissingParentsRequested, HavePayload, FuturesComplete,
              OwnIds, ParentsAwaited, StoredClosed, Stored, waiterVars, syncVars, mempoolVars
<1> QED BY <1>2, <1>3 DEF ReceiveProposal, verify

LEMMA ReceiveLoopbackKeeps ==
  ASSUME IInv, NEW b \in Block, ReceiveLoopback(b)
  PROVE  IInv'
<1>1. b # Genesis /\ Payload(b) \subseteq store.db
      /\ process_block(b) /\ loopback' \subseteq loopback /\ network' = network
      /\ UNCHANGED <<waiterVars, syncVars, mempoolVars, losses>>
  BY DEF IInv, HavePayload, ReceiveLoopback, netVars
<1> QED BY <1>1, process_blockKeeps

-----------------------------------------------------------------------------
(* The PayloadWaiter. *)

LEMMA PayloadWaitKeeps ==
  ASSUME IInv, PayloadWait
  PROVE  IInv'
<1> DEFINE m == Head(to_waiter)
           f == NewFuture(payload_waiting, m.block)
<1>0. /\ to_waiter \in Seq(Wait \cup Cleanup) /\ to_waiter # <<>> /\ m.type = "Wait"
      /\ to_waiter' = Tail(to_waiter)
      /\ UNCHANGED <<loopback, to_mempool, inner, pending, requests, mempoolVars, network, losses>>
      /\ store \in StoreState(Item, Waiter) /\ payload_waiting \in SUBSET Futures(Block)
  BY DEF IInv, TypeOK, PayloadWait, NextIs, syncVars, netVars, Wait, Cleanup
<1>1. /\ m \in Wait /\ m = to_waiter[1] /\ 1 \in DOMAIN to_waiter
      /\ to_waiter' \in Seq(Wait \cup Cleanup)
      /\ \A i \in DOMAIN to_waiter' :
           i + 1 \in DOMAIN to_waiter /\ to_waiter'[i] = to_waiter[i + 1]
  BY <1>0, Shortened DEF Wait, Cleanup
<1>2. /\ m.block \in Block /\ m.missing \subseteq Digest
      /\ m.block # Genesis /\ Payload(m.block) \subseteq m.missing \cup store.db
  BY <1>0, <1>1 DEF Wait, IInv, CommandsComplete
<1> HIDE DEF m
<1>3. CASE m.block \in payload_pending /\ UNCHANGED <<store, waiterVars>>
  <2>1. TypeOK'
    BY <1>0, <1>1, <1>3 DEF IInv, TypeOK, waiterVars, mempoolVars, Wait, Cleanup
  <2>2. CommandsComplete'
    BY <1>1, <1>3 DEF IInv, CommandsComplete
  <2> QED BY <1>0, <1>3, <2>1, <2>2
          DEF IInv, NobodyWaitsForStored, MissingParentsRequested, HavePayload, FuturesComplete,
              OwnIds, ParentsAwaited, StoredClosed, Stored, waiterVars
<1>4. CASE /\ FreeIds(payload_waiting, m.block) # {}
           /\ payload_pending' = payload_pending \cup {m.block}
           /\ payload_waiting' = payload_waiting \cup {f}
           /\ store' = notify_read(store, {PayloadWaiterOf(f)} \X m.missing)
  <2>1. /\ f \in Futures(Block) /\ f.key = m.block
        /\ \A g \in payload_waiting : ~ (g.key = m.block /\ g.id = f.id)
    <3>1. payload_waiting \in SUBSET Futures(Block) /\ m.block \in Block
          /\ FreeIds(payload_waiting, m.block) # {}
      BY <1>0, <1>2, <1>4
    <3> QED BY <3>1, NewFutures
  <2> DEFINE asks == {PayloadWaiterOf(f)} \X m.missing
  <2>2. asks \in SUBSET (Waiter \X Item)
    <3> HIDE DEF f
    <3> QED BY <1>2, <2>1 DEF Waiter, Item, PayloadWaiterOf, Futures
  <2>3. /\ store' \in StoreState(Item, Waiter) /\ store'.db = store.db
        /\ \A k \in Item :
             /\ k \in store.db => store'.obligations[k] = store.obligations[k]
             /\ store.obligations[k] \subseteq store'.obligations[k]
             /\ \A w : <<w, k>> \in asks /\ k \notin store.db => w \in store'.obligations[k]
    <3>1. store' = notify_read(store, asks)
      BY <1>4
    <3> HIDE DEF asks
    <3> QED BY <1>0, <2>2, <3>1, Reads
  <2>4. \A d \in m.missing : d \in store.db \/ PayloadWaiterOf(f) \in store'.obligations[d]
    <3> HIDE DEF f
    <3> QED BY <1>2, <2>3 DEF Item
  <2> HIDE DEF f, asks
  <2>5. TypeOK'
    BY <1>0, <1>1, <1>2, <1>4, <2>1, <2>3 DEF IInv, TypeOK, mempoolVars, Wait, Cleanup
  <2>6. NobodyWaitsForStored'
    BY <1>0, <2>3 DEF IInv, NobodyWaitsForStored, StoreState
  <2>7. CommandsComplete'
    BY <1>1, <2>3 DEF IInv, CommandsComplete
  <2>8. FuturesComplete'
    <3>1. \A g \in payload_waiting : Payload(g.key) \subseteq Item
      BY <1>0, BlockAssumption DEF Futures, Item
    <3>2. \A g \in payload_waiting : g.key # Genesis /\ \A d \in Payload(g.key) :
            d \in store.db \/ PayloadWaiterOf(g) \in store'.obligations[d]
      BY <2>3, <3>1 DEF IInv, FuturesComplete
    <3>3. f.key # Genesis /\ \A d \in Payload(f.key) :
            d \in store.db \/ PayloadWaiterOf(f) \in store'.obligations[d]
      BY <1>2, <2>1, <2>4
    <3> QED BY <1>4, <2>3, <3>2, <3>3 DEF FuturesComplete, PayloadWaiterOf
  <2>9. OwnIds'
    BY <1>4, <2>1 DEF IInv, OwnIds
  <2>10. ParentsAwaited'
    <3>1. \A c \in pending : Parent(c) \in Item
      BY BlockAssumption DEF IInv, TypeOK, ParentsAwaited, Item
    <3> QED BY <1>0, <2>3, <3>1 DEF IInv, ParentsAwaited
  <2> QED BY <1>0, <2>3, <2>5, <2>6, <2>7, <2>8, <2>9, <2>10
          DEF IInv, MissingParentsRequested, HavePayload, StoredClosed, Stored
<1> QED BY <1>3, <1>4 DEF PayloadWait, m
\* A future that is left has its key and id from one there was.
LEMMA PayloadFutures ==
  ASSUME IInv, NEW F \in SUBSET payload_waiting, NEW S
  PROVE  LET G == Cancel(F, S)
         IN  /\ G \in SUBSET Futures(Block)
             /\ \A g \in G : \E f \in F : g.key = f.key /\ g.id = f.id
             /\ \A f, g \in G : f.key = g.key /\ f.id = g.id => f = g
<1>1. F \in SUBSET Futures(Block)
  BY DEF IInv, TypeOK
<1>2. \A f, g \in F : f.key = g.key /\ f.id = g.id => f = g
  BY DEF IInv, OwnIds
<1> QED BY <1>1, <1>2, Cancels

LEMMA PayloadCleanupKeeps ==
  ASSUME IInv, PayloadCleanup
  PROVE  IInv'
<1> DEFINE old == {b \in payload_pending : Round(b) <= Head(to_waiter).round}
<1>0. /\ to_waiter \in Seq(Wait \cup Cleanup) /\ to_waiter # <<>>
      /\ to_waiter' = Tail(to_waiter)
      /\ payload_waiting' = Cancel(payload_waiting, old)
      /\ payload_pending' \subseteq payload_pending
      /\ UNCHANGED <<store, loopback, to_mempool, inner, syncVars, mempoolVars, netVars>>
  BY DEF IInv, TypeOK, PayloadCleanup, NextIs, Wait, Cleanup
<1>1. /\ to_waiter' \in Seq(Wait \cup Cleanup)
      /\ \A i \in DOMAIN to_waiter' :
           i + 1 \in DOMAIN to_waiter /\ to_waiter'[i] = to_waiter[i + 1]
  BY <1>0, Shortened
<1> HIDE DEF old
<1>2. /\ payload_waiting' \in SUBSET Futures(Block)
      /\ \A g \in payload_waiting' : \E f \in payload_waiting : g.key = f.key /\ g.id = f.id
      /\ \A f, g \in payload_waiting' : f.key = g.key /\ f.id = g.id => f = g
  BY <1>0, PayloadFutures
<1>3. TypeOK'
  BY <1>0, <1>1, <1>2 DEF IInv, TypeOK, syncVars, mempoolVars, netVars, Wait, Cleanup
<1>4. CommandsComplete'
  BY <1>0, <1>1 DEF IInv, CommandsComplete
<1>5. FuturesComplete' /\ OwnIds'
  BY <1>0, <1>2 DEF IInv, FuturesComplete, OwnIds, PayloadWaiterOf
<1> QED BY <1>0, <1>3, <1>4, <1>5
        DEF IInv, NobodyWaitsForStored, MissingParentsRequested, HavePayload,
            ParentsAwaited, StoredClosed, Stored, syncVars

\* A future that is dropped takes its own asks with it and nobody else's.
LEMMA PayloadFutureLeaves ==
  ASSUME IInv, NEW f \in payload_waiting, NEW S,
         payload_waiting' = Cancel(payload_waiting \ {f}, S),
         store' = forget(store, PayloadWaiterOf(f)),
         payload_pending' \subseteq payload_pending,
         \/ loopback' = loopback
         \/ Answered(store, PayloadWaiterOf(f)) /\ loopback' = loopback \cup {f.key},
         UNCHANGED <<to_waiter, to_mempool, inner, syncVars, mempoolVars, netVars>>
  PROVE  IInv'
<1> DEFINE w == PayloadWaiterOf(f)
<1>1. /\ store \in StoreState(Item, Waiter) /\ f \in Futures(Block)
      /\ \A g \in payload_waiting : Payload(g.key) \subseteq Item
      /\ \A c \in pending : Parent(c) \in Item
  BY BlockAssumption DEF IInv, TypeOK, Futures, Item, ParentsAwaited
<1>2. /\ store' \in StoreState(Item, Waiter) /\ store'.db = store.db
      /\ \A k \in Item : store'.obligations[k] = store.obligations[k] \ {w}
  BY <1>1, Forgets
<1>3. /\ payload_waiting' \in SUBSET Futures(Block)
      /\ \A g \in payload_waiting' :
           \E h \in payload_waiting \ {f} : g.key = h.key /\ g.id = h.id
      /\ \A g, h \in payload_waiting' : g.key = h.key /\ g.id = h.id => g = h
  BY PayloadFutures
<1>4. \A g \in payload_waiting \ {f} : PayloadWaiterOf(g) # w
  BY DEF IInv, OwnIds, PayloadWaiterOf
<1>5. \A b : <<"parent", b>> # w
  BY DEF PayloadWaiterOf
<1>6. f.key # Genesis /\ f.key \in Block
      /\ (Answered(store, w) => Payload(f.key) \subseteq store.db)
  BY <1>1 DEF IInv, FuturesComplete, Answered, StoreState, Futures
<1> HIDE DEF w
<1>7. TypeOK'
  BY <1>2, <1>3, <1>6 DEF IInv, TypeOK, syncVars, mempoolVars, netVars
<1>8. NobodyWaitsForStored'
  BY <1>1, <1>2 DEF IInv, NobodyWaitsForStored, StoreState
<1>9. HavePayload'
  BY <1>2, <1>6 DEF IInv, HavePayload, syncVars, w
<1>10. FuturesComplete'
  <2>1. \A g \in payload_waiting \ {f} : \A d \in Payload(g.key) :
          d \in store.db \/ PayloadWaiterOf(g) \in store'.obligations[d]
    BY <1>1, <1>2, <1>4 DEF IInv, FuturesComplete
  <2> SUFFICES ASSUME NEW g \in payload_waiting'
               PROVE  /\ g.key # Genesis
                      /\ \A d \in Payload(g.key) :
                           d \in store.db \/ PayloadWaiterOf(g) \in store'.obligations[d]
    BY <1>2 DEF FuturesComplete, PayloadWaiterOf
  <2>2. PICK h \in payload_waiting \ {f} : g.key = h.key /\ g.id = h.id
    BY <1>3
  <2>3. PayloadWaiterOf(g) = PayloadWaiterOf(h) /\ h.key # Genesis
    BY <2>2 DEF PayloadWaiterOf, IInv, FuturesComplete
  <2> QED BY <2>1, <2>2, <2>3
<1>11. ParentsAwaited'
  BY <1>1, <1>2, <1>5 DEF IInv, ParentsAwaited, syncVars
<1>12. OwnIds'
  BY <1>3 DEF OwnIds
<1> QED BY <1>2, <1>7, <1>8, <1>9, <1>10, <1>11, <1>12
        DEF IInv, MissingParentsRequested, CommandsComplete, StoredClosed, Stored, syncVars

LEMMA PayloadReadyKeeps ==
  ASSUME IInv, NEW f \in payload_waiting, PayloadReady(f)
  PROVE  IInv'
BY PayloadFutureLeaves DEF PayloadReady

LEMMA PayloadCancelledKeeps ==
  ASSUME IInv, NEW f \in payload_waiting, PayloadCancelled(f)
  PROVE  IInv'
<1>1. payload_waiting' = Cancel(payload_waiting \ {f}, {})
  BY DEF PayloadCancelled, Cancel
<1>2. /\ store' = forget(store, PayloadWaiterOf(f))
      /\ payload_pending' = payload_pending /\ loopback' = loopback
      /\ UNCHANGED <<to_waiter, to_mempool, inner, syncVars, mempoolVars, netVars>>
  BY DEF PayloadCancelled, coreVars
<1> QED BY <1>1, <1>2, PayloadFutureLeaves

-----------------------------------------------------------------------------
(* The Synchronizer of the consensus. *)

LEMMA SynchronizerTakesKeeps ==
  ASSUME IInv, NEW b \in Block, SynchronizerTakes(b)
  PROVE  IInv'
<1>0. /\ b \in inner /\ inner' = inner \ {b} /\ pending' = pending \cup {b}
      /\ UNCHANGED <<loopback, to_waiter, to_mempool, waiterVars, mempoolVars, losses>>
  BY DEF SynchronizerTakes
<1>1. /\ store \in StoreState(Item, Waiter) /\ Parent(b) \in Item /\ Parent(b) # Genesis
      /\ Parent(b) \in Block
      /\ \A g \in payload_waiting : Payload(g.key) \subseteq Item
      /\ \A c \in pending : Parent(c) \in Item
  BY <1>0, BlockAssumption DEF IInv, TypeOK, Futures, Item, ParentsAwaited
<1>2. /\ store' \in StoreState(Item, Waiter) /\ store'.db = store.db
      /\ \A k \in Item :
           /\ k \in store.db => store'.obligations[k] = store.obligations[k]
           /\ store.obligations[k] \subseteq store'.obligations[k]
      /\ \/ b \in pending
         \/ Parent(b) \in store.db
         \/ <<"parent", b>> \in store'.obligations[Parent(b)]
  <2>1. CASE b \in pending
    BY <1>1, <2>1 DEF SynchronizerTakes
  <2>2. CASE b \notin pending
    <3> DEFINE asks == {<< <<"parent", b>>, Parent(b)>>}
    <3>1. store' = notify_read(store, asks)
      BY <2>2 DEF SynchronizerTakes
    <3>2. asks \in SUBSET (Waiter \X Item) /\ << <<"parent", b>>, Parent(b)>> \in asks
      BY <1>1 DEF Waiter
    <3> HIDE DEF asks
    <3> QED BY <1>1, <3>1, <3>2, Reads
  <2> QED BY <2>1, <2>2
<1>3. /\ requests' \subseteq Block \ {Genesis} /\ network' \subseteq Item
      /\ requests \subseteq requests' /\ (b \in pending \/ Parent(b) \in requests')
  BY <1>1 DEF IInv, TypeOK, SynchronizerTakes, Ask
<1>4. TypeOK'
  BY <1>0, <1>2, <1>3 DEF IInv, TypeOK, waiterVars, mempoolVars
<1>5. NobodyWaitsForStored'
  BY <1>1, <1>2 DEF IInv, NobodyWaitsForStored, StoreState
<1>6. MissingParentsRequested'
  BY <1>0, <1>2, <1>3 DEF IInv, MissingParentsRequested, Stored
<1>7. HavePayload'
  BY <1>0, <1>2 DEF IInv, HavePayload
<1>8. FuturesComplete'
  BY <1>0, <1>1, <1>2 DEF IInv, FuturesComplete, waiterVars, PayloadWaiterOf
<1>9. ParentsAwaited'
  BY <1>0, <1>1, <1>2 DEF IInv, ParentsAwaited
<1> QED BY <1>0, <1>2, <1>4, <1>5, <1>6, <1>7, <1>8, <1>9
        DEF IInv, CommandsComplete, OwnIds, StoredClosed, waiterVars

LEMMA ParentReadyKeeps ==
  ASSUME IInv, NEW b \in Block, ParentReady(b)
  PROVE  IInv'
<1>0. /\ b \in pending /\ pending' = pending \ {b}
      /\ requests' = requests \ {Parent(b)} /\ loopback' = loopback \cup {b}
      /\ UNCHANGED <<store, to_waiter, to_mempool, inner, waiterVars, mempoolVars, netVars>>
  BY DEF ParentReady
<1>1. Parent(b) \in store.db
  <2>1. Parent(b) \in Item /\ Item = DOMAIN store.obligations
    BY <1>0, BlockAssumption DEF IInv, TypeOK, Item, ParentsAwaited, StoreState
  <2> QED BY <1>0, <2>1 DEF IInv, ParentsAwaited, ParentReady, Answered
<1>2. TypeOK'
  BY <1>0 DEF IInv, TypeOK, waiterVars, mempoolVars, netVars
<1> QED BY <1>0, <1>1, <1>2
        DEF IInv, NobodyWaitsForStored, MissingParentsRequested, HavePayload, CommandsComplete,
            FuturesComplete, OwnIds, ParentsAwaited, StoredClosed, Stored, waiterVars
-----------------------------------------------------------------------------
(* The mempool and the network. *)

\* A step of a task that has neither a block nor a future of one.
LEMMA OthersKeep ==
  ASSUME IInv, TypeOK', store'.db = store.db,
         \A k \in Item : k \in store.db => store'.obligations[k] \subseteq store.obligations[k],
         \A k \in Item : \A w \in store.obligations[k] :
           \/ w \in store'.obligations[k]
           \/ w[1] = "batch",
         UNCHANGED <<loopback, to_waiter, inner, waiterVars, pending>>,
         requests \subseteq requests'
  PROVE  IInv'
<1>1. /\ \A g \in payload_waiting : Payload(g.key) \subseteq Item
      /\ \A c \in pending : Parent(c) \in Item
      /\ store.db \subseteq Item
  BY BlockAssumption DEF IInv, TypeOK, Futures, Item, ParentsAwaited, StoreState
<1>2. /\ \A g : PayloadWaiterOf(g)[1] # "batch"
      /\ \A b : <<"parent", b>>[1] # "batch"
  BY DEF PayloadWaiterOf
<1>3. NobodyWaitsForStored'
  BY <1>1 DEF IInv, NobodyWaitsForStored
<1>4. FuturesComplete'
  BY <1>1, <1>2 DEF IInv, FuturesComplete, waiterVars, PayloadWaiterOf
<1>5. ParentsAwaited'
  BY <1>1, <1>2 DEF IInv, ParentsAwaited
<1> QED BY <1>3, <1>4, <1>5
        DEF IInv, MissingParentsRequested, HavePayload, CommandsComplete, OwnIds, StoredClosed,
            Stored, waiterVars

LEMMA ParentRetryKeeps ==
  ASSUME IInv, NEW b \in Block, ParentRetry(b)
  PROVE  IInv'
<1>1. /\ UNCHANGED <<store, coreVars, waiterVars, syncVars, mempoolVars, losses>>
      /\ network' \subseteq Item
  BY DEF IInv, TypeOK, ParentRetry, Ask, Item
<1>2. TypeOK'
  BY <1>1 DEF IInv, TypeOK, coreVars, waiterVars, syncVars, mempoolVars
<1> QED BY <1>1, <1>2, OthersKeep DEF coreVars, syncVars

LEMMA BatchSynchronizeKeeps ==
  ASSUME IInv, BatchSynchronize
  PROVE  IInv'
<1> DEFINE m == Head(to_mempool)
           missing == m.missing \ DOMAIN batch_pending
           futures == {NewFuture(batch_waiting, d) : d \in missing}
           asks == {<<BatchWaiterOf(f), f.key>> : f \in futures}
<1>0. /\ to_mempool \in Seq(Synchronize \cup Cleanup) /\ to_mempool # <<>>
      /\ m.type = "Synchronize" /\ to_mempool' = Tail(to_mempool)
      /\ \A d \in missing : FreeIds(batch_waiting, d) # {}
      /\ batch_pending' = [d \in missing \cup DOMAIN batch_pending |->
           IF d \in missing THEN batch_round ELSE batch_pending[d]]
      /\ batch_waiting' = batch_waiting \cup futures
      /\ store' = notify_read(store, asks)
      /\ network' = network \cup Ask({m.target}, missing)
      /\ UNCHANGED <<loopback, to_waiter, inner, waiterVars, syncVars, batch_round, losses>>
  BY DEF IInv, TypeOK, BatchSynchronize, NextIs, Synchronize, Cleanup
<1>1. m \in Synchronize /\ to_mempool' \in Seq(Synchronize \cup Cleanup)
  BY <1>0, Shortened DEF Synchronize, Cleanup
<1>2. missing \subseteq Digest /\ batch_waiting \in SUBSET Futures(Digest)
      /\ store \in StoreState(Item, Waiter)
  BY <1>1 DEF Synchronize, IInv, TypeOK
<1> HIDE DEF m, missing
<1>3. \A d \in missing :
        NewFuture(batch_waiting, d) \in Futures(Digest) /\ NewFuture(batch_waiting, d).key = d
  <2> TAKE d \in missing
  <2>1. d \in Digest /\ FreeIds(batch_waiting, d) # {}
    BY <1>0, <1>2
  <2> QED BY <1>2, <2>1, NewFutures
<1>4. futures \in SUBSET Futures(Digest)
  BY <1>3
<1> HIDE DEF futures
<1>5. asks \in SUBSET (Waiter \X Item)
  BY <1>4 DEF Waiter, Item, BatchWaiterOf, Futures
<1> HIDE DEF asks
<1>6. /\ store' \in StoreState(Item, Waiter) /\ store'.db = store.db
      /\ \A k \in Item :
           /\ k \in store.db => store'.obligations[k] = store.obligations[k]
           /\ store.obligations[k] \subseteq store'.obligations[k]
  BY <1>0, <1>2, <1>5, Reads
<1>7. TypeOK'
  <2>1. /\ DOMAIN batch_pending' \subseteq Digest
        /\ \A d \in DOMAIN batch_pending' : batch_pending'[d] \in Nat
    BY <1>0, <1>2 DEF IInv, TypeOK
  <2>2. batch_waiting' \subseteq Futures(Digest) /\ network' \subseteq Item
    BY <1>0, <1>2, <1>4 DEF IInv, TypeOK, Ask, Item
  <2> QED BY <1>0, <1>1, <1>6, <2>1, <2>2
          DEF IInv, TypeOK, waiterVars, syncVars, Synchronize, Cleanup
<1> QED BY <1>0, <1>6, <1>7, OthersKeep DEF syncVars

LEMMA BatchCleanupKeeps ==
  ASSUME IInv, BatchCleanup
  PROVE  IInv'
<1> DEFINE m == Head(to_mempool)
           old == {d \in DOMAIN batch_pending : batch_pending[d] <= m.round - GcDepth}
<1>0. /\ to_mempool \in Seq(Synchronize \cup Cleanup) /\ to_mempool # <<>>
      /\ m.type = "Cleanup" /\ to_mempool' = Tail(to_mempool) /\ batch_round' = m.round
      /\ \/ UNCHANGED <<batch_pending, batch_waiting>>
         \/ /\ batch_pending' = Without(batch_pending, old)
            /\ batch_waiting' = Cancel(batch_waiting, old)
      /\ UNCHANGED <<store, loopback, to_waiter, inner, waiterVars, syncVars, netVars>>
  BY DEF IInv, TypeOK, BatchCleanup, NextIs, Synchronize, Cleanup
<1>1. m.round \in Nat /\ to_mempool' \in Seq(Synchronize \cup Cleanup)
  BY <1>0, Shortened DEF Synchronize, Cleanup
<1> HIDE DEF m, old
<1>2. /\ batch_waiting' \subseteq Futures(Digest) /\ DOMAIN batch_pending' \subseteq Digest
      /\ \A d \in DOMAIN batch_pending' : batch_pending'[d] \in Nat
  <2>1. batch_waiting \in SUBSET Futures(Digest)
    BY DEF IInv, TypeOK
  <2>2. Cancel(batch_waiting, old) \in SUBSET Futures(Digest)
    BY <2>1, Cancels
  <2> QED BY <1>0, <2>1, <2>2 DEF IInv, TypeOK, Without
<1>3. TypeOK'
  BY <1>0, <1>1, <1>2
     DEF IInv, TypeOK, waiterVars, syncVars, netVars, Synchronize, Cleanup
<1> QED BY <1>0, <1>3, OthersKeep DEF syncVars

LEMMA BatchReadyKeeps ==
  ASSUME IInv, NEW f \in batch_waiting, BatchReady(f)
  PROVE  IInv'
<1>1. /\ UNCHANGED <<store, coreVars, waiterVars, syncVars, batch_round, netVars>>
      /\ batch_waiting' = Cancel(batch_waiting \ {f}, {f.key})
      /\ batch_pending' = Without(batch_pending, {f.key})
  BY DEF BatchReady
<1>2. /\ batch_waiting' \subseteq Futures(Digest) /\ DOMAIN batch_pending' \subseteq Digest
      /\ \A d \in DOMAIN batch_pending' : batch_pending'[d] \in Nat
  <2>1. batch_waiting \ {f} \in SUBSET Futures(Digest)
    BY DEF IInv, TypeOK
  <2>2. batch_waiting' \in SUBSET Futures(Digest)
    BY <1>1, <2>1, Cancels
  <2> QED BY <1>1, <2>2 DEF IInv, TypeOK, Without
<1>3. TypeOK'
  BY <1>1, <1>2 DEF IInv, TypeOK, coreVars, waiterVars, syncVars, netVars
<1> QED BY <1>1, <1>3, OthersKeep DEF coreVars, syncVars

LEMMA BatchCancelledKeeps ==
  ASSUME IInv, NEW f \in batch_waiting, BatchCancelled(f)
  PROVE  IInv'
<1>1. /\ UNCHANGED <<coreVars, waiterVars, syncVars, batch_pending, batch_round, netVars>>
      /\ batch_waiting' = batch_waiting \ {f}
      /\ store' = forget(store, BatchWaiterOf(f)) /\ BatchWaiterOf(f)[1] = "batch"
      /\ store \in StoreState(Item, Waiter)
  BY DEF BatchCancelled, BatchWaiterOf, IInv, TypeOK
<1>2. /\ store' \in StoreState(Item, Waiter) /\ store'.db = store.db
      /\ \A k \in Item : store'.obligations[k] = store.obligations[k] \ {BatchWaiterOf(f)}
  BY <1>1, Forgets
<1>3. TypeOK'
  BY <1>1, <1>2 DEF IInv, TypeOK, coreVars, waiterVars, syncVars, netVars
<1> QED BY <1>1, <1>2, <1>3, OthersKeep DEF coreVars, syncVars

LEMMA BatchRetryKeeps ==
  ASSUME IInv, NEW d \in Digest, NEW S, BatchRetry(d, S)
  PROVE  IInv'
<1>1. /\ UNCHANGED <<store, coreVars, waiterVars, syncVars, mempoolVars, losses>>
      /\ network' \subseteq Item
  BY DEF IInv, TypeOK, BatchRetry, Ask, Item
<1>2. TypeOK'
  BY <1>1 DEF IInv, TypeOK, coreVars, waiterVars, syncVars, mempoolVars
<1> QED BY <1>1, <1>2, OthersKeep DEF coreVars, syncVars

LEMMA LoseKeeps ==
  ASSUME IInv, NEW x \in Item, Lose(x)
  PROVE  IInv'
<1>1. /\ UNCHANGED <<store, coreVars, waiterVars, syncVars, mempoolVars>>
      /\ network' \subseteq Item /\ losses' \in 0..MaxLosses
  BY SynchronizationAssumption DEF IInv, TypeOK, Lose
<1>2. TypeOK'
  BY <1>1 DEF IInv, TypeOK, coreVars, waiterVars, syncVars, mempoolVars
<1> QED BY <1>1, <1>2, OthersKeep DEF coreVars, syncVars

LEMMA StoreBatchKeeps ==
  ASSUME IInv, NEW d \in Digest, StoreBatch(d)
  PROVE  IInv'
<1>0. /\ UNCHANGED <<coreVars, waiterVars, syncVars, mempoolVars, losses>>
      /\ network' \subseteq network /\ store' = write(store, d)
      /\ store \in StoreState(Item, Waiter) /\ d \in Item
  BY DEF StoreBatch, IInv, TypeOK, Item
<1>1. /\ store' \in StoreState(Item, Waiter) /\ store'.db = store.db \cup {d}
      /\ \A k \in Item : store'.obligations[k] = IF k = d THEN {} ELSE store.obligations[k]
  BY <1>0, Writes
<1>2. /\ \A g \in payload_waiting : Payload(g.key) \subseteq Item
      /\ \A c \in pending : Parent(c) \in Item
  BY BlockAssumption DEF IInv, TypeOK, Futures, Item, ParentsAwaited
<1>3. TypeOK'
  BY <1>0, <1>1 DEF IInv, TypeOK, coreVars, waiterVars, syncVars, mempoolVars
<1>4. NobodyWaitsForStored'
  BY <1>0, <1>1 DEF IInv, NobodyWaitsForStored, StoreState
<1>5. FuturesComplete'
  BY <1>0, <1>1, <1>2 DEF IInv, FuturesComplete, waiterVars, PayloadWaiterOf
<1>6. ParentsAwaited'
  BY <1>0, <1>1, <1>2 DEF IInv, ParentsAwaited, coreVars, syncVars
<1>7. StoredClosed'
  BY <1>1 DEF IInv, StoredClosed, Needs
<1> QED BY <1>0, <1>1, <1>3, <1>4, <1>5, <1>6, <1>7
        DEF IInv, MissingParentsRequested, HavePayload, CommandsComplete, OwnIds, Stored,
            coreVars, waiterVars, syncVars
-----------------------------------------------------------------------------
(* The theorems. *)

LEMMA InitHolds == Init => IInv
<1> SUFFICES ASSUME Init PROVE IInv
  OBVIOUS
<1>1. PICK db \in OnDisk : (\A x \in db : Needs(x) \subseteq db) /\ store = OpenStore(Item, db)
  BY DEF Init
<1>2. /\ store \in StoreState(Item, Waiter) /\ store.db = db
      /\ \A k \in Item : store.obligations[k] = {}
  BY <1>1, SynchronizationAssumption DEF OpenStore, StoreState
<1>3. /\ loopback = {} /\ inner = {} /\ to_waiter = <<>> /\ to_mempool = <<>>
      /\ payload_pending = {} /\ payload_waiting = {} /\ pending = {} /\ requests = {}
      /\ DOMAIN batch_pending = {} /\ batch_waiting = {} /\ batch_round = 0
      /\ network = Proposed /\ losses = 0
  BY DEF Init, Empty
<1>4. Proposed \subseteq Item
  BY SynchronizationAssumption DEF Item
<1>5. TypeOK
  BY <1>2, <1>3, <1>4, SynchronizationAssumption DEF TypeOK
<1> QED BY <1>1, <1>2, <1>3, <1>5
        DEF IInv, NobodyWaitsForStored, MissingParentsRequested, HavePayload, CommandsComplete,
            FuturesComplete, OwnIds, ParentsAwaited, StoredClosed, StoreState

LEMMA NextKeeps == IInv /\ [Next]_vars => IInv'
<1> SUFFICES ASSUME IInv, [Next]_vars PROVE IInv'
  OBVIOUS
<1>1. ASSUME NEW b \in Block, ReceiveProposal(b) PROVE IInv'
  BY <1>1, ReceiveProposalKeeps
<1>2. ASSUME NEW b \in Block, ReceiveLoopback(b) PROVE IInv'
  BY <1>2, ReceiveLoopbackKeeps
<1>3. ASSUME NEW b \in Block, SynchronizerTakes(b) PROVE IInv'
  BY <1>3, SynchronizerTakesKeeps
<1>4. ASSUME NEW b \in Block, ParentReady(b) PROVE IInv'
  BY <1>4, ParentReadyKeeps
<1>5. ASSUME NEW b \in Block, ParentRetry(b) PROVE IInv'
  BY <1>5, ParentRetryKeeps
<1>6. CASE PayloadWait
  BY <1>6, PayloadWaitKeeps
<1>7. CASE PayloadCleanup
  BY <1>7, PayloadCleanupKeeps
<1>8. ASSUME NEW f \in payload_waiting, PayloadReady(f) \/ PayloadCancelled(f) PROVE IInv'
  BY <1>8, PayloadReadyKeeps, PayloadCancelledKeeps
<1>9. CASE BatchSynchronize
  BY <1>9, BatchSynchronizeKeeps
<1>10. CASE BatchCleanup
  BY <1>10, BatchCleanupKeeps
<1>11. ASSUME NEW f \in batch_waiting, BatchReady(f) \/ BatchCancelled(f) PROVE IInv'
  BY <1>11, BatchReadyKeeps, BatchCancelledKeeps
<1>12. ASSUME NEW d \in Digest, NEW S \in SUBSET Peers, BatchRetry(d, S) PROVE IInv'
  BY <1>12, BatchRetryKeeps
<1>13. ASSUME NEW d \in Digest, StoreBatch(d) PROVE IInv'
  BY <1>13, StoreBatchKeeps
<1>14. ASSUME NEW x \in Item, Lose(x) PROVE IInv'
  BY <1>14, LoseKeeps
<1>15. CASE UNCHANGED vars
  <2>1. TypeOK'
    BY <1>15 DEF IInv, TypeOK, vars, coreVars, waiterVars, syncVars, mempoolVars, netVars
  <2> QED BY <1>15, <2>1, OthersKeep DEF vars, coreVars, syncVars
<1> QED BY <1>1, <1>2, <1>3, <1>4, <1>5, <1>6, <1>7, <1>8, <1>9, <1>10, <1>11, <1>12,
           <1>13, <1>14, <1>15 DEF Next

LEMMA SynchronizationInvariant == Spec => []IInv
BY InitHolds, NextKeeps, PTL DEF Spec

\* TypeOK: every variable of the synchronization has its type.
THEOREM SynchronizationTypes == Spec => []TypeOK
<1>1. IInv => TypeOK
  BY DEF IInv
<1> QED BY <1>1, SynchronizationInvariant, PTL

\* NobodyWaitsForStored: no future is queued for a key that the store holds
\* (store/src/lib.rs:34, 47), whatever writes race with the reads.
THEOREM WaitersAreServed == Spec => []NobodyWaitsForStored
<1>1. IInv => NobodyWaitsForStored
  BY DEF IInv
<1> QED BY <1>1, SynchronizationInvariant, PTL

\* MissingParentsRequested: a parent that a suspended block waits for stays in
\* requests until it is stored (synchronizer.rs:57, 77).
THEOREM ParentsStayRequested == Spec => []MissingParentsRequested
<1>1. IInv => MissingParentsRequested
  BY DEF IInv
<1> QED BY <1>1, SynchronizationInvariant, PTL

LEMMA process_blockAdds ==
  ASSUME IInv, NEW b \in Block, b # Genesis, Payload(b) \subseteq store.db, process_block(b)
  PROVE  store'.db = store.db \/ Causal!Add(b)
<1>1. CASE store' = store
  BY <1>1
<1>2. CASE Stored(Parent(b)) /\ store' = write(store, b)
  <2>1. store \in StoreState(Item, Waiter) /\ b \in Item /\ b \notin Digest
    BY SynchronizationAssumption DEF IInv, TypeOK, Item
  <2>2. store'.db = store.db \cup {b}
    BY <1>2, <2>1, Writes
  <2>3. Needs(b) \subseteq store.db
    BY <1>2, <2>1 DEF Needs, Stored
  <2> QED BY <2>2, <2>3 DEF Causal!Add
<1> QED BY <1>1, <1>2 DEF process_block

\* StoresInOrder: the store grows by items whose references are in it, so the
\* walks of the Core (core.rs:132) meet no gap, in whatever order the blocks
\* and batches arrive and the waits end.
THEOREM SynchronizationStoresInOrder == Spec => StoresInOrder
<1>1. Init => Causal!Init
  BY InitHolds DEF Causal!Init, Causal!Closed, IInv, TypeOK, StoredClosed, StoreState
<1>2. IInv /\ [Next]_vars => [Causal!Next]_(store.db)
  <2> SUFFICES ASSUME IInv, [Next]_vars, store'.db # store.db PROVE Causal!Next
    OBVIOUS
  <2>0. store \in StoreState(Item, Waiter)
    BY DEF IInv, TypeOK
  <2>1. ASSUME NEW b \in Block, ReceiveProposal(b) PROVE Causal!Next
    <3>1. b \in Item /\ b # Genesis
      BY <2>1, SynchronizationAssumption DEF ReceiveProposal, IInv, TypeOK, Item
    <3>2. Payload(b) \subseteq store.db /\ process_block(b)
      BY <2>1 DEF ReceiveProposal, verify
    <3> QED BY <3>1, <3>2, process_blockAdds DEF Causal!Next
  <2>2. ASSUME NEW b \in Block, ReceiveLoopback(b) PROVE Causal!Next
    <3>1. b \in Item /\ b # Genesis /\ Payload(b) \subseteq store.db /\ process_block(b)
      BY <2>2 DEF ReceiveLoopback, IInv, HavePayload, Item
    <3> QED BY <3>1, process_blockAdds DEF Causal!Next
  <2>3. ASSUME NEW d \in Digest, StoreBatch(d) PROVE Causal!Next
    <3>1. d \in Item /\ store'.db = store.db \cup {d} /\ Needs(d) = {}
      BY <2>0, <2>3, Writes DEF StoreBatch, Item, Needs
    <3> QED BY <3>1 DEF Causal!Add, Causal!Next
  <2>4. ASSUME NEW asks, store' = notify_read(store, asks) PROVE FALSE
    BY <2>0, <2>4 DEF notify_read, StoreState
  <2>5. ASSUME NEW w, store' = forget(store, w) PROVE FALSE
    BY <2>0, <2>5 DEF forget, StoreState
  <2>6. ASSUME NEW b \in Block, SynchronizerTakes(b) \/ ParentReady(b) \/ ParentRetry(b)
        PROVE  FALSE
    BY <2>4, <2>6 DEF SynchronizerTakes, ParentReady, ParentRetry
  <2>7. CASE PayloadWait \/ PayloadCleanup
    BY <2>4, <2>7 DEF PayloadWait, PayloadCleanup
  <2>8. ASSUME NEW f \in payload_waiting, PayloadReady(f) \/ PayloadCancelled(f) PROVE FALSE
    BY <2>5, <2>8 DEF PayloadReady, PayloadCancelled
  <2>9. CASE BatchSynchronize \/ BatchCleanup
    BY <2>4, <2>9 DEF BatchSynchronize, BatchCleanup
  <2>10. ASSUME NEW f \in batch_waiting, BatchReady(f) \/ BatchCancelled(f) PROVE FALSE
    BY <2>5, <2>10 DEF BatchReady, BatchCancelled
  <2>11. ASSUME NEW d \in Digest, NEW S \in SUBSET Peers, BatchRetry(d, S) PROVE FALSE
    BY <2>11 DEF BatchRetry
  <2>12. ASSUME NEW x \in Item, Lose(x) PROVE FALSE
    BY <2>12 DEF Lose
  <2>13. CASE UNCHANGED vars
    BY <2>13 DEF vars
  <2> QED BY <2>1, <2>2, <2>3, <2>6, <2>7, <2>8, <2>9, <2>10, <2>11, <2>12, <2>13 DEF Next
<1> QED BY <1>1, <1>2, SynchronizationInvariant, PTL DEF Spec, StoresInOrder, Causal!Spec

-----------------------------------------------------------------------------
(* The futures and the handlers that cancel them.  The two waiters keep the *)
(* same books: F are the futures of one, P the keys of its pending.         *)

Live(F, k) == {f \in F : f.key = k /\ ~ f.cancelled}

Paired(F, P) ==
  /\ \A k \in P : \E f \in F : Live(F, k) = {f}
  /\ \A k : k \notin P => Live(F, k) = {}

\* A handler that is used or dropped leaves pending together with its future.
LEMMA PairedCancel ==
  ASSUME NEW K, NEW F \in SUBSET Futures(K), NEW P, NEW S, Paired(F, P)
  PROVE  Paired(Cancel(F, S), P \ S)
<1> DEFINE c(f) == IF f.key \in S THEN [f EXCEPT !.cancelled = TRUE] ELSE f
           G == Cancel(F, S)
<1>1. G = {c(f) : f \in F}
  BY DEF Cancel
<1>2. \A f \in F : /\ c(f).key = f.key
                   /\ f.key \in S => c(f).cancelled
                   /\ f.key \notin S => c(f) = f
  BY DEF Futures
<1> HIDE DEF c, G
<1>3. ASSUME NEW k, k \in S PROVE Live(G, k) = {}
  BY <1>1, <1>2, <1>3 DEF Live
<1>4. ASSUME NEW k, k \notin S PROVE Live(G, k) = Live(F, k)
  BY <1>1, <1>2, <1>4 DEF Live
<1>5. \A k \in P \ S : \E f \in G : Live(G, k) = {f}
  <2> TAKE k \in P \ S
  <2>1. PICK f \in F : Live(F, k) = {f}
    BY DEF Paired
  <2>2. Live(G, k) = {f}
    BY <1>4, <2>1
  <2>3. f \in G
    BY <2>2 DEF Live
  <2> QED BY <2>2, <2>3
<1>6. \A k : k \notin P \ S => Live(G, k) = {}
  <2> TAKE k
  <2> HAVE k \notin P \ S
  <2>1. CASE k \in S
    BY <1>3, <2>1
  <2>2. CASE k \notin S
    BY <1>4, <2>2 DEF Paired
  <2> QED BY <2>1, <2>2
<1> QED BY <1>5, <1>6 DEF Paired, G

\* The futures that are ready or cancelled leave; the one that is ready takes
\* the entry of its key with it.
LEMMA PairedReady ==
  ASSUME NEW K, NEW F \in SUBSET Futures(K), NEW P, NEW f \in F, Paired(F, P)
  PROVE  Paired(Cancel(F \ {f}, {f.key}), P \ {f.key})
<1> DEFINE H == F \ {f}
           Q == P \ {f.key}
           R == {k \in P : \E g \in H : Live(H, k) = {g}}
<1>1. \A k : k # f.key => Live(H, k) = Live(F, k)
  BY DEF Live
<1>2. Live(H, f.key) = {} \/ \E g \in H : Live(H, f.key) = {g}
  <2>1. CASE f.key \in P
    <3>1. PICK g \in F : Live(F, f.key) = {g}
      BY <2>1 DEF Paired
    <3> QED BY <3>1 DEF Live
  <2>2. CASE f.key \notin P
    <3>1. Live(F, f.key) = {}
      BY <2>2 DEF Paired
    <3> QED BY <3>1 DEF Live
  <2> QED BY <2>1, <2>2
<1> HIDE DEF H
<1>3. Paired(H, R)
  <2>1. \A k \in R : \E g \in H : Live(H, k) = {g}
    OBVIOUS
  <2>2. \A k : k \notin R => Live(H, k) = {}
    <3> TAKE k
    <3> HAVE k \notin R
    <3>1. CASE k # f.key /\ k \in P
      <4>1. PICK g \in F : Live(F, k) = {g}
        BY <3>1 DEF Paired
      <4>2. Live(H, k) = {g}
        BY <1>1, <3>1, <4>1
      <4>3. g \in H
        BY <4>2 DEF Live
      <4> QED BY <3>1, <4>2, <4>3
    <3>2. CASE k # f.key /\ k \notin P
      BY <1>1, <3>2 DEF Paired
    <3>3. CASE k = f.key
      <4>1. CASE f.key \in P
        BY <1>2, <3>3, <4>1
      <4>2. CASE f.key \notin P
        <5>1. Live(F, f.key) = {}
          BY <4>2 DEF Paired
        <5> QED BY <3>3, <5>1 DEF Live, H
      <4> QED BY <4>1, <4>2
    <3> QED BY <3>1, <3>2, <3>3
  <2> QED BY <2>1, <2>2 DEF Paired
<1>4. H \in SUBSET Futures(K)
  BY DEF H
<1>5. R \ {f.key} = P \ {f.key}
  <2>1. \A k \in P : k # f.key => k \in R
    <3> TAKE k \in P
    <3> HAVE k # f.key
    <3>1. PICK g \in F : Live(F, k) = {g}
      BY DEF Paired
    <3>2. Live(H, k) = {g}
      BY <1>1, <3>1
    <3> QED BY <3>2 DEF Live
  <2> QED BY <2>1
<1> HIDE DEF R
<1>6. Paired(Cancel(H, {f.key}), R \ {f.key})
  BY <1>3, <1>4, PairedCancel
<1> QED BY <1>5, <1>6 DEF H

LEMMA PairedGone ==
  ASSUME NEW F, NEW P, NEW f \in F, f.cancelled, Paired(F, P)
  PROVE  Paired(F \ {f}, P)
<1>1. \A k : Live(F \ {f}, k) = Live(F, k)
  BY DEF Live
<1>2. \A k : \A g : Live(F, k) = {g} => g \in F \ {f}
  BY DEF Live
<1> QED BY <1>1, <1>2 DEF Paired

\* New futures, for keys without an entry, come with their entries.
LEMMA PairedNew ==
  ASSUME NEW F, NEW P, NEW X, X \cap P = {}, Paired(F, P)
  PROVE  Paired(F \cup {NewFuture(F, k) : k \in X}, P \cup X)
<1> DEFINE new == {NewFuture(F, k) : k \in X}
           G == F \cup new
<1>1. \A k : NewFuture(F, k).key = k /\ ~ NewFuture(F, k).cancelled
  BY DEF NewFuture
<1>2. ASSUME NEW k \in X PROVE Live(G, k) = {NewFuture(F, k)}
  <2>1. Live(F, k) = {}
    BY DEF Paired
  <2> QED BY <1>1, <2>1 DEF Live
<1>3. ASSUME NEW k, k \notin X PROVE Live(G, k) = Live(F, k)
  BY <1>1, <1>3 DEF Live
<1> HIDE DEF new
<1>4. \A k \in P \cup X : \E f \in G : Live(G, k) = {f}
  <2> TAKE k \in P \cup X
  <2>1. CASE k \in X
    BY <1>2, <2>1 DEF new
  <2>2. CASE k \notin X
    <3>1. PICK f \in F : Live(F, k) = {f}
      BY <2>2 DEF Paired
    <3> QED BY <1>3, <2>2, <3>1
  <2> QED BY <2>1, <2>2
<1>5. \A k : k \notin P \cup X => Live(G, k) = {}
  BY <1>3 DEF Paired
<1> QED BY <1>4, <1>5 DEF Paired, new

BothPaired == Paired(payload_waiting, payload_pending) /\ Paired(batch_waiting, DOMAIN batch_pending)

LEMMA BothPairedStep == IInv /\ BothPaired /\ [Next]_vars => BothPaired'
<1> SUFFICES ASSUME IInv, BothPaired, [Next]_vars PROVE BothPaired'
  OBVIOUS
<1> DEFINE F == payload_waiting
           P == payload_pending
           G == batch_waiting
           Q == DOMAIN batch_pending
<1>t. F \in SUBSET Futures(Block) /\ G \in SUBSET Futures(Digest)
      /\ Paired(F, P) /\ Paired(G, Q)
  BY DEF IInv, TypeOK, BothPaired
<1>1. ASSUME UNCHANGED <<waiterVars, mempoolVars>> PROVE BothPaired'
  BY <1>1 DEF BothPaired, waiterVars, mempoolVars
<1>2. CASE PayloadWait
  <2> DEFINE m == Head(to_waiter)
  <2>1. UNCHANGED mempoolVars
    BY <1>2 DEF PayloadWait
  <2>2. CASE UNCHANGED waiterVars
    BY <1>1, <2>1, <2>2
  <2>3. CASE /\ m.block \notin P /\ P' = P \cup {m.block}
             /\ F' = F \cup {NewFuture(F, m.block)}
    <3>1. {NewFuture(F, k) : k \in {m.block}} = {NewFuture(F, m.block)}
      OBVIOUS
    <3>2. {m.block} \cap P = {}
      BY <2>3
    <3>3. Paired(F \cup {NewFuture(F, k) : k \in {m.block}}, P \cup {m.block})
      BY <1>t, <3>2, PairedNew
    <3> QED BY <2>1, <2>3, <3>1, <3>3 DEF BothPaired, mempoolVars
  <2> QED BY <1>2, <2>2, <2>3 DEF PayloadWait
<1>3. CASE PayloadCleanup
  <2> DEFINE old == {b \in payload_pending : Round(b) <= Head(to_waiter).round}
  <2>1. F' = Cancel(F, old) /\ P' = P \ old /\ UNCHANGED mempoolVars
    BY <1>3 DEF PayloadCleanup
  <2> HIDE DEF old
  <2>2. Paired(Cancel(F, old), P \ old)
    BY <1>t, PairedCancel
  <2> QED BY <2>1, <2>2 DEF BothPaired, mempoolVars
<1>4. ASSUME NEW f \in payload_waiting, PayloadReady(f) PROVE BothPaired'
  <2>1. /\ F' = Cancel(F \ {f}, {f.key}) /\ P' = P \ {f.key} /\ UNCHANGED mempoolVars
    BY <1>4 DEF PayloadReady
  <2>2. Paired(Cancel(F \ {f}, {f.key}), P \ {f.key})
    BY <1>t, PairedReady
  <2> QED BY <2>1, <2>2 DEF BothPaired, mempoolVars
<1>5. ASSUME NEW f \in payload_waiting, PayloadCancelled(f) PROVE BothPaired'
  <2>1. f.cancelled /\ F' = F \ {f} /\ P' = P /\ UNCHANGED mempoolVars
    BY <1>5 DEF PayloadCancelled
  <2>2. Paired(F \ {f}, P)
    BY <1>t, <2>1, PairedGone
  <2> QED BY <2>1, <2>2 DEF BothPaired, mempoolVars
<1>6. CASE BatchSynchronize
  <2> DEFINE X == Head(to_mempool).missing \ Q
  <2>1. /\ G' = G \cup {NewFuture(G, d) : d \in X} /\ DOMAIN batch_pending' = X \cup Q
        /\ UNCHANGED waiterVars
    BY <1>6 DEF BatchSynchronize
  <2>2. X \cap Q = {}
    OBVIOUS
  <2> HIDE DEF X
  <2>3. Paired(G \cup {NewFuture(G, d) : d \in X}, Q \cup X)
    BY <1>t, <2>2, PairedNew
  <2>4. Q \cup X = X \cup Q
    OBVIOUS
  <2> QED BY <2>1, <2>3, <2>4 DEF BothPaired, waiterVars
<1>7. CASE BatchCleanup
  <2> DEFINE old == {d \in DOMAIN batch_pending :
                       batch_pending[d] <= Head(to_mempool).round - GcDepth}
  <2>1. UNCHANGED waiterVars
    BY <1>7 DEF BatchCleanup
  <2>2. \/ UNCHANGED <<batch_pending, batch_waiting>>
        \/ G' = Cancel(G, old) /\ DOMAIN batch_pending' = Q \ old
    BY <1>7 DEF BatchCleanup, Without
  <2> HIDE DEF old
  <2>3. Paired(Cancel(G, old), Q \ old)
    BY <1>t, PairedCancel
  <2> QED BY <2>1, <2>2, <2>3 DEF BothPaired, waiterVars
<1>8. ASSUME NEW f \in batch_waiting, BatchReady(f) PROVE BothPaired'
  <2>1. /\ G' = Cancel(G \ {f}, {f.key}) /\ DOMAIN batch_pending' = Q \ {f.key}
        /\ UNCHANGED waiterVars
    BY <1>8 DEF BatchReady, Without
  <2>2. Paired(Cancel(G \ {f}, {f.key}), Q \ {f.key})
    BY <1>t, PairedReady
  <2> QED BY <2>1, <2>2 DEF BothPaired, waiterVars
<1>9. ASSUME NEW f \in batch_waiting, BatchCancelled(f) PROVE BothPaired'
  <2>1. f.cancelled /\ G' = G \ {f} /\ batch_pending' = batch_pending /\ UNCHANGED waiterVars
    BY <1>9 DEF BatchCancelled
  <2>2. Paired(G \ {f}, Q)
    BY <1>t, <2>1, PairedGone
  <2> QED BY <2>1, <2>2 DEF BothPaired, waiterVars
<1>10. ASSUME NEW b \in Block,
              \/ ReceiveProposal(b) \/ ReceiveLoopback(b)
              \/ SynchronizerTakes(b) \/ ParentReady(b) \/ ParentRetry(b)
       PROVE  BothPaired'
  BY <1>1, <1>10 DEF ReceiveProposal, ReceiveLoopback, SynchronizerTakes, ParentReady,
                     ParentRetry
<1>11. ASSUME NEW d \in Digest, (\E S \in SUBSET Peers : BatchRetry(d, S)) \/ StoreBatch(d)
       PROVE  BothPaired'
  BY <1>1, <1>11 DEF BatchRetry, StoreBatch
<1>12. ASSUME NEW x \in Item, Lose(x) PROVE BothPaired'
  BY <1>1, <1>12 DEF Lose
<1>13. CASE UNCHANGED vars
  BY <1>1, <1>13 DEF vars
<1> QED BY <1>2, <1>3, <1>4, <1>5, <1>6, <1>7, <1>8, <1>9, <1>10, <1>11, <1>12, <1>13 DEF Next

\* OneFutureEach: in the PayloadWaiter (mempool.rs:138-160) and in the mempool's
\* Synchronizer an entry of pending and a future that is not cancelled come and
\* go together, also when a block is ready and cancelled at the same time and
\* waits again before its first future has gone.
THEOREM FuturesArePaired == Spec => []OneFutureEach
<1>1. Init => BothPaired
  <2> SUFFICES ASSUME Init PROVE BothPaired
    OBVIOUS
  <2>1. payload_pending = {} /\ payload_waiting = {} /\ DOMAIN batch_pending = {}
        /\ batch_waiting = {}
    BY DEF Init, Empty
  <2> QED BY <2>1 DEF BothPaired, Paired, Live
<1>2. BothPaired => OneFutureEach
  <2>1. ASSUME NEW F, NEW P, NEW k, Paired(F, P)
        PROVE  Cardinality(Live(F, k)) = IF k \in P THEN 1 ELSE 0
    <3>1. CASE k \in P
      <4>1. PICK f \in F : Live(F, k) = {f}
        BY <2>1, <3>1 DEF Paired
      <4> QED BY <3>1, <4>1, FS_Singleton
    <3>2. CASE k \notin P
      <4>1. Live(F, k) = {}
        BY <2>1, <3>2 DEF Paired
      <4> QED BY <3>2, <4>1, FS_EmptySet
    <3> QED BY <3>1, <3>2
  <2> SUFFICES ASSUME BothPaired PROVE OneFutureEach
    OBVIOUS
  <2>2. \A k \in Block : Cardinality(Live(payload_waiting, k))
                           = IF k \in payload_pending THEN 1 ELSE 0
    BY <2>1 DEF BothPaired
  <2>3. \A d \in Digest : Cardinality(Live(batch_waiting, d))
                            = IF d \in DOMAIN batch_pending THEN 1 ELSE 0
    BY <2>1 DEF BothPaired
  <2> QED BY <2>2, <2>3 DEF Live, OneFutureEach
<1> QED BY <1>1, <1>2, BothPairedStep, SynchronizationInvariant, PTL DEF Spec
=============================================================================
