--------------------------- MODULE DeflNodeProofs ---------------------------
(***************************************************************************)
(* What the nodes and their clients agree on about the epochs, for any     *)
(* nodes, clients, quorum and capacity.                                    *)
(***************************************************************************)
EXTENDS DeflNode, BasicLemmas, FiniteSetTheorems

-----------------------------------------------------------------------------
(* What the first k requests of a log l say of epoch e. *)

VoteAt(l, e, c, i) ==
  l[i].method = "new_epoch_vote" /\ l[i].client = c /\ l[i].epoch = e

UpdateAt(l, e, c, i) ==
  l[i].method = "upd_weights" /\ l[i].client = c /\ l[i].epoch = e

Voters(l, e, k) == {c \in Clients : \E i \in 1..k : VoteAt(l, e, c, i)}

\* Client c has an update for epoch e among the first k requests.
Updated(l, e, c, k) == \E i \in 1..k : UpdateAt(l, e, c, i)

QuorumIn(l, e, k) == Cardinality(Voters(l, e, k)) >= quorum_size

\* All earlier epochs have ended.
Begun(l, e, k) == \A d \in 0..(e - 1) : QuorumIn(l, d, k)

\* An update for an epoch that has not ended.
Counted(l, e, c, i) == UpdateAt(l, e, c, i) /\ ~ QuorumIn(l, e, i - 1)

\* w is what the last counted update of client c carries, 0 without one.
WeightIs(l, e, k, c, w) ==
  \/ /\ w = 0
     /\ \A i \in 1..k : ~ Counted(l, e, c, i)
  \/ \E i \in 1..k :
       /\ Counted(l, e, c, i) /\ l[i].n = w
       /\ \A j \in (i + 1)..k : ~ Counted(l, e, c, j)

LEMMA ClientsFinite ==
  ASSUME NEW S \in SUBSET Clients
  PROVE  IsFiniteSet(S) /\ Cardinality(S) \in Nat
BY DeflAssumption, FS_Subset, FS_CardinalityType

LEMMA QuorumKept ==
  ASSUME NEW l, NEW e, NEW i \in Int, NEW k \in Int, i <= k
  PROVE  /\ Voters(l, e, i) \subseteq Voters(l, e, k)
         /\ QuorumIn(l, e, i) => QuorumIn(l, e, k)
<1>1. Voters(l, e, i) \subseteq Voters(l, e, k)
  BY DEF Voters
<1>2. /\ Voters(l, e, k) \subseteq Clients /\ IsFiniteSet(Voters(l, e, k))
      /\ Cardinality(Voters(l, e, i)) \in Nat /\ Cardinality(Voters(l, e, k)) \in Nat
  <2>1. Voters(l, e, i) \subseteq Clients /\ Voters(l, e, k) \subseteq Clients
    BY DEF Voters
  <2> QED BY <2>1, ClientsFinite
<1>3. Cardinality(Voters(l, e, i)) <= Cardinality(Voters(l, e, k))
  BY <1>1, <1>2, FS_Subset
<1>4. quorum_size \in Nat
  BY DeflAssumption, ClientsFinite
<1>5. QuorumIn(l, e, i) => QuorumIn(l, e, k)
  BY <1>2, <1>3, <1>4 DEF QuorumIn
<1> QED BY <1>1, <1>5

\* No quorum without votes.
LEMMA NoQuorum ==
  ASSUME NEW l, NEW e, NEW k, Voters(l, e, k) = {}
  PROVE  ~ QuorumIn(l, e, k)
<1>1. Cardinality({}) = 0 /\ quorum_size \in Nat /\ quorum_size >= 1
  BY DeflAssumption, ClientsFinite, FS_EmptySet
<1> QED BY <1>1 DEF QuorumIn

\* Two logs with the same first k requests.
LEMMA SamePrefix ==
  ASSUME NEW l, NEW g, NEW k \in Int, \A i \in 1..k : l[i] = g[i], NEW e
  PROVE  /\ Voters(l, e, k) = Voters(g, e, k)
         /\ QuorumIn(l, e, k) <=> QuorumIn(g, e, k)
         /\ Begun(l, e, k) <=> Begun(g, e, k)
         /\ \A c : Updated(l, e, c, k) <=> Updated(g, e, c, k)
<1>1. \A d : Voters(l, d, k) = Voters(g, d, k)
  BY DEF Voters, VoteAt
<1>2. \A d : QuorumIn(l, d, k) <=> QuorumIn(g, d, k)
  BY <1>1 DEF QuorumIn
<1>3. Begun(l, e, k) <=> Begun(g, e, k)
  BY <1>2 DEF Begun
<1>4. \A c : Updated(l, e, c, k) <=> Updated(g, e, c, k)
  BY DEF Updated, UpdateAt
<1> QED BY <1>1, <1>2, <1>3, <1>4

LEMMA SameWeights ==
  ASSUME NEW l, NEW g, NEW k \in Int, \A i \in 1..k : l[i] = g[i], NEW e, NEW c, NEW w
  PROVE  WeightIs(l, e, k, c, w) <=> WeightIs(g, e, k, c, w)
<1>1. ASSUME NEW i \in 1..k PROVE Counted(l, e, c, i) <=> Counted(g, e, c, i)
  <2>1. i - 1 \in Int /\ i - 1 <= k /\ \A j \in 1..(i - 1) : l[j] = g[j]
    OBVIOUS
  <2>2. QuorumIn(l, e, i - 1) <=> QuorumIn(g, e, i - 1)
    BY <2>1, SamePrefix
  <2> QED BY <2>2 DEF Counted, UpdateAt
<1>2. \A i \in 1..k : \A j \in (i + 1)..k : j \in 1..k
  OBVIOUS
<1> QED BY <1>1, <1>2 DEF WeightIs

LEMMA OneWeight ==
  ASSUME NEW l, NEW e, NEW k \in Int, NEW c, NEW w, NEW v,
         WeightIs(l, e, k, c, w), WeightIs(l, e, k, c, v)
  PROVE  w = v
<1>1. CASE \A i \in 1..k : ~ Counted(l, e, c, i)
  BY <1>1 DEF WeightIs
<1>2. CASE \E i \in 1..k : Counted(l, e, c, i)
  <2>1. PICK i \in 1..k : /\ Counted(l, e, c, i) /\ l[i].n = w
                          /\ \A j \in (i + 1)..k : ~ Counted(l, e, c, j)
    BY <1>2 DEF WeightIs
  <2>2. PICK h \in 1..k : /\ Counted(l, e, c, h) /\ l[h].n = v
                          /\ \A j \in (h + 1)..k : ~ Counted(l, e, c, j)
    BY <1>2 DEF WeightIs
  <2>3. ~ (h \in (i + 1)..k) /\ ~ (i \in (h + 1)..k)
    BY <2>1, <2>2
  <2>4. h = i
    BY <2>3
  <2> QED BY <2>1, <2>2, <2>4
<1> QED BY <1>1, <1>2

\* When nothing more is counted, the weights stay.
LEMMA WeightStays ==
  ASSUME NEW l, NEW e, NEW k \in Int, NEW h \in Int, k <= h, NEW c, NEW w,
         \A j \in (k + 1)..h : ~ Counted(l, e, c, j),
         WeightIs(l, e, k, c, w)
  PROVE  WeightIs(l, e, h, c, w)
<1>1. \A i \in 1..h : i \in 1..k \/ i \in (k + 1)..h
  OBVIOUS
<1>2. CASE w = 0 /\ \A i \in 1..k : ~ Counted(l, e, c, i)
  BY <1>1, <1>2 DEF WeightIs
<1>3. CASE \E i \in 1..k : /\ Counted(l, e, c, i) /\ l[i].n = w
                           /\ \A j \in (i + 1)..k : ~ Counted(l, e, c, j)
  <2>1. PICK i \in 1..k : /\ Counted(l, e, c, i) /\ l[i].n = w
                          /\ \A j \in (i + 1)..k : ~ Counted(l, e, c, j)
    BY <1>3
  <2>2. i \in 1..h /\ \A j \in (i + 1)..h : j \in (i + 1)..k \/ j \in (k + 1)..h
    OBVIOUS
  <2> QED BY <2>1, <2>2 DEF WeightIs
<1> QED BY <1>2, <1>3 DEF WeightIs

LEMMA NothingCounted ==
  ASSUME NEW l, NEW e, NEW k \in Int, NEW c, QuorumIn(l, e, k)
  PROVE  \A j \in Int : j > k => ~ Counted(l, e, c, j)
<1> TAKE j \in Int
<1>1. j > k => j - 1 \in Int /\ k <= j - 1
  OBVIOUS
<1> QED BY <1>1, QuorumKept DEF Counted

-----------------------------------------------------------------------------
(* The inductive invariant. *)

Requests == [method : {"client_register", "fetch_w_last"}, client : Clients]

Messages ==
  [type : {"response"}, to : Clients, n : Nat]
    \cup [type : {"weights"}, to : Clients, r_last_epoch_id : -1..MaxEpoch,
          w_last : [Clients -> Nat]]

WeightsMessages == {m \in flight : m.type = "weights"}

ClientState ==
  [pc : {"start", "fetch", "train", "updating", "gst", "voting"},
   epoch_id : -1..MaxEpoch, next_epoch_id : 0..(MaxEpoch + 1), requests : Nat,
   fetched : BOOLEAN, fetches : 0..MaxFetches,
   fetch_queue : SUBSET (-1..MaxEpoch), looping : BOOLEAN]

NodeState ==
  [analyzed : Nat, cur : Databank, last : Databank,
   voted_clients : SUBSET Clients, contacts : SUBSET Clients]

\* TypeOK, with the types of the channels and of the messages.
Types ==
  /\ client \in [Clients -> ClientState]
  /\ submitted \subseteq ClientRequest
  /\ log \in Seq(submitted)
  /\ node \in [Nodes -> NodeState]
  /\ \A n \in Nodes : node[n].analyzed <= Len(log)
  /\ obsido \in [Nodes -> Seq(Requests)]
  /\ \A n \in Nodes : Len(obsido[n]) <= ObsidoCapacity
  /\ flight \subseteq Messages

\* No request is for an epoch after the last one.
Bounded ==
  /\ \A r \in submitted : r.epoch <= MaxEpoch
  /\ \A c \in Clients :
       client[c].pc \in {"updating", "gst", "voting"} => client[c].next_epoch_id <= MaxEpoch
  /\ \A n \in Nodes : node[n].cur.epoch_id >= 0 /\ node[n].last.epoch_id = node[n].cur.epoch_id - 1

\* A node has only its own clients to answer to.
OwnClients ==
  /\ \A n \in Nodes : \A i \in 1..Len(obsido[n]) : home[obsido[n][i].client] = n
  /\ \A n \in Nodes : \A c \in node[n].contacts : home[c] = n

\* What a client hears of is over at its node.
Heard ==
  /\ \A m \in WeightsMessages : m.r_last_epoch_id < node[home[m.to]].cur.epoch_id
  /\ \A c \in Clients : \A e \in client[c].fetch_queue : e < node[home[c]].cur.epoch_id

\* A request is submitted for an epoch that the log has begun.
InEpoch ==
  /\ \A r \in submitted : Begun(log, r.epoch, Len(log))
  /\ \A i \in 1..Len(log) : Begun(log, log[i].epoch, i - 1)

\* What a node has counted is what its part of the log says.
Analyzed ==
  \A n \in Nodes :
    /\ \A e \in 0..(MaxEpoch + 1) :
         node[n].cur.epoch_id > e <=> QuorumIn(log, e, node[n].analyzed)
    /\ node[n].voted_clients = Voters(log, node[n].cur.epoch_id, node[n].analyzed)

WeightsAnalyzed ==
  \A n \in Nodes : \A c \in Clients :
    /\ WeightIs(log, node[n].cur.epoch_id, node[n].analyzed, c, node[n].cur.client_weights[c])
    /\ WeightIs(log, node[n].last.epoch_id, node[n].analyzed, c, node[n].last.client_weights[c])

\* The weights a node sends are those of the whole log, for an epoch that is
\* over or the one before the first.
WeightsSent ==
  \A m \in WeightsMessages :
    /\ m.r_last_epoch_id >= 0 => QuorumIn(log, m.r_last_epoch_id, Len(log))
    /\ \A c \in Clients : WeightIs(log, m.r_last_epoch_id, Len(log), c, m.w_last[c])

\* The requests of a client have different numbers; while it waits for the
\* answer to an update, the last one is that update.
NumberedRequests ==
  \A r \in submitted :
    /\ r.n >= 1 /\ r.n <= client[r.client].requests
    /\ r.n = client[r.client].requests /\ client[r.client].pc = "updating"
         => r.method = "upd_weights" /\ r.epoch = client[r.client].next_epoch_id

\* An answer is for a request that is committed.
Answered ==
  \A m \in flight :
    m.type = "response" => \E i \in 1..Len(log) : log[i].client = m.to /\ log[i].n = m.n

VotesAfterUpdates ==
  /\ \A c \in Clients :
       client[c].pc \in {"gst", "voting"} => Updated(log, client[c].next_epoch_id, c, Len(log))
  /\ \A r \in submitted :
       r.method = "new_epoch_vote" => Updated(log, r.epoch, r.client, Len(log))
  /\ \A i \in 1..Len(log) :
       log[i].method = "new_epoch_vote" => Updated(log, log[i].epoch, log[i].client, i - 1)

IInv ==
  /\ Types /\ Bounded
  /\ OwnClients /\ Heard /\ ClientsFollow
  /\ InEpoch /\ Analyzed
  /\ WeightsAnalyzed /\ WeightsSent
  /\ NumberedRequests /\ Answered /\ VotesAfterUpdates

-----------------------------------------------------------------------------
(* Every variable keeps its type. *)

LEMMA TypesImply == Types => TypeOK
<1> SUFFICES ASSUME Types PROVE TypeOK
  OBVIOUS
<1> DEFINE N == [analyzed : 0..Len(log), cur : Databank, last : Databank,
                 voted_clients : SUBSET Clients, contacts : SUBSET Clients]
<1>1. node \in [Nodes -> N]
  <2>1. Len(log) \in Nat
    BY DEF Types
  <2>2. \A s \in NodeState : s.analyzed <= Len(log) => s \in N
    BY <2>1 DEF NodeState
  <2> HIDE DEF N
  <2> QED BY <2>2 DEF Types
<1>2. \A n \in Nodes : obsido[n] \in Seq(Requests)
  BY DEF Types
<1> QED BY <1>1, <1>2 DEF Types, TypeOK, ClientState, Requests

LEMMA InitTypes == Init => Types
<1> SUFFICES ASSUME Init PROVE Types
  OBVIOUS
<1>0. MaxEpoch \in Nat /\ MaxFetches \in Nat /\ ObsidoCapacity \in Nat
  BY DeflAssumption
<1>1. client \in [Clients -> ClientState]
  BY <1>0 DEF Init, ClientState
<1>2. NoWeights \in [Clients -> Nat]
  BY DEF NoWeights
<1>3. DeflDatabank(0, NoWeights) \in Databank /\ DeflDatabank(-1, NoWeights) \in Databank
  BY <1>0, <1>2 DEF DeflDatabank, Databank
<1>4. node \in [Nodes -> NodeState] /\ \A n \in Nodes : node[n].analyzed = 0
  BY <1>3 DEF Init, NodeState
<1>5. obsido \in [Nodes -> Seq(Requests)] /\ \A n \in Nodes : Len(obsido[n]) = 0
  BY DEF Init
<1>6. submitted = {} /\ log = <<>> /\ flight = {} /\ Len(log) = 0 /\ log \in Seq(submitted)
  BY DEF Init
<1> QED BY <1>0, <1>1, <1>4, <1>5, <1>6 DEF Types

\* The largest of the epochs that have arrived.
LEMMA LatestArrived ==
  ASSUME NEW S \in SUBSET (-1..MaxEpoch), S # {}
  PROVE  LET latest == CHOOSE e \in S : \A d \in S : d <= e
         IN  latest \in S /\ latest \in -1..MaxEpoch
<1>0. MaxEpoch \in Nat
  BY DeflAssumption
<1> DEFINE R == {MaxEpoch - e : e \in S}
<1>1. R \in SUBSET Nat /\ R # {}
  <2>1. PICK e \in S : TRUE
    OBVIOUS
  <2>2. MaxEpoch - e \in R
    BY <2>1
  <2>3. \A d \in S : d \in Int /\ d <= MaxEpoch /\ MaxEpoch - d \in Nat
    BY <1>0
  <2> QED BY <2>2, <2>3
<1>2. PICK x \in R : \A y \in R : x <= y
  <2> HIDE DEF R
  <2> QED BY <1>1, SmallestNat
<1>3. PICK e \in S : x = MaxEpoch - e
  OBVIOUS
<1>4. \A d \in S : d <= e
  <2> TAKE d \in S
  <2>1. MaxEpoch - d \in R
    OBVIOUS
  <2>2. MaxEpoch - e <= MaxEpoch - d /\ d \in Int /\ e \in Int
    BY <1>2, <1>3, <2>1
  <2> HIDE DEF R
  <2> QED BY <1>0, <2>2
<1> QED BY <1>4

LEMMA Returned ==
  ASSUME NEW s \in ClientState, NEW e \in -1..MaxEpoch
  PROVE  /\ Return(s, e) \in ClientState
         /\ Return(s, e).pc = "fetch" /\ Return(s, e).epoch_id = e
         /\ Return(s, e).next_epoch_id = s.next_epoch_id /\ Return(s, e).requests = s.requests
         /\ Return(s, e).fetch_queue = s.fetch_queue
BY DEF Return, ClientState

-----------------------------------------------------------------------------
(* The steps of a client that submit nothing. *)

\* Client c goes on, and perhaps asks its Obsido for something.
ClientGoesOn(c) ==
  /\ client' \in [Clients -> ClientState]
  /\ \A d \in Clients : d # c => client'[d] = client[d]
  /\ client'[c].pc \in {"fetch", "train"}
  /\ client'[c].requests = client[c].requests
  /\ client'[c].fetch_queue \subseteq client[c].fetch_queue
  /\ client'[c].epoch_id <= client'[c].next_epoch_id
  /\ \/ client'[c].next_epoch_id = client[c].next_epoch_id
     \/ \E e \in client[c].fetch_queue : client'[c].next_epoch_id = e + 1
  /\ obsido' \in [Nodes -> Seq(Requests)]
  /\ \A n \in Nodes : Len(obsido'[n]) <= ObsidoCapacity
  /\ \A n \in Nodes : \A i \in 1..Len(obsido'[n]) :
       home[obsido'[n][i].client] = n \/ (i \in 1..Len(obsido[n]) /\ obsido'[n][i] = obsido[n][i])
  /\ UNCHANGED <<flight, submitted, log, node>>

LEMMA ObsidoSent ==
  ASSUME obsido \in [Nodes -> Seq(Requests)], \A n \in Nodes : Len(obsido[n]) <= ObsidoCapacity,
         NEW c \in Clients, NEW method \in {"client_register", "fetch_w_last"},
         ObsidoSend(c, method)
  PROVE  /\ obsido' \in [Nodes -> Seq(Requests)]
         /\ \A n \in Nodes : Len(obsido'[n]) <= ObsidoCapacity
         /\ \A n \in Nodes : \A i \in 1..Len(obsido'[n]) :
              home[obsido'[n][i].client] = n \/ (i \in 1..Len(obsido[n]) /\ obsido'[n][i] = obsido[n][i])
<1> DEFINE h == home[c]
           r == [method |-> method, client |-> c]
           q == Append(obsido[h], r)
<1>1. /\ h \in Nodes /\ r \in Requests /\ r.client = c /\ obsido[h] \in Seq(Requests)
      /\ obsido' = [obsido EXCEPT ![h] = q] /\ Len(obsido[h]) < ObsidoCapacity
      /\ ObsidoCapacity \in Nat
  BY DeflAssumption DEF ObsidoSend, Requests
<1>2. /\ q \in Seq(Requests) /\ Len(q) = Len(obsido[h]) + 1 /\ Len(obsido[h]) \in Nat
      /\ q[Len(obsido[h]) + 1] = r /\ \A i \in 1..Len(obsido[h]) : q[i] = obsido[h][i]
  BY <1>1, Appended
<1> HIDE DEF q, r
<1>3. \A n \in Nodes : obsido'[n] = IF n = h THEN q ELSE obsido[n]
  BY <1>1
<1>4. \A i \in 1..Len(q) : home[q[i].client] = h \/ (i \in 1..Len(obsido[h]) /\ q[i] = obsido[h][i])
  <2> TAKE i \in 1..Len(q)
  <2>1. CASE i = Len(obsido[h]) + 1
    BY <1>1, <1>2, <2>1
  <2>2. CASE i \in 1..Len(obsido[h])
    BY <1>2, <2>2
  <2> QED BY <1>2, <2>1, <2>2
<1>5. obsido' \in [Nodes -> Seq(Requests)]
  BY <1>1, <1>2
<1>6. \A n \in Nodes : Len(obsido'[n]) <= ObsidoCapacity
  BY <1>1, <1>2, <1>3
<1>7. \A n \in Nodes : \A i \in 1..Len(obsido'[n]) :
        home[obsido'[n][i].client] = n \/ (i \in 1..Len(obsido[n]) /\ obsido'[n][i] = obsido[n][i])
  BY <1>1, <1>3, <1>4
<1> QED BY <1>5, <1>6, <1>7

LEMMA ClientSteps ==
  ASSUME Types, ClientsFollow, NEW c \in Clients,
         \/ committer_bootstrap(c)
         \/ active_fetch_after(c)
         \/ drain(c)
         \/ RoutineTimeout(c)
  PROVE  ClientGoesOn(c)
<1> DEFINE s == client[c]
<1>types. /\ client \in [Clients -> ClientState] /\ s \in ClientState
          /\ obsido \in [Nodes -> Seq(Requests)]
          /\ \A n \in Nodes : Len(obsido[n]) <= ObsidoCapacity
          /\ MaxEpoch \in Nat /\ MaxFetches \in Nat
  BY DeflAssumption DEF Types
<1>fields. /\ s.epoch_id \in -1..MaxEpoch /\ s.next_epoch_id \in 0..(MaxEpoch + 1)
           /\ s.requests \in Nat /\ s.fetches \in 0..MaxFetches
           /\ s.fetch_queue \in SUBSET (-1..MaxEpoch)
  BY <1>types DEF ClientState
<1>follow. s.epoch_id <= s.next_epoch_id
  BY DEF ClientsFollow
<1>1. CASE committer_bootstrap(c)
  <2> DEFINE u == [s EXCEPT !.pc = "fetch"]
  <2>1. client' = [client EXCEPT ![c] = u]
    BY <1>1 DEF committer_bootstrap
  <2>2. /\ u \in ClientState /\ u.pc = "fetch" /\ u.requests = s.requests
        /\ u.fetch_queue = s.fetch_queue /\ u.epoch_id = s.epoch_id
        /\ u.next_epoch_id = s.next_epoch_id
    BY <1>types DEF ClientState
  <2>3. ObsidoSend(c, "client_register") /\ UNCHANGED <<flight, submitted, log, node>>
    BY <1>1 DEF committer_bootstrap
  <2> HIDE DEF u, s
  <2>4. client' \in [Clients -> ClientState] /\ client'[c] = u
        /\ \A d \in Clients : d # c => client'[d] = client[d]
    BY <1>types, <2>1, <2>2
  <2> QED BY <1>types, <1>follow, <2>2, <2>3, <2>4, ObsidoSent DEF ClientGoesOn, s
<1>2. CASE active_fetch_after(c)
  <2> DEFINE u == [s EXCEPT !.fetched = TRUE, !.fetches = @ + 1]
  <2>1. s.pc = "fetch" /\ s.fetches < MaxFetches
    BY <1>2 DEF active_fetch_after
  <2>2. client' = [client EXCEPT ![c] = u]
    BY <1>2 DEF active_fetch_after
  <2>3. /\ u \in ClientState /\ u.pc = "fetch" /\ u.requests = s.requests
        /\ u.fetch_queue = s.fetch_queue /\ u.epoch_id = s.epoch_id
        /\ u.next_epoch_id = s.next_epoch_id
    <3>1. s.fetches + 1 \in 0..MaxFetches /\ TRUE \in BOOLEAN
      BY <1>types, <1>fields, <2>1
    <3>2. u = [s EXCEPT !.fetched = TRUE, !.fetches = s.fetches + 1]
      OBVIOUS
    <3> HIDE DEF u, s
    <3> QED BY <1>types, <2>1, <3>1, <3>2 DEF ClientState
  <2>4. ObsidoSend(c, "fetch_w_last") /\ UNCHANGED <<flight, submitted, log, node>>
    BY <1>2 DEF active_fetch_after
  <2> HIDE DEF u, s
  <2>5. client' \in [Clients -> ClientState] /\ client'[c] = u
        /\ \A d \in Clients : d # c => client'[d] = client[d]
    BY <1>types, <2>2, <2>3
  <2> QED BY <1>types, <1>follow, <2>3, <2>4, <2>5, ObsidoSent DEF ClientGoesOn, s
<1>same. ASSUME obsido' = obsido
         PROVE  /\ obsido' \in [Nodes -> Seq(Requests)]
                /\ \A n \in Nodes : Len(obsido'[n]) <= ObsidoCapacity
                /\ \A n \in Nodes : \A i \in 1..Len(obsido'[n]) :
                     \/ home[obsido'[n][i].client] = n
                     \/ i \in 1..Len(obsido[n]) /\ obsido'[n][i] = obsido[n][i]
  BY <1>types, <1>same
<1>3. CASE drain(c)
  <2> DEFINE latest == CHOOSE e \in s.fetch_queue : \A d \in s.fetch_queue : d <= e
             drained == [s EXCEPT !.fetch_queue = {}]
             u == IF s.epoch_id > latest THEN Return(drained, s.epoch_id)
                  ELSE [drained EXCEPT !.pc = "train", !.next_epoch_id = latest + 1]
  <2>1. /\ s.fetch_queue # {} /\ client' = [client EXCEPT ![c] = u]
        /\ UNCHANGED <<flight, submitted, log, node, obsido>>
    BY <1>3 DEF drain
  <2>2. latest \in s.fetch_queue /\ latest \in -1..MaxEpoch
    BY <1>fields, <2>1, LatestArrived
  <2> HIDE DEF latest
  <2>3. /\ drained \in ClientState /\ drained.requests = s.requests /\ drained.fetch_queue = {}
        /\ drained.epoch_id = s.epoch_id /\ drained.next_epoch_id = s.next_epoch_id
    BY <1>types DEF ClientState
  <2>4. /\ u \in ClientState /\ u.pc \in {"fetch", "train"} /\ u.requests = s.requests
        /\ u.fetch_queue = {} /\ u.epoch_id = s.epoch_id /\ u.epoch_id <= u.next_epoch_id
        /\ u.next_epoch_id = s.next_epoch_id \/ u.next_epoch_id = latest + 1
    <3> HIDE DEF drained
    <3>1. CASE s.epoch_id > latest
      <4>1. u = Return(drained, s.epoch_id)
        BY <3>1
      <4> HIDE DEF u, s
      <4> QED BY <1>fields, <1>follow, <2>3, <4>1, Returned
    <3>2. CASE ~ (s.epoch_id > latest)
      <4>1. u = [drained EXCEPT !.pc = "train", !.next_epoch_id = latest + 1]
        BY <3>2
      <4>2. latest + 1 \in 0..(MaxEpoch + 1) /\ s.epoch_id <= latest + 1
        BY <1>types, <1>fields, <2>2, <3>2
      <4> HIDE DEF u, s
      <4> QED BY <2>3, <4>1, <4>2 DEF ClientState
    <3> QED BY <3>1, <3>2
  <2> HIDE DEF u, s
  <2>5. client' \in [Clients -> ClientState] /\ client'[c] = u
        /\ \A d \in Clients : d # c => client'[d] = client[d]
    BY <1>types, <2>1, <2>4
  <2>6. \/ client'[c].next_epoch_id = client[c].next_epoch_id
        \/ \E e \in client[c].fetch_queue : client'[c].next_epoch_id = e + 1
    BY <2>2, <2>4, <2>5 DEF s
  <2> QED BY <1>same, <2>1, <2>4, <2>5, <2>6 DEF ClientGoesOn, s
<1>4. CASE RoutineTimeout(c)
  <2> DEFINE v == Return(s, s.epoch_id)
             u == [v EXCEPT !.fetches = 0]
  <2>1. /\ client' = [client EXCEPT ![c] = u]
        /\ UNCHANGED <<flight, submitted, log, node, obsido>>
    BY <1>4 DEF RoutineTimeout
  <2>2. /\ v \in ClientState /\ v.pc = "fetch" /\ v.requests = s.requests
        /\ v.fetch_queue = s.fetch_queue /\ v.epoch_id = s.epoch_id
        /\ v.next_epoch_id = s.next_epoch_id
    BY <1>types, <1>fields, Returned
  <2> HIDE DEF v
  <2>3. /\ u \in ClientState /\ u.pc = "fetch" /\ u.requests = s.requests
        /\ u.fetch_queue = s.fetch_queue /\ u.epoch_id = s.epoch_id
        /\ u.next_epoch_id = s.next_epoch_id
    <3>1. 0 \in 0..MaxFetches
      BY <1>types
    <3> HIDE DEF s
    <3> QED BY <2>2, <3>1 DEF ClientState
  <2> HIDE DEF u, s
  <2>4. client' \in [Clients -> ClientState] /\ client'[c] = u
        /\ \A d \in Clients : d # c => client'[d] = client[d]
    BY <1>types, <2>1, <2>3
  <2> QED BY <1>same, <1>follow, <2>1, <2>3, <2>4 DEF ClientGoesOn, s
<1> QED BY <1>1, <1>2, <1>3, <1>4

LEMMA GoesOnKeeps ==
  ASSUME IInv, NEW c \in Clients, ClientGoesOn(c)
  PROVE  IInv'
<1>types. /\ client \in [Clients -> ClientState] /\ client' \in [Clients -> ClientState]
          /\ submitted \subseteq ClientRequest
          /\ home \in [Clients -> Nodes] /\ node \in [Nodes -> NodeState]
          /\ MaxEpoch \in Nat
  BY DeflAssumption DEF IInv, Types, ClientGoesOn
<1>same. UNCHANGED <<flight, submitted, log, node>>
  BY DEF ClientGoesOn
<1>clients. \A d \in Clients :
              /\ client'[d].requests = client[d].requests
              /\ client'[d].fetch_queue \subseteq client[d].fetch_queue
              /\ client'[d].pc \notin {"fetch", "train"} =>
                   /\ client'[d].pc = client[d].pc
                   /\ client'[d].next_epoch_id = client[d].next_epoch_id
  <2> TAKE d \in Clients
  <2>1. CASE d = c
    BY <2>1 DEF ClientGoesOn
  <2>2. CASE d # c
    BY <2>2 DEF ClientGoesOn
  <2> QED BY <2>1, <2>2
<1>1. Types'
  BY <1>same DEF IInv, Types, ClientGoesOn
<1>2. Bounded'
  BY <1>same, <1>clients DEF IInv, Bounded
<1>3. OwnClients'
  BY <1>same DEF IInv, OwnClients, ClientGoesOn
<1>4. Heard'
  BY <1>same, <1>clients DEF IInv, Heard, WeightsMessages
<1>5. ClientsFollow'
  <2> SUFFICES ASSUME NEW d \in Clients
               PROVE  /\ client'[d].next_epoch_id <= node[home[d]].cur.epoch_id
                      /\ client'[d].epoch_id <= client'[d].next_epoch_id
    BY <1>same DEF ClientsFollow
  <2>1. CASE d # c
    BY <2>1 DEF IInv, ClientsFollow, ClientGoesOn
  <2>2. CASE d = c
    <3>1. \A e \in client[c].fetch_queue : e < node[home[c]].cur.epoch_id
      BY DEF IInv, Heard
    <3>2. /\ client[c].fetch_queue \subseteq -1..MaxEpoch
          /\ node[home[c]].cur.epoch_id \in Int
      BY <1>types DEF ClientState, NodeState, Databank
    <3>3. \A e \in client[c].fetch_queue : e + 1 <= node[home[c]].cur.epoch_id
      BY <1>types, <3>1, <3>2
    <3> QED BY <2>2, <3>3 DEF IInv, ClientsFollow, ClientGoesOn
  <2> QED BY <2>1, <2>2
<1>6. InEpoch' /\ Analyzed' /\ WeightsAnalyzed' /\ WeightsSent' /\ Answered'
  BY <1>same DEF IInv, InEpoch, Analyzed, WeightsAnalyzed, WeightsSent, Answered, WeightsMessages
<1>7. NumberedRequests'
  <2>1. \A r \in submitted : r.client \in Clients
    BY <1>types DEF ClientRequest
  <2> QED BY <1>same, <1>clients, <2>1 DEF IInv, NumberedRequests
<1>8. VotesAfterUpdates'
  BY <1>same, <1>clients DEF IInv, VotesAfterUpdates
<1> QED BY <1>1, <1>2, <1>3, <1>4, <1>5, <1>6, <1>7, <1>8 DEF IInv

-----------------------------------------------------------------------------
(* A client submits a request. *)

LEMMA SubmitKeeps ==
  ASSUME IInv, NEW c \in Clients, update_weights(c) \/ new_epoch_vote(c)
  PROVE  IInv'
<1> DEFINE s == client[c]
           r == [method |-> IF s.pc = "train" THEN "upd_weights" ELSE "new_epoch_vote",
                 client |-> c, n |-> s.requests + 1, epoch |-> s.next_epoch_id]
           pc == IF s.pc = "train" THEN "updating" ELSE "voting"
           u == [s EXCEPT !.pc = pc, !.requests = @ + 1]
<1>types. /\ client \in [Clients -> ClientState] /\ s \in ClientState
          /\ submitted \subseteq ClientRequest /\ log \in Seq(submitted) /\ Len(log) \in Nat
          /\ home \in [Clients -> Nodes] /\ node \in [Nodes -> NodeState]
          /\ flight \subseteq Messages /\ MaxEpoch \in Nat
          /\ obsido \in [Nodes -> Seq(Requests)]
  BY DeflAssumption DEF IInv, Types
<1>fields. s.requests \in Nat /\ s.next_epoch_id \in 0..(MaxEpoch + 1)
  BY <1>types DEF ClientState
<1>1. /\ s.pc \in {"train", "gst"} /\ client' = [client EXCEPT ![c] = u]
      /\ submitted' = submitted \cup {r}
      /\ UNCHANGED <<flight, log, node, obsido, counters>>
  <2>1. CASE update_weights(c)
    <3>1. s.pc = "train" /\ Transmit(c, "upd_weights", "updating")
      BY <2>1 DEF update_weights
    <3> QED BY <3>1 DEF Transmit
  <2>2. CASE new_epoch_vote(c)
    <3>1. s.pc = "gst" /\ Transmit(c, "new_epoch_vote", "voting")
      BY <2>2 DEF new_epoch_vote
    <3> QED BY <3>1 DEF Transmit
  <2> QED BY <2>1, <2>2
<1>2. s.next_epoch_id <= MaxEpoch
  BY DEF IInv, Bounded, update_weights, new_epoch_vote
<1>3. /\ u \in ClientState /\ u.pc = pc /\ u.requests = s.requests + 1
      /\ u.epoch_id = s.epoch_id /\ u.next_epoch_id = s.next_epoch_id
      /\ u.fetch_queue = s.fetch_queue
  <2>1. pc \in {"updating", "voting"} /\ s.requests + 1 \in Nat
    BY <1>fields
  <2>2. u = [s EXCEPT !.pc = pc, !.requests = s.requests + 1]
    OBVIOUS
  <2> HIDE DEF u, s, pc
  <2> QED BY <1>types, <2>1, <2>2 DEF ClientState
<1>4. /\ r \in ClientRequest /\ r.client = c /\ r.n = s.requests + 1 /\ r.epoch = s.next_epoch_id
      /\ pc = "updating" => r.method = "upd_weights"
      /\ pc = "voting" => s.pc = "gst"
      /\ r.method = "new_epoch_vote" => s.pc = "gst"
      /\ pc \in {"updating", "voting"}
  <2>1. s.requests + 1 \in Nat /\ s.next_epoch_id \in Nat
    BY <1>fields
  <2> QED BY <1>1, <2>1 DEF ClientRequest
<1>5. \A d \in Clients : client'[d] = IF d = c THEN u ELSE client[d]
  BY <1>types, <1>1
<1>6. client' \in [Clients -> ClientState]
  <2> HIDE DEF u
  <2> QED BY <1>types, <1>1, <1>3
<1> HIDE DEF u, r, pc
<1>7. \A i \in 1..Len(log) : log[i] \in submitted /\ log[i] \in ClientRequest
  BY <1>types
<1>8. Types'
  <2>1. submitted' \subseteq ClientRequest /\ log' \in Seq(submitted')
    BY <1>types, <1>1, <1>4
  <2> QED BY <1>1, <1>6, <2>1 DEF IInv, Types
<1>9. Bounded'
  <2>1. \A q \in submitted' : q.epoch <= MaxEpoch
    BY <1>1, <1>2, <1>4 DEF IInv, Bounded
  <2>2. \A d \in Clients :
          client'[d].pc \in {"updating", "gst", "voting"} => client'[d].next_epoch_id <= MaxEpoch
    BY <1>2, <1>3, <1>5 DEF IInv, Bounded
  <2> QED BY <1>1, <2>1, <2>2 DEF IInv, Bounded
<1>10. OwnClients'
  BY <1>1 DEF IInv, OwnClients
<1>11. Heard' /\ ClientsFollow'
  <2>1. \A d \in Clients : /\ client'[d].fetch_queue = client[d].fetch_queue
                           /\ client'[d].epoch_id = client[d].epoch_id
                           /\ client'[d].next_epoch_id = client[d].next_epoch_id
    BY <1>3, <1>5
  <2> QED BY <1>1, <2>1 DEF IInv, Heard, ClientsFollow, WeightsMessages
<1>12. Begun(log, s.next_epoch_id, Len(log))
  <2> SUFFICES ASSUME NEW d \in 0..(s.next_epoch_id - 1) PROVE QuorumIn(log, d, Len(log))
    BY DEF Begun
  <2> DEFINE n == home[c]
  <2>1. /\ n \in Nodes /\ node[n].analyzed \in Nat /\ node[n].analyzed <= Len(log)
        /\ node[n].cur.epoch_id \in Int
    BY <1>types DEF IInv, Types, NodeState, Databank
  <2>2. s.next_epoch_id <= node[n].cur.epoch_id
    BY DEF IInv, ClientsFollow
  <2>3. d \in 0..(MaxEpoch + 1) /\ node[n].cur.epoch_id > d
    BY <1>types, <1>fields, <2>1, <2>2
  <2>4. QuorumIn(log, d, node[n].analyzed)
    BY <2>1, <2>3 DEF IInv, Analyzed
  <2> QED BY <1>types, <2>1, <2>4, QuorumKept
<1>13. InEpoch'
  BY <1>1, <1>4, <1>12 DEF IInv, InEpoch
<1>14. Analyzed' /\ WeightsAnalyzed' /\ WeightsSent' /\ Answered'
  BY <1>1 DEF IInv, Analyzed, WeightsAnalyzed, WeightsSent, Answered, WeightsMessages
<1>15. NumberedRequests'
  <2> SUFFICES ASSUME NEW q \in submitted'
               PROVE  /\ q.n >= 1 /\ q.n <= client'[q.client].requests
                      /\ q.n = client'[q.client].requests /\ client'[q.client].pc = "updating"
                           => /\ q.method = "upd_weights"
                              /\ q.epoch = client'[q.client].next_epoch_id
    BY DEF NumberedRequests
  <2>1. CASE q = r
    BY <1>fields, <1>3, <1>4, <1>5, <2>1
  <2>2. CASE q \in submitted
    <3>1. /\ q.client \in Clients /\ q.n \in Nat /\ q.n >= 1 /\ q.n <= client[q.client].requests
          /\ q.n = client[q.client].requests /\ client[q.client].pc = "updating"
               => /\ q.method = "upd_weights"
                  /\ q.epoch = client[q.client].next_epoch_id
      BY <1>types, <2>2 DEF IInv, NumberedRequests, ClientRequest
    <3>2. CASE q.client = c
      BY <1>fields, <1>3, <1>5, <3>1, <3>2
    <3>3. CASE q.client # c
      BY <1>5, <3>1, <3>3
    <3> QED BY <3>2, <3>3
  <2> QED BY <1>1, <2>1, <2>2
<1>16. VotesAfterUpdates'
  <2>1. \A d \in Clients :
          client'[d].pc \in {"gst", "voting"}
            => Updated(log, client'[d].next_epoch_id, d, Len(log))
    <3> TAKE d \in Clients
    <3>1. CASE d = c
      BY <1>3, <1>4, <1>5, <3>1 DEF IInv, VotesAfterUpdates
    <3>2. CASE d # c
      BY <1>5, <3>2 DEF IInv, VotesAfterUpdates
    <3> QED BY <3>1, <3>2
  <2>2. \A q \in submitted' :
          q.method = "new_epoch_vote" => Updated(log, q.epoch, q.client, Len(log))
    BY <1>1, <1>4 DEF IInv, VotesAfterUpdates
  <2> QED BY <1>1, <2>1, <2>2 DEF IInv, VotesAfterUpdates
<1> QED BY <1>8, <1>9, <1>10, <1>11, <1>13, <1>14, <1>15, <1>16 DEF IInv

-----------------------------------------------------------------------------
(* A request is committed. *)

LEMMA CommitKeeps ==
  ASSUME IInv, NEW r \in submitted, Commit(r) \/ CommitAgain(r)
  PROVE  IInv'
<1> DEFINE k == Len(log)
<1>1. log' = Append(log, r) /\ UNCHANGED <<client, flight, submitted, node, obsido>>
  BY DEF Commit, CommitAgain
<1>2. /\ log \in Seq(submitted) /\ k \in Nat /\ Len(log') = k + 1 /\ log'[k + 1] = r
      /\ log' \in Seq(submitted)
      /\ \A i \in 1..k : log'[i] = log[i]
  <2>1. log \in Seq(submitted)
    BY DEF IInv, Types
  <2> QED BY <1>1, <2>1, Appended
<1>types. /\ node \in [Nodes -> NodeState] /\ flight \subseteq Messages
          /\ \A n \in Nodes : node[n].analyzed \in Nat /\ node[n].analyzed <= k
  BY DEF IInv, Types, NodeState
<1> HIDE DEF k
<1>3. \A h \in 0..k : h \in Int /\ h <= k /\ \A i \in 1..h : log[i] = log'[i]
  BY <1>2
<1>4. \A h \in 0..k : \A e :
        /\ Voters(log', e, h) = Voters(log, e, h)
        /\ QuorumIn(log', e, h) <=> QuorumIn(log, e, h)
        /\ Begun(log', e, h) <=> Begun(log, e, h)
        /\ \A c : Updated(log', e, c, h) <=> Updated(log, e, c, h)
  BY <1>3, SamePrefix
<1>5. \A h \in 0..k : \A e, c, w : WeightIs(log', e, h, c, w) <=> WeightIs(log, e, h, c, w)
  BY <1>3, SameWeights
<1>6. k \in 0..k /\ k + 1 \in Int /\ k <= k + 1 /\ k \in Int
      /\ \A i \in 1..(k + 1) : i = k + 1 \/ (i \in 1..k /\ i - 1 \in 0..k)
  BY <1>2
<1>7. \A e : QuorumIn(log, e, k) => QuorumIn(log', e, k + 1)
  BY <1>4, <1>6, QuorumKept
<1>8. Types'
  <2>1. \A n \in Nodes : node[n].analyzed <= k + 1
    BY <1>2, <1>types
  <2> QED BY <1>1, <1>2, <2>1 DEF IInv, Types
<1>9. (Bounded /\ OwnClients /\ Heard /\ ClientsFollow /\ NumberedRequests)'
  BY <1>1 DEF IInv, Bounded, OwnClients, Heard, ClientsFollow, NumberedRequests, WeightsMessages
<1>10. InEpoch'
  <2>1. \A q \in submitted : Begun(log', q.epoch, k + 1)
    BY <1>7 DEF IInv, InEpoch, Begun, k
  <2>2. \A i \in 1..(k + 1) : Begun(log', log'[i].epoch, i - 1)
    <3> TAKE i \in 1..(k + 1)
    <3>1. CASE i = k + 1
      <4>1. Begun(log, r.epoch, k)
        BY DEF IInv, InEpoch, k
      <4>2. i - 1 = k
        BY <1>2, <3>1
      <4> QED BY <1>2, <1>4, <1>6, <3>1, <4>1, <4>2
    <3>2. CASE i \in 1..k
      <4>1. Begun(log, log[i].epoch, i - 1) /\ i - 1 \in 0..k
        BY <1>6, <3>2 DEF IInv, InEpoch, k
      <4> QED BY <1>2, <1>4, <3>2, <4>1
    <3> QED BY <1>6, <3>1, <3>2
  <2> QED BY <1>1, <1>2, <2>1, <2>2 DEF InEpoch
<1>11. Analyzed' /\ WeightsAnalyzed'
  <2>1. \A n \in Nodes : node[n].analyzed \in 0..k
    BY <1>2, <1>types
  <2>2. Analyzed'
    BY <1>1, <1>4, <2>1 DEF IInv, Analyzed
  <2>3. WeightsAnalyzed'
    BY <1>1, <1>5, <2>1 DEF IInv, WeightsAnalyzed
  <2> QED BY <2>2, <2>3
<1>12. WeightsSent'
  <2> SUFFICES ASSUME NEW m \in WeightsMessages
               PROVE  /\ m.r_last_epoch_id >= 0 => QuorumIn(log', m.r_last_epoch_id, k + 1)
                      /\ \A c \in Clients : WeightIs(log', m.r_last_epoch_id, k + 1, c, m.w_last[c])
    BY <1>1, <1>2 DEF WeightsSent, WeightsMessages
  <2> DEFINE e == m.r_last_epoch_id
  <2>1. /\ e >= 0 => QuorumIn(log, e, k)
        /\ \A c \in Clients : WeightIs(log, e, k, c, m.w_last[c])
    BY DEF IInv, WeightsSent, k
  <2>2. e \in Int
    <3>1. m \in Messages /\ m.type = "weights"
      BY <1>types DEF WeightsMessages
    <3> QED BY <3>1, DeflAssumption DEF Messages
  <2>3. ASSUME NEW c \in Clients PROVE ~ Counted(log', e, c, k + 1)
    <3>1. CASE e >= 0
      <4>1. QuorumIn(log', e, k) /\ (k + 1) - 1 = k
        BY <1>2, <1>4, <1>6, <2>1, <3>1
      <4> QED BY <4>1 DEF Counted
    <3>2. CASE ~ (e >= 0)
      <4>1. r \in ClientRequest
        BY DEF IInv, Types
      <4>2. r.epoch \in Nat /\ r.epoch # e
        BY <2>2, <3>2, <4>1 DEF ClientRequest
      <4> QED BY <1>2, <4>2 DEF Counted, UpdateAt
    <3> QED BY <3>1, <3>2
  <2>4. \A j \in (k + 1)..(k + 1) : j = k + 1
    BY <1>2
  <2> HIDE DEF e
  <2>5. \A c \in Clients : WeightIs(log', e, k + 1, c, m.w_last[c])
    BY <1>5, <1>6, <2>1, <2>3, <2>4, WeightStays
  <2> QED BY <1>7, <2>1, <2>5 DEF e
<1>13. Answered'
  BY <1>1, <1>2 DEF IInv, Answered, k
<1>14. VotesAfterUpdates'
  <2>1. \A e, c : Updated(log, e, c, k) => Updated(log', e, c, k + 1)
    BY <1>2 DEF Updated, UpdateAt
  <2>2. \A i \in 1..(k + 1) :
          log'[i].method = "new_epoch_vote" => Updated(log', log'[i].epoch, log'[i].client, i - 1)
    <3> TAKE i \in 1..(k + 1)
    <3>1. CASE i = k + 1
      <4>1. i - 1 = k
        BY <1>2, <3>1
      <4>2. r.method = "new_epoch_vote" => Updated(log, r.epoch, r.client, k)
        BY DEF IInv, VotesAfterUpdates, k
      <4> QED BY <1>2, <1>4, <1>6, <3>1, <4>1, <4>2
    <3>2. CASE i \in 1..k
      <4>1. /\ log[i].method = "new_epoch_vote"
                 => Updated(log, log[i].epoch, log[i].client, i - 1)
            /\ i - 1 \in 0..k
        BY <1>6, <3>2 DEF IInv, VotesAfterUpdates, k
      <4> QED BY <1>2, <1>4, <3>2, <4>1
    <3> QED BY <1>6, <3>1, <3>2
  <2> QED BY <1>1, <1>2, <2>1, <2>2 DEF IInv, VotesAfterUpdates, k
<1> QED BY <1>8, <1>9, <1>10, <1>11, <1>12, <1>13, <1>14 DEF IInv

-----------------------------------------------------------------------------
(* Obsido answers. *)

\* What a node sends to all its clients is about an epoch that is over there.
LEMMA RespondedToAll ==
  ASSUME IInv, NEW n \in Nodes, NEW bank \in Databank, NEW e \in Int, bank.epoch_id < e,
         bank.epoch_id <= MaxEpoch, NEW m \in respond_to_all_client(node[n], bank)
  PROVE  /\ m \in Messages /\ m.type = "weights" /\ home[m.to] = n /\ m.to \in Clients
         /\ m.r_last_epoch_id = bank.epoch_id /\ m.w_last = bank.client_weights
<1>1. PICK c \in node[n].contacts : m = WeightsResponse(c, bank)
  BY DEF respond_to_all_client
<1>2. c \in Clients /\ home[c] = n
  BY DEF IInv, Types, NodeState, OwnClients
<1>3. bank.epoch_id \in -1..MaxEpoch /\ bank.client_weights \in [Clients -> Nat]
  BY DeflAssumption DEF Databank
<1> QED BY <1>1, <1>2, <1>3 DEF WeightsResponse, Messages

\* The last epoch of a node is over in the whole log, or it is before the first;
\* so nothing is counted for it any more.
LEMMA LastIsRight ==
  ASSUME IInv, NEW n \in Nodes
  PROVE  LET e == node[n].last.epoch_id
         IN  /\ e >= 0 => QuorumIn(log, e, Len(log))
             /\ \A c \in Clients : WeightIs(log, e, Len(log), c, node[n].last.client_weights[c])
<1> DEFINE e == node[n].last.epoch_id
           k == node[n].analyzed
           w == node[n].last.client_weights
<1>1. /\ k \in Nat /\ Len(log) \in Nat /\ k <= Len(log)
      /\ node[n].cur.epoch_id \in -1..(MaxEpoch + 1) /\ e = node[n].cur.epoch_id - 1
      /\ MaxEpoch \in Nat
  <2>1. node[n] \in NodeState /\ k <= Len(log) /\ Len(log) \in Nat /\ MaxEpoch \in Nat
    BY DeflAssumption DEF IInv, Types
  <2> QED BY <2>1 DEF IInv, Bounded, NodeState, Databank
<1>2. e >= 0 => QuorumIn(log, e, k)
  <2>1. e >= 0 => e \in 0..(MaxEpoch + 1) /\ node[n].cur.epoch_id > e
    BY <1>1
  <2> QED BY <2>1 DEF IInv, Analyzed
<1>3. \A c \in Clients : WeightIs(log, e, k, c, w[c])
  BY DEF IInv, WeightsAnalyzed
<1>4. \A i \in 1..Len(log) : log[i].epoch \in Nat
  <2>1. log \in Seq(submitted) /\ submitted \subseteq ClientRequest
    BY DEF IInv, Types
  <2>2. \A i \in 1..Len(log) : log[i] \in ClientRequest
    BY <2>1
  <2> QED BY <2>2 DEF ClientRequest
<1>5. e \in Int
  BY <1>1
<1> HIDE DEF e, k, w
<1>6. ASSUME e >= 0 PROVE QuorumIn(log, e, Len(log))
  <2>1. k \in Int /\ Len(log) \in Int /\ k <= Len(log) /\ QuorumIn(log, e, k)
    BY <1>1, <1>2, <1>6
  <2> QED BY <2>1, QuorumKept
<1>7. ASSUME NEW c \in Clients
      PROVE  \A j \in (k + 1)..Len(log) : ~ Counted(log, e, c, j)
  <2> TAKE j \in (k + 1)..Len(log)
  <2>1. j \in Int /\ j > k /\ j \in 1..Len(log)
    BY <1>1
  <2>2. CASE e >= 0
    BY <1>1, <1>2, <2>1, <2>2, NothingCounted
  <2>3. CASE ~ (e >= 0)
    <3>1. log[j].epoch # e
      BY <1>4, <1>5, <2>1, <2>3
    <3> QED BY <3>1 DEF Counted, UpdateAt
  <2> QED BY <2>2, <2>3
<1>8. \A c \in Clients : WeightIs(log, e, Len(log), c, w[c])
  BY <1>1, <1>3, <1>7, WeightStays
<1> QED BY <1>6, <1>8 DEF e, w

LEMMA ObsidoKeeps ==
  ASSUME IInv, NEW n \in Nodes, ObsidoHandler(n)
  PROVE  IInv'
<1> DEFINE s == node[n]
           q == obsido[n]
<1>types. /\ node \in [Nodes -> NodeState] /\ s \in NodeState
          /\ obsido \in [Nodes -> Seq(Requests)] /\ q \in Seq(Requests)
          /\ log \in Seq(submitted) /\ Len(log) \in Nat
          /\ s.cur.epoch_id \in Int /\ s.last \in Databank /\ s.last.epoch_id \in -1..MaxEpoch
          /\ s.analyzed \in Nat /\ s.analyzed <= Len(log)
          /\ MaxEpoch \in Nat
  <2>1. s \in NodeState /\ s.analyzed <= Len(log) /\ MaxEpoch \in Nat
    BY DeflAssumption DEF IInv, Types
  <2>2. s.cur.epoch_id \in -1..(MaxEpoch + 1) /\ s.last.epoch_id \in -1..(MaxEpoch + 1)
    BY <2>1 DEF NodeState, Databank
  <2>3. s.last.epoch_id = s.cur.epoch_id - 1
    BY DEF IInv, Bounded
  <2> QED BY <2>1, <2>2, <2>3 DEF IInv, Types, NodeState
<1>1. /\ q # <<>> /\ obsido' = [obsido EXCEPT ![n] = Tail(q)]
      /\ UNCHANGED <<client, submitted, log, counters>>
  BY DEF ObsidoHandler
<1>2. /\ Head(q) \in Requests /\ Tail(q) \in Seq(Requests) /\ Head(q) = q[1] /\ 1 \in 1..Len(q)
      /\ Len(q) \in Nat /\ Len(Tail(q)) <= Len(q)
      /\ \A i \in 1..Len(Tail(q)) : i + 1 \in 1..Len(q) /\ Tail(q)[i] = q[i + 1]
  BY <1>types, <1>1, Shortened
<1>3. \A h \in Nodes : obsido'[h] = IF h = n THEN Tail(q) ELSE obsido[h]
  BY <1>types, <1>1
<1>4. /\ obsido' \in [Nodes -> Seq(Requests)]
      /\ \A h \in Nodes : Len(obsido'[h]) <= ObsidoCapacity
  <2>1. Len(obsido[n]) <= ObsidoCapacity /\ ObsidoCapacity \in Nat
    BY DeflAssumption DEF IInv, Types
  <2>2. Len(Tail(q)) \in Nat
    BY <1>2
  <2>3. Len(Tail(q)) <= ObsidoCapacity
    BY <1>2, <2>1, <2>2
  <2> QED BY <1>types, <1>1, <1>2, <1>3, <2>3 DEF IInv, Types
<1>5. \A h \in Nodes : \A i \in 1..Len(obsido'[h]) : home[obsido'[h][i].client] = h
  <2> TAKE h \in Nodes
  <2>1. CASE h = n
    <3>1. \A i \in 1..Len(q) : home[q[i].client] = n
      BY DEF IInv, OwnClients
    <3>2. obsido'[h] = Tail(q)
      BY <1>3, <2>1
    <3>3. \A i \in 1..Len(Tail(q)) : home[Tail(q)[i].client] = n
      BY <1>2, <3>1
    <3> QED BY <2>1, <3>2, <3>3
  <2>2. CASE h # n
    BY <1>3, <2>2 DEF IInv, OwnClients
  <2> QED BY <2>1, <2>2
<1>6. Head(q).client \in Clients /\ home[Head(q).client] = n
  BY <1>2 DEF IInv, OwnClients, Requests
<1> DEFINE r == Head(q)
<1>7. CASE r.method = "client_register" /\ node' = [node EXCEPT ![n].contacts = @ \cup {r.client}]
           /\ UNCHANGED flight
  <2> DEFINE t == [s EXCEPT !.contacts = @ \cup {r.client}]
  <2>1. node' = [node EXCEPT ![n] = t]
    BY <1>7
  <2>2. /\ t \in NodeState /\ t.analyzed = s.analyzed /\ t.cur = s.cur /\ t.last = s.last
        /\ t.voted_clients = s.voted_clients /\ t.contacts = s.contacts \cup {r.client}
    BY <1>types, <1>6 DEF NodeState
  <2> HIDE DEF t
  <2>3. \A h \in Nodes : node'[h] = IF h = n THEN t ELSE node[h]
    BY <1>types, <2>1
  <2>4. \A h \in Nodes : /\ node'[h].analyzed = node[h].analyzed /\ node'[h].cur = node[h].cur
                         /\ node'[h].last = node[h].last
                         /\ node'[h].voted_clients = node[h].voted_clients
    BY <2>2, <2>3
  <2>5. node' \in [Nodes -> NodeState]
    BY <1>types, <2>1, <2>2
  <2>6. Types'
    BY <1>1, <1>4, <1>7, <2>4, <2>5 DEF IInv, Types
  <2>7. \A h \in Nodes : \A c \in node'[h].contacts : home[c] = h
    BY <1>6, <2>2, <2>3 DEF IInv, OwnClients
  <2>8. OwnClients'
    BY <1>5, <2>7 DEF OwnClients
  <2>9. Bounded' /\ ClientsFollow'
    <3>1. \A c \in Clients : home[c] \in Nodes
      BY DeflAssumption
    <3> QED BY <1>1, <2>4, <3>1 DEF IInv, Bounded, ClientsFollow
  <2>10. Heard'
    <3>1. \A m \in WeightsMessages : home[m.to] \in Nodes
      BY DeflAssumption DEF IInv, Types, WeightsMessages, Messages
    <3>2. \A c \in Clients : home[c] \in Nodes
      BY DeflAssumption
    <3> QED BY <1>1, <1>7, <2>4, <3>1, <3>2 DEF IInv, Heard, WeightsMessages
  <2>11. (InEpoch /\ WeightsSent /\ NumberedRequests /\ Answered /\ VotesAfterUpdates)'
    BY <1>1, <1>7 DEF IInv, InEpoch, WeightsSent, NumberedRequests, Answered, VotesAfterUpdates,
                      WeightsMessages
  <2>12. Analyzed' /\ WeightsAnalyzed'
    BY <1>1, <2>4 DEF IInv, Analyzed, WeightsAnalyzed
  <2> QED BY <2>6, <2>8, <2>9, <2>10, <2>11, <2>12 DEF IInv
<1>8. CASE r.method = "fetch_w_last" /\ UNCHANGED node
           /\ flight' = flight \cup respond_to_all_client(s, s.last)
  <2>1. ASSUME NEW m \in respond_to_all_client(s, s.last)
        PROVE  /\ m \in Messages /\ m.type = "weights" /\ home[m.to] = n /\ m.to \in Clients
               /\ m.r_last_epoch_id = s.last.epoch_id /\ m.w_last = s.last.client_weights
    <3>1. s.last.epoch_id < s.cur.epoch_id
      BY <1>types DEF IInv, Bounded
    <3>2. s.last.epoch_id <= MaxEpoch
      BY <1>types
    <3> QED BY <1>types, <2>1, <3>1, <3>2, RespondedToAll
  <2>2. Types'
    BY <1>1, <1>4, <1>8, <2>1 DEF IInv, Types
  <2>3. OwnClients'
    BY <1>5, <1>8 DEF IInv, OwnClients
  <2>4. Bounded' /\ ClientsFollow' /\ Analyzed' /\ WeightsAnalyzed'
    BY <1>1, <1>8 DEF IInv, Bounded, ClientsFollow, Analyzed, WeightsAnalyzed
  <2>5. InEpoch' /\ NumberedRequests' /\ VotesAfterUpdates'
    BY <1>1 DEF IInv, InEpoch, NumberedRequests, VotesAfterUpdates
  <2>6. Answered'
    BY <1>1, <1>8, <2>1 DEF IInv, Answered
  <2>7. Heard'
    <3>1. s.last.epoch_id < s.cur.epoch_id
      BY <1>types DEF IInv, Bounded
    <3> QED BY <1>1, <1>8, <2>1, <3>1 DEF IInv, Heard, WeightsMessages
  <2>8. WeightsSent'
    <3> SUFFICES ASSUME NEW m \in flight', m.type = "weights"
                 PROVE  /\ m.r_last_epoch_id >= 0 => QuorumIn(log, m.r_last_epoch_id, Len(log))
                        /\ \A c \in Clients :
                             WeightIs(log, m.r_last_epoch_id, Len(log), c, m.w_last[c])
      BY <1>1 DEF WeightsSent, WeightsMessages
    <3>1. CASE m \in flight
      BY <3>1 DEF IInv, WeightsSent, WeightsMessages
    <3>2. CASE m \in respond_to_all_client(s, s.last)
      <4> DEFINE e == s.last.epoch_id
      <4>1. m.r_last_epoch_id = e /\ m.w_last = s.last.client_weights
        BY <2>1, <3>2
      <4>2. /\ e >= 0 => QuorumIn(log, e, Len(log))
            /\ \A c \in Clients : WeightIs(log, e, Len(log), c, s.last.client_weights[c])
        BY LastIsRight
      <4> QED BY <4>1, <4>2
    <3> QED BY <1>8, <3>1, <3>2
  <2> QED BY <2>2, <2>3, <2>4, <2>5, <2>6, <2>7, <2>8 DEF IInv
<1> QED BY <1>7, <1>8 DEF ObsidoHandler

-----------------------------------------------------------------------------
(* A message arrives at a client. *)

\* What a message can change at its client.
LEMMA Arrived ==
  ASSUME IInv, NEW m \in flight, Deliver(m)
  PROVE  /\ m.to \in Clients
         /\ client' \in [Clients -> ClientState]
         /\ \A d \in Clients : d # m.to => client'[d] = client[d]
         /\ client'[m.to].requests = client[m.to].requests
         /\ client'[m.to].next_epoch_id = client[m.to].next_epoch_id
         /\ client'[m.to].epoch_id \in {client[m.to].epoch_id, client[m.to].next_epoch_id}
         /\ client'[m.to].pc # client[m.to].pc =>
              \/ client'[m.to].pc = "fetch"
              \/ /\ client'[m.to].pc = "gst" /\ client[m.to].pc = "updating"
                 /\ m.type = "response" /\ m.n = client[m.to].requests
         /\ \A e \in client'[m.to].fetch_queue :
              \/ e \in client[m.to].fetch_queue
              \/ m.type = "weights" /\ e = m.r_last_epoch_id
<1> DEFINE c == m.to
           s == client[c]
<1>types. /\ client \in [Clients -> ClientState] /\ m \in Messages /\ MaxEpoch \in Nat
  BY DeflAssumption DEF IInv, Types
<1>1. c \in Clients /\ s \in ClientState /\ s.next_epoch_id \in 0..(MaxEpoch + 1)
  BY <1>types DEF Messages, ClientState
<1>2. CASE m.type = "response"
  <2>1. handle_active(c, m)
    BY <1>2 DEF Deliver
  <2>2. CASE UNCHANGED client
    BY <1>types, <1>1, <2>2
  <2>3. CASE s.pc = "updating" /\ m.n = s.requests
    <3> DEFINE u == [s EXCEPT !.pc = "gst"]
    <3>1. client' = [client EXCEPT ![c] = u]
      BY <2>1, <2>3 DEF handle_active, collect
    <3>2. /\ u \in ClientState /\ u.pc = "gst" /\ u.requests = s.requests
          /\ u.next_epoch_id = s.next_epoch_id /\ u.epoch_id = s.epoch_id
          /\ u.fetch_queue = s.fetch_queue
      <4> HIDE DEF s
      <4> QED BY <1>1 DEF ClientState
    <3> HIDE DEF u
    <3>3. client' \in [Clients -> ClientState] /\ client'[c] = u
          /\ \A d \in Clients : d # c => client'[d] = client[d]
      BY <1>types, <1>1, <3>1, <3>2
    <3> QED BY <1>1, <1>2, <2>3, <3>2, <3>3
  <2>4. CASE s.pc = "voting"
    <3> DEFINE u == Return(s, s.next_epoch_id)
    <3>1. \/ client' = [client EXCEPT ![c] = u]
          \/ UNCHANGED client
      BY <2>1, <2>4 DEF handle_active, collect
    <3>2. s.next_epoch_id \in -1..MaxEpoch
      BY <1>types, <1>1, <2>4 DEF IInv, Bounded
    <3>3. /\ u \in ClientState /\ u.pc = "fetch" /\ u.requests = s.requests
          /\ u.next_epoch_id = s.next_epoch_id /\ u.epoch_id = s.next_epoch_id
          /\ u.fetch_queue = s.fetch_queue
      BY <1>1, <3>2, Returned
    <3> HIDE DEF u
    <3>4. CASE client' = [client EXCEPT ![c] = u]
      <4>1. client' \in [Clients -> ClientState] /\ client'[c] = u
            /\ \A d \in Clients : d # c => client'[d] = client[d]
        BY <1>types, <1>1, <3>3, <3>4
      <4> QED BY <1>1, <3>3, <4>1
    <3> QED BY <2>2, <3>1, <3>4
  <2> QED BY <2>1, <2>2, <2>3, <2>4 DEF handle_active
<1>3. CASE m.type # "response"
  <2>1. m.type = "weights" /\ m.r_last_epoch_id \in -1..MaxEpoch
    BY <1>types, <1>3 DEF Messages
  <2> DEFINE u == [s EXCEPT !.fetch_queue = @ \cup {m.r_last_epoch_id}]
  <2>2. client' = [client EXCEPT ![c] = u]
    BY <1>3 DEF Deliver, handle_passive
  <2>3. /\ u \in ClientState /\ u.pc = s.pc /\ u.requests = s.requests
        /\ u.next_epoch_id = s.next_epoch_id /\ u.epoch_id = s.epoch_id
        /\ u.fetch_queue = s.fetch_queue \cup {m.r_last_epoch_id}
    <3> HIDE DEF s
    <3>1. s.fetch_queue \cup {m.r_last_epoch_id} \in SUBSET (-1..MaxEpoch)
      BY <1>1, <2>1 DEF ClientState
    <3>2. u = [s EXCEPT !.fetch_queue = s.fetch_queue \cup {m.r_last_epoch_id}]
      OBVIOUS
    <3> HIDE DEF u
    <3> QED BY <1>1, <3>1, <3>2 DEF ClientState
  <2> HIDE DEF u
  <2>4. client' \in [Clients -> ClientState] /\ client'[c] = u
        /\ \A d \in Clients : d # c => client'[d] = client[d]
    BY <1>types, <1>1, <2>2, <2>3
  <2> QED BY <1>1, <2>1, <2>3, <2>4
<1> QED BY <1>2, <1>3

LEMMA DeliverKeeps ==
  ASSUME IInv, NEW m \in flight, Deliver(m)
  PROVE  IInv'
<1> DEFINE c == m.to
<1>types. /\ client \in [Clients -> ClientState] /\ c \in Clients
          /\ client[c].epoch_id \in Int /\ client[c].next_epoch_id \in Int
          /\ log \in Seq(submitted) /\ submitted \subseteq ClientRequest
          /\ \A i \in 1..Len(log) : log[i] \in submitted
  <2>1. client \in [Clients -> ClientState] /\ c \in Clients /\ MaxEpoch \in Nat
        /\ log \in Seq(submitted) /\ submitted \subseteq ClientRequest
    BY Arrived, DeflAssumption DEF IInv, Types
  <2>2. client[c].epoch_id \in -1..MaxEpoch /\ client[c].next_epoch_id \in 0..(MaxEpoch + 1)
    BY <2>1 DEF ClientState
  <2> QED BY <2>1, <2>2
<1>1. /\ flight' = flight \ {m} /\ UNCHANGED <<submitted, log, node, obsido>>
      /\ m.type \in {"response", "weights"}
  BY DEF Deliver, IInv, Types, Messages
<1>2. Types'
  BY <1>1, Arrived DEF IInv, Types
<1>clients. \A d \in Clients :
              /\ client'[d].requests = client[d].requests
              /\ client'[d].next_epoch_id = client[d].next_epoch_id
              /\ client'[d].epoch_id \in {client[d].epoch_id, client[d].next_epoch_id}
              /\ client'[d].pc # client[d].pc =>
                   \/ client'[d].pc = "fetch"
                   \/ /\ client'[d].pc = "gst" /\ client[d].pc = "updating" /\ d = c
                      /\ m.type = "response" /\ m.n = client[c].requests
              /\ \A e \in client'[d].fetch_queue :
                   \/ e \in client[d].fetch_queue
                   \/ m.type = "weights" /\ d = c /\ e = m.r_last_epoch_id
  <2> TAKE d \in Clients
  <2>1. CASE d = c
    BY <2>1, Arrived
  <2>2. CASE d # c
    BY <2>2, Arrived
  <2> QED BY <2>1, <2>2
<1>3. Bounded'
  <2>1. \A d \in Clients :
          client'[d].pc \in {"updating", "gst", "voting"} => client'[d].next_epoch_id <= MaxEpoch
    BY <1>clients DEF IInv, Bounded
  <2> QED BY <1>1, <2>1 DEF IInv, Bounded
<1>4. OwnClients' /\ InEpoch' /\ Analyzed' /\ WeightsAnalyzed' /\ WeightsSent' /\ Answered'
  BY <1>1 DEF IInv, OwnClients, InEpoch, Analyzed, WeightsAnalyzed, WeightsSent, Answered,
              WeightsMessages
<1>5. Heard'
  <2>1. m.type = "weights" => m.r_last_epoch_id < node[home[c]].cur.epoch_id
    BY DEF IInv, Heard, WeightsMessages
  <2>2. \A d \in Clients : \A e \in client'[d].fetch_queue : e < node[home[d]].cur.epoch_id
    BY <1>clients, <2>1 DEF IInv, Heard
  <2> QED BY <1>1, <2>2 DEF IInv, Heard, WeightsMessages
<1>6. ClientsFollow'
  <2>1. \A d \in Clients : client'[d].epoch_id <= client'[d].next_epoch_id
    <3> TAKE d \in Clients
    <3>1. CASE d = c
      BY <1>types, <1>clients, <3>1 DEF IInv, ClientsFollow
    <3>2. CASE d # c
      BY <3>2, Arrived DEF IInv, ClientsFollow
    <3> QED BY <3>1, <3>2
  <2> QED BY <1>1, <1>clients, <2>1 DEF IInv, ClientsFollow
<1>7. NumberedRequests'
  <2>1. \A r \in submitted : r.client \in Clients
    BY <1>types DEF ClientRequest
  <2> QED BY <1>1, <1>clients, <2>1 DEF IInv, NumberedRequests
<1>8. VotesAfterUpdates'
  <2>1. ASSUME m.type = "response", m.n = client[c].requests, client[c].pc = "updating"
        PROVE  Updated(log, client[c].next_epoch_id, c, Len(log))
    <3>1. PICK i \in 1..Len(log) : log[i].client = c /\ log[i].n = m.n
      BY <2>1 DEF IInv, Answered
    <3>2. log[i] \in submitted
      BY <1>types
    <3>3. log[i].method = "upd_weights" /\ log[i].epoch = client[c].next_epoch_id
      BY <2>1, <3>1, <3>2 DEF IInv, NumberedRequests
    <3> QED BY <3>1, <3>3 DEF Updated, UpdateAt
  <2>2. \A d \in Clients :
          client'[d].pc \in {"gst", "voting"}
            => Updated(log, client'[d].next_epoch_id, d, Len(log))
    BY <1>clients, <2>1 DEF IInv, VotesAfterUpdates
  <2> QED BY <1>1, <2>2 DEF IInv, VotesAfterUpdates
<1> QED BY <1>2, <1>3, <1>4, <1>5, <1>6, <1>7, <1>8 DEF IInv

-----------------------------------------------------------------------------
(* A node analyses the next request. *)

LEMMA AnalyzedTypes ==
  ASSUME IInv, NEW n \in Nodes, node[n].analyzed < Len(log)
  PROVE  LET s == node[n]
             k == s.analyzed
             r == log[k + 1]
         IN  /\ s \in NodeState /\ k \in Nat /\ Len(log) \in Nat /\ k + 1 <= Len(log)
             /\ r \in submitted /\ r \in ClientRequest
             /\ s.cur \in Databank /\ s.last \in Databank
             /\ s.cur.epoch_id \in 0..(MaxEpoch + 1) /\ s.last.epoch_id = s.cur.epoch_id - 1
             /\ s.cur.client_weights \in [Clients -> Nat]
             /\ r.epoch \in 0..MaxEpoch /\ r.client \in Clients /\ MaxEpoch \in Nat
<1> DEFINE s == node[n]
           k == s.analyzed
           r == log[k + 1]
<1>1. s \in NodeState /\ log \in Seq(submitted) /\ submitted \subseteq ClientRequest
      /\ MaxEpoch \in Nat /\ k < Len(log)
  BY DeflAssumption DEF IInv, Types
<1>2. k \in Nat /\ Len(log) \in Nat /\ s.cur \in Databank /\ s.last \in Databank
  BY <1>1 DEF NodeState
<1>3. k + 1 \in 1..Len(log)
  BY <1>1, <1>2
<1>4. r \in submitted /\ r \in ClientRequest
  BY <1>1, <1>3
<1>5. r.epoch <= MaxEpoch /\ r.epoch \in Nat /\ r.client \in Clients
  BY <1>4 DEF IInv, Bounded, ClientRequest
<1>6. s.cur.epoch_id \in -1..(MaxEpoch + 1) /\ s.cur.client_weights \in [Clients -> Nat]
  BY <1>2 DEF Databank
<1>7. s.cur.epoch_id >= 0 /\ s.last.epoch_id = s.cur.epoch_id - 1
  BY DEF IInv, Bounded
<1>8. s.cur.epoch_id \in 0..(MaxEpoch + 1) /\ r.epoch \in 0..MaxEpoch /\ k + 1 <= Len(log)
  BY <1>1, <1>2, <1>3, <1>5, <1>6, <1>7
<1> QED BY <1>1, <1>2, <1>4, <1>5, <1>6, <1>7, <1>8

LEMMA VotersNext ==
  ASSUME NEW l, NEW e, NEW k \in Nat
  PROVE  Voters(l, e, k + 1) =
           Voters(l, e, k) \cup {c \in Clients : VoteAt(l, e, c, k + 1)}
<1>1. \A i \in 1..(k + 1) : i \in 1..k \/ i = k + 1
  OBVIOUS
<1>2. k + 1 \in 1..(k + 1) /\ \A i \in 1..k : i \in 1..(k + 1)
  OBVIOUS
<1> QED BY <1>1, <1>2 DEF Voters

\* No request is for an epoch that the node has not begun when it comes to it.
LEMMA NoneAhead ==
  ASSUME IInv, NEW n \in Nodes, node[n].analyzed < Len(log),
         NEW i \in 1..(node[n].analyzed + 1)
  PROVE  log[i].epoch <= node[n].cur.epoch_id
<1> DEFINE s == node[n]
           k == s.analyzed
           e == s.cur.epoch_id
<1>1. k \in Nat /\ Len(log) \in Nat /\ k + 1 <= Len(log) /\ e \in 0..(MaxEpoch + 1) /\ MaxEpoch \in Nat
  BY AnalyzedTypes
<1>2. i \in 1..Len(log) /\ i - 1 \in Int /\ i - 1 <= k
  BY <1>1
<1>3. log[i] \in ClientRequest /\ log[i].epoch \in Nat
  <2>1. log \in Seq(submitted) /\ submitted \subseteq ClientRequest
    BY DEF IInv, Types
  <2>2. log[i] \in ClientRequest
    BY <1>2, <2>1
  <2> QED BY <2>2 DEF ClientRequest
<1>4. Begun(log, log[i].epoch, i - 1)
  BY <1>2 DEF IInv, InEpoch
<1>5. ~ QuorumIn(log, e, k)
  BY <1>1 DEF IInv, Analyzed
<1> HIDE DEF k, e
<1>6. ~ QuorumIn(log, e, i - 1)
  <2>1. k \in Int /\ i - 1 \in Int /\ i - 1 <= k
    BY <1>1, <1>2 DEF k
  <2>2. QuorumIn(log, e, i - 1) => QuorumIn(log, e, k)
    BY <2>1, QuorumKept
  <2> QED BY <1>5, <2>2
<1>7. ~ (e \in 0..(log[i].epoch - 1))
  BY <1>4, <1>6 DEF Begun
<1> QED BY <1>1, <1>3, <1>7 DEF e

\* How the node counts the votes.
LEMMA VotesCounted ==
  ASSUME IInv, NEW n \in Nodes, node[n].analyzed < Len(log)
  PROVE  LET s == node[n]
             k == s.analyzed
             r == log[k + 1]
             v == get_responses(s, r)
         IN  /\ v.cur.epoch_id = IF EndsEpoch(s, r) THEN s.cur.epoch_id + 1 ELSE s.cur.epoch_id
             /\ EndsEpoch(s, r) => s.cur.epoch_id <= MaxEpoch /\ QuorumIn(log, s.cur.epoch_id, k + 1)
             /\ v.voted_clients = Voters(log, v.cur.epoch_id, k + 1)
             /\ \A e \in 0..(MaxEpoch + 1) : v.cur.epoch_id > e <=> QuorumIn(log, e, k + 1)
<1> DEFINE s == node[n]
           k == s.analyzed
           r == log[k + 1]
           v == get_responses(s, r)
           E == s.cur.epoch_id
<1>1. /\ s \in NodeState /\ k \in Nat /\ Len(log) \in Nat /\ k + 1 <= Len(log)
      /\ r \in ClientRequest /\ s.cur \in Databank /\ E \in 0..(MaxEpoch + 1)
      /\ r.epoch \in 0..MaxEpoch /\ r.client \in Clients /\ MaxEpoch \in Nat
  BY AnalyzedTypes
<1>2. /\ \A e \in 0..(MaxEpoch + 1) : E > e <=> QuorumIn(log, e, k)
      /\ s.voted_clients = Voters(log, E, k)
  BY DEF IInv, Analyzed
<1>3. \A e : /\ VoteAt(log, e, r.client, k + 1) => Voters(log, e, k + 1) = Voters(log, e, k) \cup {r.client}
             /\ ~ VoteAt(log, e, r.client, k + 1) => Voters(log, e, k + 1) = Voters(log, e, k)
  <2> TAKE e
  <2>1. \A c : VoteAt(log, e, c, k + 1) => c = r.client
    BY DEF VoteAt
  <2>2. Voters(log, e, k + 1) = Voters(log, e, k) \cup {c \in Clients : VoteAt(log, e, c, k + 1)}
    BY <1>1, VotersNext
  <2>3. VoteAt(log, e, r.client, k + 1) => {c \in Clients : VoteAt(log, e, c, k + 1)} = {r.client}
    BY <1>1, <2>1
  <2>4. ~ VoteAt(log, e, r.client, k + 1) => {c \in Clients : VoteAt(log, e, c, k + 1)} = {}
    BY <2>1
  <2> QED BY <2>2, <2>3, <2>4
<1>4. \A e \in Int : e > E => Voters(log, e, k + 1) = {} /\ ~ QuorumIn(log, e, k + 1)
  <2> TAKE e \in Int
  <2>1. \A i \in 1..(k + 1) : log[i].epoch <= E
    BY NoneAhead
  <2>2. ASSUME e > E PROVE \A i \in 1..(k + 1) : log[i].epoch # e
    BY <1>1, <2>1, <2>2
  <2>3. e > E => Voters(log, e, k + 1) = {}
    BY <2>2 DEF Voters, VoteAt
  <2> QED BY <2>3, NoQuorum
<1>5. \A e \in 0..(MaxEpoch + 1) : E > e => QuorumIn(log, e, k + 1)
  <2> HIDE DEF k, E
  <2>1. k \in Int /\ k + 1 \in Int /\ k <= k + 1
    BY <1>1
  <2>2. \A e : QuorumIn(log, e, k) => QuorumIn(log, e, k + 1)
    BY <2>1, QuorumKept
  <2> QED BY <1>2, <2>2
<1>6. VoteAt(log, E, r.client, k + 1) <=> r.method = "new_epoch_vote" /\ r.epoch = E
  BY DEF VoteAt
<1>7. s.cur.epoch_id = E
  OBVIOUS
<1>8. CASE EndsEpoch(s, r)
  <2>1. /\ VoteAt(log, E, r.client, k + 1) /\ r.method = "new_epoch_vote" /\ r.epoch = E
        /\ Cardinality(s.voted_clients \cup {r.client}) >= quorum_size
    BY <1>8 DEF EndsEpoch, VoteAt
  <2>2. QuorumIn(log, E, k + 1)
    BY <1>2, <1>3, <2>1 DEF QuorumIn
  <2>3. v = [s EXCEPT !.last = s.cur, !.cur = DeflDatabank(s.cur.epoch_id + 1, NoWeights),
                      !.voted_clients = {}]
    BY <1>8, <2>1 DEF get_responses, NewEpochVote
  <2>4. v.cur.epoch_id = E + 1 /\ v.voted_clients = {}
    BY <1>1, <2>3 DEF NodeState, DeflDatabank
  <2>5. Voters(log, E + 1, k + 1) = {}
    BY <1>1, <1>4
  <2>6. \A e \in 0..(MaxEpoch + 1) : E + 1 > e <=> QuorumIn(log, e, k + 1)
    <3> TAKE e \in 0..(MaxEpoch + 1)
    <3>1. e < E \/ e = E \/ e > E
      BY <1>1
    <3> QED BY <1>1, <1>4, <1>5, <2>2, <3>1
  <2>7. E <= MaxEpoch
    BY <1>1, <2>1
  <2> QED BY <1>8, <2>2, <2>4, <2>5, <2>6, <2>7
<1>9. CASE ~ EndsEpoch(s, r)
  <2>1. v.cur.epoch_id = E /\ v.voted_clients = Voters(log, E, k + 1)
    <3>1. CASE r.method = "upd_weights"
      <4>1. v = UpdWeights(s, r) /\ ~ VoteAt(log, E, r.client, k + 1)
        BY <3>1 DEF get_responses, VoteAt
      <4>2. v.cur.epoch_id = E /\ v.voted_clients = s.voted_clients
        BY <1>1, <4>1 DEF UpdWeights, NodeState, Databank
      <4> QED BY <1>2, <1>3, <4>1, <4>2
    <3>2. CASE r.method = "new_epoch_vote" /\ r.epoch = E
      <4>1. v = [s EXCEPT !.voted_clients = s.voted_clients \cup {r.client}]
        BY <1>9, <3>2 DEF get_responses, NewEpochVote
      <4>2. v.cur.epoch_id = E /\ v.voted_clients = s.voted_clients \cup {r.client}
        BY <1>1, <4>1 DEF NodeState
      <4> QED BY <1>2, <1>3, <1>6, <3>2, <4>2
    <3>3. CASE r.method = "new_epoch_vote" /\ r.epoch # E
      <4>1. v = s
        BY <1>9, <3>3 DEF get_responses, NewEpochVote
      <4> QED BY <1>2, <1>3, <1>6, <3>3, <4>1
    <3> QED BY <1>1, <3>1, <3>2, <3>3 DEF ClientRequest
  <2>2. ~ QuorumIn(log, E, k + 1)
    <3>1. ~ QuorumIn(log, E, k)
      BY <1>1, <1>2
    <3>2. CASE Voters(log, E, k + 1) = Voters(log, E, k)
      BY <3>1, <3>2 DEF QuorumIn
    <3>3. CASE VoteAt(log, E, r.client, k + 1) /\ r.client \notin Voters(log, E, k)
      <4>1. ~ (Cardinality(s.voted_clients \cup {r.client}) >= quorum_size)
        BY <1>2, <1>6, <1>9, <3>3 DEF EndsEpoch
      <4> QED BY <1>2, <1>3, <3>3, <4>1 DEF QuorumIn
    <3>4. r.client \in Voters(log, E, k) => Voters(log, E, k) \cup {r.client} = Voters(log, E, k)
      OBVIOUS
    <3> QED BY <1>3, <3>2, <3>3, <3>4
  <2>3. \A e \in 0..(MaxEpoch + 1) : E > e <=> QuorumIn(log, e, k + 1)
    <3> TAKE e \in 0..(MaxEpoch + 1)
    <3>1. e < E \/ e = E \/ e > E
      BY <1>1
    <3> QED BY <1>1, <1>4, <1>5, <2>2, <3>1
  <2> QED BY <1>9, <2>1, <2>3
<1> QED BY <1>8, <1>9

\* How the node counts the updates.
LEMMA WeightsCounted ==
  ASSUME IInv, NEW n \in Nodes, node[n].analyzed < Len(log)
  PROVE  LET s == node[n]
             k == s.analyzed
             r == log[k + 1]
             v == get_responses(s, r)
         IN  /\ v \in NodeState /\ v.contacts = s.contacts
             /\ v.last.epoch_id = v.cur.epoch_id - 1
             /\ \A c \in Clients :
                  /\ WeightIs(log, v.cur.epoch_id, k + 1, c, v.cur.client_weights[c])
                  /\ WeightIs(log, v.last.epoch_id, k + 1, c, v.last.client_weights[c])
<1> DEFINE s == node[n]
           k == s.analyzed
           r == log[k + 1]
           v == get_responses(s, r)
           E == s.cur.epoch_id
           w == s.cur.client_weights
<1>1. /\ s \in NodeState /\ k \in Nat /\ Len(log) \in Nat /\ k + 1 <= Len(log)
      /\ r \in ClientRequest /\ s.cur \in Databank /\ s.last \in Databank
      /\ E \in 0..(MaxEpoch + 1) /\ s.last.epoch_id = E - 1 /\ w \in [Clients -> Nat]
      /\ r.epoch \in 0..MaxEpoch /\ r.client \in Clients /\ MaxEpoch \in Nat
      /\ r.method \in {"upd_weights", "new_epoch_vote"} /\ r.n \in Nat
  BY AnalyzedTypes DEF ClientRequest
<1>2. /\ \A e \in 0..(MaxEpoch + 1) : E > e <=> QuorumIn(log, e, k)
      /\ \A c \in Clients : /\ WeightIs(log, E, k, c, w[c])
                            /\ WeightIs(log, E - 1, k, c, s.last.client_weights[c])
  BY <1>1 DEF IInv, Analyzed, WeightsAnalyzed
<1>k. /\ k \in Int /\ k + 1 \in Int /\ k <= k + 1 /\ (k + 1) - 1 = k
      /\ \A j \in (k + 1)..(k + 1) : j = k + 1
      /\ k + 1 \in 1..(k + 1) /\ \A j \in ((k + 1) + 1)..(k + 1) : FALSE
  <2>1. k \in Nat
    BY <1>1
  <2> HIDE DEF k
  <2>2. k \in Int /\ k + 1 \in Int /\ k <= k + 1 /\ (k + 1) - 1 = k
    BY <2>1
  <2>3. \A j \in (k + 1)..(k + 1) : j = k + 1
    BY <2>1
  <2>4. k + 1 \in 1..(k + 1)
    BY <2>1
  <2>5. \A j \in ((k + 1) + 1)..(k + 1) : FALSE
    BY <2>1
  <2> QED BY <2>2, <2>3, <2>4, <2>5
<1>3. ASSUME NEW e, NEW c, NEW x, WeightIs(log, e, k, c, x), ~ Counted(log, e, c, k + 1)
      PROVE  WeightIs(log, e, k + 1, c, x)
  <2> HIDE DEF k
  <2> QED BY <1>3, <1>k, WeightStays
<1>4. \A c : ~ Counted(log, E - 1, c, k + 1)
  <2>1. CASE E - 1 >= 0
    <3>1. QuorumIn(log, E - 1, k)
      BY <1>1, <1>2, <2>1
    <3> QED BY <1>k, <3>1 DEF Counted
  <2>2. CASE ~ (E - 1 >= 0)
    <3>1. r.epoch # E - 1
      BY <1>1, <2>2
    <3> QED BY <3>1 DEF Counted, UpdateAt
  <2> QED BY <2>1, <2>2
<1>5. \A c \in Clients : WeightIs(log, E - 1, k + 1, c, s.last.client_weights[c])
  BY <1>2, <1>3, <1>4
<1>6. ASSUME NEW c \in Clients, ~ UpdateAt(log, E, c, k + 1)
      PROVE  WeightIs(log, E, k + 1, c, w[c])
  BY <1>2, <1>3, <1>6 DEF Counted
<1>7. CASE r.method = "upd_weights" /\ r.epoch = E
  <2> DEFINE x == [w EXCEPT ![r.client] = r.n]
             b == [s.cur EXCEPT !.client_weights = x]
  <2>1. v = [s EXCEPT !.cur = b]
    <3>1. v = [s EXCEPT !.cur.client_weights[r.client] = r.n]
      BY <1>7 DEF get_responses, UpdWeights
    <3> QED BY <3>1
  <2>2. x \in [Clients -> Nat] /\ \A c \in Clients : x[c] = IF c = r.client THEN r.n ELSE w[c]
    BY <1>1
  <2> HIDE DEF x
  <2>3. b \in Databank /\ b.epoch_id = E /\ b.client_weights = x
    BY <1>1, <2>2 DEF Databank
  <2> HIDE DEF b
  <2>4. v \in NodeState /\ v.contacts = s.contacts /\ v.cur = b /\ v.last = s.last
    BY <1>1, <2>1, <2>3 DEF NodeState
  <2>5. WeightIs(log, E, k + 1, r.client, r.n)
    <3>1. ~ QuorumIn(log, E, k)
      BY <1>1, <1>2
    <3>2. Counted(log, E, r.client, k + 1)
      BY <1>7, <1>k, <3>1 DEF Counted, UpdateAt
    <3> QED BY <1>k, <3>2 DEF WeightIs
  <2>6. \A c \in Clients : WeightIs(log, E, k + 1, c, x[c])
    <3> TAKE c \in Clients
    <3>1. CASE c = r.client
      BY <2>2, <2>5, <3>1
    <3>2. CASE c # r.client
      BY <1>6, <2>2, <3>2 DEF UpdateAt
    <3> QED BY <3>1, <3>2
  <2> HIDE DEF v
  <2> QED BY <1>1, <1>5, <2>3, <2>4, <2>6 DEF v
<1>8. CASE r.method = "upd_weights" /\ r.epoch # E
  <2>1. v = s
    BY <1>8 DEF get_responses, UpdWeights
  <2>2. \A c \in Clients : WeightIs(log, E, k + 1, c, w[c])
    BY <1>6, <1>8 DEF UpdateAt
  <2> QED BY <1>1, <1>5, <2>1, <2>2
<1>9. CASE r.method = "new_epoch_vote"
  <2>1. \A c \in Clients : WeightIs(log, E, k + 1, c, w[c])
    BY <1>6, <1>9 DEF UpdateAt
  <2>2. v = NewEpochVote(s, r)
    BY <1>9 DEF get_responses
  <2>3. CASE EndsEpoch(s, r)
    <3> DEFINE b == DeflDatabank(E + 1, NoWeights)
    <3>1. v = [s EXCEPT !.last = s.cur, !.cur = b, !.voted_clients = {}]
      BY <2>2, <2>3 DEF NewEpochVote
    <3>2. E + 1 \in -1..(MaxEpoch + 1)
      <4>1. r.epoch = E
        BY <2>3 DEF EndsEpoch
      <4>2. E \in 0..MaxEpoch /\ MaxEpoch \in Nat
        BY <1>1, <4>1
      <4> HIDE DEF E
      <4> QED BY <4>2
    <3>3. b \in Databank /\ b.epoch_id = E + 1 /\ \A c \in Clients : b.client_weights[c] = 0
      BY <3>2 DEF DeflDatabank, NoWeights, Databank
    <3> HIDE DEF b
    <3>4. v \in NodeState /\ v.contacts = s.contacts /\ v.cur = b /\ v.last = s.cur
      BY <1>1, <3>1, <3>3 DEF NodeState
    <3>5. \A i \in 1..(k + 1) : log[i].epoch # E + 1
      <4>1. \A i \in 1..(k + 1) : log[i].epoch <= E
        BY NoneAhead
      <4> QED BY <1>1, <4>1
    <3>6. \A c \in Clients : WeightIs(log, E + 1, k + 1, c, 0)
      BY <3>5 DEF WeightIs, Counted, UpdateAt
    <3>7. (E + 1) - 1 = E
      BY <1>1
    <3> HIDE DEF v
    <3> QED BY <2>1, <3>3, <3>4, <3>6, <3>7 DEF v
  <2>4. CASE ~ EndsEpoch(s, r)
    <3>1. v \in NodeState /\ v.contacts = s.contacts /\ v.cur = s.cur /\ v.last = s.last
      <4>1. v = s \/ v = [s EXCEPT !.voted_clients = s.voted_clients \cup {r.client}]
        BY <2>2, <2>4 DEF NewEpochVote
      <4> HIDE DEF v, s, r
      <4> QED BY <1>1, <4>1 DEF NodeState
    <3> HIDE DEF v
    <3> QED BY <1>1, <1>5, <2>1, <3>1 DEF v
  <2> QED BY <2>3, <2>4
<1> QED BY <1>1, <1>7, <1>8, <1>9

LEMMA AnalyzeKeeps ==
  ASSUME IInv, NEW n \in Nodes, analyze_transaction(n)
  PROVE  IInv'
<1> DEFINE s == node[n]
           k == s.analyzed
           r == log[k + 1]
           v == get_responses(s, r)
           t == [v EXCEPT !.analyzed = k + 1]
           E == s.cur.epoch_id
           answers == respond_to_client(s, r)
           weights == IF EndsEpoch(s, r) THEN respond_to_all_client(s, s.cur) ELSE {}
<1>1. /\ k < Len(log) /\ node' = [node EXCEPT ![n] = t]
      /\ flight' = flight \cup answers \cup weights
      /\ UNCHANGED <<client, submitted, log, obsido>>
  BY DEF analyze_transaction, counters
<1>2. /\ s \in NodeState /\ k \in Nat /\ Len(log) \in Nat /\ k + 1 <= Len(log)
      /\ r \in ClientRequest /\ s.cur \in Databank
      /\ E \in 0..(MaxEpoch + 1)
      /\ r.client \in Clients /\ r.n \in Nat /\ MaxEpoch \in Nat
      /\ node \in [Nodes -> NodeState] /\ flight \subseteq Messages
  BY <1>1, AnalyzedTypes DEF ClientRequest, IInv, Types
<1>3. /\ v.cur.epoch_id = IF EndsEpoch(s, r) THEN E + 1 ELSE E
      /\ EndsEpoch(s, r) => E <= MaxEpoch /\ QuorumIn(log, E, k + 1)
      /\ v.voted_clients = Voters(log, v.cur.epoch_id, k + 1)
      /\ \A e \in 0..(MaxEpoch + 1) : v.cur.epoch_id > e <=> QuorumIn(log, e, k + 1)
  BY <1>1, VotesCounted
<1>4. /\ v \in NodeState /\ v.contacts = s.contacts
      /\ v.last.epoch_id = v.cur.epoch_id - 1
      /\ \A c \in Clients :
           /\ WeightIs(log, v.cur.epoch_id, k + 1, c, v.cur.client_weights[c])
           /\ WeightIs(log, v.last.epoch_id, k + 1, c, v.last.client_weights[c])
  BY <1>1, WeightsCounted
<1> HIDE DEF v
<1>5. /\ t \in NodeState /\ t.analyzed = k + 1 /\ t.cur = v.cur /\ t.last = v.last
      /\ t.voted_clients = v.voted_clients /\ t.contacts = s.contacts
  <2>1. k + 1 \in Nat
    BY <1>2
  <2> HIDE DEF s, k
  <2> QED BY <1>4, <2>1 DEF NodeState
<1> HIDE DEF t
<1>6. \A h \in Nodes : node'[h] = IF h = n THEN t ELSE node[h]
  BY <1>1, <1>2
<1>7. v.cur.epoch_id >= E /\ v.cur.epoch_id \in Int /\ E \in Int
  BY <1>2, <1>3
<1>8. ASSUME NEW m \in answers
      PROVE  m \in Messages /\ m.type = "response" /\ m.to = r.client /\ m.n = r.n
  BY <1>2 DEF respond_to_client, Response, Messages
<1>9. ASSUME NEW m \in weights
      PROVE  /\ EndsEpoch(s, r)
             /\ m \in Messages /\ m.type = "weights" /\ home[m.to] = n /\ m.to \in Clients
             /\ m.r_last_epoch_id = E /\ m.w_last = s.cur.client_weights
  <2>1. EndsEpoch(s, r) /\ m \in respond_to_all_client(s, s.cur)
    BY <1>9
  <2>2. E < E + 1 /\ E + 1 \in Int /\ E <= MaxEpoch
    BY <1>2, <1>3, <2>1
  <2>3. s.cur \in Databank /\ s.cur.epoch_id < E + 1 /\ s.cur.epoch_id <= MaxEpoch
    BY <1>2, <2>2
  <2> QED BY <2>1, <2>2, <2>3, RespondedToAll
<1> HIDE DEF answers, weights
<1>10. Types'
  <2>1. node' \in [Nodes -> NodeState]
    BY <1>1, <1>2, <1>5
  <2>2. \A h \in Nodes : node'[h].analyzed <= Len(log)
    BY <1>2, <1>5, <1>6 DEF IInv, Types
  <2>3. flight' \subseteq Messages
    BY <1>1, <1>2, <1>8, <1>9
  <2> QED BY <1>1, <2>1, <2>2, <2>3 DEF IInv, Types
<1>11. Bounded'
  <2>1. \A h \in Nodes : node'[h].cur.epoch_id >= 0 /\ node'[h].last.epoch_id = node'[h].cur.epoch_id - 1
    <3> TAKE h \in Nodes
    <3>1. CASE h = n
      <4>1. v.cur.epoch_id >= 0
        BY <1>2, <1>7
      <4> QED BY <1>4, <1>5, <1>6, <3>1, <4>1
    <3>2. CASE h # n
      BY <1>6, <3>2 DEF IInv, Bounded
    <3> QED BY <3>1, <3>2
  <2> QED BY <1>1, <2>1 DEF IInv, Bounded
<1>12. OwnClients'
  <2>1. \A h \in Nodes : node'[h].contacts = node[h].contacts
    BY <1>5, <1>6
  <2> QED BY <1>1, <2>1 DEF IInv, OwnClients
\* What is over stays so.
<1>13. \A h \in Nodes : \A e \in Int :
         e < node[h].cur.epoch_id => e < node'[h].cur.epoch_id
  <2> TAKE h \in Nodes
  <2>1. CASE h = n
    <3>1. node'[h].cur.epoch_id = v.cur.epoch_id
      BY <1>5, <1>6, <2>1
    <3> QED BY <1>7, <2>1, <3>1
  <2>2. CASE h # n
    BY <1>6, <2>2
  <2> QED BY <2>1, <2>2
<1>homes. \A c \in Clients : home[c] \in Nodes
  BY DeflAssumption
<1>14. Heard'
  <2>1. ASSUME NEW m \in flight', m.type = "weights"
        PROVE  m.r_last_epoch_id < node'[home[m.to]].cur.epoch_id
    <3>1. CASE m \in flight
      <4>1. m \in Messages
        BY <1>2, <3>1
      <4>2. m.to \in Clients /\ m.r_last_epoch_id \in Int
        BY <1>2, <2>1, <4>1 DEF Messages
      <4>3. m.r_last_epoch_id < node[home[m.to]].cur.epoch_id
        BY <2>1, <3>1 DEF IInv, Heard, WeightsMessages
      <4> QED BY <1>13, <1>homes, <4>2, <4>3
    <3>2. CASE m \in weights
      <4>1. E < v.cur.epoch_id
        BY <1>3, <1>7, <1>9, <3>2
      <4> QED BY <1>5, <1>6, <1>9, <3>2, <4>1
    <3>3. m \notin answers
      BY <1>8, <2>1
    <3> QED BY <1>1, <3>1, <3>2, <3>3
  <2>2. ASSUME NEW c \in Clients, NEW e \in client[c].fetch_queue
        PROVE  e < node'[home[c]].cur.epoch_id
    <3>1. e \in Int
      <4>1. client[c] \in ClientState
        BY DEF IInv, Types
      <4>2. client[c].fetch_queue \subseteq -1..MaxEpoch
        BY <4>1 DEF ClientState
      <4> QED BY <1>2, <4>2
    <3>2. e < node[home[c]].cur.epoch_id
      BY DEF IInv, Heard
    <3> QED BY <1>13, <1>homes, <3>1, <3>2
  <2> QED BY <1>1, <2>1, <2>2 DEF Heard, WeightsMessages
<1>15. ClientsFollow'
  <2> SUFFICES ASSUME NEW c \in Clients
               PROVE  /\ client[c].next_epoch_id <= node'[home[c]].cur.epoch_id
                      /\ client[c].epoch_id <= client[c].next_epoch_id
    BY <1>1 DEF ClientsFollow
  <2>1. /\ client[c].next_epoch_id <= node[home[c]].cur.epoch_id
        /\ client[c].epoch_id <= client[c].next_epoch_id
    BY DEF IInv, ClientsFollow
  <2>2. client[c].next_epoch_id \in 0..(MaxEpoch + 1)
    <3>1. client[c] \in ClientState
      BY DEF IInv, Types
    <3> QED BY <3>1 DEF ClientState
  <2>3. CASE home[c] = n
    <3>1. node'[home[c]].cur.epoch_id = v.cur.epoch_id /\ node[home[c]].cur.epoch_id = E
      BY <1>5, <1>6, <2>3
    <3> QED BY <1>2, <1>7, <2>1, <2>2, <3>1
  <2>4. CASE home[c] # n
    BY <1>6, <1>homes, <2>1, <2>4
  <2> QED BY <2>3, <2>4
<1>16. InEpoch' /\ NumberedRequests' /\ VotesAfterUpdates'
  BY <1>1 DEF IInv, InEpoch, NumberedRequests, VotesAfterUpdates
<1>17. Analyzed'
  <2> SUFFICES ASSUME NEW h \in Nodes
               PROVE  /\ \A e \in 0..(MaxEpoch + 1) :
                           node'[h].cur.epoch_id > e <=> QuorumIn(log, e, node'[h].analyzed)
                      /\ node'[h].voted_clients
                           = Voters(log, node'[h].cur.epoch_id, node'[h].analyzed)
    BY <1>1 DEF Analyzed
  <2>1. CASE h = n
    BY <1>3, <1>5, <1>6, <2>1
  <2>2. CASE h # n
    BY <1>6, <2>2 DEF IInv, Analyzed
  <2> QED BY <2>1, <2>2
<1>18. WeightsAnalyzed'
  <2> SUFFICES ASSUME NEW h \in Nodes, NEW c \in Clients
               PROVE  /\ WeightIs(log, node'[h].cur.epoch_id, node'[h].analyzed, c,
                                  node'[h].cur.client_weights[c])
                      /\ WeightIs(log, node'[h].last.epoch_id, node'[h].analyzed, c,
                                  node'[h].last.client_weights[c])
    BY <1>1 DEF WeightsAnalyzed
  <2>1. CASE h = n
    BY <1>4, <1>5, <1>6, <2>1
  <2>2. CASE h # n
    BY <1>6, <2>2 DEF IInv, WeightsAnalyzed
  <2> QED BY <2>1, <2>2
<1>19. WeightsSent'
  <2> SUFFICES ASSUME NEW m \in flight', m.type = "weights"
               PROVE  /\ m.r_last_epoch_id >= 0 => QuorumIn(log, m.r_last_epoch_id, Len(log))
                      /\ \A c \in Clients :
                           WeightIs(log, m.r_last_epoch_id, Len(log), c, m.w_last[c])
    BY <1>1 DEF WeightsSent, WeightsMessages
  <2>1. CASE m \in flight
    BY <2>1 DEF IInv, WeightsSent, WeightsMessages
  <2>2. CASE m \in weights
    <3>1. EndsEpoch(s, r) /\ m.r_last_epoch_id = E /\ m.w_last = s.cur.client_weights
      BY <1>9, <2>2
    <3>2. QuorumIn(log, E, k + 1) /\ r.method = "new_epoch_vote"
      BY <1>3, <3>1 DEF EndsEpoch
    <3>3. k \in Int /\ k + 1 \in Int /\ Len(log) \in Int /\ k <= Len(log) /\ k + 1 <= Len(log)
      BY <1>2
    <3>4. \A c \in Clients : WeightIs(log, E, k, c, s.cur.client_weights[c])
      BY DEF IInv, WeightsAnalyzed
    <3>5. \A c : ~ Counted(log, E, c, k + 1)
      BY <3>2 DEF Counted, UpdateAt
    <3> HIDE DEF k, E
    <3>6. \A c : \A j \in (k + 1)..Len(log) : ~ Counted(log, E, c, j)
      <4> TAKE c
      <4> TAKE j \in (k + 1)..Len(log)
      <4>1. j \in Int /\ (j = k + 1 \/ j > k + 1)
        BY <3>3
      <4>2. j > k + 1 => ~ Counted(log, E, c, j)
        BY <3>2, <3>3, <4>1, NothingCounted
      <4> QED BY <3>5, <4>1, <4>2
    <3>7. QuorumIn(log, E, Len(log))
      BY <3>2, <3>3, QuorumKept
    <3>8. \A c \in Clients : WeightIs(log, E, Len(log), c, s.cur.client_weights[c])
      BY <3>3, <3>4, <3>6, WeightStays
    <3> QED BY <3>1, <3>7, <3>8
  <2>3. m \notin answers
    BY <1>8
  <2> QED BY <1>1, <2>1, <2>2, <2>3
<1>20. Answered'
  <2> SUFFICES ASSUME NEW m \in flight', m.type = "response"
               PROVE  \E i \in 1..Len(log) : log[i].client = m.to /\ log[i].n = m.n
    BY <1>1 DEF Answered
  <2>1. CASE m \in flight
    BY <2>1 DEF IInv, Answered
  <2>2. CASE m \in answers
    <3>1. k + 1 \in 1..Len(log)
      BY <1>2
    <3> QED BY <1>8, <2>2, <3>1
  <2>3. m \notin weights
    BY <1>9
  <2> QED BY <1>1, <2>1, <2>2, <2>3
<1> QED BY <1>10, <1>11, <1>12, <1>14, <1>15, <1>16, <1>17, <1>18, <1>19, <1>20 DEF IInv

-----------------------------------------------------------------------------
(* The theorems. *)

LEMMA InitInv == Init => IInv
<1> SUFFICES ASSUME Init PROVE IInv
  OBVIOUS
<1>1. /\ log = <<>> /\ Len(log) = 0 /\ submitted = {} /\ flight = {} /\ WeightsMessages = {}
      /\ \A i \in 1..0 : FALSE
  BY DEF Init, WeightsMessages
<1>2. \A n \in Nodes :
        /\ node[n].analyzed = 0 /\ node[n].voted_clients = {} /\ node[n].contacts = {}
        /\ node[n].cur.epoch_id = 0 /\ node[n].last.epoch_id = -1
        /\ \A c \in Clients : /\ node[n].cur.client_weights[c] = 0
                              /\ node[n].last.client_weights[c] = 0
        /\ obsido[n] = <<>>
  BY DEF Init, DeflDatabank, NoWeights
<1>3. \A c \in Clients :
        client[c].pc = "start" /\ client[c].epoch_id = -1 /\ client[c].next_epoch_id = 0
          /\ client[c].fetch_queue = {}
  BY DEF Init
<1>4. \A e : Voters(log, e, 0) = {} /\ ~ QuorumIn(log, e, 0)
  <2>1. \A e : Voters(log, e, 0) = {}
    BY <1>1 DEF Voters
  <2> QED BY <2>1, NoQuorum
<1>5. \A e, c : WeightIs(log, e, 0, c, 0)
  BY <1>1 DEF WeightIs
<1>6. Types /\ Bounded
  BY <1>1, <1>2, <1>3, InitTypes DEF Bounded
<1>7. OwnClients
  BY <1>1, <1>2 DEF OwnClients
<1>8. Heard /\ ClientsFollow
  BY <1>1, <1>2, <1>3, DeflAssumption DEF Heard, ClientsFollow
<1>9. InEpoch /\ NumberedRequests /\ VotesAfterUpdates
  BY <1>1, <1>3 DEF InEpoch, NumberedRequests, VotesAfterUpdates
<1>10. WeightsSent /\ Answered
  BY <1>1 DEF WeightsSent, Answered
<1>11. Analyzed
  <2> SUFFICES ASSUME NEW n \in Nodes
               PROVE  /\ \A e \in 0..(MaxEpoch + 1) :
                           node[n].cur.epoch_id > e <=> QuorumIn(log, e, node[n].analyzed)
                      /\ node[n].voted_clients
                           = Voters(log, node[n].cur.epoch_id, node[n].analyzed)
    BY DEF Analyzed
  <2>1. /\ node[n].cur.epoch_id = 0 /\ node[n].analyzed = 0
        /\ node[n].voted_clients = {}
    BY <1>2
  <2>2. ASSUME NEW e \in 0..(MaxEpoch + 1)
        PROVE  node[n].cur.epoch_id > e <=> QuorumIn(log, e, node[n].analyzed)
    <3>1. ~ (0 > e)
      BY DeflAssumption
    <3> QED BY <1>4, <2>1, <3>1
  <2> QED BY <1>4, <2>1, <2>2
<1>12. WeightsAnalyzed
  BY <1>2, <1>5 DEF WeightsAnalyzed
<1> QED BY <1>6, <1>7, <1>8, <1>9, <1>10, <1>11, <1>12 DEF IInv

LEMMA NextKeeps == IInv /\ [Next]_vars => IInv'
<1> SUFFICES ASSUME IInv, [Next]_vars PROVE IInv'
  OBVIOUS
<1>1. ASSUME NEW c \in Clients,
             committer_bootstrap(c) \/ active_fetch_after(c) \/ drain(c) \/ RoutineTimeout(c)
      PROVE  IInv'
  <2>1. ClientGoesOn(c)
    BY <1>1, ClientSteps DEF IInv
  <2> QED BY <2>1, GoesOnKeeps
<1>2. CASE UNCHANGED vars
  BY <1>2 DEF vars, IInv, Types, Bounded, OwnClients, Heard, ClientsFollow, InEpoch, Analyzed,
              WeightsAnalyzed, WeightsSent, WeightsMessages, NumberedRequests, Answered,
              VotesAfterUpdates
<1> QED BY <1>1, <1>2, SubmitKeeps, AnalyzeKeeps, ObsidoKeeps, CommitKeeps, DeliverKeeps DEF Next

\* The inductive invariant: what a node has counted is what the requests it has
\* analysed say (get_responses, node.rs:118-208), and what a client believes is
\* what its node has told it (client.py:154-221).
THEOREM DeflInvariant == Spec => []IInv
BY InitInv, NextKeeps, PTL DEF Spec

\* The nodes, the channels and the clients keep their types: no epoch is passed
\* that clients did not train for, and Obsido's channel stays within its capacity.
THEOREM DeflTypes == Spec => []TypeOK
<1>1. IInv => TypeOK
  BY TypesImply DEF IInv
<1> QED BY <1>1, DeflInvariant, PTL

\* Each node has left exactly the epochs for which a quorum of distinct clients
\* voted in the requests it has analysed: votes that come twice, late or while
\* another node lags behind neither end an epoch early nor keep it open
\* (node.rs:148-193).
THEOREM EpochsEnd == Spec => []EpochsEndByQuorum
<1>1. IInv => EpochsEndByQuorum
  <2>1. \A n : \A e : VotersFor(e, n) = Voters(log, e, node[n].analyzed)
    BY DEF VotersFor, Voters, VoteAt
  <2> QED BY <2>1 DEF IInv, Analyzed, EpochsEndByQuorum, QuorumIn
<1> QED BY <1>1, DeflInvariant, PTL

\* A client never trains for an epoch that its node has not begun, nor takes one
\* for done that it has not trained for (client.py:154-169, 200-221).
THEOREM ClientsAreLed == Spec => []ClientsFollow
<1>1. IInv => ClientsFollow
  BY DEF IInv
<1> QED BY <1>1, DeflInvariant, PTL

\* The aggregate of an epoch that is over is the same at every node and in every
\* message of a node or of Obsido: it depends on the order of the log only
\* (node.rs:172-186, obsido/src/lib.rs:94).
THEOREM WeightsAreAgreed == Spec => []WeightsAgree
<1>1. IInv => WeightsAgree
  <2> SUFFICES ASSUME IInv, NEW a \in EpochWeights, NEW b \in EpochWeights, a[1] = b[1]
               PROVE  a = b
    BY DEF WeightsAgree
  <2>1. ASSUME NEW x \in EpochWeights
        PROVE  \E w \in [Clients -> Nat] :
                 x = <<x[1], w>> /\ \A c \in Clients : WeightIs(log, x[1], Len(log), c, w[c])
    <3>1. CASE \E n \in Nodes : x = <<node[n].last.epoch_id, node[n].last.client_weights>>
      <4>1. PICK n \in Nodes : x = <<node[n].last.epoch_id, node[n].last.client_weights>>
        BY <3>1
      <4>2. node[n].last.client_weights \in [Clients -> Nat]
        <5>1. node[n] \in NodeState
          BY DEF IInv, Types
        <5>2. node[n].last \in Databank
          BY <5>1 DEF NodeState
        <5> QED BY <5>2 DEF Databank
      <4>3. \A c \in Clients : WeightIs(log, node[n].last.epoch_id, Len(log), c,
                                        node[n].last.client_weights[c])
        BY LastIsRight
      <4> QED BY <4>1, <4>2, <4>3
    <3>2. CASE \E m \in WeightsMessages : x = <<m.r_last_epoch_id, m.w_last>>
      <4>1. PICK m \in WeightsMessages : x = <<m.r_last_epoch_id, m.w_last>>
        BY <3>2
      <4>2. m \in Messages /\ m.type = "weights"
        BY DEF WeightsMessages, IInv, Types
      <4>3. m.w_last \in [Clients -> Nat]
        BY <4>2 DEF Messages
      <4>4. \A c \in Clients : WeightIs(log, m.r_last_epoch_id, Len(log), c, m.w_last[c])
        BY DEF IInv, WeightsSent
      <4> QED BY <4>1, <4>3, <4>4
    <3> QED BY <2>1, <3>1, <3>2 DEF EpochWeights, WeightsMessages
  <2>2. PICK w \in [Clients -> Nat] :
          a = <<a[1], w>> /\ \A c \in Clients : WeightIs(log, a[1], Len(log), c, w[c])
    BY <2>1
  <2>3. PICK v \in [Clients -> Nat] :
          b = <<b[1], v>> /\ \A c \in Clients : WeightIs(log, b[1], Len(log), c, v[c])
    BY <2>1
  <2>4. Len(log) \in Int
    <3>1. log \in Seq(submitted)
      BY DEF IInv, Types
    <3> QED BY <3>1
  <2>5. \A c \in Clients : w[c] = v[c]
    BY <2>2, <2>3, <2>4, OneWeight
  <2>6. w = v
    BY <2>5
  <2> QED BY <2>2, <2>3, <2>6
<1> QED BY <1>1, DeflInvariant, PTL

\* Client c has voted in the epoch, which the first k requests do not end: then
\* its weights are counted.
LEMMA VoterHasUpdate ==
  ASSUME IInv, NEW e, NEW k \in Nat, k <= Len(log), NEW c \in Voters(log, e, k)
  PROVE  \E j \in 1..(k - 1) : UpdateAt(log, e, c, j)
<1>1. Len(log) \in Nat
  <2>1. log \in Seq(submitted)
    BY DEF IInv, Types
  <2> QED BY <2>1
<1>2. PICK i \in 1..k : VoteAt(log, e, c, i)
  BY DEF Voters
<1>3. i \in 1..Len(log)
  BY <1>1
<1>4. Updated(log, e, c, i - 1)
  BY <1>2, <1>3 DEF IInv, VotesAfterUpdates, VoteAt
<1>5. \A j \in 1..(i - 1) : j \in 1..(k - 1)
  BY <1>1
<1> QED BY <1>4, <1>5 DEF Updated

\* A counted update makes the weight a number of a request, which is not 0.
LEMMA CountedWeight ==
  ASSUME IInv, NEW e, NEW k \in Nat, k <= Len(log), NEW c \in Clients, NEW w,
         WeightIs(log, e, k, c, w), NEW j \in 1..k, Counted(log, e, c, j)
  PROVE  w # 0
<1>1. PICK i \in 1..k : log[i].n = w
  BY DEF WeightIs
<1>2. log[i] \in submitted /\ log[i] \in ClientRequest
  <2>1. log \in Seq(submitted) /\ submitted \subseteq ClientRequest
    BY DEF IInv, Types
  <2>2. i \in 1..Len(log)
    BY <2>1
  <2> QED BY <2>1, <2>2
<1>3. log[i].n >= 1 /\ log[i].n \in Nat
  BY <1>2 DEF IInv, NumberedRequests, ClientRequest
<1> QED BY <1>1, <1>3

\* Every voter of the current epoch has weights in it, and the last epoch ended
\* with the weights of at least a quorum of clients (client.py:198-217).
THEOREM VotersAreWeighed == Spec => []VotersHaveWeights
<1>1. IInv => VotersHaveWeights
  <2> SUFFICES ASSUME IInv, NEW n \in Nodes
               PROVE  /\ \A c \in node[n].voted_clients : node[n].cur.client_weights[c] # 0
                      /\ node[n].last.epoch_id >= 0 =>
                           Cardinality({c \in Clients : node[n].last.client_weights[c] # 0})
                             >= quorum_size
    BY DEF VotersHaveWeights
  <2> DEFINE k == node[n].analyzed
             E == node[n].cur.epoch_id
             L == node[n].last.epoch_id
  <2>1. /\ k \in Nat /\ Len(log) \in Nat /\ k <= Len(log) /\ MaxEpoch \in Nat
        /\ E \in 0..(MaxEpoch + 1) /\ L = E - 1
    <3>1. node[n] \in NodeState /\ log \in Seq(submitted) /\ k <= Len(log) /\ MaxEpoch \in Nat
      BY DeflAssumption DEF IInv, Types
    <3>2. k \in Nat /\ Len(log) \in Nat /\ E \in -1..(MaxEpoch + 1)
      BY <3>1 DEF NodeState, Databank
    <3>3. E >= 0 /\ L = E - 1
      BY DEF IInv, Bounded
    <3> QED BY <3>1, <3>2, <3>3
  <2>2. /\ node[n].voted_clients = Voters(log, E, k)
        /\ \A e \in 0..(MaxEpoch + 1) : E > e <=> QuorumIn(log, e, k)
    BY DEF IInv, Analyzed
  <2>3. \A c \in Clients : /\ WeightIs(log, E, k, c, node[n].cur.client_weights[c])
                           /\ WeightIs(log, L, k, c, node[n].last.client_weights[c])
    BY DEF IInv, WeightsAnalyzed
  <2> HIDE DEF k, E, L
  \* Before an epoch is over, the updates of its voters count.
  <2>4. ASSUME NEW e, NEW h \in Nat, h <= k, ~ QuorumIn(log, e, h - 1), NEW c \in Voters(log, e, h),
               NEW w, WeightIs(log, e, k, c, w)
        PROVE  w # 0
    <3>1. c \in Clients
      BY DEF Voters
    <3>2. PICK j \in 1..(h - 1) : UpdateAt(log, e, c, j)
      BY <2>1, <2>4, VoterHasUpdate
    <3>3. j \in 1..k /\ j - 1 \in Int /\ h - 1 \in Int /\ j - 1 <= h - 1
      BY <2>1, <2>4
    <3>4. Counted(log, e, c, j)
      BY <2>4, <3>2, <3>3, QuorumKept DEF Counted
    <3> QED BY <2>1, <2>4, <3>1, <3>3, <3>4, CountedWeight
  <2>5. \A c \in node[n].voted_clients : node[n].cur.client_weights[c] # 0
    <3>1. ~ QuorumIn(log, E, k)
      BY <2>1, <2>2
    <3>2. k \in Int /\ k - 1 \in Int /\ k - 1 <= k
      BY <2>1
    <3>3. ~ QuorumIn(log, E, k - 1)
      BY <3>1, <3>2, QuorumKept
    <3>4. \A c \in Voters(log, E, k) : c \in Clients
      BY DEF Voters
    <3> QED BY <2>1, <2>2, <2>3, <2>4, <3>3, <3>4
  <2>6. ASSUME L >= 0
        PROVE  Cardinality({c \in Clients : node[n].last.client_weights[c] # 0}) >= quorum_size
    <3> DEFINE S == {h \in 0..k : QuorumIn(log, L, h)}
               W == {c \in Clients : node[n].last.client_weights[c] # 0}
    <3>1. S \subseteq Nat /\ k \in S
      <4>1. L \in 0..(MaxEpoch + 1) /\ E > L
        BY <2>1, <2>6
      <4>2. QuorumIn(log, L, k)
        BY <2>2, <4>1
      <4> QED BY <2>1, <4>2
    <3>2. PICK h \in S : \A g \in S : h <= g
      <4> HIDE DEF S
      <4> QED BY <3>1, SmallestNat
    <3>3. h \in Nat /\ h <= k /\ QuorumIn(log, L, h)
      BY <2>1
    <3>4. h # 0
      <4>1. Voters(log, L, 0) = {}
        BY DEF Voters
      <4> QED BY <3>3, <4>1, NoQuorum
    <3>5. ~ QuorumIn(log, L, h - 1)
      <4>1. h - 1 \in 0..k /\ ~ (h <= h - 1)
        BY <2>1, <3>3, <3>4
      <4> QED BY <3>2, <4>1
    <3>6. \A c \in Voters(log, L, h) : c \in W
      <4> TAKE c \in Voters(log, L, h)
      <4>1. c \in Clients
        BY DEF Voters
      <4>2. node[n].last.client_weights[c] # 0
        BY <2>3, <2>4, <3>3, <3>5, <4>1
      <4> QED BY <4>1, <4>2
    <3>7. /\ IsFiniteSet(W) /\ Cardinality(W) \in Nat
          /\ Cardinality(Voters(log, L, h)) \in Nat
      <4>1. W \subseteq Clients /\ Voters(log, L, h) \subseteq Clients
        BY DEF Voters
      <4> HIDE DEF W
      <4> QED BY <4>1, ClientsFinite
    <3> HIDE DEF W
    <3>8. Cardinality(Voters(log, L, h)) <= Cardinality(W)
      BY <3>6, <3>7, FS_Subset
    <3>9. quorum_size \in Nat
      BY DeflAssumption, ClientsFinite
    <3> QED BY <3>3, <3>7, <3>8, <3>9 DEF QuorumIn, W
  <2> QED BY <2>5, <2>6 DEF L
<1> QED BY <1>1, DeflInvariant, PTL
=============================================================================
