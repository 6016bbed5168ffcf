------------------------------ MODULE DeflNode ------------------------------
(***************************************************************************)
(* The federated learning on top of the consensus: the epochs that the     *)
(* nodes keep (node/src/node.rs), the Obsido service of each node          *)
(* (obsido/src/lib.rs), the answers to the clients (proto/src/defl_sender  *)
(* .rs) and the loop of a client (benchmark/client.py).                    *)
(*                                                                         *)
(* The transactions are committed in one order, log.  The weights a client *)
(* trains are told apart by the number of the request that carries them.   *)
(***************************************************************************)
EXTENDS Integers, Sequences, FiniteSets

CONSTANTS
    Nodes, Clients,
    home,           \* the node each client is connected to
    quorum_size,    \* the votes that end an epoch
    ObsidoCapacity, \* capacity of the channel of Obsido (1000 in the code)
    MaxEpoch,       \* bound: clients do not train for a later epoch
    MaxFetches,     \* bound: times a client fetches, not counting from before a timeout
    MaxTimeouts,    \* bound: routines of clients that time out
    MaxDuplicates   \* bound: transactions that are committed again

ASSUME DeflAssumption ==
    /\ IsFiniteSet(Nodes) /\ IsFiniteSet(Clients)
    /\ home \in [Clients -> Nodes]
    /\ quorum_size \in 1..Cardinality(Clients)
    /\ ObsidoCapacity \in Nat \ {0}
    /\ {MaxEpoch, MaxFetches, MaxTimeouts, MaxDuplicates} \subseteq Nat

VARIABLES
    client,     \* what each client keeps
    flight,     \* messages of the nodes on their way to clients
    submitted,  \* requests that mempools have accepted
    log,        \* requests as they are committed
    node,       \* what each node keeps
    obsido,     \* the channel (tx_filter) of each Obsido
    timeouts, duplicates    \* how many there have been

vars == <<client, flight, submitted, log, node, obsido, timeouts, duplicates>>
counters == <<timeouts, duplicates>>

NoWeights == [c \in Clients |-> 0]      \* an empty client_weights

DeflDatabank(e, w) == [epoch_id |-> e, client_weights |-> w]

\* An update or a vote.  The uuid is the client and the number n.
ClientRequest == [method : {"upd_weights", "new_epoch_vote"}, client : Clients,
                  n : Nat, epoch : Nat]

Init ==
    /\ client = [c \in Clients |->
                    [pc |-> "start", epoch_id |-> -1, next_epoch_id |-> 0, requests |-> 0,
                     fetched |-> FALSE, fetches |-> 0, fetch_queue |-> {}, looping |-> FALSE]]
    /\ flight = {} /\ submitted = {} /\ log = <<>>
    /\ node = [n \in Nodes |->
                    [analyzed |-> 0, cur |-> DeflDatabank(0, NoWeights),
                     last |-> DeflDatabank(-1, NoWeights), voted_clients |-> {}, contacts |-> {}]]
    /\ obsido = [n \in Nodes |-> <<>>]
    /\ timeouts = 0 /\ duplicates = 0

-----------------------------------------------------------------------------
(* The messages to clients.                                                *)

Response(c, n) == [type |-> "response", to |-> c, n |-> n]

\* Mutant: the epoch is read after it has been increased.
WeightsResponse_next(c, bank) ==
    [type |-> "weights", to |-> c,
     r_last_epoch_id |-> bank.epoch_id + 1, w_last |-> bank.client_weights]

WeightsResponse(c, bank) ==
    [type |-> "weights", to |-> c,
     r_last_epoch_id |-> bank.epoch_id, w_last |-> bank.client_weights]

\* Only a client that has registered with this node is answered.
respond_to_client(s, r) == {Response(c, r.n) : c \in s.contacts \cap {r.client}}

respond_to_all_client(s, bank) == {WeightsResponse(c, bank) : c \in s.contacts}

-----------------------------------------------------------------------------
(* A node analyses the transactions of the blocks that are committed.      *)

UpdWeights(s, r) ==
    IF r.epoch = s.cur.epoch_id
    THEN [s EXCEPT !.cur.client_weights[r.client] = r.n]
    ELSE s

\* Mutant: a vote for any epoch counts.
EndsEpoch_any_epoch(s, r) ==
    /\ r.method = "new_epoch_vote"
    /\ r.client \notin s.voted_clients
    /\ Cardinality(s.voted_clients \cup {r.client}) >= quorum_size

\* The vote that completes the quorum ends the epoch.
EndsEpoch(s, r) ==
    /\ r.method = "new_epoch_vote"
    /\ r.epoch = s.cur.epoch_id
    /\ r.client \notin s.voted_clients
    /\ Cardinality(s.voted_clients \cup {r.client}) >= quorum_size

\* Mutant: the votes are kept when the epoch ends.
NewEpochVote_keeps_votes(s, r) ==
    IF EndsEpoch(s, r)
    THEN [s EXCEPT !.last = s.cur, !.cur = DeflDatabank(s.cur.epoch_id + 1, NoWeights)]
    ELSE IF r.epoch = s.cur.epoch_id
         THEN [s EXCEPT !.voted_clients = @ \cup {r.client}]
         ELSE s

\* Mutant: the weights are cleared before the databank is copied.
NewEpochVote_clears_first(s, r) ==
    IF EndsEpoch(s, r)
    THEN [s EXCEPT !.last = DeflDatabank(s.cur.epoch_id, NoWeights),
                   !.cur = DeflDatabank(s.cur.epoch_id + 1, NoWeights),
                   !.voted_clients = {}]
    ELSE IF r.epoch = s.cur.epoch_id
         THEN [s EXCEPT !.voted_clients = @ \cup {r.client}]
         ELSE s

NewEpochVote(s, r) ==
    IF EndsEpoch(s, r)
    THEN [s EXCEPT !.last = s.cur,
                   !.cur = DeflDatabank(s.cur.epoch_id + 1, NoWeights),
                   !.voted_clients = {}]
    ELSE IF r.epoch = s.cur.epoch_id
         THEN [s EXCEPT !.voted_clients = @ \cup {r.client}]
         ELSE s

get_responses(s, r) ==
    IF r.method = "upd_weights" THEN UpdWeights(s, r) ELSE NewEpochVote(s, r)

\* The request is answered, and with the end of an epoch every client is sent
\* the weights of that epoch.
analyze_transaction(n) ==
    LET s == node[n]
        r == log[s.analyzed + 1]
    IN  /\ s.analyzed < Len(log)
        /\ node' = [node EXCEPT ![n] = [get_responses(s, r) EXCEPT !.analyzed = s.analyzed + 1]]
        /\ flight' = flight
                \cup respond_to_client(s, r)
                \cup (IF EndsEpoch(s, r) THEN respond_to_all_client(s, s.cur) ELSE {})
        /\ UNCHANGED <<client, submitted, log, obsido, counters>>

-----------------------------------------------------------------------------
(* Obsido handles its requests in the order in which it gets them.         *)

ObsidoHandler(n) ==
    /\ obsido[n] # <<>>
    /\ LET r == Head(obsido[n]) IN
          \/ /\ r.method = "client_register"
             /\ node' = [node EXCEPT ![n].contacts = @ \cup {r.client}]
             /\ UNCHANGED flight
          \/ /\ r.method = "fetch_w_last"
             /\ flight' = flight \cup respond_to_all_client(node[n], node[n].last)
             /\ UNCHANGED node
    /\ obsido' = [obsido EXCEPT ![n] = Tail(@)]
    /\ UNCHANGED <<client, submitted, log, counters>>

\* Mutant: the client does not wait for room.
ObsidoSend_unbounded(c, method) ==
    obsido' = [obsido EXCEPT ![home[c]] = Append(@, [method |-> method, client |-> c])]

ObsidoSend(c, method) ==
    /\ Len(obsido[home[c]]) < ObsidoCapacity
    /\ obsido' = [obsido EXCEPT ![home[c]] = Append(@, [method |-> method, client |-> c])]

-----------------------------------------------------------------------------
(* A client repeats client_routine.  The first time there is no timeout.   *)

committer_bootstrap(c) ==
    /\ client[c].pc = "start"
    /\ client' = [client EXCEPT ![c].pc = "fetch"]
    /\ ObsidoSend(c, "client_register")
    /\ UNCHANGED <<flight, submitted, log, node, counters>>

\* No weights have arrived for a while.
active_fetch_after(c) ==
    /\ client[c].pc = "fetch"
    /\ ~client[c].fetched
    /\ client[c].fetches < MaxFetches
    /\ client' = [client EXCEPT ![c].fetched = TRUE, ![c].fetches = @ + 1]
    /\ ObsidoSend(c, "fetch_w_last")
    /\ UNCHANGED <<flight, submitted, log, node, counters>>

\* client_routine returns e as the new epoch_id, and is called again.
Return(s, e) ==
    [s EXCEPT !.pc = "fetch", !.epoch_id = e, !.fetched = FALSE, !.looping = TRUE]

\* Mutant: weights of the epoch of the client are too old.
drain_newer_only(c) ==
    LET s == client[c]
        latest == CHOOSE e \in s.fetch_queue : \A d \in s.fetch_queue : d <= e
        drained == [s EXCEPT !.fetch_queue = {}]
    IN  /\ s.pc = "fetch"
        /\ s.fetch_queue # {}
        /\ client' = [client EXCEPT ![c] =
                IF s.epoch_id >= latest /\ s.looping THEN Return(drained, s.epoch_id)
                ELSE [drained EXCEPT !.pc = "train", !.next_epoch_id = latest + 1]]
        /\ UNCHANGED <<flight, submitted, log, node, obsido, counters>>

\* ObsidoResponseQueue.drain takes the latest epoch of all that has arrived.
drain(c) ==
    LET s == client[c]
        latest == CHOOSE e \in s.fetch_queue : \A d \in s.fetch_queue : d <= e
        drained == [s EXCEPT !.fetch_queue = {}]
    IN  /\ s.pc = "fetch"
        /\ s.fetch_queue # {}
        /\ client' = [client EXCEPT ![c] =
                IF s.epoch_id > latest THEN Return(drained, s.epoch_id)
                ELSE [drained EXCEPT !.pc = "train", !.next_epoch_id = latest + 1]]
        /\ UNCHANGED <<flight, submitted, log, node, obsido, counters>>

\* A request goes to the mempool; the client then collects the answer to it.
Transmit(c, method, pc) ==
    LET s == client[c] IN
    /\ client' = [client EXCEPT ![c].pc = pc, ![c].requests = @ + 1]
    /\ submitted' = submitted \cup
            {[method |-> method, client |-> c, n |-> s.requests + 1, epoch |-> s.next_epoch_id]}
    /\ UNCHANGED <<flight, log, node, obsido, counters>>

\* Mutant: the client does not wait for the answer to its update.
update_weights_no_wait(c) ==
    /\ client[c].pc = "train"
    /\ client[c].next_epoch_id <= MaxEpoch
    /\ Transmit(c, "upd_weights", "gst")

update_weights(c) ==
    /\ client[c].pc = "train"
    /\ client[c].next_epoch_id <= MaxEpoch
    /\ Transmit(c, "upd_weights", "updating")

new_epoch_vote(c) ==
    /\ client[c].pc = "gst"
    /\ Transmit(c, "new_epoch_vote", "voting")

\* The client does not look at the status in the answer.
collect(s) ==
    IF s.pc = "updating" THEN [s EXCEPT !.pc = "gst"]
    ELSE Return(s, s.next_epoch_id)

\* An answer to anything but the request in hand is dropped.
handle_active(c, m) ==
    IF client[c].pc \in {"updating", "voting"} /\ m.n = client[c].requests
    THEN client' = [client EXCEPT ![c] = collect(@)]
    ELSE UNCHANGED client

handle_passive(c, m) ==
    client' = [client EXCEPT ![c].fetch_queue = @ \cup {m.r_last_epoch_id}]

\* SimpleSender may lose a message: then it is never delivered.
Deliver(m) ==
    /\ flight' = flight \ {m}
    /\ IF m.type = "response" THEN handle_active(m.to, m) ELSE handle_passive(m.to, m)
    /\ UNCHANGED <<submitted, log, node, obsido, counters>>

\* wait_for gives up on the routine: epoch_id stays as it was.
RoutineTimeout(c) ==
    /\ client[c].looping
    /\ client[c].pc \in {"fetch", "updating", "voting"}
    /\ timeouts < MaxTimeouts
    /\ timeouts' = timeouts + 1
    /\ client' = [client EXCEPT ![c] = [Return(@, @.epoch_id) EXCEPT !.fetches = 0]]
    /\ UNCHANGED <<flight, submitted, log, node, obsido, duplicates>>

-----------------------------------------------------------------------------
(* The environment: the consensus commits what the mempools have accepted.  *)

Committed(r) == \E i \in 1..Len(log) : log[i] = r

Commit(r) ==
    /\ ~Committed(r)
    /\ log' = Append(log, r)
    /\ UNCHANGED <<client, flight, submitted, node, obsido, counters>>

\* Two leaders may propose the same batch.
CommitAgain(r) ==
    /\ Committed(r)
    /\ duplicates < MaxDuplicates
    /\ duplicates' = duplicates + 1
    /\ log' = Append(log, r)
    /\ UNCHANGED <<client, flight, submitted, node, obsido, timeouts>>

-----------------------------------------------------------------------------
Next ==
    \/ \E c \in Clients :
          \/ committer_bootstrap(c) \/ active_fetch_after(c) \/ drain(c)
          \/ update_weights(c) \/ new_epoch_vote(c) \/ RoutineTimeout(c)
    \/ \E n \in Nodes : analyze_transaction(n) \/ ObsidoHandler(n)
    \/ \E r \in submitted : Commit(r) \/ CommitAgain(r)
    \/ \E m \in flight : Deliver(m)

\* Every task goes on, what is submitted is committed, and what is not lost
\* arrives.
Fairness ==
    /\ \A c \in Clients :
          /\ WF_vars(committer_bootstrap(c)) /\ WF_vars(active_fetch_after(c))
          /\ WF_vars(drain(c)) /\ WF_vars(update_weights(c)) /\ WF_vars(new_epoch_vote(c))
    /\ \A n \in Nodes : WF_vars(analyze_transaction(n)) /\ WF_vars(ObsidoHandler(n))
    /\ WF_vars(\E r \in submitted : Commit(r))
    /\ \A c \in Clients :
          /\ WF_vars(\E m \in flight : m.to = c /\ m.type = "response" /\ Deliver(m))
          /\ \A e \in -1..MaxEpoch :
                WF_vars(\E m \in flight : /\ m.to = c /\ m.type = "weights"
                                         /\ m.r_last_epoch_id = e /\ Deliver(m))

Spec == Init /\ [][Next]_vars
FairSpec == Spec /\ Fairness

-----------------------------------------------------------------------------
(* Properties.                                                             *)

Databank == [epoch_id : -1..(MaxEpoch + 1), client_weights : [Clients -> Nat]]

\* Every variable has values of its type.
TypeOK ==
    /\ client \in [Clients ->
            [pc : {"start", "fetch", "train", "updating", "gst", "voting"},
             epoch_id : -1..MaxEpoch, next_epoch_id : 0..(MaxEpoch + 1), requests : Nat,
             fetched : BOOLEAN, fetches : 0..MaxFetches,
             fetch_queue : SUBSET (-1..MaxEpoch), looping : BOOLEAN]]
    /\ submitted \subseteq ClientRequest
    /\ \A n \in Nodes :
          /\ obsido[n] \in Seq([method : {"client_register", "fetch_w_last"}, client : Clients])
          /\ Len(obsido[n]) <= ObsidoCapacity
    /\ log \in Seq(submitted)
    /\ node \in [Nodes ->
            [analyzed : 0..Len(log), cur : Databank, last : Databank,
             voted_clients : SUBSET Clients, contacts : SUBSET Clients]]

\* The clients whose vote for epoch e node n has analysed.
VotersFor(e, n) ==
    {c \in Clients : \E i \in 1..node[n].analyzed :
        log[i].method = "new_epoch_vote" /\ log[i].client = c /\ log[i].epoch = e}

\* A node has left an epoch exactly when a quorum of distinct clients voted to
\* leave it, however often a vote is repeated and whatever was left over from
\* an earlier epoch; epochs end one by one.
EpochsEndByQuorum ==
    \A n \in Nodes : \A e \in 0..(MaxEpoch + 1) :
        node[n].cur.epoch_id > e <=> Cardinality(VotersFor(e, n)) >= quorum_size

\* All nodes and all answers to clients have the same weights for an epoch
\* that has ended, no matter which clients are registered with which node and
\* when they fetch.
EpochWeights ==
    {<<node[n].last.epoch_id, node[n].last.client_weights>> : n \in Nodes}
    \cup {<<m.r_last_epoch_id, m.w_last>> : m \in {x \in flight : x.type = "weights"}}

WeightsAgree == \A a, b \in EpochWeights : a[1] = b[1] => a = b

\* The weights of an epoch are complete: a client votes only when its weights
\* for the epoch are committed, so every voter has weights, and an epoch ends
\* with the weights of at least a quorum.
VotersHaveWeights ==
    \A n \in Nodes :
        /\ \A c \in node[n].voted_clients : node[n].cur.client_weights[c] # 0
        /\ node[n].last.epoch_id >= 0 =>
              Cardinality({c \in Clients : node[n].last.client_weights[c] # 0}) >= quorum_size

\* A client never trains for an epoch its node has not begun, and never takes
\* an epoch for done that it has not trained for, however late its weights and
\* answers arrive.
ClientsFollow ==
    \A c \in Clients :
        LET s == node[home[c]] IN
        /\ client[c].next_epoch_id <= s.cur.epoch_id
        /\ client[c].epoch_id <= client[c].next_epoch_id

\* All epochs are run through, though routines may time out: no client is left
\* waiting for weights, an answer or an epoch while the others wait for it.
EpochsAdvance == <>(\A n \in Nodes : node[n].cur.epoch_id = MaxEpoch + 1)
=============================================================================
