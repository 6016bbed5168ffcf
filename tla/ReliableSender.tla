--------------------------- MODULE ReliableSender ---------------------------
(***************************************************************************)
(* One Connection task of network/src/reliable_sender.rs, its caller, and  *)
(* the Receiver (network/src/receiver.rs) of the peer it sends to.         *)
(*                                                                         *)
(* An Ack carries nothing: the task takes it for the oldest message it has *)
(* not had an Ack for on this TCP connection (pending_replies).  When the  *)
(* connection fails, all of these are sent again on the next one, while    *)
(* the peer may still be reading the old one.                              *)
(***************************************************************************)
EXTENDS Naturals, Sequences

CONSTANTS
    MaxMessages,        \* bound: messages the caller sends
    MaxConnections,     \* bound: TCP connections; the last one is never cut
    MaxCrashes,         \* bound: crashes of the peer
    ChannelCapacity     \* capacity of the channel to the task (1000 in the code)

ASSUME ReliableSenderAssumption ==
    /\ MaxMessages \in Nat /\ MaxConnections \in Nat /\ MaxCrashes \in Nat
    /\ ChannelCapacity \in Nat \ {0}

Message == 1..MaxMessages
Connections == 1..MaxConnections
NoMessage == 0

VARIABLES
    sent,       \* the number of messages sent so far; message m is the m-th
    handle,     \* the CancelHandler of each message, as its caller knows it
    channel,    \* Connection.receiver
    buffer,     \* Connection.buffer
    pending,    \* pending_replies of keep_alive
    state,      \* where Connection.run is: "connecting", "waiting", "transmitting"
    conn,       \* the number of the last TCP connection, 0 before the first
    link,       \* each TCP connection: "none", "up" or "cut"
    frames,     \* on each TCP connection, frames on their way to the peer
    acks,       \* ... and Acks on their way back (each with the message it is for)
    held,       \* the message a runner of the peer has acknowledged but not passed on
    listening,  \* whether the peer accepts connections
    received,   \* the messages runners of the peer have taken and acknowledged
    delivered,  \* the messages they have passed on to the tasks of the peer
    crashes     \* the number of crashes of the peer

callerVars == <<sent, handle>>
taskVars == <<channel, buffer, pending, state, conn>>
wireVars == <<link, frames, acks>>
peerVars == <<held, listening, received, delivered, crashes>>
vars == <<callerVars, taskVars, wireVars, peerVars>>

Init ==
    /\ sent = 0
    /\ handle = [m \in Message |-> "none"]
    /\ channel = <<>> /\ buffer = <<>> /\ pending = <<>>
    /\ state = "connecting"
    /\ conn = 0
    /\ link = [c \in Connections |-> "none"]
    /\ frames = [c \in Connections |-> <<>>]
    /\ acks = [c \in Connections |-> <<>>]
    /\ held = [c \in Connections |-> NoMessage]
    /\ listening = FALSE
    /\ received = {} /\ delivered = {}
    /\ crashes = 0

-----------------------------------------------------------------------------
(* The caller.                                                             *)

\* Mutant: the caller does not wait for room in the channel.
send_unbounded ==
    /\ sent < MaxMessages
    /\ sent' = sent + 1
    /\ handle' = [handle EXCEPT ![sent'] = "open"]
    /\ channel' = Append(channel, sent')
    /\ UNCHANGED <<buffer, pending, state, conn, wireVars, peerVars>>

\* ReliableSender::send, which waits while the channel is full.
send ==
    /\ sent < MaxMessages
    /\ Len(channel) < ChannelCapacity
    /\ sent' = sent + 1
    /\ handle' = [handle EXCEPT ![sent'] = "open"]
    /\ channel' = Append(channel, sent')
    /\ UNCHANGED <<buffer, pending, state, conn, wireVars, peerVars>>

\* The caller drops the handle: the Proposer and the QuorumWaiter do so with
\* those that are left when they have a quorum.
Cancel(m) ==
    /\ handle[m] = "open"
    /\ handle' = [handle EXCEPT ![m] = "cancelled"]
    /\ UNCHANGED <<sent, taskVars, wireVars, peerVars>>

is_closed(m) == handle[m] = "cancelled"

-----------------------------------------------------------------------------
(* The task: Connection::run.                                              *)

Connect ==
    /\ state = "connecting"
    /\ listening
    /\ conn < MaxConnections
    /\ conn' = conn + 1
    /\ link' = [link EXCEPT ![conn'] = "up"]
    /\ state' = "transmitting"
    /\ UNCHANGED <<callerVars, channel, buffer, pending, frames, acks, peerVars>>

ConnectFails ==
    /\ state = "connecting"
    /\ ~listening
    /\ state' = "waiting"
    /\ UNCHANGED <<callerVars, channel, buffer, pending, conn, wireVars, peerVars>>

RetryTimer ==
    /\ state = "waiting"
    /\ state' = "connecting"
    /\ UNCHANGED <<callerVars, channel, buffer, pending, conn, wireVars, peerVars>>

\* Vec::retain: what is not cancelled, in its order.
retain(s) ==
    LET kept[i \in 0..Len(s)] ==
            IF i = 0 THEN <<>>
            ELSE IF is_closed(s[i]) THEN kept[i - 1] ELSE Append(kept[i - 1], s[i])
    IN  kept[Len(s)]

\* Mutant: what is drained is not kept.
Drain_discards ==
    /\ state = "waiting"
    /\ channel # <<>>
    /\ channel' = Tail(channel)
    /\ UNCHANGED <<callerVars, buffer, pending, state, conn, wireVars, peerVars>>

\* While it waits, the task drains the channel and drops cancelled messages.
Drain ==
    /\ state = "waiting"
    /\ channel # <<>>
    /\ buffer' = retain(Append(buffer, Head(channel)))
    /\ channel' = Tail(channel)
    /\ UNCHANGED <<callerVars, pending, state, conn, wireVars, peerVars>>

-----------------------------------------------------------------------------
(* The task: Connection::keep_alive.  It reads neither the channel nor the *)
(* connection before it has written all of the buffer.                     *)

SkipCancelled ==
    /\ state = "transmitting"
    /\ buffer # <<>>
    /\ is_closed(Head(buffer))
    /\ buffer' = Tail(buffer)
    /\ UNCHANGED <<callerVars, channel, pending, state, conn, wireVars, peerVars>>

\* A write to a connection that has been cut may succeed all the same.
Transmit ==
    /\ state = "transmitting"
    /\ buffer # <<>>
    /\ ~is_closed(Head(buffer))
    /\ pending' = Append(pending, Head(buffer))
    /\ buffer' = Tail(buffer)
    /\ frames' = IF link[conn] = "up"
                 THEN [frames EXCEPT ![conn] = Append(@, Head(buffer))]
                 ELSE frames
    /\ UNCHANGED <<callerVars, channel, state, conn, link, acks, peerVars>>

TakeNew ==
    /\ state = "transmitting"
    /\ buffer = <<>>
    /\ channel # <<>>
    /\ buffer' = <<Head(channel)>>
    /\ channel' = Tail(channel)
    /\ UNCHANGED <<callerVars, pending, state, conn, wireVars, peerVars>>

\* Mutant: the pending replies go with the connection.
Requeue_forgets ==
    /\ buffer' = buffer
    /\ pending' = <<>>
    /\ state' = "connecting"

\* Mutant: pending_replies outlives the connection.
Requeue_keeps_pending ==
    /\ buffer' = pending \o buffer
    /\ pending' = pending
    /\ state' = "connecting"

\* Mutant: the pending replies go to the back of the buffer.
Requeue_at_back ==
    /\ buffer' = buffer \o pending
    /\ pending' = <<>>
    /\ state' = "connecting"

\* What has no Ack yet goes back to the front of the buffer.
Requeue ==
    /\ buffer' = pending \o buffer
    /\ pending' = <<>>
    /\ state' = "connecting"

\* Mutant: an Ack is taken for the newest pending reply.
ReadAck_newest ==
    /\ state = "transmitting"
    /\ buffer = <<>>
    /\ acks[conn] # <<>>
    /\ pending # <<>>
    /\ handle' = [handle EXCEPT ![pending[Len(pending)]] = IF @ = "open" THEN "acked" ELSE @]
    /\ pending' = SubSeq(pending, 1, Len(pending) - 1)
    /\ acks' = [acks EXCEPT ![conn] = Tail(@)]
    /\ UNCHANGED <<sent, channel, buffer, state, conn, link, frames, peerVars>>

ReadAck ==
    /\ state = "transmitting"
    /\ buffer = <<>>
    /\ acks[conn] # <<>>
    /\ pending # <<>>
    /\ handle' = [handle EXCEPT ![Head(pending)] = IF @ = "open" THEN "acked" ELSE @]
    /\ pending' = Tail(pending)
    /\ acks' = [acks EXCEPT ![conn] = Tail(@)]
    /\ UNCHANGED <<sent, channel, buffer, state, conn, link, frames, peerVars>>

\* FailedToReceiveAck, or UnexpectedAck when nothing is pending.  That an Ack
\* arrives while nothing is pending is in the code, but AcksMatchPending says
\* that it never does.
ReadError ==
    /\ state = "transmitting"
    /\ buffer = <<>>
    /\ IF acks[conn] = <<>> THEN link[conn] = "cut" ELSE pending = <<>>
    /\ Requeue
    /\ UNCHANGED <<callerVars, channel, conn, wireVars, peerVars>>

\* FailedToSendMessage.
WriteError ==
    /\ state = "transmitting"
    /\ buffer # <<>>
    /\ ~is_closed(Head(buffer))
    /\ link[conn] = "cut"
    /\ Requeue
    /\ UNCHANGED <<callerVars, channel, conn, wireVars, peerVars>>

-----------------------------------------------------------------------------
(* The peer: a runner of network/src/receiver.rs for each connection, with *)
(* the dispatch of the consensus or the mempool as its handler.            *)

Boot ==
    /\ ~listening
    /\ listening' = TRUE
    /\ UNCHANGED <<callerVars, taskVars, wireVars, held, received, delivered, crashes>>

\* dispatch writes the Ack before it passes the message on.
dispatch(c) ==
    /\ frames[c] # <<>>
    /\ held[c] = NoMessage
    /\ held' = [held EXCEPT ![c] = Head(frames[c])]
    /\ received' = received \cup {Head(frames[c])}
    /\ frames' = [frames EXCEPT ![c] = Tail(@)]
    /\ acks' = IF link[c] = "up" THEN [acks EXCEPT ![c] = Append(@, Head(frames[c]))] ELSE acks
    /\ UNCHANGED <<callerVars, taskVars, link, listening, delivered, crashes>>

\* The channel of the Core, or of the Processor, has room.
PassOn(c) ==
    /\ held[c] # NoMessage
    /\ delivered' = delivered \cup {held[c]}
    /\ held' = [held EXCEPT ![c] = NoMessage]
    /\ UNCHANGED <<callerVars, taskVars, wireVars, listening, received, crashes>>

\* On a connection that has been cut the Ack may fail to be written: the
\* mempool then panics, and the runner is gone with what it has not read.
RunnerEnds(c) ==
    /\ link[c] = "cut"
    /\ held[c] = NoMessage
    /\ frames[c] # <<>>
    /\ frames' = [frames EXCEPT ![c] = <<>>]
    /\ UNCHANGED <<callerVars, taskVars, link, acks, peerVars>>

-----------------------------------------------------------------------------
(* The environment.                                                        *)

Prefixes(s) == {SubSeq(s, 1, k) : k \in 0..Len(s)}

\* A connection is cut: only the first so many bytes arrive at either end.
Cut ==
    /\ conn \in 1..(MaxConnections - 1)
    /\ link[conn] = "up"
    /\ link' = [link EXCEPT ![conn] = "cut"]
    /\ \E arriving \in Prefixes(frames[conn]), answered \in Prefixes(acks[conn]) :
          /\ frames' = [frames EXCEPT ![conn] = arriving]
          /\ acks' = [acks EXCEPT ![conn] = answered]
    /\ UNCHANGED <<callerVars, taskVars, peerVars>>

\* The process of the peer ends, and with it all its runners.
Crash ==
    /\ listening
    /\ crashes < MaxCrashes
    /\ conn < MaxConnections
    /\ crashes' = crashes + 1
    /\ listening' = FALSE
    /\ held' = [c \in Connections |-> NoMessage]
    /\ frames' = [c \in Connections |-> <<>>]
    /\ link' = [c \in Connections |-> IF link[c] = "up" THEN "cut" ELSE link[c]]
    /\ IF conn = 0 THEN acks' = acks
       ELSE \E answered \in Prefixes(acks[conn]) : acks' = [acks EXCEPT ![conn] = answered]
    /\ UNCHANGED <<callerVars, taskVars, received, delivered>>

-----------------------------------------------------------------------------
Task ==
    \/ Connect \/ ConnectFails \/ RetryTimer \/ Drain
    \/ SkipCancelled \/ Transmit \/ TakeNew \/ ReadAck \/ ReadError \/ WriteError

Next ==
    \/ send
    \/ \E m \in Message : Cancel(m)
    \/ Task
    \/ \E c \in Connections : dispatch(c) \/ PassOn(c) \/ RunnerEnds(c)
    \/ Boot \/ Cut \/ Crash

\* The branches of the select! loops are polled in a random order, so each one
\* that stays ready is taken; so are the steps of a runner.  The peer is started
\* again after a crash.  Nothing makes the caller send or cancel.
Fairness ==
    /\ WF_vars(Connect) /\ WF_vars(ConnectFails) /\ WF_vars(RetryTimer)
    /\ WF_vars(SkipCancelled) /\ WF_vars(Transmit) /\ WF_vars(TakeNew)
    /\ WF_vars(ReadAck) /\ WF_vars(ReadError)
    /\ \A c \in Connections : WF_vars(dispatch(c)) /\ WF_vars(PassOn(c))
    /\ WF_vars(Boot)

Spec == Init /\ [][Next]_vars /\ Fairness

-----------------------------------------------------------------------------
(* Properties.                                                             *)

\* Every variable has values of its type.
TypeOK ==
    /\ sent \in 0..MaxMessages
    /\ handle \in [Message -> {"none", "open", "cancelled", "acked"}]
    /\ channel \in Seq(Message) /\ Len(channel) <= ChannelCapacity
    /\ buffer \in Seq(Message)
    /\ pending \in Seq(Message)
    /\ state \in {"connecting", "waiting", "transmitting"}
    /\ conn \in 0..MaxConnections
    /\ link \in [Connections -> {"none", "up", "cut"}]
    /\ frames \in [Connections -> Seq(Message)]
    /\ acks \in [Connections -> Seq(Message)]
    /\ held \in [Connections -> Message \cup {NoMessage}]
    /\ listening \in BOOLEAN
    /\ received \subseteq Message
    /\ delivered \subseteq Message
    /\ crashes \in 0..MaxCrashes

\* All the messages the task still has to do with, the oldest first.
Backlog == pending \o buffer \o channel

\* The task has every message that awaits its Ack, in the order in which they
\* were sent and once only, through any number of failed connections: nothing
\* is lost or doubled between pending_replies, the buffer and the channel.
NothingLost ==
    /\ \A i \in 1..(Len(Backlog) - 1) : Backlog[i] < Backlog[i + 1]
    /\ \A m \in Message : handle[m] = "open" => \E i \in 1..Len(Backlog) : Backlog[i] = m

\* While a connection lasts, the Acks on their way and the messages that are
\* still to be acknowledged are, in this order, the pending replies: so the
\* n-th Ack is for the n-th pending reply, which is all keep_alive goes by.
AcksMatchPending ==
    state = "transmitting" /\ link[conn] = "up"
        => pending = acks[conn] \o frames[conn]

\* An acknowledged message has been passed on by the peer, or is about to be,
\* as long as the peer has not crashed (the Ack is written first).
AckedIsDelivered ==
    crashes = 0 =>
        \A m \in Message :
            handle[m] = "acked" => m \in delivered \/ \E c \in Connections : held[c] = m

\* The sender keeps the promise of AckedDelivery: handles are resolved for
\* received messages only, and messages are first received in order.
Promise == INSTANCE AckedDelivery WITH
  MaxMessages <- MaxMessages, sent <- sent, handle <- handle, received <- received
KeepsPromise == Promise!Spec

\* A message is sent again until it is acknowledged or cancelled ("it keeps
\* trying to re-transmit messages for which it didn't receive an ACK back").
EventuallyAcked == Promise!EventuallyAcked
=============================================================================
