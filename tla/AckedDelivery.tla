--------------------------- MODULE AckedDelivery ---------------------------
(***************************************************************************)
(* What the ReliableSender of network/src/reliable_sender.rs promises to   *)
(* its callers about the messages they send to one peer.  Message m is the *)
(* m-th one sent.  The caller keeps a handle for each message, which is    *)
(* resolved by an Ack, or which the caller drops to cancel the message.    *)
(***************************************************************************)
EXTENDS Naturals

CONSTANT MaxMessages    \* bound: the number of messages the caller sends

VARIABLES
    sent,       \* the number of messages sent
    handle,     \* the state of the handle of each message
    received    \* the messages that have reached the handler of the peer

vars == <<sent, handle, received>>

Message == 1..MaxMessages

Init ==
    /\ sent = 0
    /\ handle = [m \in Message |-> "none"]
    /\ received = {}

Send ==
    /\ sent < MaxMessages
    /\ sent' = sent + 1
    /\ handle' = [handle EXCEPT ![sent'] = "open"]
    /\ UNCHANGED received

Cancel(m) ==
    /\ handle[m] = "open"
    /\ handle' = [handle EXCEPT ![m] = "cancelled"]
    /\ UNCHANGED <<sent, received>>

\* A message reaches the peer for the first time only after all earlier ones,
\* those aside that the caller has cancelled.
Receive(m) ==
    /\ m <= sent
    /\ \A i \in 1..(m - 1) : i \in received \/ handle[i] = "cancelled"
    /\ received' = received \cup {m}
    /\ UNCHANGED <<sent, handle>>

\* The handle of a message is resolved only when that message was received.
Acknowledge(m) ==
    /\ handle[m] = "open"
    /\ m \in received
    /\ handle' = [handle EXCEPT ![m] = "acked"]
    /\ UNCHANGED <<sent, received>>

Next ==
    \/ Send
    \/ \E m \in Message : Cancel(m) \/ Receive(m) \/ Acknowledge(m)

Spec == Init /\ [][Next]_vars

\* Every message is acknowledged, unless it is cancelled.
EventuallyAcked == \A m \in Message : handle[m] = "open" ~> handle[m] # "open"
=============================================================================
