------------------------ MODULE ReliableSenderProofs ------------------------
(***************************************************************************)
(* What a Connection of the ReliableSender promises, for any number of     *)
(* messages, connections and crashes of the peer, and any capacity.        *)
(***************************************************************************)
EXTENDS ReliableSender, BasicLemmas

-----------------------------------------------------------------------------
(* The messages that retain keeps. *)

\* The buffers that retain goes through.
Kept(f, s, n) ==
  f = [i \in 0..n |-> IF i = 0 THEN <<>>
                      ELSE IF is_closed(s[i]) THEN f[i - 1] ELSE Append(f[i - 1], s[i])]

LEMMA RetainKept ==
  ASSUME NEW s, Len(s) \in Nat
  PROVE  \E f : Kept(f, s, Len(s)) /\ retain(s) = f[Len(s)]
<1> DEFINE Bad == {n \in Nat : ~ \E f : Kept(f, s, n)}
<1>1. \E f : Kept(f, s, 0)
  <2>1. Kept([i \in 0..0 |-> <<>>], s, 0)
    BY DEF Kept
  <2> QED BY <2>1
<1>2. ASSUME NEW n \in Nat, NEW f, Kept(f, s, n)
      PROVE  \E g : Kept(g, s, n + 1)
  <2> DEFINE g == [i \in 0..(n + 1) |->
                     IF i <= n THEN f[i]
                     ELSE IF is_closed(s[i]) THEN f[i - 1] ELSE Append(f[i - 1], s[i])]
  <2>1. \A i \in 0..n : f[i] = IF i = 0 THEN <<>>
                      ELSE IF is_closed(s[i]) THEN f[i - 1] ELSE Append(f[i - 1], s[i])
    BY <1>2 DEF Kept
  <2>2. \A i \in 0..(n + 1) : g[i] = IF i = 0 THEN <<>>
                      ELSE IF is_closed(s[i]) THEN g[i - 1] ELSE Append(g[i - 1], s[i])
    BY <2>1
  <2>3. g = [i \in 0..(n + 1) |-> g[i]]
    OBVIOUS
  <2> HIDE DEF g
  <2> QED BY <2>2, <2>3 DEF Kept
<1>3. Bad = {}
  <2> SUFFICES ASSUME Bad # {} PROVE FALSE
    OBVIOUS
  <2>1. PICK n \in Bad : \A m \in Bad : n <= m
    BY SmallestNat
  <2>2. n - 1 \in Nat /\ n - 1 \notin Bad
    BY <1>1, <2>1
  <2> QED BY <1>2, <2>1, <2>2
<1>4. \E f : Kept(f, s, Len(s))
  BY <1>3
<1> DEFINE F == CHOOSE f : Kept(f, s, Len(s))
<1>5. Kept(F, s, Len(s))
  BY <1>4
<1>6. retain(s) = F[Len(s)]
  BY DEF retain, Kept
<1> QED BY <1>5, <1>6

\* Messages in the order in which they were sent.
Increasing(s) == \A i, j \in 1..Len(s) : i < j => s[i] < s[j]

In(m, s) == \E i \in 1..Len(s) : s[i] = m

LEMMA Retained ==
  ASSUME NEW s \in Seq(Message)
  PROVE  /\ retain(s) \in Seq(Message)
         /\ \A m : In(m, retain(s)) <=> In(m, s) /\ ~ is_closed(m)
         /\ Increasing(s) => Increasing(retain(s))
<1>1. PICK f : Kept(f, s, Len(s)) /\ retain(s) = f[Len(s)]
  BY RetainKept
<1>2. /\ f[0] = <<>> /\ Len(s) \in Nat
      /\ \A n \in 1..Len(s) :
           f[n] = IF is_closed(s[n]) THEN f[n - 1] ELSE Append(f[n - 1], s[n])
  <2>1. Len(s) \in Nat
    OBVIOUS
  <2>2. \A n \in 0..Len(s) :
          f[n] = IF n = 0 THEN <<>>
                 ELSE IF is_closed(s[n]) THEN f[n - 1] ELSE Append(f[n - 1], s[n])
    BY <1>1 DEF Kept
  <2>3. 0 \in 0..Len(s) /\ \A n \in 1..Len(s) : n \in 0..Len(s) /\ n # 0
    BY <2>1
  <2> QED BY <2>1, <2>2, <2>3
<1> DEFINE Good(n) ==
      /\ f[n] \in Seq(Message)
      /\ \A k \in 1..Len(f[n]) : \E i \in 1..n : f[n][k] = s[i] /\ ~ is_closed(s[i])
      /\ \A i \in 1..n : ~ is_closed(s[i]) => In(s[i], f[n])
      /\ Increasing(s) => Increasing(f[n])
    Bad == {n \in 0..Len(s) : ~ Good(n)}
<1>3. Good(0)
  BY <1>2 DEF Increasing
<1>4. ASSUME NEW n \in 1..Len(s), Good(n - 1) PROVE Good(n)
  <2>1. CASE is_closed(s[n])
    <3>1. f[n] = f[n - 1]
      BY <1>2, <2>1
    <3>2. \A i \in 1..n : i \in 1..(n - 1) \/ i = n
      BY <1>2
    <3>3. \A i \in 1..(n - 1) : i \in 1..n
      BY <1>2
    <3> QED BY <1>4, <2>1, <3>1, <3>2, <3>3
  <2>2. CASE ~ is_closed(s[n])
    <3> DEFINE g == f[n - 1]
    <3>1. f[n] = Append(g, s[n]) /\ s[n] \in Message /\ g \in Seq(Message) /\ n - 1 \in 0..Len(s)
      <4>1. f[n] = Append(g, s[n])
        BY <1>2, <2>2
      <4>2. g \in Seq(Message)
        BY <1>4
      <4>3. s[n] \in Message
        OBVIOUS
      <4>4. n - 1 \in 0..Len(s)
        BY <1>2
      <4> QED BY <4>1, <4>2, <4>3, <4>4
    <3>2. /\ f[n] \in Seq(Message) /\ Len(g) \in Nat /\ Len(f[n]) = Len(g) + 1
          /\ f[n][Len(g) + 1] = s[n] /\ \A i \in 1..Len(g) : f[n][i] = g[i]
      BY <3>1, Appended
    <3>3. \A k \in 1..Len(g) : \E i \in 1..(n - 1) : g[k] = s[i] /\ ~ is_closed(s[i])
      BY <1>4
    <3>4. \A i \in 1..(n - 1) : ~ is_closed(s[i]) => In(s[i], g)
      BY <1>4
    <3>5. Increasing(s) => Increasing(g)
      BY <1>4
    <3>6. \A k \in 1..Len(f[n]) : k \in 1..Len(g) \/ k = Len(g) + 1
      BY <3>2
    <3>7. \A i \in 1..n : i \in 1..(n - 1) \/ i = n
      BY <1>2
    <3> HIDE DEF g
    <3>8. \A k \in 1..Len(f[n]) : \E i \in 1..n : f[n][k] = s[i] /\ ~ is_closed(s[i])
      <4> TAKE k \in 1..Len(f[n])
      <4>1. CASE k = Len(g) + 1
        BY <2>2, <3>2, <4>1
      <4>2. CASE k \in 1..Len(g)
        <5>1. PICK i \in 1..(n - 1) : g[k] = s[i] /\ ~ is_closed(s[i])
          BY <3>3, <4>2
        <5> QED BY <3>2, <4>2, <5>1
      <4> QED BY <3>6, <4>1, <4>2
    <3>9. \A i \in 1..n : ~ is_closed(s[i]) => In(s[i], f[n])
      <4>1. In(s[n], f[n])
        BY <3>2 DEF In
      <4>2. \A m : In(m, g) => In(m, f[n])
        BY <3>2 DEF In
      <4> QED BY <3>4, <3>7, <4>1, <4>2
    <3>10. ASSUME Increasing(s) PROVE Increasing(f[n])
      <4>1. \A k \in 1..Len(g) : g[k] < s[n]
        <5> TAKE k \in 1..Len(g)
        <5>1. PICK i \in 1..(n - 1) : g[k] = s[i]
          BY <3>3
        <5>2. s[i] < s[n]
          BY <3>10 DEF Increasing
        <5> QED BY <5>1, <5>2
      <4> QED BY <3>2, <3>5, <3>6, <3>10, <4>1 DEF Increasing
    <3> QED BY <3>2, <3>8, <3>9, <3>10
  <2> QED BY <2>1, <2>2
<1>5. Bad = {}
  <2> SUFFICES ASSUME Bad # {} PROVE FALSE
    OBVIOUS
  <2>1. Bad \in SUBSET Nat
    BY <1>2
  <2>2. PICK n \in Bad : \A m \in Bad : n <= m
    <3> HIDE DEF Bad
    <3> QED BY <2>1, SmallestNat
  <2>3. n # 0 /\ n \in 1..Len(s) /\ n - 1 \in 0..Len(s)
    <3> HIDE DEF Good
    <3>1. n \in 0..Len(s) /\ n # 0
      BY <1>3, <2>2
    <3> QED BY <1>2, <3>1
  <2>4. Good(n - 1)
    <3> HIDE DEF Good
    <3> QED BY <2>2, <2>3
  <2>5. Good(n)
    <3> HIDE DEF Good
    <3> QED BY <1>4, <2>3, <2>4
  <2> QED BY <2>2, <2>5
<1>6. Good(Len(s))
  <2> HIDE DEF Good
  <2> QED BY <1>2, <1>5
<1> QED BY <1>1, <1>2, <1>6 DEF In

-----------------------------------------------------------------------------
(* The inductive invariant. *)

Before(s, t) == \A x, y \in Message : In(x, s) /\ In(y, t) => x < y

\* The oldest messages are in pending, the newest in the channel.
Ordered ==
  /\ Increasing(pending) /\ Increasing(buffer) /\ Increasing(channel)
  /\ Before(pending, buffer) /\ Before(pending, channel) /\ Before(buffer, channel)

InBacklog(m) == In(m, pending) \/ In(m, buffer) \/ In(m, channel)

\* Handles are given to the messages sent, and only these are in the backlog.
Numbered ==
  /\ \A m \in Message : handle[m] = "none" <=> m > sent
  /\ \A m \in Message : InBacklog(m) => m <= sent

OpenKept == \A m \in Message : handle[m] = "open" => InBacklog(m)

\* Connections are used one after the other, and nothing is on one before.
Fresh ==
  \A c \in Connections :
    /\ link[c] = "none" <=> c > conn
    /\ c > conn => frames[c] = <<>> /\ acks[c] = <<>>

\* Nothing awaits an Ack but while keep_alive runs, on the last connection.
Idle == IF state = "transmitting" THEN conn \in Connections ELSE pending = <<>>

\* The Acks on a connection that keep_alive reads are those of the first
\* pending replies, also when it has been cut.
AcksFirst(p, a) == Len(a) <= Len(p) /\ \A i \in 1..Len(a) : p[i] = a[i]

\* The rest of the replies are those of the frames, while it is up.
FramesNext(p, a, f) ==
  Len(p) = Len(a) + Len(f) /\ \A i \in 1..Len(f) : p[Len(a) + i] = f[i]

OnTheWire ==
  state = "transmitting" =>
    /\ AcksFirst(pending, acks[conn])
    /\ link[conn] = "up" => FramesNext(pending, acks[conn], frames[conn])

\* What is acknowledged, on either side, has been received.
AckedReceived ==
  /\ \A c \in Connections : \A i \in 1..Len(acks[c]) : acks[c][i] \in received
  /\ \A m \in Message : handle[m] = "acked" => m \in received

ReceivedKept ==
  crashes = 0 =>
    \A m \in received : m \in delivered \/ \E c \in Connections : held[c] = m

\* When a frame of any connection, also one that has been cut, is read, the
\* earlier messages have been received or cancelled.
FramesInOrder ==
  \A c \in Connections : \A k \in 1..Len(frames[c]) :
    /\ frames[c][k] <= sent
    /\ \A i \in 1..(frames[c][k] - 1) :
         \/ i \in received
         \/ handle[i] = "cancelled"
         \/ \E j \in 1..(k - 1) : frames[c][j] = i

IInv ==
  /\ TypeOK
  /\ Ordered /\ Numbered /\ OpenKept
  /\ Fresh /\ Idle /\ OnTheWire
  /\ AckedReceived /\ ReceivedKept /\ FramesInOrder

-----------------------------------------------------------------------------
(* Every variable keeps its type. *)

LEMMA PrefixType ==
  ASSUME NEW s \in Seq(Message), NEW t \in Prefixes(s)
  PROVE  /\ t \in Seq(Message) /\ Len(t) <= Len(s) /\ Len(t) \in Nat
         /\ \A i \in 1..Len(t) : t[i] = s[i]
<1>1. PICK k \in 0..Len(s) : t = SubSeq(s, 1, k)
  BY DEF Prefixes
<1>2. Len(s) \in Nat /\ k \in Nat /\ k <= Len(s) /\ \A i \in 1..k : s[i] \in Message
  BY <1>1
<1>3. /\ SubSeq(s, 1, k) \in Seq(Message)
      /\ Len(SubSeq(s, 1, k)) = IF 1 <= k THEN k - 1 + 1 ELSE 0
      /\ \A i \in 1..k - 1 + 1 : SubSeq(s, 1, k)[i] = s[1 + i - 1]
  BY <1>2, SubSeqProperties
<1>4. Len(t) = k
  BY <1>1, <1>2, <1>3
<1>5. \A i \in 1..k : t[i] = s[i]
  BY <1>1, <1>2, <1>3
<1> QED BY <1>1, <1>2, <1>3, <1>4, <1>5

\* Nothing changes in a field that there is not.
LEMMA Updated ==
  ASSUME NEW S, NEW f \in [Connections -> S], NEW c, NEW x, c \in Connections => x \in S
  PROVE  /\ [f EXCEPT ![c] = x] \in [Connections -> S]
         /\ \A d \in Connections : [f EXCEPT ![c] = x][d] = IF d = c THEN x ELSE f[d]
<1>1. CASE c \in Connections
  BY <1>1
<1>2. CASE c \notin Connections
  BY <1>2
<1> QED BY <1>1, <1>2

LEMMA InitTypes == Init => TypeOK
<1> SUFFICES ASSUME Init PROVE TypeOK
  OBVIOUS
<1>1. /\ sent \in 0..MaxMessages /\ conn \in 0..MaxConnections /\ crashes \in 0..MaxCrashes
      /\ Len(<<>>) = 0 /\ 0 <= ChannelCapacity
  BY ReliableSenderAssumption DEF Init
<1>2. handle \in [Message -> {"none", "open", "cancelled", "acked"}]
  BY DEF Init
<1>3. /\ link \in [Connections -> {"none", "up", "cut"}]
      /\ held \in [Connections -> Message \cup {NoMessage}]
  BY DEF Init
<1>4. frames \in [Connections -> Seq(Message)] /\ acks \in [Connections -> Seq(Message)]
  BY DEF Init
<1>5. /\ channel \in Seq(Message) /\ buffer \in Seq(Message) /\ pending \in Seq(Message)
      /\ channel = <<>>
  BY DEF Init
<1> QED BY <1>1, <1>2, <1>3, <1>4, <1>5 DEF Init, TypeOK

LEMMA StepTypes == TypeOK /\ [Next]_vars => TypeOK'
<1> SUFFICES ASSUME TypeOK, [Next]_vars PROVE TypeOK'
  OBVIOUS
<1> USE ReliableSenderAssumption
<1>1. CASE send
  <2>1. sent' \in Message /\ sent' \in 0..MaxMessages
    BY <1>1 DEF send, TypeOK, Message
  <2>2. channel' \in Seq(Message) /\ Len(channel') = Len(channel) + 1
    BY <1>1, <2>1, Appended DEF send, TypeOK
  <2>3. Len(channel') <= ChannelCapacity
    BY <1>1, <2>2 DEF send, TypeOK
  <2> QED BY <1>1, <2>1, <2>2, <2>3 DEF send, TypeOK, wireVars, peerVars
<1>2. ASSUME NEW m \in Message, Cancel(m) PROVE TypeOK'
  BY <1>2 DEF Cancel, TypeOK, taskVars, wireVars, peerVars
<1>3. CASE Connect
  <2>1. conn' \in Connections
    BY <1>3 DEF Connect, TypeOK, Connections
  <2> QED BY <1>3, <2>1 DEF Connect, TypeOK, callerVars, peerVars, Connections
<1>4. CASE ConnectFails
  BY <1>4 DEF ConnectFails, TypeOK, callerVars, wireVars, peerVars
<1>5. CASE RetryTimer
  BY <1>5 DEF RetryTimer, TypeOK, callerVars, wireVars, peerVars
<1>6. CASE Drain
  <2>1. /\ Head(channel) \in Message /\ Tail(channel) \in Seq(Message)
        /\ Len(Tail(channel)) <= ChannelCapacity
    BY <1>6, Shortened DEF Drain, TypeOK
  <2>2. Append(buffer, Head(channel)) \in Seq(Message)
    BY <2>1 DEF TypeOK
  <2>3. buffer' \in Seq(Message)
    BY <1>6, <2>2, Retained DEF Drain
  <2> QED BY <1>6, <2>1, <2>3 DEF Drain, TypeOK, callerVars, wireVars, peerVars
<1>7. CASE SkipCancelled
  BY <1>7, Shortened DEF SkipCancelled, TypeOK, callerVars, wireVars, peerVars
<1>8. CASE Transmit
  <2>1. Head(buffer) \in Message /\ Tail(buffer) \in Seq(Message)
    BY <1>8, Shortened DEF Transmit, TypeOK
  <2>2. pending' \in Seq(Message)
    BY <1>8, <2>1 DEF Transmit, TypeOK
  <2>3. frames' \in [Connections -> Seq(Message)]
    <3>1. conn \in Connections => Append(frames[conn], Head(buffer)) \in Seq(Message)
      BY <2>1 DEF TypeOK
    <3>2. [frames EXCEPT ![conn] = Append(@, Head(buffer))] \in [Connections -> Seq(Message)]
      BY <3>1, Updated DEF TypeOK
    <3> QED BY <1>8, <3>2 DEF Transmit, TypeOK
  <2> QED BY <1>8, <2>1, <2>2, <2>3 DEF Transmit, TypeOK, callerVars, peerVars
<1>9. CASE TakeNew
  <2>1. /\ Head(channel) \in Message /\ Tail(channel) \in Seq(Message)
        /\ Len(Tail(channel)) <= ChannelCapacity
    BY <1>9, Shortened DEF TakeNew, TypeOK
  <2> QED BY <1>9, <2>1 DEF TakeNew, TypeOK, callerVars, wireVars, peerVars
<1>10. CASE ReadAck
  <2>1. Tail(pending) \in Seq(Message)
    BY <1>10, Shortened DEF ReadAck, TypeOK
  <2>2. handle' \in [Message -> {"none", "open", "cancelled", "acked"}]
    BY <1>10 DEF ReadAck, TypeOK
  <2>3. acks' \in [Connections -> Seq(Message)]
    <3>1. conn \in Connections => Tail(acks[conn]) \in Seq(Message)
      BY <1>10, Shortened DEF ReadAck, TypeOK
    <3>2. [acks EXCEPT ![conn] = Tail(@)] \in [Connections -> Seq(Message)]
      BY <3>1, Updated DEF TypeOK
    <3> QED BY <1>10, <3>2 DEF ReadAck
  <2> QED BY <1>10, <2>1, <2>2, <2>3 DEF ReadAck, TypeOK, peerVars
<1>11. CASE ReadError \/ WriteError
  <2>1. buffer' \in Seq(Message)
    <3>1. pending \o buffer \in Seq(Message)
      BY Concatenated DEF TypeOK
    <3> QED BY <1>11, <3>1 DEF ReadError, WriteError, Requeue
  <2>2. /\ pending' = <<>> /\ state' = "connecting"
        /\ UNCHANGED <<callerVars, channel, conn, wireVars, peerVars>>
    BY <1>11 DEF ReadError, WriteError, Requeue
  <2> QED BY <2>1, <2>2 DEF TypeOK, callerVars, wireVars, peerVars
<1>12. CASE Boot
  BY <1>12 DEF Boot, TypeOK, callerVars, taskVars, wireVars
<1>13. ASSUME NEW c \in Connections, dispatch(c) PROVE TypeOK'
  <2>1. frames[c] \in Seq(Message) /\ acks[c] \in Seq(Message)
    BY DEF TypeOK
  <2>2. Head(frames[c]) \in Message /\ Tail(frames[c]) \in Seq(Message)
    BY <1>13, <2>1, Shortened DEF dispatch
  <2>3. acks' \in [Connections -> Seq(Message)] /\ frames' \in [Connections -> Seq(Message)]
    BY <1>13, <2>1, <2>2 DEF dispatch, TypeOK
  <2> QED BY <1>13, <2>2, <2>3 DEF dispatch, TypeOK, callerVars, taskVars
<1>14. ASSUME NEW c \in Connections, PassOn(c) \/ RunnerEnds(c) PROVE TypeOK'
  <2>1. CASE PassOn(c)
    BY <2>1 DEF PassOn, TypeOK, callerVars, taskVars, wireVars, NoMessage
  <2>2. CASE RunnerEnds(c)
    BY <2>2 DEF RunnerEnds, TypeOK, callerVars, taskVars, peerVars
  <2> QED BY <1>14, <2>1, <2>2
<1>15. CASE Cut
  <2>1. conn \in Connections /\ frames[conn] \in Seq(Message) /\ acks[conn] \in Seq(Message)
    BY <1>15 DEF Cut, TypeOK, Connections
  <2>2. PICK f \in Prefixes(frames[conn]), a \in Prefixes(acks[conn]) :
          frames' = [frames EXCEPT ![conn] = f] /\ acks' = [acks EXCEPT ![conn] = a]
    BY <1>15 DEF Cut
  <2>3. f \in Seq(Message) /\ a \in Seq(Message)
    BY <2>1, PrefixType
  <2> QED BY <1>15, <2>2, <2>3 DEF Cut, TypeOK, callerVars, taskVars, peerVars
<1>16. CASE Crash
  <2>1. acks' \in [Connections -> Seq(Message)]
    <3>1. CASE conn = 0
      BY <1>16, <3>1 DEF Crash, TypeOK
    <3>2. CASE conn # 0
      <4>1. conn \in Connections /\ acks[conn] \in Seq(Message)
        BY <3>2 DEF TypeOK, Connections
      <4>2. PICK a \in Prefixes(acks[conn]) : acks' = [acks EXCEPT ![conn] = a]
        BY <1>16, <3>2 DEF Crash
      <4>3. a \in Seq(Message)
        BY <4>1, PrefixType
      <4> QED BY <4>2, <4>3 DEF TypeOK
    <3> QED BY <3>1, <3>2
  <2>2. /\ held' \in [Connections -> Message \cup {NoMessage}]
        /\ frames' \in [Connections -> Seq(Message)]
        /\ link' \in [Connections -> {"none", "up", "cut"}]
        /\ crashes' \in 0..MaxCrashes
    BY <1>16 DEF Crash, TypeOK
  <2>3. listening' = FALSE /\ UNCHANGED <<callerVars, taskVars, received, delivered>>
    BY <1>16 DEF Crash
  <2> QED BY <2>1, <2>2, <2>3 DEF TypeOK, callerVars, taskVars
<1>17. CASE UNCHANGED vars
  BY <1>17 DEF TypeOK, vars, callerVars, taskVars, wireVars, peerVars
<1> QED BY <1>1, <1>2, <1>3, <1>4, <1>5, <1>6, <1>7, <1>8, <1>9, <1>10, <1>11, <1>12,
           <1>13, <1>14, <1>15, <1>16, <1>17 DEF Next, Task

-----------------------------------------------------------------------------
(* What the operations on the queues do to their messages. *)

LEMMA InAppended ==
  ASSUME NEW s \in Seq(Message), NEW x \in Message
  PROVE  /\ \A m : In(m, Append(s, x)) <=> In(m, s) \/ m = x
         /\ Increasing(s) /\ (\A y \in Message : In(y, s) => y < x) => Increasing(Append(s, x))
<1> DEFINE a == Append(s, x)
<1>1. /\ Len(s) \in Nat /\ Len(a) = Len(s) + 1 /\ a[Len(s) + 1] = x
      /\ \A i \in 1..Len(s) : a[i] = s[i] /\ s[i] \in Message
  BY Appended
<1>2. \A i \in 1..Len(a) : i \in 1..Len(s) \/ i = Len(s) + 1
  BY <1>1
<1>3. Len(s) + 1 \in 1..Len(a) /\ \A i \in 1..Len(s) : i \in 1..Len(a)
  BY <1>1
<1> HIDE DEF a
<1>4. \A m : In(m, a) <=> In(m, s) \/ m = x
  BY <1>1, <1>2, <1>3 DEF In
<1>5. ASSUME Increasing(s), \A y \in Message : In(y, s) => y < x
      PROVE  Increasing(a)
  <2>1. \A i \in 1..Len(s) : s[i] < x
    BY <1>1, <1>5 DEF In
  <2> QED BY <1>1, <1>2, <1>5, <2>1 DEF Increasing
<1> QED BY <1>4, <1>5 DEF a

LEMMA InShortened ==
  ASSUME NEW s \in Seq(Message), s # <<>>
  PROVE  /\ Head(s) \in Message /\ Tail(s) \in Seq(Message) /\ In(Head(s), s)
         /\ \A m : In(m, s) <=> m = Head(s) \/ In(m, Tail(s))
         /\ Increasing(s) => /\ Increasing(Tail(s))
                             /\ \A m \in Message : In(m, Tail(s)) => Head(s) < m
<1> DEFINE r == Tail(s)
<1>1. /\ Head(s) \in Message /\ r \in Seq(Message) /\ Head(s) = s[1]
      /\ Len(s) \in Nat \ {0} /\ Len(r) = Len(s) - 1
      /\ \A i \in 1..Len(r) : i + 1 \in 1..Len(s) /\ r[i] = s[i + 1]
  BY Shortened
<1>2. \A i \in 1..Len(s) : i = 1 \/ (i - 1 \in 1..Len(r) /\ (i - 1) + 1 = i)
  BY <1>1
<1>3. 1 \in 1..Len(s)
  BY <1>1
<1> HIDE DEF r
<1>4. \A m : In(m, s) <=> m = Head(s) \/ In(m, r)
  <2>1. ASSUME NEW m, In(m, s) PROVE m = Head(s) \/ In(m, r)
    <3>1. PICK i \in 1..Len(s) : s[i] = m
      BY <2>1 DEF In
    <3>2. CASE i = 1
      BY <1>1, <3>1, <3>2
    <3>3. CASE i - 1 \in 1..Len(r) /\ (i - 1) + 1 = i
      <4>1. r[i - 1] = m
        BY <1>1, <3>1, <3>3
      <4> QED BY <3>3, <4>1 DEF In
    <3> QED BY <1>2, <3>2, <3>3
  <2>2. ASSUME NEW m, In(m, r) PROVE In(m, s)
    BY <1>1, <2>2 DEF In
  <2>3. In(Head(s), s)
    BY <1>1, <1>3 DEF In
  <2> QED BY <2>1, <2>2, <2>3
<1>5. ASSUME Increasing(s) PROVE Increasing(r) /\ \A m \in Message : In(m, r) => Head(s) < m
  <2>1. \A i \in 1..Len(r) : 1 < i + 1
    BY <1>1
  <2>2. \A i, j \in 1..Len(r) : i < j => i + 1 < j + 1
    BY <1>1
  <2> QED BY <1>1, <1>3, <1>5, <2>1, <2>2 DEF Increasing, In
<1>6. In(Head(s), s)
  BY <1>4
<1> QED BY <1>1, <1>4, <1>5, <1>6 DEF r

LEMMA InConcatenated ==
  ASSUME NEW s \in Seq(Message), NEW t \in Seq(Message)
  PROVE  /\ \A m : In(m, s \o t) <=> In(m, s) \/ In(m, t)
         /\ Increasing(s) /\ Increasing(t) /\ Before(s, t) => Increasing(s \o t)
<1> DEFINE c == s \o t
<1>1. /\ Len(c) = Len(s) + Len(t) /\ Len(s) \in Nat /\ Len(t) \in Nat
      /\ \A i \in 1..Len(s) : c[i] = s[i]
      /\ \A i \in 1..Len(t) : c[Len(s) + i] = t[i]
      /\ \A i \in 1..Len(c) : i \in 1..Len(s) \/ i - Len(s) \in 1..Len(t)
  BY Concatenated
<1>2. \A i \in 1..Len(s) : i \in 1..Len(c) /\ s[i] \in Message
  BY <1>1
<1>3. \A i \in 1..Len(t) : Len(s) + i \in 1..Len(c) /\ t[i] \in Message
  BY <1>1
<1>4. \A i \in 1..Len(c) : Len(s) + (i - Len(s)) = i
  BY <1>1
<1> HIDE DEF c
<1>5. ASSUME NEW m PROVE In(m, c) <=> In(m, s) \/ In(m, t)
  <2>1. ASSUME In(m, c) PROVE In(m, s) \/ In(m, t)
    <3>1. PICK i \in 1..Len(c) : c[i] = m
      BY <2>1 DEF In
    <3>2. CASE i \in 1..Len(s)
      BY <1>1, <3>1, <3>2 DEF In
    <3>3. CASE i - Len(s) \in 1..Len(t)
      BY <1>1, <1>4, <3>1, <3>3 DEF In
    <3> QED BY <1>1, <3>2, <3>3
  <2>2. ASSUME In(m, s) PROVE In(m, c)
    BY <1>1, <1>2, <2>2 DEF In
  <2>3. ASSUME In(m, t) PROVE In(m, c)
    BY <1>1, <1>3, <2>3 DEF In
  <2> QED BY <2>1, <2>2, <2>3
<1>6. ASSUME Increasing(s), Increasing(t), Before(s, t), NEW i \in 1..Len(c), NEW j \in 1..Len(c), i < j
      PROVE  c[i] < c[j]
  <2>1. CASE i \in 1..Len(s) /\ j \in 1..Len(s)
    BY <1>1, <1>6, <2>1 DEF Increasing
  <2>2. CASE i \in 1..Len(s) /\ j - Len(s) \in 1..Len(t)
    <3>1. c[i] = s[i] /\ c[j] = t[j - Len(s)]
      BY <1>1, <1>4, <2>2
    <3>2. In(s[i], s) /\ In(t[j - Len(s)], t) /\ s[i] \in Message /\ t[j - Len(s)] \in Message
      BY <1>2, <1>3, <2>2 DEF In
    <3> QED BY <1>6, <3>1, <3>2 DEF Before
  <2>3. CASE i - Len(s) \in 1..Len(t)
    <3>1. j - Len(s) \in 1..Len(t) /\ i - Len(s) < j - Len(s)
      BY <1>1, <1>6, <2>3
    <3>2. c[i] = t[i - Len(s)] /\ c[j] = t[j - Len(s)]
      BY <1>1, <1>4, <2>3, <3>1
    <3> QED BY <1>6, <2>3, <3>1, <3>2 DEF Increasing
  <2> QED BY <1>1, <2>1, <2>2, <2>3
<1>7. Increasing(s) /\ Increasing(t) /\ Before(s, t) => Increasing(c)
  BY <1>6 DEF Increasing
<1> QED BY <1>5, <1>7 DEF c

LEMMA InEmpty == Increasing(<<>>) /\ <<>> \in Seq(Message) /\ \A m : ~ In(m, <<>>)
BY DEF Increasing, In

-----------------------------------------------------------------------------
(* The backlog: Ordered, Numbered and OpenKept. *)

LEMMA BacklogInit == Init => Ordered /\ Numbered /\ OpenKept
BY InEmpty, ReliableSenderAssumption
DEF Init, Ordered, Numbered, OpenKept, InBacklog, Before, Message

LEMMA BacklogSend ==
  TypeOK /\ Ordered /\ Numbered /\ OpenKept /\ send => (Ordered /\ Numbered /\ OpenKept)'
<1> SUFFICES ASSUME TypeOK, Ordered, Numbered, OpenKept, send
             PROVE  (Ordered /\ Numbered /\ OpenKept)'
  OBVIOUS
<1>1. /\ sent \in Nat /\ sent' = sent + 1 /\ sent' \in Message
      /\ channel' = Append(channel, sent') /\ channel \in Seq(Message)
      /\ pending' = pending /\ buffer' = buffer
      /\ handle' = [handle EXCEPT ![sent'] = "open"]
      /\ handle \in [Message -> {"none", "open", "cancelled", "acked"}]
  BY ReliableSenderAssumption DEF send, TypeOK, Message
<1>2. /\ \A m : In(m, channel') <=> In(m, channel) \/ m = sent'
      /\ Increasing(channel) /\ (\A y \in Message : In(y, channel) => y < sent')
           => Increasing(channel')
  BY <1>1, InAppended
<1>3. \A m \in Message : InBacklog(m) => m < sent'
  BY <1>1 DEF Numbered, Message
<1>4. Ordered'
  BY <1>1, <1>2, <1>3 DEF Ordered, Before, InBacklog
<1>5. \A m \in Message : (m > sent' <=> m > sent /\ m # sent')
  BY <1>1 DEF Message
<1>6. Numbered'
  <2>1. \A m \in Message : handle'[m] = "none" <=> m > sent'
    BY <1>1, <1>5 DEF Numbered
  <2>2. \A m \in Message : InBacklog(m)' => InBacklog(m) \/ m = sent'
    BY <1>1, <1>2 DEF InBacklog
  <2>3. \A m \in Message : (m < sent' \/ m = sent') => m <= sent'
    BY <1>1 DEF Message
  <2> QED BY <1>3, <2>1, <2>2, <2>3 DEF Numbered
<1>7. OpenKept'
  BY <1>1, <1>2 DEF OpenKept, InBacklog
<1> QED BY <1>4, <1>6, <1>7

\* What is in the backlog moves from one queue to another.
LEMMA BacklogMoves ==
  ASSUME Numbered, OpenKept, UNCHANGED <<sent, handle>>,
         \A m \in Message : InBacklog(m)' => InBacklog(m),
         \A m \in Message : handle[m] = "open" /\ InBacklog(m) => InBacklog(m)'
  PROVE  (Numbered /\ OpenKept)'
BY DEF Numbered, OpenKept

LEMMA BacklogStep ==
  TypeOK /\ Ordered /\ Numbered /\ OpenKept /\ [Next]_vars
    => (Ordered /\ Numbered /\ OpenKept)'
<1> SUFFICES ASSUME TypeOK, Ordered, Numbered, OpenKept, [Next]_vars
             PROVE  (Ordered /\ Numbered /\ OpenKept)'
  OBVIOUS
<1>types. /\ channel \in Seq(Message) /\ buffer \in Seq(Message) /\ pending \in Seq(Message)
          /\ handle \in [Message -> {"none", "open", "cancelled", "acked"}]
  BY DEF TypeOK
<1>1. CASE send
  BY <1>1, BacklogSend
<1>2. ASSUME NEW m \in Message, Cancel(m) PROVE (Ordered /\ Numbered /\ OpenKept)'
  <2>1. /\ handle[m] = "open" /\ handle' = [handle EXCEPT ![m] = "cancelled"]
        /\ sent' = sent /\ channel' = channel /\ buffer' = buffer /\ pending' = pending
    BY <1>2 DEF Cancel, taskVars
  <2>2. \A k \in Message : /\ handle'[k] = "none" <=> handle[k] = "none"
                           /\ handle'[k] = "open" => handle[k] = "open"
    BY <1>types, <2>1
  <2> QED BY <2>1, <2>2 DEF Ordered, Numbered, OpenKept, InBacklog
<1>3. CASE Drain
  <2> DEFINE s == Append(buffer, Head(channel))
  <2>1. /\ channel # <<>> /\ channel' = Tail(channel) /\ buffer' = retain(s)
        /\ UNCHANGED <<sent, handle, pending>>
    BY <1>3 DEF Drain, callerVars
  <2>2. /\ Head(channel) \in Message /\ In(Head(channel), channel)
        /\ \A m : In(m, channel) <=> m = Head(channel) \/ In(m, channel')
        /\ Increasing(channel')
        /\ \A m \in Message : In(m, channel') => Head(channel) < m
    BY <1>types, <2>1, InShortened DEF Ordered
  <2>3. s \in Seq(Message) /\ \A m : In(m, s) <=> In(m, buffer) \/ m = Head(channel)
    BY <1>types, <2>2, InAppended
  <2>4. Increasing(s)
    <3>1. \A y \in Message : In(y, buffer) => y < Head(channel)
      BY <2>2 DEF Ordered, Before
    <3> QED BY <1>types, <2>2, <3>1, InAppended DEF Ordered
  <2>5. /\ \A m : In(m, buffer') <=> In(m, s) /\ ~ is_closed(m)
        /\ Increasing(buffer')
    <3> HIDE DEF s
    <3> QED BY <2>1, <2>3, <2>4, Retained
  <2> HIDE DEF s
  <2>6. Ordered'
    BY <2>1, <2>2, <2>3, <2>5 DEF Ordered, Before
  <2>7. \A m \in Message : InBacklog(m)' => InBacklog(m)
    BY <2>1, <2>2, <2>3, <2>5 DEF InBacklog
  <2>8. \A m \in Message : handle[m] = "open" /\ InBacklog(m) => InBacklog(m)'
    BY <2>1, <2>2, <2>3, <2>5 DEF InBacklog, is_closed
  <2> QED BY <2>1, <2>6, <2>7, <2>8, BacklogMoves
<1>4. CASE SkipCancelled
  <2>1. /\ buffer # <<>> /\ handle[Head(buffer)] = "cancelled" /\ buffer' = Tail(buffer)
        /\ UNCHANGED <<sent, handle, pending, channel>>
    BY <1>4 DEF SkipCancelled, callerVars, is_closed
  <2>2. /\ \A m : In(m, buffer) <=> m = Head(buffer) \/ In(m, buffer')
        /\ Increasing(buffer')
    BY <1>types, <2>1, InShortened DEF Ordered
  <2>3. Ordered'
    BY <2>1, <2>2 DEF Ordered, Before
  <2>4. /\ \A m \in Message : InBacklog(m)' => InBacklog(m)
        /\ \A m \in Message : handle[m] = "open" /\ InBacklog(m) => InBacklog(m)'
    BY <2>1, <2>2 DEF InBacklog
  <2> QED BY <2>1, <2>3, <2>4, BacklogMoves
<1>5. CASE Transmit
  <2>1. /\ buffer # <<>> /\ buffer' = Tail(buffer) /\ pending' = Append(pending, Head(buffer))
        /\ UNCHANGED <<sent, handle, channel>>
    BY <1>5 DEF Transmit, callerVars
  <2>2. /\ Head(buffer) \in Message /\ In(Head(buffer), buffer)
        /\ \A m : In(m, buffer) <=> m = Head(buffer) \/ In(m, buffer')
        /\ Increasing(buffer')
        /\ \A m \in Message : In(m, buffer') => Head(buffer) < m
    BY <1>types, <2>1, InShortened DEF Ordered
  <2>3. \A m : In(m, pending') <=> In(m, pending) \/ m = Head(buffer)
    BY <1>types, <2>1, <2>2, InAppended
  <2>4. Increasing(pending')
    <3>1. \A y \in Message : In(y, pending) => y < Head(buffer)
      BY <2>2 DEF Ordered, Before
    <3> QED BY <1>types, <2>1, <2>2, <3>1, InAppended DEF Ordered
  <2>5. Ordered'
    BY <2>1, <2>2, <2>3, <2>4 DEF Ordered, Before
  <2>6. /\ \A m \in Message : InBacklog(m)' => InBacklog(m)
        /\ \A m \in Message : handle[m] = "open" /\ InBacklog(m) => InBacklog(m)'
    BY <2>1, <2>2, <2>3 DEF InBacklog
  <2> QED BY <2>1, <2>5, <2>6, BacklogMoves
<1>6. CASE TakeNew
  <2>1. /\ buffer = <<>> /\ channel # <<>> /\ buffer' = <<Head(channel)>>
        /\ channel' = Tail(channel) /\ UNCHANGED <<sent, handle, pending>>
    BY <1>6 DEF TakeNew, callerVars
  <2>2. /\ Head(channel) \in Message /\ In(Head(channel), channel)
        /\ \A m : In(m, channel) <=> m = Head(channel) \/ In(m, channel')
        /\ Increasing(channel')
        /\ \A m \in Message : In(m, channel') => Head(channel) < m
    BY <1>types, <2>1, InShortened DEF Ordered
  <2>3. Increasing(buffer') /\ \A m : In(m, buffer') <=> m = Head(channel)
    <3> DEFINE x == Head(channel)
               q == <<>>
    <3>1. buffer' = Append(q, x) /\ x \in Message
      BY <2>1, <2>2
    <3>2. Increasing(q) /\ q \in Seq(Message) /\ \A m : ~ In(m, q)
      BY InEmpty
    <3> HIDE DEF x, q
    <3>3. /\ \A m : In(m, Append(q, x)) <=> In(m, q) \/ m = x
          /\ Increasing(q) /\ (\A y \in Message : In(y, q) => y < x) => Increasing(Append(q, x))
      BY <3>1, <3>2, InAppended
    <3>4. Increasing(buffer') /\ \A m : In(m, buffer') <=> m = x
      BY <3>1, <3>2, <3>3
    <3> QED BY <3>4 DEF x
  <2>4. Ordered'
    BY <2>1, <2>2, <2>3 DEF Ordered, Before
  <2>5. /\ \A m \in Message : InBacklog(m)' => InBacklog(m)
        /\ \A m \in Message : handle[m] = "open" /\ InBacklog(m) => InBacklog(m)'
    BY <2>1, <2>2, <2>3, InEmpty DEF InBacklog
  <2> QED BY <2>1, <2>4, <2>5, BacklogMoves
<1>7. CASE ReadAck
  <2>1. /\ pending # <<>> /\ pending' = Tail(pending)
        /\ handle' = [handle EXCEPT ![Head(pending)] = IF @ = "open" THEN "acked" ELSE @]
        /\ UNCHANGED <<sent, buffer, channel>>
    BY <1>7 DEF ReadAck
  <2>2. /\ Head(pending) \in Message /\ Increasing(pending')
        /\ \A m : In(m, pending) <=> m = Head(pending) \/ In(m, pending')
    BY <1>types, <2>1, InShortened DEF Ordered
  <2>3. \A m \in Message : /\ handle'[m] = "none" <=> handle[m] = "none"
                           /\ handle'[m] = "open" => handle[m] = "open" /\ m # Head(pending)
    BY <1>types, <2>1, <2>2
  <2>4. Ordered'
    BY <2>1, <2>2 DEF Ordered, Before
  <2>5. Numbered' /\ OpenKept'
    BY <2>1, <2>2, <2>3 DEF Numbered, OpenKept, InBacklog
  <2> QED BY <2>4, <2>5
<1>8. CASE ReadError \/ WriteError
  <2>1. /\ buffer' = pending \o buffer /\ pending' = <<>>
        /\ UNCHANGED <<sent, handle, channel>>
    BY <1>8 DEF ReadError, WriteError, Requeue, callerVars
  <2>2. Increasing(buffer') /\ \A m : In(m, buffer') <=> In(m, pending) \/ In(m, buffer)
    BY <1>types, <2>1, InConcatenated DEF Ordered
  <2>3. Increasing(pending') /\ \A m : ~ In(m, pending')
    BY <2>1, InEmpty
  <2>4. Ordered'
    BY <2>1, <2>2, <2>3 DEF Ordered, Before
  <2>5. /\ \A m \in Message : InBacklog(m)' => InBacklog(m)
        /\ \A m \in Message : handle[m] = "open" /\ InBacklog(m) => InBacklog(m)'
    BY <2>1, <2>2, <2>3 DEF InBacklog
  <2> QED BY <2>1, <2>4, <2>5, BacklogMoves
<1>9. CASE UNCHANGED <<sent, handle, pending, buffer, channel>>
  BY <1>9 DEF Ordered, Numbered, OpenKept, InBacklog
<1>10. CASE Connect \/ ConnectFails \/ RetryTimer
  BY <1>9, <1>10 DEF Connect, ConnectFails, RetryTimer, callerVars
<1>11. ASSUME NEW c \in Connections, dispatch(c) \/ PassOn(c) \/ RunnerEnds(c)
       PROVE  (Ordered /\ Numbered /\ OpenKept)'
  BY <1>9, <1>11 DEF dispatch, PassOn, RunnerEnds, callerVars, taskVars
<1>12. CASE Boot \/ Cut \/ Crash \/ UNCHANGED vars
  BY <1>9, <1>12 DEF Boot, Cut, Crash, vars, callerVars, taskVars
<1> QED BY <1>1, <1>2, <1>3, <1>4, <1>5, <1>6, <1>7, <1>8, <1>10, <1>11, <1>12 DEF Next, Task

-----------------------------------------------------------------------------
(* The connections: Fresh, Idle and OnTheWire. *)

LEMMA WireInit == Init => Fresh /\ Idle /\ OnTheWire
<1> SUFFICES ASSUME Init PROVE Fresh /\ Idle /\ OnTheWire
  OBVIOUS
<1>1. Fresh
  BY DEF Init, Fresh, Connections
<1> QED BY <1>1 DEF Init, Idle, OnTheWire

LEMMA AppendedWire ==
  ASSUME NEW p \in Seq(Message), NEW a \in Seq(Message), NEW f \in Seq(Message),
         NEW x \in Message
  PROVE  /\ AcksFirst(p, a) => AcksFirst(Append(p, x), a)
         /\ FramesNext(p, a, f) => FramesNext(Append(p, x), a, Append(f, x))
<1>1. /\ Len(p) \in Nat /\ Len(Append(p, x)) = Len(p) + 1 /\ Append(p, x)[Len(p) + 1] = x
      /\ \A i \in 1..Len(p) : Append(p, x)[i] = p[i]
  BY Appended
<1>2. /\ Len(f) \in Nat /\ Len(Append(f, x)) = Len(f) + 1 /\ Append(f, x)[Len(f) + 1] = x
      /\ \A i \in 1..Len(f) : Append(f, x)[i] = f[i]
  BY Appended
<1>3. Len(a) \in Nat
  OBVIOUS
<1> DEFINE q == Append(p, x)
           g == Append(f, x)
<1> HIDE DEF q, g
<1>4. AcksFirst(p, a) => AcksFirst(q, a)
  BY <1>1, <1>3 DEF AcksFirst, q
<1>5. ASSUME FramesNext(p, a, f) PROVE FramesNext(q, a, g)
  <2>1. \A i \in 1..Len(g) : i \in 1..Len(f) \/ i = Len(f) + 1
    BY <1>2 DEF g
  <2>2. \A i \in 1..Len(f) : q[Len(a) + i] = g[i]
    <3> TAKE i \in 1..Len(f)
    <3>1. Len(a) + i \in 1..Len(p) /\ p[Len(a) + i] = f[i]
      BY <1>2, <1>3, <1>5 DEF FramesNext
    <3> QED BY <1>1, <1>2, <3>1 DEF q, g
  <2>3. Len(a) + (Len(f) + 1) = Len(p) + 1
    BY <1>2, <1>3, <1>5 DEF FramesNext
  <2>4. q[Len(a) + (Len(f) + 1)] = g[Len(f) + 1]
    BY <1>1, <1>2, <2>3 DEF q, g
  <2>5. Len(q) = Len(a) + Len(g)
    BY <1>1, <1>2, <1>3, <1>5 DEF FramesNext, q, g
  <2> QED BY <2>1, <2>2, <2>4, <2>5 DEF FramesNext
<1> QED BY <1>4, <1>5 DEF q, g

\* An Ack is read.
LEMMA ShortenedWire ==
  ASSUME NEW p \in Seq(Message), NEW a \in Seq(Message), NEW f \in Seq(Message),
         a # <<>>, AcksFirst(p, a)
  PROVE  /\ p # <<>> /\ Head(p) = Head(a) /\ AcksFirst(Tail(p), Tail(a))
         /\ FramesNext(p, a, f) => FramesNext(Tail(p), Tail(a), f)
<1>1. /\ Len(a) \in Nat \ {0} /\ Len(Tail(a)) = Len(a) - 1 /\ Head(a) = a[1]
      /\ \A i \in 1..Len(Tail(a)) : i + 1 \in 1..Len(a) /\ Tail(a)[i] = a[i + 1]
  BY Shortened
<1>2. Len(p) \in Nat /\ Len(p) >= 1 /\ p # <<>>
  BY <1>1 DEF AcksFirst
<1>3. /\ Len(Tail(p)) = Len(p) - 1 /\ Head(p) = p[1]
      /\ \A i \in 1..Len(Tail(p)) : i + 1 \in 1..Len(p) /\ Tail(p)[i] = p[i + 1]
  BY <1>2, Shortened
<1> DEFINE b == Tail(a)
           q == Tail(p)
<1> HIDE DEF b, q
<1>4. Head(p) = Head(a)
  BY <1>1, <1>2, <1>3 DEF AcksFirst
<1>5. AcksFirst(q, b)
  <2>1. Len(b) <= Len(q)
    BY <1>1, <1>2, <1>3 DEF AcksFirst, b, q
  <2>2. \A i \in 1..Len(b) : i \in 1..Len(q)
    BY <2>1, <1>1, <1>2, <1>3 DEF b, q
  <2> QED BY <1>1, <1>3, <2>1, <2>2 DEF AcksFirst, b, q
<1>6. ASSUME FramesNext(p, a, f) PROVE FramesNext(q, b, f)
  <2>1. Len(f) \in Nat /\ Len(p) = Len(a) + Len(f)
    BY <1>6 DEF FramesNext
  <2>2. Len(q) = Len(b) + Len(f)
    BY <1>1, <1>2, <1>3, <2>1 DEF b, q
  <2>3. \A i \in 1..Len(f) : q[Len(b) + i] = f[i]
    <3> TAKE i \in 1..Len(f)
    <3>1. Len(b) + i \in 1..Len(q) /\ (Len(b) + i) + 1 = Len(a) + i
      BY <1>1, <1>2, <1>3, <2>1, <2>2 DEF b, q
    <3>2. q[Len(b) + i] = p[Len(a) + i]
      BY <1>3, <3>1 DEF q
    <3> QED BY <1>6, <3>2 DEF FramesNext
  <2> QED BY <2>2, <2>3 DEF FramesNext
<1> QED BY <1>2, <1>4, <1>5, <1>6 DEF b, q

\* A frame is read and acknowledged.
LEMMA MovedWire ==
  ASSUME NEW p \in Seq(Message), NEW a \in Seq(Message), NEW f \in Seq(Message),
         f # <<>>, FramesNext(p, a, f), AcksFirst(p, a)
  PROVE  /\ AcksFirst(p, Append(a, Head(f)))
         /\ FramesNext(p, Append(a, Head(f)), Tail(f))
<1>1. /\ Len(f) \in Nat \ {0} /\ Len(Tail(f)) = Len(f) - 1 /\ Head(f) = f[1]
      /\ Head(f) \in Message
      /\ \A i \in 1..Len(Tail(f)) : i + 1 \in 1..Len(f) /\ Tail(f)[i] = f[i + 1]
  BY Shortened
<1> DEFINE b == Append(a, Head(f))
           g == Tail(f)
<1>2. /\ Len(a) \in Nat /\ Len(b) = Len(a) + 1 /\ b[Len(a) + 1] = Head(f)
      /\ \A i \in 1..Len(a) : b[i] = a[i]
  BY <1>1, Appended
<1>3. /\ Len(g) = Len(f) - 1
      /\ \A i \in 1..Len(g) : i + 1 \in 1..Len(f) /\ g[i] = f[i + 1]
  BY <1>1
<1> HIDE DEF b, g
<1>4. Len(p) = Len(a) + Len(f) /\ p[Len(a) + 1] = Head(f)
  BY <1>1 DEF FramesNext
<1>5. AcksFirst(p, b)
  <2>1. Len(b) <= Len(p)
    BY <1>1, <1>2, <1>4
  <2>2. \A i \in 1..Len(b) : i \in 1..Len(a) \/ i = Len(a) + 1
    BY <1>2
  <2> QED BY <1>2, <1>4, <2>1, <2>2 DEF AcksFirst
<1>6. FramesNext(p, b, g)
  <2>1. Len(p) = Len(b) + Len(g)
    BY <1>1, <1>2, <1>3, <1>4
  <2>2. \A i \in 1..Len(g) : p[Len(b) + i] = g[i]
    <3> TAKE i \in 1..Len(g)
    <3>1. Len(b) + i = Len(a) + (i + 1) /\ i + 1 \in 1..Len(f)
      BY <1>1, <1>2, <1>3
    <3> QED BY <1>3, <3>1 DEF FramesNext
  <2> QED BY <2>1, <2>2 DEF FramesNext
<1> QED BY <1>5, <1>6 DEF b, g

LEMMA WireStep ==
  TypeOK /\ Fresh /\ Idle /\ OnTheWire /\ [Next]_vars => (Fresh /\ Idle /\ OnTheWire)'
<1> SUFFICES ASSUME TypeOK, Fresh, Idle, OnTheWire, [Next]_vars
             PROVE  (Fresh /\ Idle /\ OnTheWire)'
  OBVIOUS
<1>types. /\ pending \in Seq(Message) /\ buffer \in Seq(Message)
          /\ link \in [Connections -> {"none", "up", "cut"}]
          /\ frames \in [Connections -> Seq(Message)]
          /\ acks \in [Connections -> Seq(Message)]
          /\ conn \in Nat /\ Connections \subseteq Nat
          /\ state = "transmitting" => conn \in Connections
  BY ReliableSenderAssumption DEF TypeOK, Connections, Idle
<1>1. CASE UNCHANGED <<pending, state, conn, link, frames, acks>>
  BY <1>1 DEF Fresh, Idle, OnTheWire
<1>2. CASE send \/ Drain \/ SkipCancelled \/ TakeNew \/ Boot \/ UNCHANGED vars
  BY <1>1, <1>2 DEF send, Drain, SkipCancelled, TakeNew, Boot, vars, callerVars, taskVars, wireVars
<1>3. ASSUME NEW m \in Message, Cancel(m) PROVE (Fresh /\ Idle /\ OnTheWire)'
  BY <1>1, <1>3 DEF Cancel, taskVars, wireVars
<1>4. ASSUME NEW c \in Connections, PassOn(c) PROVE (Fresh /\ Idle /\ OnTheWire)'
  BY <1>1, <1>4 DEF PassOn, taskVars, wireVars
<1>5. CASE ConnectFails \/ RetryTimer
  BY <1>5 DEF ConnectFails, RetryTimer, wireVars, Fresh, Idle, OnTheWire
<1>6. CASE Connect
  <2>1. /\ state = "connecting" /\ conn' = conn + 1 /\ state' = "transmitting"
        /\ link' = [link EXCEPT ![conn'] = "up"]
        /\ UNCHANGED <<pending, frames, acks>> /\ conn' \in Connections
    BY <1>6, <1>types, ReliableSenderAssumption DEF Connect, TypeOK, Connections
  <2>2. pending = <<>> /\ frames[conn'] = <<>> /\ acks[conn'] = <<>>
    BY <1>types, <2>1 DEF Idle, Fresh
  <2>3. Fresh'
    <3>1. \A c \in Connections : (c > conn' <=> c > conn /\ c # conn')
      BY <1>types, <2>1
    <3>2. \A c \in Connections : link'[c] = IF c = conn' THEN "up" ELSE link[c]
      BY <1>types, <2>1
    <3> QED BY <2>1, <3>1, <3>2 DEF Fresh
  <2>4. AcksFirst(<<>>, <<>>) /\ FramesNext(<<>>, <<>>, <<>>)
    BY DEF AcksFirst, FramesNext
  <2> QED BY <2>1, <2>2, <2>3, <2>4 DEF Idle, OnTheWire
<1>7. CASE Transmit
  <2>1. /\ state = "transmitting" /\ conn \in Connections
        /\ buffer # <<>> /\ pending' = Append(pending, Head(buffer))
        /\ UNCHANGED <<state, conn, link, acks>>
        /\ frames' = IF link[conn] = "up"
                     THEN [frames EXCEPT ![conn] = Append(@, Head(buffer))] ELSE frames
    BY <1>7, <1>types DEF Transmit
  <2>2. Head(buffer) \in Message
    BY <1>types, <2>1, Shortened
  <2>3. frames'[conn] = IF link[conn] = "up" THEN Append(frames[conn], Head(buffer))
                        ELSE frames[conn]
    BY <1>types, <2>1
  <2>4. Fresh'
    <3>1. \A c \in Connections : c > conn => frames'[c] = frames[c]
      BY <1>types, <2>1
    <3> QED BY <2>1, <3>1 DEF Fresh
  <2>5. AcksFirst(pending', acks[conn])
    BY <1>types, <2>1, <2>2, AppendedWire DEF OnTheWire
  <2>6. ASSUME link[conn] = "up" PROVE FramesNext(pending', acks[conn], frames'[conn])
    BY <1>types, <2>1, <2>2, <2>3, <2>6, AppendedWire DEF OnTheWire
  <2> QED BY <2>1, <2>4, <2>5, <2>6 DEF Idle, OnTheWire
<1>8. CASE ReadAck
  <2>1. /\ state = "transmitting" /\ conn \in Connections /\ acks[conn] # <<>>
        /\ pending' = Tail(pending) /\ acks' = [acks EXCEPT ![conn] = Tail(@)]
        /\ UNCHANGED <<state, conn, link, frames>>
    BY <1>8, <1>types DEF ReadAck
  <2>2. acks'[conn] = Tail(acks[conn]) /\ \A c \in Connections : c > conn => acks'[c] = acks[c]
    BY <1>types, <2>1
  <2>3. Fresh'
    BY <2>1, <2>2 DEF Fresh
  <2>4. AcksFirst(pending', acks'[conn])
    BY <1>types, <2>1, <2>2, ShortenedWire DEF OnTheWire
  <2>5. ASSUME link[conn] = "up" PROVE FramesNext(pending', acks'[conn], frames[conn])
    BY <1>types, <2>1, <2>2, <2>5, ShortenedWire DEF OnTheWire
  <2> QED BY <2>1, <2>3, <2>4, <2>5 DEF Idle, OnTheWire
<1>9. CASE ReadError \/ WriteError
  BY <1>9 DEF ReadError, WriteError, Requeue, wireVars, Fresh, Idle, OnTheWire
<1>10. ASSUME NEW c \in Connections, dispatch(c) PROVE (Fresh /\ Idle /\ OnTheWire)'
  <2>1. /\ frames[c] # <<>> /\ frames' = [frames EXCEPT ![c] = Tail(@)]
        /\ acks' = IF link[c] = "up" THEN [acks EXCEPT ![c] = Append(@, Head(frames[c]))] ELSE acks
        /\ UNCHANGED <<pending, state, conn, link>>
    BY <1>10 DEF dispatch, taskVars
  <2>2. ~ (c > conn) /\ link[c] # "none"
    BY <2>1 DEF Fresh
  <2>3. \A d \in Connections :
          /\ d # c => frames'[d] = frames[d] /\ acks'[d] = acks[d]
          /\ d = c => frames'[d] = Tail(frames[d])
          /\ d = c /\ link[d] = "up" => acks'[d] = Append(acks[d], Head(frames[d]))
          /\ d = c /\ link[d] # "up" => acks'[d] = acks[d]
    BY <1>types, <2>1
  <2>4. Fresh'
    BY <2>1, <2>2, <2>3 DEF Fresh
  <2>5. OnTheWire'
    <3> SUFFICES ASSUME state = "transmitting"
                 PROVE  /\ AcksFirst(pending, acks'[conn])
                        /\ link[conn] = "up" => FramesNext(pending, acks'[conn], frames'[conn])
      BY <2>1 DEF OnTheWire
    <3>1. CASE c # conn
      BY <1>types, <2>3, <3>1 DEF OnTheWire
    <3>2. CASE c = conn /\ link[c] # "up"
      BY <1>types, <2>3, <3>2 DEF OnTheWire
    <3>3. CASE c = conn /\ link[c] = "up"
      BY <1>types, <2>1, <2>3, <3>3, MovedWire DEF OnTheWire
    <3> QED BY <3>1, <3>2, <3>3
  <2> QED BY <2>1, <2>4, <2>5 DEF Idle
<1>11. ASSUME NEW c \in Connections, RunnerEnds(c) PROVE (Fresh /\ Idle /\ OnTheWire)'
  <2>1. /\ link[c] = "cut" /\ frames' = [frames EXCEPT ![c] = <<>>]
        /\ UNCHANGED <<pending, state, conn, link, acks>>
    BY <1>11 DEF RunnerEnds, taskVars
  <2>2. \A d \in Connections : frames'[d] = frames[d] \/ (d = c /\ frames'[d] = <<>>)
    BY <1>types, <2>1
  <2> QED BY <1>types, <2>1, <2>2 DEF Fresh, Idle, OnTheWire
<1>12. CASE Cut
  <2>1. /\ conn \in Connections /\ link[conn] = "up" /\ link' = [link EXCEPT ![conn] = "cut"]
        /\ UNCHANGED <<pending, state, conn>>
    BY <1>12, ReliableSenderAssumption DEF Cut, taskVars, Connections
  <2>2. PICK f \in Prefixes(frames[conn]), a \in Prefixes(acks[conn]) :
          frames' = [frames EXCEPT ![conn] = f] /\ acks' = [acks EXCEPT ![conn] = a]
    BY <1>12 DEF Cut
  <2>3. /\ link'[conn] = "cut" /\ acks'[conn] = a
        /\ \A c \in Connections : c > conn => /\ frames'[c] = frames[c] /\ acks'[c] = acks[c]
                                              /\ link'[c] = link[c]
        /\ \A c \in Connections : link'[c] = "none" <=> link[c] = "none"
    BY <1>types, <2>1, <2>2
  <2>4. Fresh'
    BY <2>1, <2>3 DEF Fresh
  <2>5. ASSUME AcksFirst(pending, acks[conn]) PROVE AcksFirst(pending, a)
    <3>1. Len(a) \in Nat /\ Len(a) <= Len(acks[conn]) /\ \A i \in 1..Len(a) : a[i] = acks[conn][i]
      BY <1>types, <2>1, PrefixType
    <3>2. Len(acks[conn]) \in Nat /\ Len(pending) \in Nat
      BY <1>types, <2>1
    <3> QED BY <2>5, <3>1, <3>2 DEF AcksFirst
  <2> QED BY <2>1, <2>3, <2>4, <2>5 DEF Idle, OnTheWire
<1>13. CASE Crash
  <2>1. /\ frames' = [c \in Connections |-> <<>>]
        /\ link' = [c \in Connections |-> IF link[c] = "up" THEN "cut" ELSE link[c]]
        /\ UNCHANGED <<pending, state, conn>>
    BY <1>13 DEF Crash, taskVars
  <2>2. CASE conn = 0
    <3>1. acks' = acks /\ state # "transmitting"
      BY <1>13, <1>types, <2>2 DEF Crash, Connections
    <3> QED BY <1>types, <2>1, <3>1 DEF Fresh, Idle, OnTheWire
  <2>3. CASE conn # 0
    <3>0. conn \in Connections
      BY <1>types, <2>3, ReliableSenderAssumption DEF TypeOK, Connections
    <3>1. PICK a \in Prefixes(acks[conn]) : acks' = [acks EXCEPT ![conn] = a]
      BY <1>13, <2>3 DEF Crash
    <3>2. acks'[conn] = a /\ \A c \in Connections : c > conn => acks'[c] = acks[c]
      BY <1>types, <3>0, <3>1
    <3>3. \A c \in Connections : /\ link'[c] = "none" <=> link[c] = "none"
                                 /\ link'[c] # "up" /\ frames'[c] = <<>>
      BY <1>types, <2>1
    <3>4. ASSUME AcksFirst(pending, acks[conn]) PROVE AcksFirst(pending, a)
      <4>1. Len(a) \in Nat /\ Len(a) <= Len(acks[conn]) /\ \A i \in 1..Len(a) : a[i] = acks[conn][i]
        BY <1>types, <3>0, PrefixType
      <4>2. Len(acks[conn]) \in Nat /\ Len(pending) \in Nat
        BY <1>types, <3>0
      <4> QED BY <3>4, <4>1, <4>2 DEF AcksFirst
    <3>5. Fresh'
      BY <2>1, <3>2, <3>3 DEF Fresh
    <3> QED BY <2>1, <3>0, <3>2, <3>3, <3>4, <3>5 DEF Idle, OnTheWire
  <2> QED BY <2>2, <2>3
<1> QED BY <1>2, <1>3, <1>4, <1>5, <1>6, <1>7, <1>8, <1>9, <1>10, <1>11, <1>12, <1>13
  DEF Next, Task

-----------------------------------------------------------------------------
(* The peer: AckedReceived, ReceivedKept and FramesInOrder. *)

LEMMA PeerInit == Init => AckedReceived /\ ReceivedKept /\ FramesInOrder
<1> SUFFICES ASSUME Init PROVE AckedReceived /\ ReceivedKept /\ FramesInOrder
  OBVIOUS
<1>1. \A c \in Connections : acks[c] = <<>> /\ frames[c] = <<>>
  BY DEF Init
<1>2. Len(<<>>) = 0 /\ \A i \in 1..0 : FALSE
  OBVIOUS
<1>3. AckedReceived
  BY <1>1, <1>2 DEF Init, AckedReceived
<1>4. FramesInOrder
  BY <1>1, <1>2 DEF FramesInOrder
<1> QED BY <1>3, <1>4 DEF Init, ReceivedKept

\* The frames f of a connection may be read in their order, when the messages
\* up to s were sent, those of r were received, and the handles are H.
Readable(f, s, r, H) ==
  \A k \in 1..Len(f) :
    /\ f[k] <= s
    /\ \A i \in 1..(f[k] - 1) :
         \/ i \in r
         \/ H[i] = "cancelled"
         \/ \E j \in 1..(k - 1) : f[j] = i

LEMMA ReadableStays ==
  ASSUME NEW f \in Seq(Message), Readable(f, sent, received, handle), sent \in Nat, sent' \in Nat, sent <= sent',
         sent' <= MaxMessages, MaxMessages \in Nat,
         received \subseteq received',
         \A m \in Message : handle[m] = "cancelled" => handle'[m] = "cancelled"
  PROVE  Readable(f, sent, received, handle)'
<1> SUFFICES ASSUME NEW k \in 1..Len(f)
             PROVE  /\ f[k] <= sent'
                    /\ \A i \in 1..(f[k] - 1) :
                         \/ i \in received'
                         \/ handle'[i] = "cancelled"
                         \/ \E j \in 1..(k - 1) : f[j] = i
  BY DEF Readable
<1>1. f[k] \in Nat /\ f[k] <= sent
  BY DEF Readable, Message
<1>2. \A i \in 1..(f[k] - 1) : i \in Message
  BY <1>1 DEF Message
<1> QED BY <1>1, <1>2 DEF Readable

LEMMA ReadablePrefix ==
  ASSUME NEW f \in Seq(Message), Readable(f, sent, received, handle), NEW g \in Prefixes(f)
  PROVE  Readable(g, sent, received, handle)
<1>1. Len(g) \in Nat /\ Len(f) \in Nat /\ Len(g) <= Len(f) /\ \A i \in 1..Len(g) : g[i] = f[i]
  BY PrefixType
<1>2. \A k \in 1..Len(g) : k \in 1..Len(f) /\ \A j \in 1..(k - 1) : j \in 1..Len(g)
  BY <1>1
<1> QED BY <1>1, <1>2 DEF Readable

LEMMA PeerStep ==
  IInv /\ [Next]_vars => (AckedReceived /\ ReceivedKept /\ FramesInOrder)'
<1> SUFFICES ASSUME IInv, [Next]_vars
             PROVE  (AckedReceived /\ ReceivedKept /\ FramesInOrder)'
  OBVIOUS
<1>types. /\ pending \in Seq(Message) /\ buffer \in Seq(Message)
          /\ link \in [Connections -> {"none", "up", "cut"}]
          /\ frames \in [Connections -> Seq(Message)]
          /\ acks \in [Connections -> Seq(Message)]
          /\ handle \in [Message -> {"none", "open", "cancelled", "acked"}]
          /\ held \in [Connections -> Message \cup {NoMessage}]
          /\ received \subseteq Message
          /\ sent \in Nat /\ sent <= MaxMessages /\ crashes \in Nat /\ MaxMessages \in Nat
  BY ReliableSenderAssumption DEF IInv, TypeOK
<1>inv. AckedReceived /\ ReceivedKept /\ FramesInOrder
  BY DEF IInv
<1>frames. \A c \in Connections : Readable(frames[c], sent, received, handle)
  BY <1>inv DEF FramesInOrder, Readable
<1>sent. sent' \in Nat /\ sent <= sent' /\ sent' <= MaxMessages
  <2>1. CASE send
    BY <1>types, <2>1, ReliableSenderAssumption DEF send
  <2>2. CASE sent' = sent
    BY <1>types, <2>2
  <2> QED BY <2>1, <2>2 DEF Next, Task, Cancel, Connect, ConnectFails, RetryTimer, Drain,
             SkipCancelled, Transmit, TakeNew, ReadAck, ReadError, WriteError, dispatch, PassOn,
             RunnerEnds, Boot, Cut, Crash, vars, callerVars
<1>received. received \subseteq received'
  BY DEF Next, Task, send, Cancel, Connect, ConnectFails, RetryTimer, Drain,
             SkipCancelled, Transmit, TakeNew, ReadAck, ReadError, WriteError, dispatch, PassOn,
             RunnerEnds, Boot, Cut, Crash, vars, peerVars
\* No handle is resolved but by ReadAck, and no cancelled handle changes.
<1>handles. \A m \in Message :
              /\ handle[m] = "cancelled" => handle'[m] = "cancelled"
              /\ handle'[m] = "acked" => handle[m] = "acked" \/ m \in received
  <2>1. CASE send
    <3>1. /\ sent' = sent + 1 /\ handle' = [handle EXCEPT ![sent'] = "open"] /\ sent' \in Message
      BY <1>types, <2>1, ReliableSenderAssumption DEF send, Message
    <3>2. handle[sent'] = "none"
      BY <1>types, <3>1 DEF IInv, Numbered
    <3> QED BY <1>types, <3>1, <3>2
  <2>2. ASSUME NEW k \in Message, Cancel(k)
        PROVE  \A m \in Message :
                 /\ handle[m] = "cancelled" => handle'[m] = "cancelled"
                 /\ handle'[m] = "acked" => handle[m] = "acked" \/ m \in received
    BY <1>types, <2>2 DEF Cancel
  <2>3. CASE ReadAck
    <3>1. /\ acks[conn] # <<>> /\ conn \in Connections /\ pending # <<>> /\ state = "transmitting"
          /\ handle' = [handle EXCEPT ![Head(pending)] = IF @ = "open" THEN "acked" ELSE @]
      BY <2>3 DEF ReadAck, IInv, Idle
    <3>2. Head(pending) = Head(acks[conn])
      BY <1>types, <3>1, ShortenedWire DEF IInv, OnTheWire
    <3>3. Head(acks[conn]) = acks[conn][1] /\ 1 \in 1..Len(acks[conn])
      BY <1>types, <3>1, Shortened
    <3>4. Head(pending) \in received
      BY <1>inv, <3>1, <3>2, <3>3 DEF AckedReceived
    <3> QED BY <1>types, <3>1, <3>4
  <2>4. CASE handle' = handle
    BY <2>4
  <2> QED BY <2>1, <2>2, <2>3, <2>4 DEF Next, Task, Connect, ConnectFails, RetryTimer, Drain,
             SkipCancelled, Transmit, TakeNew, ReadError, WriteError, dispatch, PassOn,
             RunnerEnds, Boot, Cut, Crash, vars, callerVars
<1>acks. ASSUME NEW c \in Connections, acks'[c] = acks[c]
         PROVE  \A i \in 1..Len(acks'[c]) : acks'[c][i] \in received'
  BY <1>inv, <1>received, <1>acks DEF AckedReceived
<1>stays. ASSUME NEW c \in Connections, NEW f \in Prefixes(frames[c]), frames'[c] = f
          PROVE  Readable(frames[c], sent, received, handle)' 
  <2>1. Readable(f, sent, received, handle) /\ f \in Seq(Message)
    BY <1>types, <1>frames, ReadablePrefix, PrefixType
  <2>2. Readable(f, sent, received, handle)'
    BY <1>types, <1>sent, <1>received, <1>handles, <2>1, ReadableStays
  <2> QED BY <1>stays, <2>2
<1>whole. \A c \in Connections : frames[c] \in Prefixes(frames[c]) /\ <<>> \in Prefixes(frames[c])
  <2> TAKE c \in Connections
  <2>1. frames[c] \in Seq(Message) /\ Len(frames[c]) \in 0..Len(frames[c]) /\ 0 \in 0..Len(frames[c])
    BY <1>types
  <2>2. SubSeq(frames[c], 1, Len(frames[c])) = frames[c] /\ SubSeq(frames[c], 1, 0) = <<>>
    BY <2>1
  <2> QED BY <2>1, <2>2 DEF Prefixes
<1>1. (\A c \in Connections : \A i \in 1..Len(acks'[c]) : acks'[c][i] \in received')
        => AckedReceived'
  BY <1>received, <1>handles, <1>inv DEF AckedReceived
<1>2. (\A c \in Connections : Readable(frames[c], sent, received, handle)') => FramesInOrder'
  BY DEF FramesInOrder, Readable
<1>3. CASE UNCHANGED <<frames, acks, held, received, delivered, crashes>>
  <2>1. AckedReceived'
    BY <1>1, <1>acks, <1>3
  <2>2. FramesInOrder'
    BY <1>2, <1>stays, <1>whole, <1>3
  <2> QED BY <1>3, <1>inv, <2>1, <2>2 DEF ReceivedKept
<1>4. CASE Transmit
  <2>1. /\ state = "transmitting" /\ conn \in Connections /\ buffer # <<>>
        /\ UNCHANGED <<handle, sent, acks, held, received, delivered, crashes>>
        /\ frames' = IF link[conn] = "up"
                     THEN [frames EXCEPT ![conn] = Append(@, Head(buffer))] ELSE frames
    BY <1>4 DEF Transmit, callerVars, peerVars, IInv, Idle
  <2>2. AckedReceived'
    BY <1>1, <1>acks, <2>1
  <2>3. CASE link[conn] # "up"
    BY <1>3, <2>1, <2>3
  <2>4. CASE link[conn] = "up"
    <3> DEFINE f == frames[conn]
               h == Head(buffer)
    <3>1. h \in Message /\ In(h, buffer) /\ \A m \in Message : In(m, buffer) => m = h \/ h < m
      BY <1>types, <2>1, InShortened DEF IInv, Ordered
    <3>2. f \in Seq(Message) /\ Readable(f, sent, received, handle)
      BY <1>types, <1>frames, <2>1
    <3>3. h <= sent
      BY <3>1 DEF IInv, Numbered, InBacklog
    <3>4. ASSUME NEW i \in 1..(h - 1)
          PROVE  i \in received \/ handle[i] = "cancelled" \/ \E j \in 1..Len(f) : f[j] = i
      <4>1. i \in Message /\ i < h /\ ~ (i > sent)
        BY <1>types, <3>1, <3>3 DEF Message
      <4>2. handle[i] \in {"open", "acked", "cancelled"}
        BY <1>types, <4>1 DEF IInv, Numbered
      <4>3. handle[i] = "acked" => i \in received
        BY <1>inv, <4>1 DEF AckedReceived
      <4>4. CASE handle[i] = "open"
        <5>1. In(i, pending)
          <6>1. InBacklog(i)
            BY <4>1, <4>4 DEF IInv, OpenKept
          <6>2. ~ In(i, buffer)
            BY <3>1, <4>1 DEF Message
          <6>3. ~ In(i, channel)
            BY <3>1, <4>1 DEF IInv, Ordered, Before, Message
          <6> QED BY <6>1, <6>2, <6>3 DEF InBacklog
        <5>2. PICK p \in 1..Len(pending) : pending[p] = i
          BY <5>1 DEF In
        <5>3. AcksFirst(pending, acks[conn]) /\ FramesNext(pending, acks[conn], f)
          BY <2>1, <2>4 DEF IInv, OnTheWire
        <5>4. Len(acks[conn]) \in Nat /\ Len(f) \in Nat /\ Len(pending) = Len(acks[conn]) + Len(f)
          BY <1>types, <2>1, <3>2, <5>3 DEF FramesNext
        <5>5. CASE p <= Len(acks[conn])
          <6>1. p \in 1..Len(acks[conn])
            BY <5>4, <5>5
          <6>2. acks[conn][p] = i
            BY <5>2, <5>3, <6>1 DEF AcksFirst
          <6> QED BY <1>inv, <2>1, <6>1, <6>2 DEF AckedReceived
        <5>6. CASE ~ (p <= Len(acks[conn]))
          <6>1. p - Len(acks[conn]) \in 1..Len(f) /\ Len(acks[conn]) + (p - Len(acks[conn])) = p
            <7> HIDE DEF f
            <7> QED BY <5>4, <5>6
          <6>2. f[p - Len(acks[conn])] = i
            BY <5>2, <5>3, <6>1 DEF FramesNext
          <6> QED BY <6>1, <6>2
        <5> QED BY <5>5, <5>6
      <4> QED BY <4>2, <4>3, <4>4
    <3>5. Readable(Append(f, h), sent, received, handle)
      <4> DEFINE g == Append(f, h)
      <4>1. /\ Len(f) \in Nat /\ Len(g) = Len(f) + 1 /\ g[Len(f) + 1] = h
            /\ \A i \in 1..Len(f) : g[i] = f[i]
        BY <3>1, <3>2, Appended
      <4> HIDE DEF g, f, h
      <4>2. ASSUME NEW k \in 1..Len(g)
            PROVE  /\ g[k] <= sent
                   /\ \A i \in 1..(g[k] - 1) :
                        \/ i \in received
                        \/ handle[i] = "cancelled"
                        \/ \E j \in 1..(k - 1) : g[j] = i
        <5>1. CASE k = Len(f) + 1
          <6>1. g[k] = h /\ k - 1 = Len(f)
            BY <4>1, <5>1
          <6> QED BY <3>3, <3>4, <4>1, <6>1
        <5>2. CASE k \in 1..Len(f)
          <6>1. g[k] = f[k] /\ \A j \in 1..(k - 1) : g[j] = f[j]
            BY <4>1, <5>2
          <6> QED BY <3>2, <5>2, <6>1 DEF Readable
        <5>3. k = Len(f) + 1 \/ k \in 1..Len(f)
          BY <4>1
        <5> QED BY <5>1, <5>2, <5>3
      <4> QED BY <4>2 DEF Readable, g
    <3>6. \A c \in Connections : Readable(frames[c], sent, received, handle)'
      <4> TAKE c \in Connections
      <4>1. CASE c = conn
        <5>1. frames'[c] = Append(f, h)
          BY <1>types, <2>1, <2>4, <4>1
        <5> QED BY <2>1, <3>5, <5>1
      <4>2. CASE c # conn
        <5>1. frames'[c] = frames[c]
          BY <1>types, <2>1, <2>4, <4>2
        <5> QED BY <1>stays, <1>whole, <5>1
      <4> QED BY <4>1, <4>2
    <3> QED BY <1>2, <1>inv, <2>1, <2>2, <3>6 DEF ReceivedKept
  <2> QED BY <2>3, <2>4
<1>5. CASE ReadAck
  <2>1. /\ state = "transmitting" /\ conn \in Connections /\ acks[conn] # <<>>
        /\ acks' = [acks EXCEPT ![conn] = Tail(@)]
        /\ UNCHANGED <<frames, held, received, delivered, crashes>>
    BY <1>5 DEF ReadAck, peerVars, IInv, Idle
  <2>2. \A c \in Connections : \A i \in 1..Len(acks'[c]) : acks'[c][i] \in received'
    <3> TAKE c \in Connections
    <3>1. CASE c = conn
      <4>1. /\ acks'[c] = Tail(acks[c])
            /\ \A i \in 1..Len(Tail(acks[c])) : i + 1 \in 1..Len(acks[c]) /\ Tail(acks[c])[i] = acks[c][i + 1]
        BY <1>types, <2>1, <3>1, Shortened
      <4> QED BY <1>inv, <2>1, <4>1 DEF AckedReceived
    <3>2. CASE c # conn
      BY <1>types, <1>acks, <2>1, <3>2
    <3> QED BY <3>1, <3>2
  <2>3. FramesInOrder'
    BY <1>2, <1>stays, <1>whole, <2>1
  <2> QED BY <1>1, <1>inv, <2>1, <2>2, <2>3 DEF ReceivedKept
<1>6. ASSUME NEW c \in Connections, dispatch(c)
      PROVE  (AckedReceived /\ ReceivedKept /\ FramesInOrder)'
  <2> DEFINE f == frames[c]
  <2>1. /\ f # <<>> /\ held[c] = NoMessage
        /\ held' = [held EXCEPT ![c] = Head(f)]
        /\ received' = received \cup {Head(f)}
        /\ frames' = [frames EXCEPT ![c] = Tail(@)]
        /\ acks' = IF link[c] = "up" THEN [acks EXCEPT ![c] = Append(@, Head(f))] ELSE acks
        /\ UNCHANGED <<sent, handle, delivered, crashes>>
    BY <1>6 DEF dispatch, callerVars
  <2>2. /\ f \in Seq(Message) /\ Readable(f, sent, received, handle) /\ Head(f) \in Message /\ Head(f) = f[1]
        /\ Len(f) \in Nat \ {0} /\ Len(Tail(f)) = Len(f) - 1
        /\ \A i \in 1..Len(Tail(f)) : i + 1 \in 1..Len(f) /\ Tail(f)[i] = f[i + 1]
    BY <1>types, <1>frames, <2>1, Shortened
  <2>3. \A d \in Connections : \A i \in 1..Len(acks'[d]) : acks'[d][i] \in received'
    <3> TAKE d \in Connections
    <3>1. CASE d = c /\ link[c] = "up"
      <4>1. acks'[d] = Append(acks[d], Head(f)) /\ acks[d] \in Seq(Message)
        BY <1>types, <2>1, <3>1
      <4>2. \A i \in DOMAIN Append(acks[d], Head(f)) :
              \/ Append(acks[d], Head(f))[i] = Head(f)
              \/ i \in DOMAIN acks[d] /\ Append(acks[d], Head(f))[i] = acks[d][i]
        BY <2>2, <4>1, Appended
      <4>3. DOMAIN Append(acks[d], Head(f)) = 1..Len(Append(acks[d], Head(f)))
            /\ DOMAIN acks[d] = 1..Len(acks[d])
        BY <2>2, <4>1
      <4> HIDE DEF f
      <4> QED BY <1>inv, <2>1, <4>1, <4>2, <4>3 DEF AckedReceived
    <3>2. CASE ~ (d = c /\ link[c] = "up")
      BY <1>types, <1>acks, <2>1, <3>2
    <3> QED BY <3>1, <3>2
  <2>4. \A d \in Connections : Readable(frames[d], sent, received, handle)'
    <3> TAKE d \in Connections
    <3>1. CASE d = c
      <4> DEFINE g == Tail(f)
      <4>1. frames'[d] = g
        BY <1>types, <2>1, <3>1
      <4>2. ASSUME NEW k \in 1..Len(g)
            PROVE  /\ g[k] <= sent
                   /\ \A i \in 1..(g[k] - 1) :
                        \/ i \in received'
                        \/ handle[i] = "cancelled"
                        \/ \E j \in 1..(k - 1) : g[j] = i
        <5>1. /\ k + 1 \in 1..Len(f) /\ g[k] = f[k + 1] /\ (k + 1) - 1 = k
              /\ Len(g) = Len(f) - 1 /\ \A j \in 1..Len(g) : g[j] = f[j + 1]
          BY <2>2
        <5> HIDE DEF f, g
        <5>2. g[k] <= sent
          BY <2>2, <5>1 DEF Readable
        <5>3. ASSUME NEW i \in 1..(g[k] - 1), i \notin received', handle[i] # "cancelled"
              PROVE  \E j \in 1..(k - 1) : g[j] = i
          <6>1. \E j \in 1..k : f[j] = i
            BY <2>1, <2>2, <5>1, <5>3 DEF Readable
          <6>2. PICK j \in 1..k : f[j] = i
            BY <6>1
          <6>3. j # 1
            BY <2>1, <2>2, <5>3, <6>2
          <6>4. j - 1 \in 1..(k - 1) /\ j - 1 \in 1..Len(g) /\ (j - 1) + 1 = j
            BY <5>1, <6>2, <6>3
          <6> QED BY <5>1, <6>2, <6>4
        <5> QED BY <5>2, <5>3
      <4> HIDE DEF g
      <4>3. Readable(g, sent, received', handle)
        BY <4>2 DEF Readable
      <4> QED BY <2>1, <4>1, <4>3
    <3>2. CASE d # c
      <4>1. frames'[d] = frames[d]
        BY <1>types, <2>1, <3>2
      <4> QED BY <1>stays, <1>whole, <4>1
    <3> QED BY <3>1, <3>2
  <2>5. ReceivedKept'
    <3> SUFFICES ASSUME crashes = 0, NEW m \in received'
                 PROVE  m \in delivered \/ \E d \in Connections : held'[d] = m
      BY <2>1 DEF ReceivedKept
    <3>1. CASE m = Head(f)
      BY <1>types, <2>1, <3>1
    <3>2. CASE m \in received
      <4>1. m \in Message /\ m # NoMessage
        BY <1>types, <3>2 DEF Message, NoMessage
      <4>2. m \in delivered \/ \E d \in Connections : held[d] = m
        BY <1>inv, <3>2 DEF ReceivedKept
      <4> QED BY <1>types, <2>1, <4>1, <4>2
    <3> QED BY <2>1, <3>1, <3>2
  <2> QED BY <1>1, <1>2, <2>3, <2>4, <2>5
<1>7. ASSUME NEW c \in Connections, PassOn(c)
      PROVE  (AckedReceived /\ ReceivedKept /\ FramesInOrder)'
  <2>1. /\ delivered' = delivered \cup {held[c]} /\ held' = [held EXCEPT ![c] = NoMessage]
        /\ UNCHANGED <<frames, acks, received, crashes>>
    BY <1>7 DEF PassOn, wireVars
  <2>2. AckedReceived'
    BY <1>1, <1>acks, <2>1
  <2>3. FramesInOrder'
    BY <1>2, <1>stays, <1>whole, <2>1
  <2>4. ReceivedKept'
    BY <1>types, <1>inv, <2>1 DEF ReceivedKept
  <2> QED BY <2>2, <2>3, <2>4
<1>8. ASSUME NEW c \in Connections, RunnerEnds(c)
      PROVE  (AckedReceived /\ ReceivedKept /\ FramesInOrder)'
  <2>1. /\ frames' = [frames EXCEPT ![c] = <<>>]
        /\ UNCHANGED <<acks, held, received, delivered, crashes>>
    BY <1>8 DEF RunnerEnds, peerVars
  <2>2. AckedReceived'
    BY <1>1, <1>acks, <2>1
  <2>3. \A d \in Connections : frames'[d] = frames[d] \/ frames'[d] = <<>>
    BY <1>types, <2>1
  <2>4. FramesInOrder'
    BY <1>2, <1>stays, <1>whole, <2>3
  <2> QED BY <1>inv, <2>1, <2>2, <2>4 DEF ReceivedKept
<1>9. CASE Cut
  <2>1. conn \in Connections /\ UNCHANGED <<held, received, delivered, crashes>>
    BY <1>9, ReliableSenderAssumption DEF Cut, peerVars, Connections
  <2>2. PICK f \in Prefixes(frames[conn]), a \in Prefixes(acks[conn]) :
          frames' = [frames EXCEPT ![conn] = f] /\ acks' = [acks EXCEPT ![conn] = a]
    BY <1>9 DEF Cut
  <2>3. \A c \in Connections : \A i \in 1..Len(acks'[c]) : acks'[c][i] \in received'
    <3> TAKE c \in Connections
    <3>1. CASE c = conn
      <4>1. acks'[c] = a
        BY <1>types, <2>2, <3>1
      <4>2. /\ Len(a) \in Nat /\ Len(acks[c]) \in Nat /\ Len(a) <= Len(acks[c])
            /\ \A i \in 1..Len(a) : a[i] = acks[c][i]
        BY <1>types, <2>2, <3>1, PrefixType
      <4>3. \A i \in 1..Len(a) : i \in 1..Len(acks[c])
        BY <4>2
      <4> QED BY <1>inv, <2>1, <4>1, <4>2, <4>3 DEF AckedReceived
    <3>2. CASE c # conn
      BY <1>types, <1>acks, <2>2, <3>2
    <3> QED BY <3>1, <3>2
  <2>4. \A c \in Connections : Readable(frames[c], sent, received, handle)'
    <3> TAKE c \in Connections
    <3>1. CASE c = conn
      BY <1>types, <1>stays, <2>2, <3>1
    <3>2. CASE c # conn
      <4>1. frames'[c] = frames[c]
        BY <1>types, <2>2, <3>2
      <4> QED BY <1>stays, <1>whole, <4>1
    <3> QED BY <3>1, <3>2
  <2> QED BY <1>1, <1>2, <1>inv, <2>1, <2>3, <2>4 DEF ReceivedKept
<1>10. CASE Crash
  <2>1. /\ crashes' = crashes + 1 /\ frames' = [c \in Connections |-> <<>>]
        /\ UNCHANGED received
    BY <1>10 DEF Crash
  <2>2. ReceivedKept'
    BY <1>types, <2>1 DEF ReceivedKept
  <2>3. FramesInOrder'
    <3>1. \A c \in Connections : frames'[c] = <<>>
      BY <2>1
    <3> QED BY <1>2, <1>stays, <1>whole, <3>1
  <2>4. \A c \in Connections : \A i \in 1..Len(acks'[c]) : acks'[c][i] \in received'
    <3>1. CASE conn = 0
      BY <1>10, <1>acks, <3>1 DEF Crash
    <3>2. CASE conn # 0
      <4>1. conn \in Connections
        BY <3>2, ReliableSenderAssumption DEF IInv, TypeOK, Connections
      <4>2. PICK a \in Prefixes(acks[conn]) : acks' = [acks EXCEPT ![conn] = a]
        BY <1>10, <3>2 DEF Crash
      <4> TAKE c \in Connections
      <4>3. CASE c = conn
        <5>1. acks'[c] = a
          BY <1>types, <4>2, <4>3
        <5>2. /\ Len(a) \in Nat /\ Len(acks[c]) \in Nat /\ Len(a) <= Len(acks[c])
              /\ \A i \in 1..Len(a) : a[i] = acks[c][i]
          BY <1>types, <4>2, <4>3, PrefixType
        <5>3. \A i \in 1..Len(a) : i \in 1..Len(acks[c])
          BY <5>2
        <5> QED BY <1>inv, <2>1, <5>1, <5>2, <5>3 DEF AckedReceived
      <4>4. CASE c # conn
        BY <1>types, <1>acks, <4>2, <4>4
      <4> QED BY <4>3, <4>4
    <3> QED BY <3>1, <3>2
  <2> QED BY <1>1, <2>2, <2>3, <2>4
<1>11. CASE send \/ Connect \/ ConnectFails \/ RetryTimer \/ Drain \/ SkipCancelled \/ TakeNew
  BY <1>3, <1>11 DEF send, Connect, ConnectFails, RetryTimer, Drain, SkipCancelled, TakeNew,
                     wireVars, peerVars
<1>12. CASE ReadError \/ WriteError \/ Boot \/ UNCHANGED vars
  BY <1>3, <1>12 DEF ReadError, WriteError, Boot, vars, wireVars, peerVars
<1>13. ASSUME NEW m \in Message, Cancel(m)
       PROVE  (AckedReceived /\ ReceivedKept /\ FramesInOrder)'
  BY <1>3, <1>13 DEF Cancel, wireVars, peerVars
<1> QED BY <1>4, <1>5, <1>6, <1>7, <1>8, <1>9, <1>10, <1>11, <1>12, <1>13 DEF Next, Task

-----------------------------------------------------------------------------
(* The theorems. *)

LEMMA SenderInit == Init => IInv
BY InitTypes, BacklogInit, WireInit, PeerInit DEF IInv

LEMMA SenderStep == IInv /\ [Next]_vars => IInv'
BY StepTypes, BacklogStep, WireStep, PeerStep DEF IInv

\* Each variable of a Connection and of its peer keeps its type; the channel
\* never holds more than its capacity.
THEOREM SenderTypes == Spec => []TypeOK
BY InitTypes, StepTypes, PTL DEF Spec

\* The inductive invariant: every message without its Ack is in one place of
\* the sender's task, in order, and what the task, the frames, the Acks and the
\* runners of every connection hold continues each other, however Requeue,
\* Cut and Crash interleave (reliable_sender.rs:142-256).
THEOREM SenderInvariant == Spec => []IInv
BY SenderInit, SenderStep, PTL DEF Spec

\* However often the connection fails, and whatever is cancelled meanwhile, a
\* message without its Ack is in pending_replies, the buffer or the channel, and
\* there once, behind all the older ones (reliable_sender.rs:201-206, 253).
THEOREM SenderLosesNothing == Spec => []NothingLost
<1>1. IInv => NothingLost
  <2> SUFFICES ASSUME IInv PROVE NothingLost
    OBVIOUS
  <2>1. channel \in Seq(Message) /\ buffer \in Seq(Message) /\ pending \in Seq(Message)
    BY DEF IInv, TypeOK
  <2> DEFINE front == pending \o buffer
  <2>2. /\ front \in Seq(Message) /\ Increasing(front)
        /\ \A m : In(m, front) <=> In(m, pending) \/ In(m, buffer)
    BY <2>1, Concatenated, InConcatenated DEF IInv, Ordered
  <2>3. Before(front, channel)
    BY <2>2 DEF IInv, Ordered, Before
  <2>4. Backlog = front \o channel
    BY DEF Backlog
  <2> HIDE DEF front
  <2>5. /\ Backlog \in Seq(Message) /\ Increasing(Backlog)
        /\ \A m : In(m, Backlog) <=> In(m, front) \/ In(m, channel)
    BY <2>1, <2>2, <2>3, <2>4, Concatenated, InConcatenated DEF IInv, Ordered
  <2>6. \A m \in Message : handle[m] = "open" => In(m, Backlog)
    BY <2>2, <2>5 DEF IInv, OpenKept, InBacklog
  <2>7. \A i \in 1..(Len(Backlog) - 1) : /\ i \in 1..Len(Backlog) /\ i + 1 \in 1..Len(Backlog)
                                         /\ i < i + 1
    BY <2>5
  <2> QED BY <2>5, <2>6, <2>7 DEF NothingLost, Increasing, In
<1> QED BY <1>1, SenderInvariant, PTL

\* An Ack names no message, but the n-th that arrives is always for the n-th
\* pending reply: no handle is resolved with the Ack of another message
\* (reliable_sender.rs:230).
THEOREM AcksAreForPending == Spec => []AcksMatchPending
<1>1. IInv => AcksMatchPending
  <2> SUFFICES ASSUME IInv, state = "transmitting", link[conn] = "up"
               PROVE  pending = acks[conn] \o frames[conn]
    BY DEF AcksMatchPending
  <2> DEFINE a == acks[conn]
             f == frames[conn]
  <2>1. pending \in Seq(Message) /\ a \in Seq(Message) /\ f \in Seq(Message)
    BY DEF IInv, TypeOK, Idle
  <2>2. AcksFirst(pending, a) /\ FramesNext(pending, a, f)
    BY DEF IInv, OnTheWire
  <2> HIDE DEF a, f
  <2>3. /\ a \o f \in Seq(Message) /\ Len(a \o f) = Len(a) + Len(f)
        /\ Len(a) \in Nat /\ Len(f) \in Nat
        /\ \A i \in 1..Len(a) : (a \o f)[i] = a[i]
        /\ \A i \in 1..Len(f) : (a \o f)[Len(a) + i] = f[i]
        /\ \A i \in 1..Len(a \o f) : i \in 1..Len(a) \/ i - Len(a) \in 1..Len(f)
    BY <2>1, Concatenated
  <2>4. Len(pending) = Len(a \o f)
    BY <2>2, <2>3 DEF FramesNext
  <2>5. ASSUME NEW i \in 1..Len(pending) PROVE pending[i] = (a \o f)[i]
    <3>1. CASE i \in 1..Len(a)
      BY <2>2, <2>3, <3>1 DEF AcksFirst
    <3>2. CASE i - Len(a) \in 1..Len(f)
      <4>1. Len(a) + (i - Len(a)) = i
        BY <2>1, <2>3
      <4> QED BY <2>2, <2>3, <3>2, <4>1 DEF FramesNext
    <3> QED BY <2>3, <2>4, <3>1, <3>2
  <2>6. pending = a \o f
    BY <2>1, <2>3, <2>4, <2>5, SeqEqual
  <2> QED BY <2>6 DEF a, f
<1> QED BY <1>1, SenderInvariant, PTL

\* The peer writes an Ack before it passes the message on: unless it has crashed
\* in between, a message with an Ack is passed on or in the hands of a runner
\* (mempool.rs:246).
THEOREM AckedAreDelivered == Spec => []AckedIsDelivered
<1>1. IInv => AckedIsDelivered
  BY DEF IInv, AckedReceived, ReceivedKept, AckedIsDelivered
<1> QED BY <1>1, SenderInvariant, PTL

\* The sender implements AckedDelivery: through every cut, crash, resend and
\* cancellation, handles are resolved for received messages only, and the peer
\* receives messages for the first time in the order in which they were sent.
THEOREM ImplementsAckedDelivery == Spec => KeepsPromise
<1>1. Init => Promise!Init
  BY DEF Init, Promise!Init, Message, Promise!Message
<1>2. IInv /\ [Next]_vars => [Promise!Next]_(Promise!vars)
  <2> SUFFICES ASSUME IInv, [Next]_vars PROVE [Promise!Next]_(Promise!vars)
    OBVIOUS
  <2>m. Promise!Message = Message
    BY DEF Promise!Message, Message
  <2>1. CASE send
    <3>1. Promise!Send
      BY <2>1 DEF send, peerVars, Promise!Send
    <3> QED BY <3>1 DEF Promise!Next
  <2>2. ASSUME NEW m \in Message, Cancel(m) PROVE Promise!Next
    <3>1. Promise!Cancel(m)
      BY <2>2 DEF Cancel, peerVars, Promise!Cancel
    <3> QED BY <2>m, <3>1 DEF Promise!Next
  <2>3. CASE ReadAck
    <3>1. /\ acks[conn] # <<>> /\ conn \in Connections /\ pending # <<>> /\ state = "transmitting"
          /\ handle' = [handle EXCEPT ![Head(pending)] = IF @ = "open" THEN "acked" ELSE @]
          /\ UNCHANGED <<sent, received>>
      BY <2>3 DEF ReadAck, peerVars, IInv, Idle
    <3>2. /\ pending \in Seq(Message) /\ acks[conn] \in Seq(Message) /\ frames[conn] \in Seq(Message)
          /\ handle \in [Message -> {"none", "open", "cancelled", "acked"}]
      BY <3>1 DEF IInv, TypeOK
    <3>3. Head(pending) = Head(acks[conn])
      BY <3>1, <3>2, ShortenedWire DEF IInv, OnTheWire
    <3>4. Head(acks[conn]) = acks[conn][1] /\ 1 \in 1..Len(acks[conn])
      BY <3>1, <3>2, Shortened
    <3>5. Head(pending) \in received /\ Head(pending) \in Message
      BY <3>1, <3>2, <3>3, <3>4, Shortened DEF IInv, AckedReceived
    <3>6. CASE handle[Head(pending)] = "open"
      <4>1. Promise!Acknowledge(Head(pending))
        BY <3>1, <3>2, <3>5, <3>6 DEF Promise!Acknowledge
      <4> QED BY <2>m, <3>5, <4>1 DEF Promise!Next
    <3>7. CASE handle[Head(pending)] # "open"
      <4>1. handle' = handle
        BY <3>1, <3>2, <3>7
      <4> QED BY <3>1, <4>1 DEF Promise!vars
    <3> QED BY <3>6, <3>7
  <2>4. ASSUME NEW c \in Connections, dispatch(c) PROVE Promise!Next
    <3> DEFINE h == Head(frames[c])
    <3>1. /\ frames[c] # <<>> /\ received' = received \cup {h} /\ UNCHANGED <<sent, handle>>
      BY <2>4 DEF dispatch, callerVars
    <3>2. frames[c] \in Seq(Message)
      BY DEF IInv, TypeOK
    <3>3. h \in Message /\ h = frames[c][1] /\ 1 \in 1..Len(frames[c])
      BY <3>1, <3>2, Shortened
    <3>4. /\ h <= sent
          /\ \A i \in 1..(h - 1) : \/ i \in received
                                   \/ handle[i] = "cancelled"
                                   \/ \E j \in 1..(1 - 1) : frames[c][j] = i
      BY <3>3 DEF IInv, FramesInOrder
    <3> HIDE DEF h
    <3>5. \A i \in 1..(h - 1) : i \in received \/ handle[i] = "cancelled"
      BY <3>4
    <3>6. Promise!Receive(h)
      BY <3>1, <3>4, <3>5 DEF Promise!Receive
    <3> QED BY <2>m, <3>3, <3>6 DEF Promise!Next
  <2>5. CASE UNCHANGED <<sent, handle, received>>
    BY <2>5 DEF Promise!vars
  <2>6. CASE Connect \/ ConnectFails \/ RetryTimer \/ Drain \/ SkipCancelled \/ Transmit \/ TakeNew
    BY <2>5, <2>6 DEF Connect, ConnectFails, RetryTimer, Drain, SkipCancelled, Transmit, TakeNew,
                      callerVars, peerVars
  <2>7. CASE ReadError \/ WriteError \/ Boot \/ Cut \/ Crash \/ UNCHANGED vars
    BY <2>5, <2>7 DEF ReadError, WriteError, Boot, Cut, Crash, vars, callerVars, peerVars
  <2>8. ASSUME NEW c \in Connections, PassOn(c) \/ RunnerEnds(c) PROVE [Promise!Next]_(Promise!vars)
    BY <2>5, <2>8 DEF PassOn, RunnerEnds, callerVars, peerVars
  <2> QED BY <2>1, <2>2, <2>3, <2>4, <2>6, <2>7, <2>8 DEF Next, Task
<1> QED BY <1>1, <1>2, SenderInvariant, PTL DEF Spec, KeepsPromise, Promise!Spec
=============================================================================
