----------------------------- MODULE FanoutProofs -----------------------------
(***************************************************************************)
(* Live delivery, for every number of connections and messages and every   *)
(* capacity of the queues: no send on a closed channel, and each client    *)
(* gets its own messages in order.                                         *)
(*                                                                         *)
(* The last part is about the page at the other end of a connection        *)
(* (module Feed): its feed has no silent gap, and its progress is on its   *)
(* way to the table's.                                                     *)
(***************************************************************************)
EXTENDS Fanout, Feed, SequenceTheorems, FiniteSetTheorems, TLAPS

\* Lemmas extends SequencesExt, which has a Remove of its own.
Q == INSTANCE Lemmas

\* TypeOK says nothing of what only the fan-out looks at, and of what has no
\* client.
TypeInv ==
  /\ TypeOK
  /\ queue \in [Client -> Seq(Nat)] /\ got \in [Client -> Seq(Nat)]
  /\ fan \in [stage : {"idle", "push", "broadcast"}, msg : Nat, todo : SUBSET Client]

\* Nobody is connected at the start.
LEMMA InitType == Init => TypeInv
BY FanoutAssumption DEF Init, TypeInv, TypeOK, Idle

\* The steps of the goroutines of a connection that leave the queues alone.
LEMMA ConnectionType ==
  ASSUME TypeInv, NEW c \in Client, UNCHANGED <<queue, fan, pushed, got>>,
         Upgrade(c) \/ Add(c) \/ Break(c) \/ ReadError(c) \/ Remove(c) \/ CloseConn(c)
           \/ WriterFails(c) \/ SeesClosed(c) \/ StopWriter(c)
  PROVE  TypeInv'
<1>1. /\ registered' \subseteq Client
      /\ channel' \in [Client -> {"none", "open", "closed"}]
  BY DEF Upgrade, Add, Break, ReadError, Remove, CloseConn, WriterFails, SeesClosed, StopWriter,
         TypeInv, TypeOK
<1>2. /\ conn' \in [Client -> {"none", "up", "down"}]
      /\ reader' \in [Client -> {"none", "adding", "reading", "leaving", "closing", "done"}]
      /\ writer' \in [Client -> {"none", "running", "stopping", "done"}]
  BY DEF Upgrade, Add, Break, ReadError, Remove, CloseConn, WriterFails, SeesClosed, StopWriter,
         TypeInv, TypeOK
<1> QED
  BY <1>1, <1>2 DEF TypeInv, TypeOK

\* What a message written to a client leaves in its queue.
LEMMA WriteType ==
  ASSUME TypeInv, NEW c \in Client, WriteMessage(c)
  PROVE  /\ TypeInv'
         /\ queue[c] # <<>>
         /\ got'[c] = Append(got[c], Head(queue[c])) /\ queue'[c] = Tail(queue[c])
         /\ \A d \in Client : d # c => got'[d] = got[d] /\ queue'[d] = queue[d]
<1> DEFINE N == 1 .. Len(pushed)
<1>1. /\ queue[c] # <<>>
      /\ got' = [got EXCEPT ![c] = Append(got[c], Head(queue[c]))]
      /\ queue' = [queue EXCEPT ![c] = Tail(queue[c])]
      /\ UNCHANGED <<registered, channel, conn, reader, writer, fan, pushed>>
  BY DEF WriteMessage
<1>2. /\ queue[c] \in Seq(N) /\ got[c] \in Seq(N) /\ Len(queue[c]) <= Capacity
      /\ queue[c] \in Seq(Nat) /\ got[c] \in Seq(Nat)
  BY DEF TypeInv, TypeOK
<1>3. /\ Head(queue[c]) \in N /\ Tail(queue[c]) \in Seq(N)
      /\ Tail(queue[c]) \in Seq(Nat) /\ Len(Tail(queue[c])) < Len(queue[c])
      /\ Head(queue[c]) \in Nat
  BY <1>1, <1>2, Q!TailElements
<1>4. Append(got[c], Head(queue[c])) \in Seq(N) /\ Append(got[c], Head(queue[c])) \in Seq(Nat)
  BY <1>2, <1>3
<1>5. Len(Tail(queue[c])) <= Capacity
  BY <1>2, <1>3, LenProperties, FanoutAssumption
<1> HIDE DEF N
<1>6. /\ got'[c] = Append(got[c], Head(queue[c])) /\ queue'[c] = Tail(queue[c])
      /\ \A d \in Client : d # c => got'[d] = got[d] /\ queue'[d] = queue[d]
      /\ got' \in [Client -> Seq(Nat)] /\ queue' \in [Client -> Seq(Nat)]
  BY <1>1, <1>3, <1>4 DEF TypeInv
<1>7. \A d \in Client : /\ queue'[d] \in Seq(N) /\ Len(queue'[d]) <= Capacity
                        /\ got'[d] \in Seq(N)
  BY <1>3, <1>4, <1>5, <1>6 DEF TypeInv, TypeOK, N
<1> QED
  BY <1>1, <1>6, <1>7 DEF TypeInv, TypeOK, N

\* A new message has the next number.
LEMMA ReceiveType ==
  ASSUME TypeInv, NEW a \in Athlete, Receive(a)
  PROVE  /\ TypeInv'
         /\ Len(pushed) \in Nat /\ Len(pushed') = Len(pushed) + 1
         /\ pushed'[Len(pushed) + 1] = a
         /\ \A i \in 1 .. Len(pushed) : pushed'[i] = pushed[i]
         /\ fan'.stage = "push" /\ fan'.msg = Len(pushed) + 1 /\ fan'.todo = Recipients(a)
<1>1. /\ pushed \in Seq(Athlete) /\ pushed' = Append(pushed, a)
      /\ fan' = [stage |-> "push", msg |-> Len(pushed'), todo |-> Recipients(a)]
      /\ UNCHANGED <<registered, channel, queue, conn, reader, writer, got>>
  BY DEF Receive, TypeInv, TypeOK
<1>2. /\ Len(pushed) \in Nat /\ pushed' \in Seq(Athlete)
      /\ Len(pushed') = Len(pushed) + 1 /\ pushed'[Len(pushed) + 1] = a
      /\ \A i \in 1 .. Len(pushed) : pushed'[i] = pushed[i]
  BY <1>1
<1>3. Recipients(a) \subseteq Client
  BY DEF Recipients, Client
<1>4. 1 .. Len(pushed) \subseteq 1 .. Len(pushed')
  BY <1>2
<1>5. \A c \in Client : queue[c] \in Seq(1 .. Len(pushed')) /\ got[c] \in Seq(1 .. Len(pushed'))
  BY <1>4, SeqMonotonic DEF TypeInv, TypeOK
<1>6. /\ fan'.stage = "push" /\ fan'.msg = Len(pushed) + 1 /\ fan'.todo = Recipients(a)
      /\ fan' \in [stage : {"idle", "push", "broadcast"}, msg : Nat, todo : SUBSET Client]
  BY <1>1, <1>2, <1>3
<1> QED
  BY <1>1, <1>2, <1>3, <1>5, <1>6 DEF TypeInv, TypeOK

\* Sending to a client puts the message into its queue if there is room.
LEMMA SendType ==
  ASSUME TypeInv, NEW c \in Client, Send(c), fan.msg \in 1 .. Len(pushed)
  PROVE  /\ TypeInv'
         /\ c \in fan.todo
         /\ fan'.stage = fan.stage /\ fan'.msg = fan.msg /\ fan'.todo = fan.todo \ {c}
         /\ queue'[c] \in {queue[c], Append(queue[c], fan.msg)}
         /\ \A d \in Client : d # c => queue'[d] = queue[d]
<1> DEFINE N == 1 .. Len(pushed)
           g == [stage |-> fan.stage, msg |-> fan.msg, todo |-> fan.todo \ {c}]
<1>1. /\ c \in fan.todo
      /\ UNCHANGED <<registered, channel, conn, reader, writer, pushed, got>>
      /\ \/ Len(queue[c]) < Capacity /\ queue' = [queue EXCEPT ![c] = Append(queue[c], fan.msg)]
         \/ queue' = queue
  BY DEF Send
<1>2. /\ fan' = g /\ fan.todo \subseteq Client
      /\ g.stage = fan.stage /\ g.msg = fan.msg /\ g.todo = fan.todo \ {c}
      /\ g \in [stage : {"idle", "push", "broadcast"}, msg : Nat, todo : SUBSET Client]
  BY DEF Send, TypeInv
<1>3. /\ queue[c] \in Seq(N) /\ queue[c] \in Seq(Nat) /\ fan.msg \in N /\ fan.msg \in Nat
      /\ Len(queue[c]) <= Capacity
  BY DEF TypeInv, TypeOK
<1>4. /\ Append(queue[c], fan.msg) \in Seq(N) /\ Append(queue[c], fan.msg) \in Seq(Nat)
      /\ Len(queue[c]) < Capacity => Len(Append(queue[c], fan.msg)) <= Capacity
  BY <1>3, FanoutAssumption
<1> HIDE DEF N, g
<1>5. /\ queue' \in [Client -> Seq(Nat)]
      /\ queue'[c] \in {queue[c], Append(queue[c], fan.msg)}
      /\ \A d \in Client : d # c => queue'[d] = queue[d]
  BY <1>1, <1>4 DEF TypeInv
<1>6. queue'[c] \in Seq(N) /\ Len(queue'[c]) <= Capacity
  <2>1. CASE Len(queue[c]) < Capacity
    BY <1>3, <1>4, <1>5, <2>1
  <2>2. CASE ~ (Len(queue[c]) < Capacity)
    BY <1>1, <1>3, <2>2
  <2> QED
    BY <2>1, <2>2
<1>7. \A d \in Client : queue'[d] \in Seq(N) /\ Len(queue'[d]) <= Capacity
  BY <1>5, <1>6 DEF TypeInv, TypeOK, N
<1> QED
  BY <1>1, <1>2, <1>5, <1>7 DEF TypeInv, TypeOK, N

\* The subscriber goes on from one hub to the other, or is done.
LEMMA BroadcastType ==
  ASSUME TypeInv, Broadcast
  PROVE  /\ TypeInv'
         /\ fan.stage = "push" /\ fan.todo = {}
         /\ fan'.stage = "broadcast" /\ fan'.msg = fan.msg
         /\ fan'.todo = Viewer \intersect registered
<1> DEFINE g == [stage |-> "broadcast", msg |-> fan.msg, todo |-> Viewer \intersect registered]
<1>1. /\ fan' = g
      /\ g.stage = "broadcast" /\ g.msg = fan.msg /\ g.todo = Viewer \intersect registered
      /\ g \in [stage : {"idle", "push", "broadcast"}, msg : Nat, todo : SUBSET Client]
  BY DEF Broadcast, TypeInv, Client
<1> HIDE DEF g
<1>2. UNCHANGED <<registered, channel, queue, conn, reader, writer, pushed, got>>
  BY DEF Broadcast
<1> QED
  BY <1>1, <1>2 DEF Broadcast, TypeInv, TypeOK

LEMMA AcknowledgeType ==
  ASSUME TypeInv, Acknowledge
  PROVE  /\ TypeInv'
         /\ fan'.stage = "idle" /\ fan'.todo = {}
<1>1. /\ fan'.stage = "idle" /\ fan'.todo = {}
      /\ fan' \in [stage : {"idle", "push", "broadcast"}, msg : Nat, todo : SUBSET Client]
  BY DEF Acknowledge, Idle
<1>2. UNCHANGED <<registered, channel, queue, conn, reader, writer, pushed, got>>
  BY DEF Acknowledge
<1> QED
  BY <1>1, <1>2 DEF TypeInv, TypeOK

------------------------------------------------------------------------------
\* Whom the fan-out serves at each stage, and the number of its message.
FanStages ==
  /\ fan.stage = "idle" => fan.todo = {}
  /\ fan.stage = "push" =>
       fan.todo \subseteq Player /\ \A c \in fan.todo : AthleteOf[c] = pushed[fan.msg]
  /\ fan.stage = "broadcast" => fan.todo \subseteq Viewer
  /\ fan.stage # "idle" => fan.msg = Len(pushed) /\ fan.msg \in 1 .. Len(pushed)

\* A client that is still to get the current message.
Awaits(c) == c \in fan.todo \/ (fan.stage = "push" /\ c \in Viewer)

\* What is written to a client and what is in its queue are one sequence, the
\* order of the bus; the current message is not in it before it is sent.
Seen(c) == got[c] \o queue[c]

InOrder(c) ==
  /\ Q!AscendingBut({}, Seen(c))
  /\ \A x \in Q!ToSet(Seen(c)) :
       /\ x \in 1 .. Len(pushed)
       /\ Awaits(c) => x < fan.msg
       /\ c \in Player => pushed[x] = AthleteOf[c]

FanInv == TypeInv /\ FanStages /\ NoSendOnClosed /\ \A c \in Client : InOrder(c)

LEMMA InitInv == Init => FanInv
<1> SUFFICES ASSUME Init PROVE FanInv
  OBVIOUS
<1>1. /\ fan.stage = "idle" /\ fan.todo = {} /\ registered = {}
      /\ \A c \in Client : channel[c] = "none" /\ Seen(c) = <<>>
  BY DEF Init, Idle, Seen
<1>2. Q!ToSet(<<>>) = {} /\ Q!AscendingBut({}, <<>>)
  BY DEF Q!ToSet, Q!AscendingBut
<1> QED
  BY <1>1, <1>2, InitType DEF FanInv, FanStages, NoSendOnClosed, InOrder

\* Steps of the connections leave what is seen alone.
LEMMA QuietInv ==
  ASSUME FanInv, TypeInv', NoSendOnClosed', UNCHANGED <<queue, got, fan, pushed>>
  PROVE  FanInv'
<1>1. \A c \in Client : Seen(c)' = Seen(c)
  BY DEF Seen
<1>2. \A c \in Client : InOrder(c)'
  BY <1>1 DEF FanInv, InOrder, Awaits
<1> QED
  BY <1>2 DEF FanInv, FanStages

\* The map of a hub and the channels of its clients change together, and not
\* while the hub is served.
LEMMA ConnectionInv ==
  ASSUME FanInv, NEW c \in Client,
         Upgrade(c) \/ Add(c) \/ Break(c) \/ ReadError(c) \/ Remove(c) \/ CloseConn(c)
           \/ WriterFails(c) \/ SeesClosed(c) \/ StopWriter(c)
  PROVE  FanInv'
<1>1. UNCHANGED <<queue, fan, pushed, got>>
  BY DEF Upgrade, Add, Break, ReadError, Remove, CloseConn, WriterFails, SeesClosed, StopWriter
<1>2. TypeInv'
  BY <1>1, ConnectionType DEF FanInv
<1>3. /\ channel \in [Client -> {"none", "open", "closed"}]
      /\ \A d \in Client : d \in registered <=> channel[d] = "open"
      /\ fan.todo \subseteq registered
  BY DEF FanInv, TypeInv, TypeOK, NoSendOnClosed
<1>4. CASE UNCHANGED <<registered, channel>>
  BY <1>1, <1>2, <1>3, <1>4, QuietInv DEF NoSendOnClosed
<1>5. CASE Add(c)
  <2>1. /\ registered' = registered \union {c}
        /\ channel' = [channel EXCEPT ![c] = "open"]
    BY <1>5 DEF Add
  <2>2. NoSendOnClosed'
    BY <1>1, <1>3, <2>1 DEF NoSendOnClosed
  <2> QED
    BY <1>1, <1>2, <2>2, QuietInv
<1>6. CASE Remove(c)
  <2>1. /\ registered' = registered \ {c}
        /\ channel' = IF c \in registered THEN [channel EXCEPT ![c] = "closed"] ELSE channel
        /\ HubFree(c)
    BY <1>6 DEF Remove
  <2>2. c \notin fan.todo
    <3>1. fan.stage \in {"idle", "push", "broadcast"} /\ FanStages
      BY DEF FanInv, TypeInv, TypeOK
    <3> QED
      BY <2>1, <3>1, FanoutAssumption DEF HubFree, FanStages
  <2>3. NoSendOnClosed'
    BY <1>1, <1>3, <2>1, <2>2 DEF NoSendOnClosed
  <2> QED
    BY <1>1, <1>2, <2>3, QuietInv
<1>7. UNCHANGED <<registered, channel>> \/ Add(c) \/ Remove(c)
  BY DEF Upgrade, Break, ReadError, CloseConn, WriterFails, SeesClosed, StopWriter
<1> QED
  BY <1>4, <1>5, <1>6, <1>7

\* Writing moves a message from the queue to what the client got.
LEMMA WriteInv ==
  ASSUME FanInv, NEW c \in Client, WriteMessage(c)
  PROVE  FanInv'
<1>1. /\ TypeInv' /\ queue[c] # <<>>
      /\ got'[c] = Append(got[c], Head(queue[c])) /\ queue'[c] = Tail(queue[c])
      /\ \A d \in Client : d # c => got'[d] = got[d] /\ queue'[d] = queue[d]
  BY WriteType DEF FanInv
<1>2. UNCHANGED <<registered, channel, fan, pushed>>
  BY DEF WriteMessage
<1>3. got[c] \in Seq(Nat) /\ queue[c] \in Seq(Nat)
  BY DEF FanInv, TypeInv
<1>4. Seen(c)' = Seen(c)
  BY <1>1, <1>3, Q!ConcatMove DEF Seen
<1>5. \A d \in Client : Seen(d)' = Seen(d)
  BY <1>1, <1>4 DEF Seen
<1>6. \A d \in Client : InOrder(d)'
  BY <1>2, <1>5 DEF FanInv, InOrder, Awaits
<1> QED
  BY <1>1, <1>2, <1>6 DEF FanInv, FanStages, NoSendOnClosed

\* A new message is larger than all that was seen.
LEMMA ReceiveInv ==
  ASSUME FanInv, NEW a \in Athlete, Receive(a)
  PROVE  FanInv'
<1>1. /\ TypeInv'
      /\ Len(pushed) \in Nat /\ Len(pushed') = Len(pushed) + 1
      /\ pushed'[Len(pushed) + 1] = a
      /\ \A i \in 1 .. Len(pushed) : pushed'[i] = pushed[i]
      /\ fan'.stage = "push" /\ fan'.msg = Len(pushed) + 1 /\ fan'.todo = Recipients(a)
  BY ReceiveType DEF FanInv
<1>2. UNCHANGED <<registered, channel, queue, got>>
  BY DEF Receive
<1>3. \A c \in Client : Seen(c)' = Seen(c)
  BY <1>2 DEF Seen
<1>4. ASSUME NEW c \in Client PROVE InOrder(c)'
  <2>1. InOrder(c) /\ Seen(c)' = Seen(c)
    BY <1>3 DEF FanInv
  <2>2. ASSUME NEW x \in Q!ToSet(Seen(c))
        PROVE  /\ x \in 1 .. Len(pushed') /\ x < fan'.msg
               /\ c \in Player => pushed'[x] = AthleteOf[c]
    <3>1. x \in 1 .. Len(pushed) /\ (c \in Player => pushed[x] = AthleteOf[c])
      BY <2>1, <2>2 DEF InOrder
    <3> QED
      BY <1>1, <3>1
  <2> QED
    BY <2>1, <2>2 DEF InOrder
<1>5. FanStages'
  BY <1>1 DEF FanStages, Recipients
<1>6. NoSendOnClosed'
  BY <1>1, <1>2 DEF FanInv, NoSendOnClosed, Recipients
<1> QED
  BY <1>1, <1>4, <1>5, <1>6 DEF FanInv

\* The current message goes to those who await it, behind what they have seen.
LEMMA SendInv ==
  ASSUME FanInv, NEW c \in Client, Send(c)
  PROVE  FanInv'
<1>1. /\ c \in fan.todo /\ UNCHANGED <<registered, channel, pushed, got>>
      /\ FanStages /\ fan.stage \in {"idle", "push", "broadcast"}
      /\ TypeInv
  BY DEF Send, FanInv, TypeInv, TypeOK
<1>2. fan.stage # "idle" /\ fan.msg = Len(pushed) /\ fan.msg \in 1 .. Len(pushed)
  BY <1>1 DEF FanStages
<1>3. /\ TypeInv'
      /\ fan'.stage = fan.stage /\ fan'.msg = fan.msg /\ fan'.todo = fan.todo \ {c}
      /\ queue'[c] \in {queue[c], Append(queue[c], fan.msg)}
      /\ \A d \in Client : d # c => queue'[d] = queue[d]
  BY <1>1, <1>2, SendType
<1>4. /\ got[c] \in Seq(Nat) /\ queue[c] \in Seq(Nat) /\ fan.msg \in Nat
      /\ Seen(c) \in Seq(Nat)
  BY <1>1 DEF TypeInv, Seen
<1>5. Seen(c)' \in {Seen(c), Append(Seen(c), fan.msg)}
  <2>1. got[c] \o Append(queue[c], fan.msg) = Append(got[c] \o queue[c], fan.msg)
    <3>1. \A s, t \in Seq(Nat), e \in Nat : s \o Append(t, e) = Append(s \o t, e)
      BY Q!ConcatAppend
    <3> QED
      BY <1>4, <3>1, Zenon
  <2> QED
    BY <1>1, <1>3, <2>1 DEF Seen
<1>6. c \in Player => AthleteOf[c] = pushed[fan.msg]
  BY <1>1, <1>2, FanoutAssumption DEF FanStages
<1>7. ~ Awaits(c)'
  BY <1>1, <1>2, <1>3, FanoutAssumption DEF Awaits, FanStages
<1>8. InOrder(c)'
  <2>1. /\ InOrder(c) /\ Awaits(c) /\ \A x \in Q!ToSet(Seen(c)) : x < fan.msg
    BY <1>1 DEF FanInv, InOrder, Awaits
  <2>2. CASE Seen(c)' = Seen(c)
    BY <1>1, <1>7, <2>1, <2>2 DEF InOrder
  <2>3. CASE Seen(c)' = Append(Seen(c), fan.msg)
    <3>1. Q!AscendingBut({}, Seen(c)')
      <4>1. Q!AscendingBut({}, Seen(c)) /\ Nat \subseteq Int
        BY <2>1 DEF InOrder
      <4>2. Q!AscendingBut({}, Append(Seen(c), fan.msg))
        BY <1>4, <2>1, <4>1, Q!AppendAscending, Zenon
      <4> QED
        BY <2>3, <4>2
    <3>2. Q!ToSet(Seen(c)') = Q!ToSet(Seen(c)) \union {fan.msg}
      BY <1>4, <2>3, Q!AppendElements
    <3> QED
      BY <1>1, <1>2, <1>6, <1>7, <2>1, <3>1, <3>2 DEF InOrder
  <2> QED
    BY <1>5, <2>2, <2>3
<1>9. ASSUME NEW d \in Client, d # c PROVE InOrder(d)'
  <2>1. Seen(d)' = Seen(d) /\ (Awaits(d)' => Awaits(d)) /\ InOrder(d)
    BY <1>1, <1>3, <1>9 DEF Seen, Awaits, FanInv
  <2> QED
    BY <1>1, <1>3, <2>1 DEF InOrder
<1>10. FanStages'
  BY <1>1, <1>2, <1>3 DEF FanStages
<1>11. NoSendOnClosed'
  BY <1>1, <1>3 DEF FanInv, NoSendOnClosed
<1> QED
  BY <1>3, <1>8, <1>9, <1>10, <1>11 DEF FanInv

\* The viewers are served after the players, with the same message.
LEMMA BroadcastInv ==
  ASSUME FanInv, Broadcast
  PROVE  FanInv'
<1>1. /\ TypeInv' /\ fan.stage = "push"
      /\ fan'.stage = "broadcast" /\ fan'.msg = fan.msg
      /\ fan'.todo = Viewer \intersect registered
  BY BroadcastType DEF FanInv
<1>2. UNCHANGED <<registered, channel, queue, pushed, got>>
  BY DEF Broadcast
<1>3. ASSUME NEW c \in Client PROVE InOrder(c)'
  <2>1. Seen(c)' = Seen(c) /\ (Awaits(c)' => Awaits(c)) /\ InOrder(c)
    BY <1>1, <1>2 DEF Seen, Awaits, FanInv
  <2> QED
    BY <1>1, <1>2, <2>1 DEF InOrder
<1>4. FanStages'
  BY <1>1, <1>2 DEF FanInv, FanStages
<1>5. NoSendOnClosed'
  BY <1>1, <1>2 DEF FanInv, NoSendOnClosed
<1> QED
  BY <1>1, <1>3, <1>4, <1>5 DEF FanInv

LEMMA AcknowledgeInv ==
  ASSUME FanInv, Acknowledge
  PROVE  FanInv'
<1>1. TypeInv' /\ fan'.stage = "idle" /\ fan'.todo = {}
  BY AcknowledgeType DEF FanInv
<1>2. UNCHANGED <<registered, channel, queue, pushed, got>>
  BY DEF Acknowledge
<1>3. ASSUME NEW c \in Client PROVE InOrder(c)'
  <2>1. Seen(c)' = Seen(c) /\ ~ Awaits(c)' /\ InOrder(c)
    BY <1>1, <1>2 DEF Seen, Awaits, FanInv
  <2> QED
    BY <1>2, <2>1 DEF InOrder
<1>4. FanStages' /\ NoSendOnClosed'
  BY <1>1, <1>2 DEF FanInv, FanStages, NoSendOnClosed
<1> QED
  BY <1>1, <1>3, <1>4 DEF FanInv

LEMMA NextInv ==
  ASSUME FanInv, [Next]_vars
  PROVE  FanInv'
<1>1. CASE UNCHANGED vars
  <2>1. TypeInv' /\ NoSendOnClosed'
    BY <1>1 DEF vars, FanInv, TypeInv, TypeOK, NoSendOnClosed
  <2> QED
    BY <1>1, <2>1, QuietInv DEF vars
<1> QED
  BY <1>1, ConnectionInv, WriteInv, ReceiveInv, SendInv, BroadcastInv, AcknowledgeInv DEF Next

------------------------------------------------------------------------------
\* The queues of the clients never hold more than their capacity.
THEOREM TypeCorrect == Spec => []TypeOK
<1>1. FanInv => TypeOK
  BY DEF FanInv, TypeInv
<1> QED
  BY <1>1, InitInv, NextInv, PTL DEF Spec

\* The fan-out never panics the process by sending on a closed channel, however
\* many clients come and go while it runs: the lock of a hub is held for
\* reading as long as a client of it is to be served.
THEOREM NeverSendsOnClosed == Spec => []NoSendOnClosed
<1>1. FanInv => NoSendOnClosed
  BY DEF FanInv
<1> QED
  BY <1>1, InitInv, NextInv, PTL DEF Spec

\* "WS privacy: athlete_id from JWT claim, never from client"
\* (05_ARCHITECTURE_DIAGRAM.md:105): a player gets nothing about another
\* athlete, and nobody gets a message twice or before an older one.
THEOREM AlwaysOwnEventsInOrder == Spec => []OwnEventsInOrder
<1>1. FanInv => OwnEventsInOrder
  <2> SUFFICES ASSUME FanInv, NEW c \in Client
               PROVE  /\ \A i, j \in DOMAIN Seen(c) : i < j => Seen(c)[i] < Seen(c)[j]
                      /\ c \in Player => \A i \in DOMAIN Seen(c) : pushed[Seen(c)[i]] = AthleteOf[c]
    BY DEF OwnEventsInOrder, Seen
  <2>1. InOrder(c)
    BY DEF FanInv
  <2> QED
    BY <2>1 DEF InOrder, Q!AscendingBut, Q!ToSet
<1> QED
  BY <1>1, InitInv, NextInv, PTL DEF Spec

------------------------------------------------------------------------------
\* How far a connection has come, and what there is of it.
Life(c) ==
  /\ reader[c] \in {"none", "adding"} => c \notin registered
  /\ reader[c] \in {"reading", "leaving"} => c \in registered
  /\ reader[c] \in {"closing", "done"} => c \notin registered /\ channel[c] = "closed"
  /\ reader[c] = "done" => conn[c] = "down"

\* A step of one connection leaves the others as they are.
LEMMA LifeOfOthers ==
  ASSUME TypeInv, NEW c \in Client,
         Upgrade(c) \/ Add(c) \/ Break(c) \/ ReadError(c) \/ Remove(c) \/ CloseConn(c)
           \/ WriterFails(c) \/ SeesClosed(c) \/ StopWriter(c),
         NEW d \in Client, d # c, Life(d)
  PROVE  Life(d)'
<1>1. /\ reader'[d] = reader[d] /\ channel'[d] = channel[d] /\ conn'[d] = conn[d]
      /\ d \in registered' <=> d \in registered
  BY DEF Upgrade, Add, Break, ReadError, Remove, CloseConn, WriterFails, SeesClosed,
     StopWriter, TypeInv, TypeOK
<1> QED
  BY <1>1 DEF Life

\* From the upgrade to the end, the goroutine that reads registers the client
\* once, takes it out, and closes what it opened.
LEMMA LifeOfOne ==
  ASSUME TypeInv, NEW c \in Client,
         Upgrade(c) \/ Add(c) \/ Break(c) \/ ReadError(c) \/ Remove(c) \/ CloseConn(c)
           \/ WriterFails(c) \/ SeesClosed(c) \/ StopWriter(c),
         Life(c)
  PROVE  Life(c)'
<1>1. /\ reader \in [Client -> {"none", "adding", "reading", "leaving", "closing", "done"}]
      /\ channel \in [Client -> {"none", "open", "closed"}]
      /\ conn \in [Client -> {"none", "up", "down"}]
  BY DEF TypeInv, TypeOK
<1>2. CASE Upgrade(c)
  BY <1>1, <1>2 DEF Upgrade, Life
<1>3. CASE Add(c)
  BY <1>1, <1>3 DEF Add, Life
<1>4. CASE Break(c) \/ StopWriter(c)
  BY <1>1, <1>4 DEF Break, StopWriter, Life
<1>5. CASE ReadError(c)
  BY <1>1, <1>5 DEF ReadError, Life
<1>6. CASE Remove(c)
  BY <1>1, <1>6 DEF Remove, Life
<1>7. CASE CloseConn(c)
  BY <1>1, <1>7 DEF CloseConn, Life
<1>8. CASE WriterFails(c) \/ SeesClosed(c)
  BY <1>8 DEF WriterFails, SeesClosed, Life
<1> QED
  BY <1>2, <1>3, <1>4, <1>5, <1>6, <1>7, <1>8

LEMMA NextLife ==
  ASSUME TypeInv, \A c \in Client : Life(c), [Next]_vars
  PROVE  \A c \in Client : Life(c)'
<1>1. CASE UNCHANGED <<registered, channel, conn, reader>>
  BY <1>1 DEF Life
<1>2. ASSUME NEW c \in Client,
             Upgrade(c) \/ Add(c) \/ Break(c) \/ ReadError(c) \/ Remove(c) \/ CloseConn(c)
               \/ WriterFails(c) \/ SeesClosed(c) \/ StopWriter(c)
      PROVE  \A d \in Client : Life(d)'
  BY <1>2, LifeOfOne, LifeOfOthers
<1> QED
  BY <1>1, <1>2
     DEF Next, vars, WriteMessage, Send, Receive, Broadcast, Acknowledge

\* The goroutines of a connection (ws.go) leave nothing behind in the process,
\* whichever of them notices the end first and whatever the fan-out is doing.
THEOREM AlwaysLeavesNothing == Spec => []LeavesNothing
<1> DEFINE Lives == \A c \in Client : Life(c)
<1>1. Init => Lives
  BY DEF Init, Life
<1>2. FanInv /\ Lives /\ [Next]_vars => Lives'
  BY NextLife DEF FanInv
<1>3. FanInv /\ Lives => LeavesNothing
  BY DEF FanInv, TypeInv, TypeOK, Life, LeavesNothing
<1> QED
  BY <1>1, <1>2, <1>3, InitInv, NextInv, PTL DEF Spec

------------------------------------------------------------------------------
\* The page at the other end of a connection.  Every fact from here on is about
\* the constants of Feed.
USE FeedAssumption

\* Nothing is on its way to a page that is not connected, nothing has come over
\* the WebSocket before the history was asked for, and no answer is ahead of the
\* table.
PageInv ==
  /\ PageTypeOK
  /\ arriving # <<>> => pc = "live"
  /\ pc \in {"booting", "loading"} => streamed = {}
  /\ \A v \in 0 .. Count : answers[v] > 0 => v <= Progress

\* The events that are committed can be counted.
LEMMA ProgressType ==
  ASSUME NEW S, S \subseteq Event
  PROVE  /\ IsFiniteSet(S) /\ Cardinality(S) \in 0 .. Count
         /\ \A T : T \subseteq S => Cardinality(T) \in Nat /\ Cardinality(T) <= Cardinality(S)
<1>1. Count \in Nat /\ Count \in Int /\ 1 \in Int
  OBVIOUS
<1>2. IsFiniteSet(Event) /\ Cardinality(Event) = Count
  <2>1. /\ IsFiniteSet(1 .. Count)
        /\ Cardinality(1 .. Count) = IF 1 > Count THEN 0 ELSE Count - 1 + 1
    BY <1>1, FS_Interval, Zenon
  <2> QED
    BY <1>1, <2>1 DEF Event
<1>3. S \in SUBSET Event
  OBVIOUS
<1>4. IsFiniteSet(S) /\ Cardinality(S) <= Count
  BY <1>2, <1>3, FS_Subset
<1>5. Cardinality(S) \in Nat
  BY <1>4, FS_CardinalityType
<1>6. ASSUME NEW T, T \subseteq S
      PROVE  Cardinality(T) \in Nat /\ Cardinality(T) <= Cardinality(S)
  <2>1. T \in SUBSET S
    BY <1>6
  <2>2. IsFiniteSet(T) /\ Cardinality(T) <= Cardinality(S)
    BY <1>4, <2>1, FS_Subset
  <2> QED
    BY <2>2, FS_CardinalityType
<1> QED
  BY <1>1, <1>4, <1>5, <1>6

\* Faults are counted up to the bound.
LEMMA FaultType ==
  ASSUME PageTypeOK, Fault \/ UNCHANGED faults
  PROVE  faults' \in 0 .. MaxFaults
BY DEF Fault, PageTypeOK

\* The page as it starts.
LEMMA PageInitInv == PageInit => PageInv
<1> SUFFICES ASSUME PageInit PROVE PageInv
  OBVIOUS
<1>1. Count \in Nat /\ Backlog \in Nat /\ MaxFaults \in Nat
  OBVIOUS
<1>2. Progress \in 0 .. Count
  <2>1. committed \subseteq Event
    BY DEF PageInit
  <2> QED
    BY <2>1, ProgressType DEF Progress
<1>3. arriving \in Seq(announced) /\ Len(arriving) = 0
  BY EmptySeq DEF PageInit
<1>4. answers \in [0 .. Count -> Nat] /\ \A v \in 0 .. Count : answers[v] = 0
  BY DEF PageInit
<1>5. PageTypeOK
  <2>1. seen \in panel .. Progress /\ panel \in 0 .. Count /\ newest \in 0 .. Count
        /\ faults \in 0 .. MaxFaults /\ Len(arriving) <= Backlog
    BY <1>1, <1>2, <1>3 DEF PageInit
  <2> QED
    BY <1>3, <1>4, <2>1 DEF PageInit, PageTypeOK
<1> QED
  BY <1>4, <1>5 DEF PageInit, PageInv

\* The tables of events grow.
LEMMA PageCommitInv ==
  ASSUME PageInv, NEW i \in Event, Commit(i)
  PROVE  PageInv'
<1>1. /\ PageTypeOK /\ committed \subseteq committed' /\ committed' \subseteq Event
      /\ UNCHANGED <<announced, socket, feed, progressBar, faults>>
      /\ newest' \in 0 .. Count
  BY DEF Commit, PageInv, PageTypeOK, Event
<1>2. Progress \in Nat /\ Progress' \in Nat /\ Progress <= Progress'
  BY <1>1, ProgressType DEF Progress
<1>3. seen' \in panel' .. Progress'
  BY <1>1, <1>2 DEF PageTypeOK, progressBar
<1>4. PageTypeOK'
  BY <1>1, <1>3 DEF PageTypeOK, socket, feed, progressBar
<1> QED
  BY <1>1, <1>2, <1>4 DEF PageInv, socket, feed, progressBar

\* The page's queue takes a message if it has room.
LEMMA PagePushInv ==
  ASSUME PageInv, NEW i \in Event, Push(i)
  PROVE  PageInv'
<1>1. /\ PageTypeOK /\ i \in committed
      /\ announced' = announced \union {i} /\ faults' \in 0 .. MaxFaults
      /\ UNCHANGED <<committed, newest, pc, feed, progressBar>>
  BY DEF Push, Fault, PageInv, PageTypeOK
<1>2. Progress' = Progress
  BY <1>1 DEF Progress
<1>3. arriving \in Seq(announced') /\ Len(arriving) \in Nat
  <2>1. arriving \in Seq(announced) /\ announced \subseteq announced'
    BY <1>1 DEF PageTypeOK
  <2> QED
    BY <2>1, SeqMonotonic
<1>4. /\ arriving' \in Seq(announced') /\ Len(arriving') <= Backlog
      /\ owed' \subseteq announced'
      /\ arriving' # <<>> => pc' = "live"
  <2>1. CASE pc = "live" /\ Len(arriving) < Backlog
    <3>1. arriving' = Append(arriving, i) /\ owed' = owed \union {i}
      BY <2>1 DEF Push
    <3>2. Append(arriving, i) \in Seq(announced') /\ Len(Append(arriving, i)) = Len(arriving) + 1
      BY <1>1, <1>3
    <3> QED
      BY <1>1, <1>3, <2>1, <3>1, <3>2 DEF PageTypeOK
  <2>2. CASE ~ (pc = "live" /\ Len(arriving) < Backlog)
    BY <1>1, <1>3, <2>2 DEF Push, PageInv, PageTypeOK
  <2> QED
    BY <2>1, <2>2
<1>5. UNCHANGED <<shown, streamed, before, panel, asked, answers, seen,
                 overtaken, failed>>
  BY <1>1 DEF feed, progressBar
<1>6. PageTypeOK'
  <2>1. announced' \subseteq committed' /\ seen' \in panel' .. Progress'
    BY <1>1, <1>2, <1>5 DEF PageTypeOK
  <2> QED
    BY <1>1, <1>4, <1>5, <2>1 DEF PageTypeOK
<1>7. PageInv
  OBVIOUS
<1> QED
  BY <1>1, <1>2, <1>4, <1>5, <1>6, <1>7 DEF PageInv

\* The page is opened.
LEMMA PageBootInv ==
  ASSUME PageInv,
         Boot \/ BootRefused \/ BootFails \/ LoadHistory \/ HistoryRefused
           \/ Connect \/ Reconnect \/ Close
  PROVE  PageInv'
<1>1. PageTypeOK
      /\ UNCHANGED <<committed, newest, announced, streamed, asked, answers,
                     overtaken, failed>>
      /\ pc' \in {"loading", "connecting", "live", "closed", "dead"}
  BY DEF Boot, BootRefused, BootFails, LoadHistory, HistoryRefused, Connect,
         Reconnect, Close, PageInv, PageTypeOK, events, feed, progressBar
<1>2. faults' \in 0 .. MaxFaults
  BY FaultType DEF Boot, BootRefused, BootFails, LoadHistory, HistoryRefused, Connect,
     Reconnect, Close, PageInv
<1>3. Progress' = Progress /\ Progress \in 0 .. Count
  BY <1>1, ProgressType DEF Progress, PageTypeOK
<1>4. seen' \in panel' .. Progress' /\ panel' \in 0 .. Count
  BY <1>1, <1>3 DEF Boot, BootRefused, BootFails, LoadHistory, HistoryRefused, Connect,
     Reconnect, Close, PageTypeOK, progressBar
<1>5. /\ arriving' \in Seq(announced') /\ Len(arriving') <= Backlog /\ owed' \subseteq announced'
      /\ arriving' # <<>> => pc' = "live"
  <2>1. CASE Close
    <3>1. arriving' = <<>> /\ owed' \subseteq owed /\ Len(<<>>) = 0
      BY <2>1 DEF Close
    <3> QED
      BY <1>1, <3>1, EmptySeq DEF PageTypeOK
  <2>2. CASE ~ Close
    <3>1. UNCHANGED <<arriving, owed>> /\ pc # "live"
      BY <2>2 DEF Boot, BootRefused, BootFails, LoadHistory, HistoryRefused,
         Connect, Reconnect
    <3> QED
      BY <1>1, <3>1 DEF PageInv, PageTypeOK
  <2> QED
    BY <2>1, <2>2
<1>6. /\ streamed' \subseteq shown' /\ shown' \subseteq committed' /\ before' \subseteq committed'
      /\ pc' \in {"booting", "loading"} => streamed' = {}
  BY <1>1 DEF Boot, BootRefused, BootFails, LoadHistory, HistoryRefused, Connect,
     Reconnect, Close, History, Newest, PageInv, PageTypeOK, feed
<1>7. PageTypeOK'
  BY <1>1, <1>4, <1>5, <1>6, <1>2 DEF PageTypeOK
<1> QED
  BY <1>1, <1>3, <1>5, <1>6, <1>7 DEF PageInv

\* A message is taken from the queue, shown, and a request is sent.
LEMMA PageOnMessageInv ==
  ASSUME PageInv, OnMessage
  PROVE  PageInv'
<1>1. /\ PageTypeOK /\ arriving \in Seq(announced) /\ arriving # <<>> /\ arriving' = Tail(arriving)
      /\ shown' = shown \union {Head(arriving)} /\ streamed' = streamed \union {Head(arriving)}
      /\ asked' = asked + 1 /\ asked \in Nat
      /\ UNCHANGED <<committed, newest, announced, pc, owed, before, panel, answers, seen,
                     faults>>
      /\ overtaken' = FALSE /\ failed' = FALSE
  BY DEF OnMessage, PageInv, PageTypeOK, events
<1>2. /\ Head(arriving) \in announced /\ Tail(arriving) \in Seq(announced)
      /\ Len(Tail(arriving)) = Len(arriving) - 1 /\ Len(arriving) \in Nat
  BY <1>1, HeadTailProperties
<1>3. Progress' = Progress
  BY <1>1 DEF Progress
<1>4. pc = "live"
  BY <1>1 DEF PageInv
<1>5. Len(arriving') <= Backlog
  BY <1>1, <1>2 DEF PageTypeOK
<1>6. PageTypeOK'
  <2>1. overtaken' \in BOOLEAN /\ failed' \in BOOLEAN
    BY <1>1
  <2> QED
    BY <1>1, <1>2, <1>3, <1>5, <2>1 DEF PageTypeOK
<1> QED
  BY <1>1, <1>3, <1>4, <1>6 DEF PageInv

\* Requests for the milestones and their answers.
LEMMA PagePanelInv ==
  ASSUME PageInv,
         Serve \/ ServeFails \/ RefreshLost \/ \E v \in 0 .. Count : Render(v)
  PROVE  PageInv'
<1>1. /\ PageTypeOK
      /\ UNCHANGED <<committed, newest, announced, pc, arriving, owed, shown, streamed, before>>
  BY DEF Serve, ServeFails, RefreshLost, Render, PageInv, PageTypeOK, events, socket, feed
<1>2. asked' \in Nat
  BY DEF Serve, ServeFails, RefreshLost, Render, PageInv, PageTypeOK
<1>3. faults' \in 0 .. MaxFaults
  BY FaultType DEF Serve, ServeFails, RefreshLost, Render, PageInv
<1>4. overtaken' \in BOOLEAN /\ failed' \in BOOLEAN
  <2>1. overtaken \in BOOLEAN /\ failed \in BOOLEAN
    BY DEF PageInv, PageTypeOK
  <2>2. CASE Serve \/ ServeFails \/ RefreshLost
    BY <2>1, <2>2, Zenon DEF Serve, ServeFails, RefreshLost
  <2>3. ASSUME NEW v \in 0 .. Count, Render(v)
        PROVE  overtaken' \in BOOLEAN /\ failed' \in BOOLEAN
    <3>1. overtaken' = (v < seen) /\ (failed' = failed)
      BY <2>3, Zenon DEF Render
    <3>2. (v < seen) \in BOOLEAN
      OBVIOUS
    <3> QED
      BY <2>1, <3>1, <3>2, Zenon
  <2> QED
    BY <2>2, <2>3
<1>5. Progress' = Progress /\ Progress \in 0 .. Count
  BY <1>1, ProgressType DEF Progress, PageTypeOK
<1>6. /\ answers \in [0 .. Count -> Nat] /\ panel \in 0 .. Count /\ seen \in panel .. Progress
      /\ \A v \in 0 .. Count : answers[v] > 0 => v <= Progress
  BY DEF PageInv, PageTypeOK
<1>7. /\ answers' \in [0 .. Count -> Nat] /\ panel' \in 0 .. Count
      /\ seen' \in panel' .. Progress
      /\ \A v \in 0 .. Count : answers'[v] > 0 => v <= Progress
  <2>1. CASE Serve
    BY <1>5, <1>6, <2>1 DEF Serve
  <2>2. CASE ServeFails
    <3>1. answers' = answers /\ panel' = 0 /\ seen' = seen
      BY <2>2 DEF ServeFails
    <3>2. 0 \in 0 .. Count /\ seen \in 0 .. Progress
      BY <1>5, <1>6
    <3> QED
      BY <1>6, <3>1, <3>2
  <2>4. CASE RefreshLost
    <3>1. panel' = panel /\ seen' = seen
      BY <2>4 DEF RefreshLost
    <3>2. CASE answers' = answers
      BY <1>6, <3>1, <3>2
    <3>3. ASSUME NEW v \in 0 .. Count, answers[v] > 0,
                 answers' = [answers EXCEPT ![v] = @ - 1]
          PROVE  /\ answers' \in [0 .. Count -> Nat]
                 /\ \A u \in 0 .. Count : answers'[u] > 0 => u <= Progress
      BY <1>6, <3>3
    <3> QED
      BY <1>6, <2>4, <3>1, <3>2, <3>3 DEF RefreshLost
  <2>3. ASSUME NEW v \in 0 .. Count, Render(v) 
        PROVE  /\ answers' \in [0 .. Count -> Nat] /\ panel' \in 0 .. Count
               /\ seen' \in panel' .. Progress
               /\ \A u \in 0 .. Count : answers'[u] > 0 => u <= Progress
    BY <1>5, <1>6, <2>3 DEF Render
  <2> QED
    BY <2>1, <2>2, <2>3, <2>4
<1>8. PageTypeOK'
  BY <1>1, <1>5, <1>7, <1>3, <1>4, <1>2 DEF PageTypeOK
<1> QED
  BY <1>1, <1>5, <1>7, <1>8 DEF PageInv

\* So every step of the page and of those who send to it keeps PageInv.
LEMMA PageNextInv ==
  ASSUME PageInv, [PageNext]_pageVars
  PROVE  PageInv'
<1>1. CASE UNCHANGED pageVars
  BY <1>1 DEF pageVars, PageInv, PageTypeOK, Progress
<1> QED
  BY <1>1, PageCommitInv, PagePushInv, PageBootInv, PageOnMessageInv, PagePanelInv DEF PageNext

\* The page of web/index.html, for every number of events and faults and every
\* capacity: it shows nothing that is not committed, its progress is never ahead
\* of the table's, and no more messages are on their way to it than the hub's
\* queue holds.
THEOREM PageTypeCorrect == PageSpec => []PageTypeOK
<1>1. PageInv => PageTypeOK
  BY DEF PageInv
<1> QED
  BY <1>1, PageInitInv, PageNextInv, PTL DEF PageSpec

------------------------------------------------------------------------------
\* What a queue holds after a push and after a read.
LEMMA QueueElements ==
  ASSUME NEW S, NEW s \in Seq(S), NEW x
  PROVE  /\ Range(Append(s, x)) = Range(s) \union {x}
         /\ s # <<>> => Range(s) = {Head(s)} \union Range(Tail(s))
<1>1. \A q : Range(q) = Q!ToSet(q)
  BY DEF Range, Q!ToSet
<1>2. Q!ToSet(Append(s, x)) = Q!ToSet(s) \union {x}
  BY Q!AppendElements
<1>3. s # <<>> => Q!ToSet(s) = {Head(s)} \union Q!ToSet(Tail(s))
  BY Q!TailElements
<1> QED
  BY <1>1, <1>2, <1>3

\* Nothing is queued for a page before it asks for the history, which replaces
\* what it shows.
GapInv ==
  /\ pc \in {"booting", "loading"} => owed = {}
  /\ NoSilentGap

LEMMA GapPush ==
  ASSUME PageInv, GapInv, NEW i \in Event, Push(i)
  PROVE  GapInv'
<1>1. /\ arriving \in Seq(committed) /\ i \in committed
      /\ UNCHANGED <<pc, shown, before>>
  <2>1. announced \subseteq committed /\ arriving \in Seq(announced)
    BY DEF PageInv, PageTypeOK
  <2>2. arriving \in Seq(committed)
    BY <2>1, SeqMonotonic
  <2> QED
    BY <2>2 DEF Push, feed
<1>2. CASE pc = "live" /\ Len(arriving) < Backlog
  <2>1. arriving' = Append(arriving, i) /\ owed' = owed \union {i}
    BY <1>2 DEF Push
  <2>2. Range(arriving') = Range(arriving) \union {i}
    BY <1>1, <2>1, QueueElements
  <2> QED
    BY <1>1, <1>2, <2>1, <2>2 DEF GapInv, NoSilentGap, Recent
<1>3. CASE ~ (pc = "live" /\ Len(arriving) < Backlog)
  BY <1>1, <1>3 DEF Push, GapInv, NoSilentGap, Recent
<1> QED
  BY <1>2, <1>3

\* A message that is taken from the queue is shown.
LEMMA GapOnMessage ==
  ASSUME PageInv, GapInv, OnMessage
  PROVE  GapInv'
<1>1. /\ arriving \in Seq(announced) /\ arriving # <<>> /\ arriving' = Tail(arriving)
      /\ shown' = shown \union {Head(arriving)} /\ UNCHANGED <<pc, owed, before>>
  BY DEF OnMessage, PageInv, PageTypeOK
<1>2. Range(arriving) = {Head(arriving)} \union Range(arriving')
  <2>1. Head(arriving) \in announced
    BY <1>1, HeadTailProperties
  <2> QED
    BY <1>1, <2>1, QueueElements
<1> QED
  BY <1>1, <1>2 DEF GapInv, NoSilentGap, Recent

\* The other steps of the page.
LEMMA GapPage ==
  ASSUME PageInv, GapInv,
         Boot \/ BootRefused \/ BootFails \/ LoadHistory \/ HistoryRefused
           \/ Connect \/ Close \/ Reconnect
  PROVE  GapInv'
<1>1. CASE LoadHistory
  BY <1>1 DEF LoadHistory, History, Newest, GapInv, NoSilentGap, Recent
<1>2. CASE Close
  BY <1>2 DEF Close, feed, GapInv, NoSilentGap, Recent
<1>3. CASE Boot \/ BootRefused \/ BootFails \/ HistoryRefused \/ Connect \/ Reconnect
  <2>1. /\ UNCHANGED <<shown, before, owed, arriving>>
        /\ pc' \in {"booting", "loading"} => pc \in {"booting", "loading"}
    BY <1>3 DEF Boot, BootRefused, BootFails, HistoryRefused, Connect, Reconnect,
       feed
  <2> QED
    BY <2>1 DEF GapInv, NoSilentGap, Recent
<1> QED
  BY <1>1, <1>2, <1>3

LEMMA GapNext ==
  ASSUME PageInv, GapInv, [PageNext]_pageVars
  PROVE  GapInv'
<1>1. ASSUME UNCHANGED <<pc, owed, shown, before, arriving>>
      PROVE  GapInv'
  BY <1>1 DEF GapInv, NoSilentGap, Recent
<1>2. CASE UNCHANGED pageVars
  BY <1>1, <1>2 DEF pageVars
<1>3. ASSUME NEW i \in Event, Commit(i)
      PROVE  GapInv'
  BY <1>1, <1>3 DEF Commit, socket, feed
<1>4. CASE Serve \/ ServeFails \/ RefreshLost \/ \E v \in 0 .. Count : Render(v)
  BY <1>1, <1>4 DEF Serve, ServeFails, RefreshLost, Render, socket, feed
<1> QED
  BY <1>2, <1>3, <1>4, GapPush, GapOnMessage, GapPage DEF PageNext

\* The feed of the page (loadHistory and ws.onmessage of web/index.html) leaves
\* nothing out silently: it shows the newest events as of the history, and what
\* the hub queued is shown or on its way, whatever was lost, repeated or pushed
\* out of order.
THEOREM PageHasNoSilentGap == PageSpec => []NoSilentGap
<1>1. PageInit => GapInv
  BY DEF PageInit, GapInv, NoSilentGap, Recent
<1>2. PageInv /\ GapInv /\ [PageNext]_pageVars => GapInv'
  BY GapNext
<1>3. GapInv => NoSilentGap
  BY DEF GapInv
<1> QED
  BY <1>1, <1>2, <1>3, PageInitInv, PageNextInv, PTL DEF PageSpec

\* The event that was committed last is not streamed before it exists, a message
\* is followed by a request, and an answer carries the progress of the table.
LEMMA ProgressNext ==
  ASSUME PageInv, ProgressIsComing, [PageNext]_pageVars
  PROVE  ProgressIsComing'
<1>1. /\ asked \in Nat /\ answers \in [0 .. Count -> Nat] /\ streamed \subseteq committed
      /\ seen \in Nat /\ panel \in Nat /\ panel <= seen /\ seen <= Progress
      /\ Progress \in 0 .. Count
  <2>1. Progress \in 0 .. Count
    BY ProgressType DEF Progress, PageInv, PageTypeOK
  <2> QED
    BY <2>1 DEF PageInv, PageTypeOK
<1>2. ASSUME UNCHANGED <<committed, newest, streamed, panel, asked, answers, seen,
                         overtaken, failed>>
      PROVE  ProgressIsComing'
  BY <1>2 DEF ProgressIsComing, LeftBehind, Progress
<1>3. CASE UNCHANGED pageVars
  BY <1>2, <1>3 DEF pageVars
<1>4. ASSUME NEW i \in Event, Commit(i)
      PROVE  ProgressIsComing'
  BY <1>1, <1>4 DEF Commit, feed, ProgressIsComing
<1>5. ASSUME NEW i \in Event, Push(i)
      PROVE  ProgressIsComing'
  BY <1>2, <1>5 DEF Push, feed, progressBar
<1>6. CASE Boot
  BY <1>6 DEF Boot, feed, PageInv, PageTypeOK, ProgressIsComing, events, Progress
<1>7. CASE BootRefused \/ BootFails \/ LoadHistory \/ HistoryRefused \/ Connect
             \/ Close \/ Reconnect
  BY <1>2, <1>7 DEF BootRefused, BootFails, LoadHistory, HistoryRefused, Connect,
     Close, Reconnect, events, feed, progressBar
<1>8. CASE OnMessage
  BY <1>1, <1>8 DEF OnMessage, ProgressIsComing
<1>9. ASSUME committed' = committed,
             answers'[Progress] > 0 \/ failed' \/ panel' = Progress
      PROVE  ProgressIsComing'
  <2>1. Progress' = Progress
    BY <1>9 DEF Progress
  <2> QED
    BY <1>9, <2>1 DEF ProgressIsComing, LeftBehind
<1>10. CASE Serve
  BY <1>1, <1>9, <1>10 DEF Serve, events, feed
<1>11. CASE ServeFails
  BY <1>9, <1>11 DEF ServeFails, events
<1>13. CASE RefreshLost
  BY <1>9, <1>13 DEF RefreshLost, events
<1>12. ASSUME NEW v \in 0 .. Count, Render(v)
       PROVE  ProgressIsComing'
  <2>1. CASE v = Progress
    BY <1>1, <1>9, <1>12, <2>1 DEF Render, events, feed
  <2>2. CASE v # Progress
    <3>1. /\ UNCHANGED <<committed, newest, streamed, asked, failed>>
          /\ answers'[Progress] = answers[Progress]
          /\ seen' = IF v > seen THEN v ELSE seen
          /\ v < seen => overtaken'
      BY <1>1, <1>12, <2>2 DEF Render, events, feed
    <3>2. Progress' = Progress
      BY <3>1 DEF Progress
    <3>3. seen = Progress => overtaken' /\ seen' = Progress
      <4>1. v <= Progress
        BY <1>12 DEF Render, PageInv
      <4> QED
        BY <1>1, <2>2, <3>1, <4>1
    <3>4. panel = Progress => seen = Progress
      BY <1>1
    <3> QED
      BY <3>1, <3>2, <3>3, <3>4 DEF ProgressIsComing, LeftBehind
  <2> QED
    BY <2>1, <2>2
<1> QED
  BY <1>3, <1>4, <1>5, <1>6, <1>7, <1>8, <1>10, <1>11, <1>12, <1>13 DEF PageNext

\* The progress bar (refresh of web/index.html, which every message calls
\* without waiting for the answers before) has the progress of the event committed
\* last, or that is on its way, as soon as the page has heard of it; unless a
\* refresh failed since the last message, on the way or at the server, or an older
\* answer came after the one with that progress.
THEOREM PageProgressIsComing == PageSpec => []ProgressIsComing
<1>1. PageInit => ProgressIsComing
  BY DEF PageInit, ProgressIsComing
<1>2. PageInv /\ ProgressIsComing /\ [PageNext]_pageVars => ProgressIsComing'
  BY ProgressNext
<1> QED
  BY <1>1, <1>2, PageInitInv, PageNextInv, PTL DEF PageSpec
=============================================================================
