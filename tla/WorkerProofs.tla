----------------------------- MODULE WorkerProofs -----------------------------
(***************************************************************************)
(* The worker's dispatch, for every stream, number of partitions, capacity *)
(* and bound on the faults: it is a handover, and it keeps the order of    *)
(* an athlete's events as long as nothing is sent again.                   *)
(***************************************************************************)
EXTENDS Worker, Lemmas, FiniteSetTheorems

\* The parameters that are numbers.
LEMMA Bounds ==
  /\ Stored \in Nat /\ MaxFaults \in Nat
  /\ PoolSize \in Nat \ {0} /\ Capacity \in Nat \ {0} /\ MaxAckPending \in Nat \ {0}
BY WorkerAssumption

\* A message belongs to one of the partitions, the same one as the other
\* messages about its athlete.
LEMMA PartitionType ==
  ASSUME NEW m \in Message
  PROVE  /\ partitionFor(m) \in Partition
         /\ \A l \in Message : SameAthlete(l, m) => partitionFor(l) = partitionFor(m)
<1>1. \A h \in Nat : h % PoolSize \in 0 .. PoolSize - 1
  BY Bounds
<1>2. 0 \in Partition
  BY Bounds DEF Partition
<1> QED
  BY <1>1, <1>2, WorkerAssumption DEF partitionFor, Partition, SameAthlete

------------------------------------------------------------------------------
\* TypeOK does not say that nothing but the partitions has a channel.
TypeInv == TypeOK /\ channel \in [Partition -> Seq(Nat)]

\* Nothing has been sent at the start.
LEMMA InitType == Init => TypeInv
<1> SUFFICES ASSUME Init PROVE TypeInv
  OBVIOUS
<1>1. /\ sent = 0 /\ pending = {} /\ due = {} /\ inbox = <<>> /\ held = 0
      /\ channel = [p \in Partition |-> <<>>] /\ busy = [p \in Partition |-> 0]
      /\ handled = <<>> /\ retried = {} /\ faults = 0
  BY DEF Init, None
<1>2. Cardinality(pending) <= MaxAckPending
  BY <1>1, FS_EmptySet, Bounds
<1> QED
  BY <1>1, <1>2, Bounds DEF TypeInv, TypeOK

\* What is not acknowledged is finite, and one message fewer is not more.
LEMMA PendingCount ==
  ASSUME TypeOK
  PROVE  /\ IsFiniteSet(pending) /\ Cardinality(pending) \in Nat
         /\ Cardinality(pending \union {sent + 1}) <= Cardinality(pending) + 1
         /\ \A m : Cardinality(pending \ {m}) <= Cardinality(pending)
<1>1. sent \in Nat /\ pending \in SUBSET (1 .. sent)
  BY Bounds DEF TypeOK
<1>2. IsFiniteSet(1 .. sent)
  BY <1>1, FS_Interval
<1>3. IsFiniteSet(pending)
  BY <1>1, <1>2, FS_Subset
<1>4. Cardinality(pending) \in Nat
  BY <1>3, FS_CardinalityType
<1>5. Cardinality(pending \union {sent + 1}) <= Cardinality(pending) + 1
  <2>1. Cardinality(pending \union {sent + 1}) =
          IF sent + 1 \in pending THEN Cardinality(pending) ELSE Cardinality(pending) + 1
    BY <1>3, FS_AddElement
  <2> QED
    BY <1>4, <2>1
<1>6. \A m : Cardinality(pending \ {m}) <= Cardinality(pending)
  BY <1>3, <1>4, FS_RemoveElement
<1> QED
  BY <1>3, <1>4, <1>5, <1>6

\* A new message fits everywhere.
LEMMA SendType ==
  ASSUME TypeInv, Send
  PROVE  TypeInv'
<1>1. /\ sent \in Nat /\ sent < Stored /\ sent' = sent + 1
      /\ pending' = pending \union {sent + 1} /\ inbox' = Append(inbox, sent + 1)
      /\ UNCHANGED <<due, held, channel, busy, handled, retried, faults>>
  BY Bounds DEF Send, history, TypeInv, TypeOK
<1>2. 1 .. sent \subseteq 1 .. sent' /\ sent + 1 \in 1 .. sent'
  BY <1>1
<1>3. Cardinality(pending') <= MaxAckPending
  <2>1. /\ Cardinality(pending) < MaxAckPending /\ Cardinality(pending) \in Nat
        /\ Cardinality(pending') \in Nat
        /\ Cardinality(pending') <= Cardinality(pending) + 1
    BY <1>1, PendingCount, FS_AddElement, FS_CardinalityType DEF Send, TypeInv
  <2> QED
    BY <2>1, Bounds
<1>4. inbox \in Seq(1 .. sent') /\ handled \in Seq(1 .. sent')
  BY <1>2, SeqMonotonic DEF TypeInv, TypeOK
<1>5. \A p \in Partition : channel[p] \in Seq(1 .. sent')
  BY <1>2, SeqMonotonic DEF TypeInv, TypeOK
<1>6. inbox' \in Seq(1 .. sent') /\ held \in 0 .. sent' /\ busy \in [Partition -> 0 .. sent']
  BY <1>1, <1>2, <1>4 DEF TypeInv, TypeOK
<1>7. /\ due' \subseteq pending' /\ pending' \subseteq 1 .. sent' /\ sent' \in 0 .. Stored
      /\ retried \subseteq 1 .. sent'
  BY <1>1, Bounds DEF TypeInv, TypeOK
<1> QED
  BY <1>1, <1>3, <1>4, <1>5, <1>6, <1>7 DEF TypeInv, TypeOK

\* The steps that leave the server alone.
LEMMA DispatchType ==
  ASSUME TypeInv, Dispatch
  PROVE  /\ TypeInv'
         /\ held \in Message /\ partitionFor(held) \in Partition
         /\ channel'[partitionFor(held)] = Append(channel[partitionFor(held)], held)
         /\ \A p \in Partition : p # partitionFor(held) => channel'[p] = channel[p]
<1> DEFINE q == partitionFor(held)
<1>1. /\ held \in 1 .. sent /\ held \in Message
      /\ held' = 0 /\ Len(channel[q]) < Capacity
      /\ UNCHANGED <<sent, pending, due, inbox, busy, handled, retried, faults>>
      /\ channel' = [channel EXCEPT ![q] = Append(channel[q], held)]
  BY Bounds DEF Dispatch, server, history, TypeInv, TypeOK, None, Message
<1>2. q \in Partition
  BY <1>1, PartitionType
<1> HIDE DEF q
<1>3. /\ channel[q] \in Seq(1 .. sent) /\ Append(channel[q], held) \in Seq(1 .. sent)
      /\ Append(channel[q], held) \in Seq(Nat)
      /\ Len(Append(channel[q], held)) <= Capacity
  BY <1>1, <1>2, Bounds DEF TypeInv, TypeOK
<1>4. /\ channel'[q] = Append(channel[q], held)
      /\ \A p \in Partition : p # q => channel'[p] = channel[p]
      /\ channel' \in [Partition -> Seq(Nat)]
  BY <1>1, <1>2, <1>3 DEF TypeInv
<1>5. TypeInv'
  <2>1. \A p \in Partition : channel'[p] \in Seq(1 .. sent) /\ Len(channel'[p]) <= Capacity
    BY <1>3, <1>4 DEF TypeInv, TypeOK
  <2>2. held' \in 0 .. sent
    BY <1>1, Bounds DEF TypeInv, TypeOK
  <2> QED
    BY <1>1, <1>4, <2>1, <2>2 DEF TypeInv, TypeOK
<1> QED
  BY <1>1, <1>2, <1>4, <1>5 DEF q

LEMMA TakeType ==
  ASSUME TypeInv, NEW p \in Partition, Take(p)
  PROVE  /\ TypeInv'
         /\ busy[p] = 0 /\ channel[p] # <<>>
         /\ busy'[p] = Head(channel[p]) /\ channel'[p] = Tail(channel[p])
         /\ \A q \in Partition : q # p => channel'[q] = channel[q] /\ busy'[q] = busy[q]
<1>1. /\ busy[p] = 0 /\ channel[p] # <<>>
      /\ busy' = [busy EXCEPT ![p] = Head(channel[p])]
      /\ channel' = [channel EXCEPT ![p] = Tail(channel[p])]
      /\ UNCHANGED <<sent, pending, due, inbox, held, handled, retried, faults>>
  BY DEF Take, None, server, history
<1>2. /\ channel[p] \in Seq(1 .. sent) /\ channel[p] \in Seq(Nat)
      /\ Len(channel[p]) <= Capacity
  BY DEF TypeInv, TypeOK
<1>3. /\ Head(channel[p]) \in 1 .. sent /\ Tail(channel[p]) \in Seq(1 .. sent)
      /\ Tail(channel[p]) \in Seq(Nat) /\ Len(Tail(channel[p])) < Len(channel[p])
  BY <1>1, <1>2, TailElements
<1>4. /\ channel'[p] = Tail(channel[p]) /\ channel' \in [Partition -> Seq(Nat)]
      /\ \A q \in Partition : q # p => channel'[q] = channel[q]
  BY <1>1, <1>3 DEF TypeInv
<1>5. /\ busy'[p] = Head(channel[p]) /\ busy' \in [Partition -> 0 .. sent]
      /\ \A q \in Partition : q # p => busy'[q] = busy[q]
  BY <1>1, <1>3 DEF TypeInv, TypeOK
<1>6. Len(Tail(channel[p])) <= Capacity
  BY <1>2, <1>3, LenProperties, Bounds
<1> QED
  BY <1>1, <1>3, <1>4, <1>5, <1>6 DEF TypeInv, TypeOK

\* The goroutine of a partition is free again.
LEMMA ReleaseType ==
  ASSUME TypeInv, NEW p \in Partition, Release(p)
  PROVE  /\ busy' \in [Partition -> 0 .. sent]
         /\ busy'[p] = 0
         /\ \A q \in Partition : q # p => busy'[q] = busy[q]
<1>1. busy' = [busy EXCEPT ![p] = 0] /\ busy \in [Partition -> 0 .. sent]
  BY DEF Release, None, TypeInv, TypeOK
<1>2. 0 \in 0 .. sent
  BY Bounds DEF TypeInv, TypeOK
<1> QED
  BY <1>1, <1>2

\* Handle has returned nil for a message.
LEMMA HandledType ==
  ASSUME TypeInv, NEW p \in Partition, Handled(p)
  PROVE  /\ busy[p] \in 1 .. sent
         /\ Release(p)
         /\ handled' \in Seq(1 .. sent)
         /\ ToSet(handled') = ToSet(handled) \union {busy[p]}
<1>1. /\ busy[p] \in 1 .. sent /\ handled \in Seq(1 .. sent)
      /\ handled' = IF busy[p] \in ToSet(handled) THEN handled ELSE Append(handled, busy[p])
      /\ Release(p)
  BY Bounds DEF Handled, None, TypeInv, TypeOK
<1>2. handled' \in Seq(1 .. sent)
  <2>1. Append(handled, busy[p]) \in Seq(1 .. sent)
    BY <1>1
  <2> QED
    BY <1>1, <2>1
<1>3. ToSet(handled') = ToSet(handled) \union {busy[p]}
  BY <1>1, AppendElements
<1> QED
  BY <1>1, <1>2, <1>3

\* A fault is one of at most MaxFaults.
LEMMA FaultType ==
  ASSUME TypeOK, Fault \/ UNCHANGED faults
  PROVE  faults' \in 0 .. MaxFaults
BY Bounds DEF Fault, TypeOK

LEMMA NextType ==
  ASSUME TypeInv, [Next]_vars
  PROVE  TypeInv'
<1>0. TypeOK
  BY DEF TypeInv
<1>1. CASE Send
  BY <1>1, SendType
<1>2. ASSUME NEW m \in due, SendAgain(m) PROVE TypeInv'
  <2>1. m \in 1 .. sent
    BY DEF TypeInv, TypeOK
  <2> QED
    BY <1>2, <2>1 DEF SendAgain, TypeInv, TypeOK
<1>3. ASSUME NEW m \in pending, Expire(m) PROVE TypeInv'
  BY <1>0, <1>3, FaultType DEF Expire, TypeInv, TypeOK
<1>4. CASE Receive
  <2>1. Head(inbox) \in 1 .. sent /\ Tail(inbox) \in Seq(1 .. sent)
    BY <1>4, TailElements DEF Receive, TypeInv, TypeOK
  <2>2. /\ held' \in 0 .. sent /\ inbox' \in Seq(1 .. sent)
        /\ UNCHANGED <<sent, pending, due, channel, busy, handled, retried, faults>>
    BY <1>4, <2>1 DEF Receive, server, history
  <2> QED
    BY <2>2 DEF TypeInv, TypeOK
<1>5. CASE Dispatch
  BY <1>5, DispatchType
<1>6. ASSUME NEW p \in Partition, Take(p) PROVE TypeInv'
  BY <1>6, TakeType
<1>7. ASSUME NEW p \in Partition, Ack(p) PROVE TypeInv'
  <2>1. /\ Handled(p) /\ pending' = pending \ {busy[p]} /\ due' = due \ {busy[p]}
        /\ UNCHANGED <<sent, inbox, held, channel, retried, faults>>
    BY <1>7 DEF Ack
  <2>2. busy' \in [Partition -> 0 .. sent] /\ handled' \in Seq(1 .. sent)
    BY <2>1, HandledType, ReleaseType
  <2>3. Cardinality(pending') <= MaxAckPending
    <3>1. /\ Cardinality(pending) \in Nat /\ Cardinality(pending') \in Nat
          /\ Cardinality(pending') <= Cardinality(pending)
      BY <1>0, <2>1, PendingCount, FS_RemoveElement, FS_CardinalityType
    <3> QED
      BY <1>0, <3>1, Bounds DEF TypeOK
  <2> QED
    BY <2>1, <2>2, <2>3 DEF TypeInv, TypeOK
<1>8. ASSUME NEW p \in Partition, AckLost(p) PROVE TypeInv'
  <2>1. /\ Handled(p) /\ Fault /\ due' \subseteq due \union pending
        /\ UNCHANGED <<sent, pending, inbox, held, channel, retried>>
    BY <1>8 DEF AckLost
  <2>2. /\ busy' \in [Partition -> 0 .. sent] /\ handled' \in Seq(1 .. sent)
        /\ faults' \in 0 .. MaxFaults
    BY <1>0, <2>1, HandledType, ReleaseType, FaultType
  <2> QED
    BY <2>1, <2>2 DEF TypeInv, TypeOK
<1>9. ASSUME NEW p \in Partition, Nak(p) PROVE TypeInv'
  <2>1. /\ Release(p) /\ due' \subseteq due \union pending
        /\ Fault \/ UNCHANGED faults
        /\ UNCHANGED <<sent, pending, inbox, held, channel, handled, retried>>
    BY <1>9 DEF Nak, Fails
  <2>2. busy' \in [Partition -> 0 .. sent] /\ faults' \in 0 .. MaxFaults
    BY <1>0, <2>1, ReleaseType, FaultType
  <2> QED
    BY <2>1, <2>2 DEF TypeInv, TypeOK
<1>10. CASE Restart
  <2>1. faults' \in 0 .. MaxFaults /\ sent \in Nat
    BY <1>0, <1>10, FaultType, Bounds DEF Restart, TypeOK
  <2>2. /\ due' = pending /\ inbox' = <<>> /\ held' = 0
        /\ channel' = [p \in Partition |-> <<>>] /\ busy' = [p \in Partition |-> 0]
        /\ UNCHANGED <<sent, pending, handled, retried>>
    BY <1>10 DEF Restart, None
  <2> QED
    BY <2>1, <2>2, Bounds DEF TypeInv, TypeOK
<1>11. CASE UNCHANGED vars
  BY <1>11 DEF vars, TypeInv, TypeOK
<1> QED
  BY <1>1, <1>2, <1>3, <1>4, <1>5, <1>6, <1>7, <1>8, <1>9, <1>10, <1>11 DEF Next

\* The channels never hold more than their capacity, and no more than
\* MaxAckPending messages are unacknowledged, whatever is lost and sent again.
THEOREM TypeCorrect == Spec => []TypeOK
<1>1. TypeInv => TypeOK
  BY DEF TypeInv
<1> QED
  BY <1>1, InitType, NextType, PTL DEF Spec

------------------------------------------------------------------------------
\* Deliveries that have got to partition p, and those still on their way.
At(p)    == {busy[p]} \union ToSet(channel[p])
OnTheWay == {held} \union ToSet(inbox)
Around   == OnTheWay \union UNION {At(p) : p \in Partition}

\* A delivery is in the partition of its athlete.
Routed == \A p \in Partition : \A m \in At(p) \ {None} : partitionFor(m) = p

\* A message that is sent for the first time is larger than what was sent
\* before it, and stays behind it.
FirstCopiesAscend ==
  /\ AscendingBut(retried, inbox)
  /\ \A m \in ToSet(inbox) \ retried : held < m
  /\ \A p \in Partition :
       /\ AscendingBut(retried, channel[p])
       /\ \A m \in ToSet(channel[p]) \ retried : busy[p] < m
       /\ \A m \in OnTheWay \ (retried \union {None}) : \A l \in At(p) : l < m

\* A message that has been overtaken by one of its athlete is lost, and comes
\* back only by being sent again.
OvertakenIsGone ==
  \A l \in ToSet(handled), m \in (1 .. sent) \ (ToSet(handled) \union retried) :
    m < l /\ SameAthlete(l, m) => m \notin Around

OrderInv == /\ TypeInv /\ Routed /\ FirstCopiesAscend /\ OvertakenIsGone
            /\ InOrderUnlessRetried

\* The elements of the queues are messages that were sent.
LEMMA ElementTypes ==
  ASSUME TypeInv
  PROVE  /\ sent \in Nat /\ None \notin 1 .. sent
         /\ inbox \in Seq(Nat) /\ ToSet(inbox) \subseteq 1 .. sent /\ held \in 0 .. sent
         /\ \A p \in Partition : /\ channel[p] \in Seq(Nat)
                                 /\ ToSet(channel[p]) \subseteq 1 .. sent
                                 /\ busy[p] \in 0 .. sent
         /\ ToSet(handled) \subseteq 1 .. sent
<1>1. sent \in Nat /\ held \in 0 .. sent /\ 1 .. sent \subseteq Nat
  BY Bounds DEF TypeInv, TypeOK
<1>2. inbox \in Seq(1 .. sent) /\ handled \in Seq(1 .. sent)
  BY DEF TypeInv, TypeOK
<1>3. inbox \in Seq(Nat)
  BY <1>1, <1>2, SeqMonotonic
<1>4. \A S : \A s \in Seq(S) : ToSet(s) \subseteq S
  BY ElementOfSeq, LenProperties DEF ToSet
<1>5. \A p \in Partition : channel[p] \in Seq(Nat) /\ channel[p] \in Seq(1 .. sent)
                           /\ busy[p] \in 0 .. sent
  BY DEF TypeInv, TypeOK
<1>6. None \notin 1 .. sent
  BY <1>1 DEF None
<1> QED
  BY <1>1, <1>2, <1>3, <1>4, <1>5, <1>6

\* The more messages were sent again, the less is asked of a queue.
LEMMA AscendingLess ==
  ASSUME NEW s, NEW E, NEW F, E \subseteq F, AscendingBut(E, s)
  PROVE  AscendingBut(F, s)
BY DEF AscendingBut

LEMMA SendOrder ==
  ASSUME OrderInv, Send
  PROVE  /\ Routed' /\ FirstCopiesAscend'
         /\ Around' \subseteq Around \union {sent + 1}
<1> DEFINE n == sent + 1
<1>1. /\ inbox' = Append(inbox, n) /\ n \in Nat
      /\ UNCHANGED <<held, channel, busy, retried>>
  BY ElementTypes DEF Send, history, OrderInv
<1>2. TypeInv /\ Routed /\ FirstCopiesAscend
  BY DEF OrderInv
<1>3. ToSet(inbox') = ToSet(inbox) \union {n}
  BY <1>1, <1>2, ElementTypes, AppendElements
<1>4. /\ held < n
      /\ \A x \in ToSet(inbox) : x < n
      /\ \A p \in Partition : \A l \in At(p) : l < n
  <2>1. \A l \in 0 .. sent : l < n
    BY <1>2, ElementTypes
  <2>2. \A l \in 1 .. sent : l < n
    BY <1>2, ElementTypes
  <2>3. \A p \in Partition : busy[p] \in 0 .. sent /\ ToSet(channel[p]) \subseteq 1 .. sent
    BY <1>2, ElementTypes
  <2>4. \A p \in Partition : \A l \in At(p) : l < n
    BY <2>1, <2>2, <2>3 DEF At
  <2> QED
    BY <1>2, <2>1, <2>2, <2>4, ElementTypes
<1> HIDE DEF n
<1>5. AscendingBut(retried, inbox')
  BY <1>1, <1>2, <1>4, ElementTypes, AppendAscending DEF FirstCopiesAscend
<1>6. \A p \in Partition : At(p)' = At(p)
  BY <1>1 DEF At
<1>7. OnTheWay' = OnTheWay \union {n}
  BY <1>1, <1>3 DEF OnTheWay
<1>8. FirstCopiesAscend'
  BY <1>1, <1>2, <1>3, <1>4, <1>5, <1>6, <1>7 DEF FirstCopiesAscend
<1>9. Routed'
  BY <1>2, <1>6 DEF Routed, partitionFor
<1> QED
  BY <1>6, <1>7, <1>8, <1>9 DEF Around, n

LEMMA SendAgainOrder ==
  ASSUME OrderInv, NEW m \in due, SendAgain(m)
  PROVE  /\ Routed' /\ FirstCopiesAscend'
         /\ Around' \subseteq Around \union retried'
<1>1. /\ inbox' = Append(inbox, m) /\ retried' = retried \union {m}
      /\ UNCHANGED <<held, channel, busy>>
  BY DEF SendAgain
<1>2. TypeInv /\ Routed /\ FirstCopiesAscend
  BY DEF OrderInv
<1>3. m \in Nat
  BY <1>2, ElementTypes DEF TypeInv, TypeOK
<1>4. ToSet(inbox') = ToSet(inbox) \union {m}
  BY <1>1, <1>2, ElementTypes, AppendElements
<1>5. AscendingBut(retried', inbox')
  <2>1. AscendingBut(retried', inbox) /\ inbox \in Seq(Nat) /\ m \in retried'
    BY <1>1, <1>2, ElementTypes, AscendingLess DEF FirstCopiesAscend
  <2> QED
    BY <1>1, <1>3, <2>1, AppendAscending
<1>6. \A p \in Partition : AscendingBut(retried', channel'[p])
  BY <1>1, <1>2, AscendingLess DEF FirstCopiesAscend
<1>7. \A p \in Partition : At(p)' = At(p)
  BY <1>1 DEF At
<1>8. OnTheWay' = OnTheWay \union {m}
  BY <1>1, <1>4 DEF OnTheWay
<1>9. FirstCopiesAscend'
  BY <1>1, <1>2, <1>4, <1>5, <1>6, <1>7, <1>8 DEF FirstCopiesAscend
<1>10. Routed'
  BY <1>2, <1>7 DEF Routed, partitionFor
<1> QED
  BY <1>1, <1>7, <1>8, <1>9, <1>10 DEF Around

LEMMA ReceiveOrder ==
  ASSUME OrderInv, Receive
  PROVE  /\ Routed' /\ FirstCopiesAscend'
         /\ Around' \subseteq Around
<1>1. /\ inbox # <<>> /\ held' = Head(inbox) /\ inbox' = Tail(inbox)
      /\ UNCHANGED <<channel, busy, retried>>
  BY DEF Receive, history
<1>2. TypeInv /\ Routed /\ FirstCopiesAscend
  BY DEF OrderInv
<1>3. ToSet(inbox) = {held'} \union ToSet(inbox')
  BY <1>1, <1>2, ElementTypes, TailElements
<1>4. AscendingBut(retried, inbox') /\ \A m \in ToSet(inbox') \ retried : held' < m
  BY <1>1, <1>2, ElementTypes, TailAscending DEF FirstCopiesAscend
<1>5. \A p \in Partition : At(p)' = At(p)
  BY <1>1 DEF At
<1>6. OnTheWay' \subseteq OnTheWay
  BY <1>3 DEF OnTheWay
<1>7. FirstCopiesAscend'
  BY <1>1, <1>2, <1>4, <1>5, <1>6 DEF FirstCopiesAscend
<1>8. Routed'
  BY <1>2, <1>5 DEF Routed, partitionFor
<1> QED
  BY <1>5, <1>6, <1>7, <1>8 DEF Around

LEMMA DispatchOrder ==
  ASSUME OrderInv, Dispatch
  PROVE  /\ Routed' /\ FirstCopiesAscend'
         /\ Around' \subseteq Around \union {None}
<1>1. PICK q \in Partition : q = partitionFor(held)
  BY DispatchType DEF OrderInv
<1>2. /\ held # None /\ held' = None /\ held \in Nat
      /\ UNCHANGED <<inbox, busy, retried>>
      /\ channel'[q] = Append(channel[q], held)
      /\ \A p \in Partition : p # q => channel'[p] = channel[p]
  BY <1>1, DispatchType, ElementTypes DEF Dispatch, history, OrderInv
<1>3. TypeInv /\ Routed /\ FirstCopiesAscend
  BY DEF OrderInv
<1>4. ToSet(channel'[q]) = ToSet(channel[q]) \union {held}
  BY <1>2, <1>3, ElementTypes, AppendElements
<1>5. At(q)' = At(q) \union {held} /\ \A p \in Partition : p # q => At(p)' = At(p)
  BY <1>2, <1>4 DEF At
<1>6. OnTheWay = {held} \union ToSet(inbox) /\ OnTheWay' = {None} \union ToSet(inbox)
  BY <1>2 DEF OnTheWay
<1>7. held \notin retried => \A l \in At(q) : l < held
  BY <1>2, <1>3, <1>6 DEF FirstCopiesAscend
<1>8. \A m \in ToSet(inbox) : None < m
  BY <1>3, ElementTypes DEF None
<1>9. AscendingBut(retried, channel'[q])
  <2>1. /\ channel[q] \in Seq(Nat) /\ AscendingBut(retried, channel[q])
        /\ held \notin retried => \A l \in ToSet(channel[q]) : l < held
    BY <1>2, <1>3, <1>7, ElementTypes DEF FirstCopiesAscend, At
  <2> QED
    BY <1>2, <2>1, AppendAscending
<1>10. \A m \in ToSet(channel'[q]) \ retried : busy'[q] < m
  BY <1>2, <1>3, <1>4, <1>7 DEF FirstCopiesAscend, At
<1>11. \A p \in Partition : \A m \in OnTheWay' \ (retried \union {None}) :
         \A l \in At(p)' : l < m
  <2> SUFFICES ASSUME NEW p \in Partition, NEW m \in ToSet(inbox) \ (retried \union {None}),
                      NEW l \in At(p)'
               PROVE  l < m
    BY <1>6
  <2>1. held < m /\ \A k \in At(p) : k < m
    BY <1>3, <1>6 DEF FirstCopiesAscend
  <2>2. l \in At(p) \union {held}
    BY <1>5
  <2> QED
    BY <2>1, <2>2
<1>12. FirstCopiesAscend'
  BY <1>2, <1>3, <1>8, <1>9, <1>10, <1>11 DEF FirstCopiesAscend
<1>13. Routed'
  BY <1>3, <1>1, <1>5 DEF Routed, partitionFor
<1> QED
  BY <1>5, <1>6, <1>12, <1>13 DEF Around

LEMMA TakeOrder ==
  ASSUME OrderInv, NEW p \in Partition, Take(p)
  PROVE  /\ Routed' /\ FirstCopiesAscend'
         /\ Around' \subseteq Around
<1>1. /\ channel[p] # <<>> /\ UNCHANGED <<inbox, held, retried>>
      /\ busy'[p] = Head(channel[p]) /\ channel'[p] = Tail(channel[p])
      /\ \A q \in Partition : q # p => channel'[q] = channel[q] /\ busy'[q] = busy[q]
  BY TakeType DEF Take, history, OrderInv
<1>2. TypeInv /\ Routed /\ FirstCopiesAscend
  BY DEF OrderInv
<1>3. ToSet(channel[p]) = {busy'[p]} \union ToSet(channel'[p])
  BY <1>1, <1>2, ElementTypes, TailElements
<1>4. /\ AscendingBut(retried, channel'[p])
      /\ \A m \in ToSet(channel'[p]) \ retried : busy'[p] < m
  BY <1>1, <1>2, ElementTypes, TailAscending DEF FirstCopiesAscend
<1>5. \A q \in Partition : At(q)' \subseteq At(q)
  BY <1>1, <1>3 DEF At
<1>6. OnTheWay' = OnTheWay
  BY <1>1 DEF OnTheWay
<1>7. FirstCopiesAscend'
  BY <1>1, <1>2, <1>4, <1>5, <1>6 DEF FirstCopiesAscend
<1>8. Routed'
  BY <1>2, <1>5 DEF Routed, partitionFor
<1> QED
  BY <1>5, <1>6, <1>7, <1>8 DEF Around

LEMMA ReleaseOrder ==
  ASSUME OrderInv, NEW p \in Partition, Release(p), UNCHANGED <<inbox, held, channel, retried>>
  PROVE  /\ Routed' /\ FirstCopiesAscend'
         /\ Around' \subseteq Around \union {None}
<1>1. /\ busy'[p] = None
      /\ \A q \in Partition : q # p => busy'[q] = busy[q]
  BY ReleaseType DEF OrderInv, None
<1>2. TypeInv /\ Routed /\ FirstCopiesAscend
  BY DEF OrderInv
<1>3. \A q \in Partition : At(q)' \subseteq At(q) \union {None}
  BY <1>1 DEF At
<1>4. OnTheWay' = OnTheWay
  BY DEF OnTheWay
<1>5. \A m \in (OnTheWay \union ToSet(channel[p])) \ {None} : None < m
  BY <1>2, ElementTypes DEF None, OnTheWay
<1>6. None \notin ToSet(channel[p])
  BY <1>2, ElementTypes
<1>7. FirstCopiesAscend'
  BY <1>1, <1>2, <1>3, <1>4, <1>5, <1>6 DEF FirstCopiesAscend
<1>8. Routed'
  BY <1>2, <1>3 DEF Routed, partitionFor
<1> QED
  BY <1>3, <1>4, <1>7, <1>8 DEF Around

LEMMA RestartOrder ==
  ASSUME OrderInv, Restart
  PROVE  /\ Routed' /\ FirstCopiesAscend'
         /\ Around' \subseteq {None}
<1>1. /\ inbox' = <<>> /\ held' = None
      /\ \A p \in Partition : channel'[p] = <<>> /\ busy'[p] = None
  BY DEF Restart
<1>2. ToSet(<<>>) = {} /\ \A E : AscendingBut(E, <<>>)
  BY DEF ToSet, AscendingBut
<1>3. \A p \in Partition : At(p)' = {None}
  BY <1>1, <1>2 DEF At
<1>4. OnTheWay' = {None}
  BY <1>1, <1>2 DEF OnTheWay
<1>5. FirstCopiesAscend'
  BY <1>1, <1>2, <1>3, <1>4 DEF FirstCopiesAscend
<1> QED
  BY <1>3, <1>4, <1>5 DEF Around, Routed

------------------------------------------------------------------------------
\* While nothing is handled, what is overtaken stays away: what comes around
\* anew is sent again, or larger than all that was sent before.
LEMMA OvertakenStays ==
  ASSUME OrderInv, UNCHANGED handled, sent' \in {sent, sent + 1}, retried \subseteq retried',
         Around' \subseteq Around \union retried' \union {None, sent + 1}
  PROVE  OvertakenIsGone' /\ InOrderUnlessRetried'
<1>1. /\ sent \in Nat /\ ToSet(handled) \subseteq 1 .. sent /\ OvertakenIsGone
      /\ InOrderUnlessRetried
  BY ElementTypes DEF OrderInv
<1>2. ASSUME NEW l \in ToSet(handled),
             NEW m \in (1 .. sent') \ (ToSet(handled) \union retried'),
             m < l, SameAthlete(l, m), m \in Around'
      PROVE  FALSE
  <2>1. m \in 1 .. sent /\ m # None /\ m # sent + 1
    BY <1>1, <1>2 DEF None
  <2>2. m \in Around
    BY <1>2, <2>1
  <2> QED
    BY <1>1, <1>2, <2>1, <2>2 DEF OvertakenIsGone
<1>3. OvertakenIsGone'
  BY <1>2 DEF OvertakenIsGone, SameAthlete
<1>4. InOrderUnlessRetried'
  BY <1>1 DEF InOrderUnlessRetried, SameAthlete
<1> QED
  BY <1>3, <1>4

\* A message in Handle has no earlier one of its athlete behind it, but for
\* those that were sent again.
LEMMA NoneBehind ==
  ASSUME OrderInv, NEW p \in Partition, busy[p] \in 1 .. sent,
         NEW m \in Around, m \in (1 .. sent) \ retried, SameAthlete(busy[p], m)
  PROVE  busy[p] <= m
<1> DEFINE l == busy[p]
<1>1. TypeInv /\ Routed /\ FirstCopiesAscend
  BY DEF OrderInv
<1>2. /\ sent \in Nat /\ m # None /\ l # None /\ l \in At(p) /\ l \in Nat /\ m \in Nat
      /\ l \in Message /\ m \in Message
  BY <1>1, ElementTypes, Bounds DEF At, TypeInv, TypeOK, Message
<1>3. CASE m \in OnTheWay
  <2>1. l < m
    BY <1>1, <1>2, <1>3 DEF FirstCopiesAscend
  <2> QED
    BY <1>2, <2>1
<1>4. ASSUME NEW q \in Partition, m \in At(q) PROVE l <= m
  <2>1. partitionFor(m) = q /\ partitionFor(l) = p
    BY <1>1, <1>2, <1>4 DEF Routed
  <2>2. q = p
    BY <1>2, <2>1, PartitionType
  <2>3. CASE m = l
    BY <1>2, <2>3
  <2>4. CASE m \in ToSet(channel[p])
    <3>1. l < m
      BY <1>1, <2>4 DEF FirstCopiesAscend
    <3> QED
      BY <1>2, <3>1
  <2> QED
    BY <1>4, <2>2, <2>3, <2>4 DEF At
<1> QED
  BY <1>3, <1>4 DEF Around

\* When Handle returns, the message overtakes only what is gone; and if it was
\* overtaken itself it had been sent again.
LEMMA HandledOrder ==
  ASSUME OrderInv, NEW p \in Partition, Handled(p), UNCHANGED <<sent, inbox, held, channel, retried>>
  PROVE  OvertakenIsGone' /\ InOrderUnlessRetried'
<1> DEFINE n == busy[p]
<1>1. TypeInv /\ OvertakenIsGone /\ InOrderUnlessRetried
  BY DEF OrderInv
<1>2. /\ n \in 1 .. sent /\ Release(p)
      /\ ToSet(handled') = ToSet(handled) \union {n}
  BY <1>1, HandledType
<1>3. Around' \subseteq Around \union {None}
  BY <1>2, ReleaseOrder
<1>4. n \in Around
  BY DEF Around, At
<1>5. OvertakenIsGone'
  <2> SUFFICES ASSUME NEW l \in ToSet(handled'),
                      NEW m \in (1 .. sent) \ (ToSet(handled') \union retried),
                      m < l, SameAthlete(l, m), m \in Around'
               PROVE  FALSE
    BY DEF OvertakenIsGone, SameAthlete
  <2>1. m \in Around /\ m \notin ToSet(handled)
    BY <1>1, <1>2, <1>3, ElementTypes
  <2>2. CASE l \in ToSet(handled)
    BY <1>1, <2>1, <2>2 DEF OvertakenIsGone
  <2>3. CASE l = n
    <3>1. n <= m /\ n \in Nat /\ m \in Nat
      BY <1>1, <1>2, <2>1, <2>3, NoneBehind, ElementTypes
    <3> QED
      BY <2>3, <3>1
  <2> QED
    BY <1>2, <2>2, <2>3
<1>6. InOrderUnlessRetried'
  <2>1. CASE n \in ToSet(handled)
    BY <1>1, <2>1 DEF Handled, InOrderUnlessRetried, SameAthlete
  <2>2. CASE n \notin ToSet(handled)
    <3>1. handled' = Append(handled, n) /\ handled \in Seq(1 .. sent)
      BY <1>1, <2>2 DEF Handled, TypeInv, TypeOK
    <3>2. /\ Len(handled) \in Nat /\ DOMAIN handled = 1 .. Len(handled)
          /\ DOMAIN handled' = 1 .. Len(handled) + 1
          /\ \A i \in 1 .. Len(handled) : handled'[i] = handled[i] /\ handled[i] \in ToSet(handled)
          /\ handled'[Len(handled) + 1] = n
      BY <3>1 DEF ToSet
    <3>3. ASSUME NEW i \in DOMAIN handled, SameAthlete(handled[i], n), n < handled[i]
          PROVE  n \in retried
      BY <1>1, <1>2, <1>4, <2>2, <3>2, <3>3 DEF OvertakenIsGone
    <3> SUFFICES ASSUME NEW i \in DOMAIN handled', NEW j \in DOMAIN handled', i < j,
                        SameAthlete(handled'[i], handled'[j]), handled'[j] < handled'[i]
                 PROVE  handled'[j] \in retried
      BY DEF InOrderUnlessRetried, SameAthlete
    <3>4. i \in DOMAIN handled
      BY <3>2
    <3>5. CASE j \in DOMAIN handled
      BY <1>1, <3>2, <3>4, <3>5 DEF InOrderUnlessRetried
    <3>6. CASE j = Len(handled) + 1
      BY <3>2, <3>3, <3>4, <3>6
    <3> QED
      BY <3>2, <3>5, <3>6
  <2> QED
    BY <2>1, <2>2
<1> QED
  BY <1>5, <1>6

\* Empty queues and no history are in order.
LEMMA InitOrder == Init => OrderInv
<1> SUFFICES ASSUME Init PROVE OrderInv
  OBVIOUS
<1>1. /\ inbox = <<>> /\ held = None /\ handled = <<>> /\ DOMAIN handled = {}
      /\ \A p \in Partition : channel[p] = <<>> /\ busy[p] = None
  BY DEF Init
<1>2. ToSet(<<>>) = {} /\ \A E : AscendingBut(E, <<>>)
  BY DEF ToSet, AscendingBut
<1>3. \A p \in Partition : At(p) = {None}
  BY <1>1, <1>2 DEF At
<1>4. FirstCopiesAscend /\ Routed
  BY <1>1, <1>2, <1>3 DEF FirstCopiesAscend, Routed, OnTheWay
<1>5. OvertakenIsGone /\ InOrderUnlessRetried
  BY <1>1, <1>2 DEF OvertakenIsGone, InOrderUnlessRetried
<1> QED
  BY <1>4, <1>5, InitType DEF OrderInv

LEMMA NextOrder ==
  ASSUME OrderInv, [Next]_vars
  PROVE  OrderInv'
<1>0. TypeInv'
  BY NextType DEF OrderInv
<1>1. CASE Send
  <2>1. sent' = sent + 1 /\ UNCHANGED <<handled, retried>>
    BY <1>1 DEF Send, history
  <2> QED
    BY <1>0, <1>1, <2>1, SendOrder, OvertakenStays DEF OrderInv
<1>2. ASSUME NEW m \in due, SendAgain(m) PROVE OrderInv'
  <2>1. retried \subseteq retried' /\ UNCHANGED <<sent, handled>>
    BY <1>2 DEF SendAgain
  <2> QED
    BY <1>0, <1>2, <2>1, SendAgainOrder, OvertakenStays DEF OrderInv
<1>3. ASSUME UNCHANGED <<sent, inbox, held, channel, busy, handled, retried>> PROVE OrderInv'
  <2>1. \A p \in Partition : At(p)' = At(p)
    BY <1>3 DEF At
  <2>2. OnTheWay' = OnTheWay
    BY <1>3 DEF OnTheWay
  <2>3. Around' = Around
    BY <2>1, <2>2 DEF Around
  <2>4. FirstCopiesAscend'
    BY <1>3, <2>1, <2>2 DEF OrderInv, FirstCopiesAscend
  <2>5. Routed'
    BY <2>1 DEF OrderInv, Routed, partitionFor
  <2> QED
    BY <1>0, <1>3, <2>3, <2>4, <2>5, OvertakenStays DEF OrderInv
<1>4. ASSUME NEW m \in pending, Expire(m) PROVE OrderInv'
  BY <1>3, <1>4 DEF Expire
<1>5. CASE Receive
  <2>1. UNCHANGED <<sent, handled, retried>>
    BY <1>5 DEF Receive, server, history
  <2> QED
    BY <1>0, <1>5, <2>1, ReceiveOrder, OvertakenStays DEF OrderInv
<1>6. CASE Dispatch
  <2>1. UNCHANGED <<sent, handled, retried>>
    BY <1>6 DEF Dispatch, server, history
  <2> QED
    BY <1>0, <1>6, <2>1, DispatchOrder, OvertakenStays DEF OrderInv
<1>7. ASSUME NEW p \in Partition, Take(p) PROVE OrderInv'
  <2>1. UNCHANGED <<sent, handled, retried>>
    BY <1>7 DEF Take, server, history
  <2> QED
    BY <1>0, <1>7, <2>1, TakeOrder, OvertakenStays DEF OrderInv
<1>8. ASSUME NEW p \in Partition, Ack(p) \/ AckLost(p) PROVE OrderInv'
  <2>1. Handled(p) /\ Release(p) /\ UNCHANGED <<sent, inbox, held, channel, retried>>
    BY <1>8 DEF Ack, AckLost, Handled
  <2> QED
    BY <1>0, <2>1, ReleaseOrder, HandledOrder DEF OrderInv
<1>9. ASSUME NEW p \in Partition, Nak(p) PROVE OrderInv'
  <2>1. Release(p) /\ UNCHANGED <<sent, inbox, held, channel, handled, retried>>
    BY <1>9 DEF Nak
  <2> QED
    BY <1>0, <2>1, ReleaseOrder, OvertakenStays DEF OrderInv
<1>10. CASE Restart
  <2>1. UNCHANGED <<sent, handled, retried>>
    BY <1>10 DEF Restart
  <2> QED
    BY <1>0, <1>10, <2>1, RestartOrder, OvertakenStays DEF OrderInv
<1>11. CASE UNCHANGED vars
  BY <1>3, <1>11 DEF vars
<1> QED
  BY <1>1, <1>2, <1>4, <1>5, <1>6, <1>7, <1>8, <1>9, <1>10, <1>11 DEF Next

\* "ordering guarantee" (cmd/worker/main.go:105), for any number of partitions,
\* athletes and messages and any size of the channels: an event that is handled
\* after a later one of its athlete is one that was sent again.
THEOREM AlwaysInOrderUnlessRetried == Spec => []InOrderUnlessRetried
<1>1. OrderInv => InOrderUnlessRetried
  BY DEF OrderInv
<1> QED
  BY <1>1, InitOrder, NextOrder, PTL DEF Spec

------------------------------------------------------------------------------
\* A handled message is handed over, whether or not it is acknowledged.
LEMMA HandledIsHanded ==
  ASSUME TypeInv, NEW p \in Partition, Handled(p), UNCHANGED sent,
         pending' = pending \/ pending' = pending \ {busy[p]}
  PROVE  \E i \in Message : H!Hand(i)
<1>1. busy[p] \in 1 .. sent /\ ToSet(handled') = ToSet(handled) \union {busy[p]}
  BY HandledType
<1>2. busy[p] \in Message
  BY <1>1, Bounds DEF TypeInv, TypeOK, Message
<1>3. H!Hand(busy[p])
  BY <1>1 DEF H!Hand
<1> QED
  BY <1>2, <1>3

\* The dispatch is a handover: a message is acknowledged only after Handle has
\* returned nil for it ("ack only after it has durably processed the message",
\* bus.go:60-61), wherever it is lost, refused, late or restarted.  That each
\* message is handled in the end is liveness, and left to model checking.
THEOREM WorkerHandsOver == Spec => H!Safe
<1>1. Init => H!Init
  BY DEF Init, H!Init, ToSet
<1>2. TypeInv /\ [Next]_vars => [H!Next]_(H!vars)
  <2> SUFFICES ASSUME TypeInv, [Next]_vars PROVE [H!Next]_(H!vars)
    OBVIOUS
  <2> USE DEF H!Next, H!vars
  <2>1. CASE Send
    <3>1. /\ sent \in Nat /\ sent + 1 \in Message /\ pending \subseteq 1 .. sent
          /\ sent' = sent + 1 /\ pending' = pending \union {sent + 1} /\ handled' = handled
      BY <2>1, Bounds DEF Send, history, TypeInv, TypeOK, Message
    <3>2. /\ 1 .. sent' = (1 .. sent) \union {sent + 1} /\ sent + 1 \notin 1 .. sent
          /\ (1 .. sent') \ pending' = (1 .. sent) \ pending
      BY <3>1
    <3>3. H!Put(sent + 1)
      BY <3>1, <3>2 DEF H!Put
    <3> QED
      BY <3>1, <3>3
  <2>2. ASSUME UNCHANGED <<sent, pending, handled>> PROVE UNCHANGED H!vars
    BY <2>2
  <2>3. ASSUME NEW m \in due, SendAgain(m) PROVE UNCHANGED H!vars
    BY <2>2, <2>3 DEF SendAgain
  <2>4. ASSUME NEW m \in pending, Expire(m) PROVE UNCHANGED H!vars
    BY <2>2, <2>4 DEF Expire
  <2>5. CASE Receive \/ Dispatch \/ Restart
    BY <2>2, <2>5 DEF Receive, Dispatch, Restart, server, history
  <2>6. ASSUME NEW p \in Partition, Take(p) \/ Nak(p) PROVE UNCHANGED H!vars
    BY <2>2, <2>6 DEF Take, Nak, server, history
  <2>7. ASSUME NEW p \in Partition, Ack(p) \/ AckLost(p) PROVE H!Next
    BY <2>7, HandledIsHanded DEF Ack, AckLost
  <2>8. CASE UNCHANGED vars
    BY <2>2, <2>8 DEF vars
  <2> QED
    BY <2>1, <2>3, <2>4, <2>5, <2>6, <2>7, <2>8 DEF Next
<1> QED
  BY <1>1, <1>2, InitType, NextType, PTL DEF Spec, H!Safe
=============================================================================
