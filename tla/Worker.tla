-------------------------------- MODULE Worker --------------------------------
(***************************************************************************)
(* The worker's dispatch (cmd/worker/main.go) over the durable consumer of *)
(* the bus (internal/platform/bus/bus.go): one callback puts deliveries    *)
(* into the bounded channels of the partitions, and one goroutine per      *)
(* partition runs engine.Handle and acknowledges or refuses.               *)
(*                                                                         *)
(* The server sends the stream in order, keeps at most MaxAckPending       *)
(* messages unacknowledged, and sends again what was refused or not        *)
(* acknowledged in time, also while the first copy is still queued.        *)
(* Handle is seen from here only by whether it returns nil: module Engine. *)
(***************************************************************************)
EXTENDS Naturals, FiniteSets, Sequences, SequencesExt

CONSTANTS
  Stored,         \* number of messages on events.performance
  Text,           \* Text[m]: its athlete_id as spelled, "" if it does not parse
  Hash,           \* Hash[text]: the FNV-1a sum of the text
  Poison,         \* messages on which Handle always fails (no such athlete)
  PoolSize,       \* n, the number of partitions
  Capacity,       \* of a partition's channel (64)
  MaxAckPending,  \* 256
  MaxFaults       \* BOUND: failures, late acknowledgements and restarts

Message   == 1 .. Stored
Partition == 0 .. PoolSize - 1

ASSUME WorkerAssumption ==
  /\ Stored \in Nat /\ MaxFaults \in Nat
  /\ PoolSize \in Nat \ {0} /\ Capacity \in Nat \ {0} /\ MaxAckPending \in Nat \ {0}
  /\ Poison \subseteq Message
  /\ \A m \in Message : Text[m] # "" => Hash[Text[m]] \in Nat

VARIABLES
  sent,      \* messages sent so far, in the order of the stream
  pending,   \* those of them that are not acknowledged
  due,       \* those of them to be sent again
  inbox,     \* deliveries that wait for the callback
  held,      \* the delivery the callback is putting into a channel, or none
  channel,   \* channel[p]: deliveries in partitions[p]
  busy,      \* busy[p]: the delivery goroutine p has in Handle, or none
  handled,   \* messages in the order Handle first returned nil (history)
  retried,   \* messages sent more than once (history)
  faults     \* faults so far

vars == <<sent, pending, due, inbox, held, channel, busy, handled, retried, faults>>
server == <<sent, pending, due>>
history == <<handled, retried, faults>>

None == 0

Init ==
  /\ sent = 0 /\ pending = {} /\ due = {}
  /\ inbox = <<>> /\ held = None
  /\ channel = [p \in Partition |-> <<>>]
  /\ busy = [p \in Partition |-> None]
  /\ handled = <<>> /\ retried = {} /\ faults = 0

\* Mutant of partitionFor: spread by event, not by athlete.
partitionForEvent(m) == m % PoolSize

partitionFor(m) == IF Text[m] = "" THEN 0 ELSE Hash[Text[m]] % PoolSize

Fault == faults < MaxFaults /\ faults' = faults + 1

------------------------------------------------------------------------------
\* The server.
Send ==
  /\ sent < Stored
  /\ Cardinality(pending) < MaxAckPending
  /\ sent' = sent + 1
  /\ pending' = pending \union {sent'}
  /\ inbox' = Append(inbox, sent')
  /\ UNCHANGED <<due, held, channel, busy, history>>

SendAgain(m) ==
  /\ m \in due
  /\ due' = due \ {m}
  /\ inbox' = Append(inbox, m)
  /\ retried' = retried \union {m}
  /\ UNCHANGED <<sent, pending, held, channel, busy, handled, faults>>

\* AckWait is over, wherever the delivery is.
Expire(m) ==
  /\ m \in pending \ due
  /\ Fault
  /\ due' = due \union {m}
  /\ UNCHANGED <<sent, pending, inbox, held, channel, busy, handled, retried>>

------------------------------------------------------------------------------
\* The callback of Consume: one delivery at a time.
Receive ==
  /\ held = None /\ inbox # <<>>
  /\ held' = Head(inbox)
  /\ inbox' = Tail(inbox)
  /\ UNCHANGED <<server, channel, busy, history>>

\* Mutant of Dispatch: channels without a bound.
DispatchAlways ==
  /\ held # None
  /\ channel' = [channel EXCEPT ![partitionFor(held)] = Append(@, held)]
  /\ held' = None
  /\ UNCHANGED <<server, inbox, busy, history>>

\* partitions[idx] <- d blocks, and every later delivery with it, while the
\* channel is full.
Dispatch ==
  /\ held # None
  /\ Len(channel[partitionFor(held)]) < Capacity
  /\ channel' = [channel EXCEPT ![partitionFor(held)] = Append(@, held)]
  /\ held' = None
  /\ UNCHANGED <<server, inbox, busy, history>>

------------------------------------------------------------------------------
\* The goroutine of partition p.
Take(p) ==
  /\ busy[p] = None /\ channel[p] # <<>>
  /\ busy' = [busy EXCEPT ![p] = Head(channel[p])]
  /\ channel' = [channel EXCEPT ![p] = Tail(@)]
  /\ UNCHANGED <<server, inbox, held, history>>

Release(p) == busy' = [busy EXCEPT ![p] = None]

\* Handle returns nil for the delivery of p.
Handled(p) ==
  /\ busy[p] \notin Poison \union {None}
  /\ handled' = IF busy[p] \in ToSet(handled) THEN handled ELSE Append(handled, busy[p])
  /\ Release(p)

Ack(p) ==
  /\ Handled(p)
  /\ pending' = pending \ {busy[p]}
  /\ due' = due \ {busy[p]}
  /\ UNCHANGED <<sent, inbox, held, channel, retried, faults>>

\* The acknowledgement is lost: its error is not looked at (bus.go:68).
AckLost(p) ==
  /\ Handled(p)
  /\ Fault
  /\ due' = due \union ({busy[p]} \intersect pending)
  /\ UNCHANGED <<sent, pending, inbox, held, channel, retried>>

\* Handle can fail: on a poisoned message, or by a fault.
Fails(p) ==
  /\ busy[p] # None
  /\ IF busy[p] \in Poison THEN UNCHANGED faults ELSE Fault

\* Mutant of Nak: the delivery is acknowledged.
NakAcked(p) ==
  /\ Fails(p)
  /\ Release(p)
  /\ pending' = pending \ {busy[p]}
  /\ due' = due \ {busy[p]}
  /\ UNCHANGED <<sent, inbox, held, channel, handled, retried>>

\* Handle returns an error and the server is asked to send again, which it does
\* unless another copy has been acknowledged.
Nak(p) ==
  /\ Fails(p)
  /\ Release(p)
  /\ due' = due \union ({busy[p]} \intersect pending)
  /\ UNCHANGED <<sent, pending, inbox, held, channel, handled, retried>>

\* The process is killed, or told to stop and started again: what was queued is
\* gone, and is sent again when AckWait is over.
Restart ==
  /\ Fault
  /\ due' = pending
  /\ inbox' = <<>> /\ held' = None
  /\ channel' = [p \in Partition |-> <<>>]
  /\ busy' = [p \in Partition |-> None]
  /\ UNCHANGED <<sent, pending, handled, retried>>

Next ==
  \/ Send
  \/ \E m \in due : SendAgain(m)
  \/ \E m \in pending : Expire(m)
  \/ Receive
  \/ Dispatch
  \/ \E p \in Partition : Take(p)
  \/ \E p \in Partition : Ack(p)
  \/ \E p \in Partition : AckLost(p)
  \/ \E p \in Partition : Nak(p)
  \/ Restart

\* The server sends what it may, the goroutines run and Handle returns; that
\* faults end is the bound MaxFaults.
Spec == /\ Init /\ [][Next]_vars
        /\ WF_vars(Send) /\ \A m \in Message : WF_vars(SendAgain(m))
        /\ WF_vars(Receive) /\ WF_vars(Dispatch)
        /\ \A p \in Partition : WF_vars(Take(p)) /\ WF_vars(Ack(p) \/ Nak(p))

------------------------------------------------------------------------------
TypeOK ==
  /\ sent \in 0 .. Stored
  /\ due \subseteq pending /\ pending \subseteq 1 .. sent
  /\ Cardinality(pending) <= MaxAckPending
  /\ inbox \in Seq(1 .. sent) /\ held \in 0 .. sent
  /\ \A p \in Partition : channel[p] \in Seq(1 .. sent) /\ Len(channel[p]) <= Capacity
  /\ busy \in [Partition -> 0 .. sent]
  /\ handled \in Seq(1 .. sent) /\ retried \subseteq 1 .. sent
  /\ faults \in 0 .. MaxFaults

SameAthlete(l, m) == Text[l] # "" /\ Text[l] = Text[m]

\* "ordering guarantee" (cmd/worker/main.go:105): the partitions keep the order
\* of an athlete's events as long as nothing has to be sent again; only a
\* message that was can be late.
InOrderUnlessRetried ==
  \A i, j \in DOMAIN handled :
    i < j /\ SameAthlete(handled[i], handled[j]) /\ handled[j] < handled[i]
      => handled[j] \in retried

\* While poisoned messages are fewer than MaxAckPending they hold up nothing:
\* every other message is handled and then acknowledged, however full the
\* channels, and whatever is queued, refused or lost in a restart stays with
\* the server until it has been handled.
H == INSTANCE Handover WITH
       Item     <- Message,
       Hopeless <- IF Cardinality(Poison) < MaxAckPending THEN Poison ELSE Message,
       put      <- 1 .. sent,
       handed   <- ToSet(handled),
       done     <- (1 .. sent) \ pending
ImplementsHandover == H!Spec
=============================================================================
