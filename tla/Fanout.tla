-------------------------------- MODULE Fanout --------------------------------
(***************************************************************************)
(* Live delivery to browsers (internal/realtime, and the subscriber in     *)
(* cmd/api/main.go): the two hubs, the goroutines of each WebSocket and    *)
(* the fan-out of one bus message after the other.                         *)
(*                                                                         *)
(* Hub and ClubHub run the same code over different sets of clients, the   *)
(* players of the message's athlete and all club viewers; each has its     *)
(* own RWMutex, which the fan-out holds for reading while it sends.        *)
(***************************************************************************)
EXTENDS Naturals, Sequences, FiniteSets

CONSTANTS
  Player,      \* connections to /me/stream
  Viewer,      \* connections to /club/stream
  Athlete,     \* athletes that messages are about
  AthleteOf,   \* AthleteOf[c]: the athlete in the token of player c
  Capacity,    \* of a client's send channel (32)
  MaxPush      \* BOUND: deliveries by the bus, a redelivery being another one

ASSUME FanoutAssumption ==
  /\ Player \intersect Viewer = {}
  /\ AthleteOf \in [Player -> Athlete]
  /\ Capacity \in Nat \ {0} /\ MaxPush \in Nat

Client == Player \union Viewer

VARIABLES
  registered,  \* clients in the maps of the hubs
  channel,     \* channel[c]: "none", "open", "closed"
  queue,       \* queue[c]: numbers of the messages in c.send
  conn,        \* conn[c]: "none", "up", "down"
  reader,      \* reader[c]: where Stream and readPump are
  writer,      \* writer[c]: where writePump is
  fan,         \* the subscriber: stage, message number, clients to serve
  pushed,      \* athletes of the messages handled so far (history)
  got          \* got[c]: numbers of the messages written to c (history)

vars == <<registered, channel, queue, conn, reader, writer, fan, pushed, got>>

Idle == [stage |-> "idle", msg |-> 0, todo |-> {}]

Init ==
  /\ registered = {}
  /\ channel = [c \in Client |-> "none"]
  /\ queue = [c \in Client |-> <<>>]
  /\ conn = [c \in Client |-> "none"]
  /\ reader = [c \in Client |-> "none"]
  /\ writer = [c \in Client |-> "none"]
  /\ fan = Idle
  /\ pushed = <<>>
  /\ got = [c \in Client |-> <<>>]

\* Mutant of HubFree: add and remove take no lock.
HubFreeAlways(c) == TRUE

\* The hub of c is not locked by the fan-out, so Lock can be taken.
HubFree(c) == fan.stage # (IF c \in Player THEN "push" ELSE "broadcast")

------------------------------------------------------------------------------
\* Stream: the upgrade, then hub.add and the start of writePump.
Upgrade(c) ==
  /\ reader[c] = "none"
  /\ reader' = [reader EXCEPT ![c] = "adding"]
  /\ conn' = [conn EXCEPT ![c] = "up"]
  /\ UNCHANGED <<registered, channel, queue, writer, fan, pushed, got>>

Add(c) ==
  /\ reader[c] = "adding"
  /\ HubFree(c)
  /\ registered' = registered \union {c}
  /\ channel' = [channel EXCEPT ![c] = "open"]
  /\ reader' = [reader EXCEPT ![c] = "reading"]
  /\ writer' = [writer EXCEPT ![c] = "running"]
  /\ UNCHANGED <<queue, conn, fan, pushed, got>>

\* The connection is gone: nothing can be read or written any more.
Break(c) ==
  /\ conn[c] = "up"
  /\ conn' = [conn EXCEPT ![c] = "down"]
  /\ UNCHANGED <<registered, channel, queue, reader, writer, fan, pushed, got>>

\* Also while writes still succeed: the peer sends a close frame or too much,
\* or no pong comes within pongWait.
ReadError(c) ==
  /\ reader[c] = "reading"
  /\ reader' = [reader EXCEPT ![c] = "leaving"]
  /\ UNCHANGED <<registered, channel, queue, conn, writer, fan, pushed, got>>

\* Mutant of Remove: hub.remove is not called.
RemoveForgotten(c) ==
  /\ reader[c] = "leaving"
  /\ reader' = [reader EXCEPT ![c] = "closing"]
  /\ UNCHANGED <<registered, channel, queue, conn, writer, fan, pushed, got>>

\* The deferred hub.remove, which closes the channel of a client it still has.
Remove(c) ==
  /\ reader[c] = "leaving"
  /\ HubFree(c)
  /\ registered' = registered \ {c}
  /\ channel' = IF c \in registered THEN [channel EXCEPT ![c] = "closed"] ELSE channel
  /\ reader' = [reader EXCEPT ![c] = "closing"]
  /\ UNCHANGED <<queue, conn, writer, fan, pushed, got>>

CloseConn(c) ==
  /\ reader[c] = "closing"
  /\ conn' = [conn EXCEPT ![c] = "down"]
  /\ reader' = [reader EXCEPT ![c] = "done"]
  /\ UNCHANGED <<registered, channel, queue, writer, fan, pushed, got>>

------------------------------------------------------------------------------
WriteMessage(c) ==
  /\ writer[c] = "running"
  /\ queue[c] # <<>>
  /\ conn[c] = "up"
  /\ got' = [got EXCEPT ![c] = Append(@, Head(queue[c]))]
  /\ queue' = [queue EXCEPT ![c] = Tail(@)]
  /\ UNCHANGED <<registered, channel, conn, reader, writer, fan, pushed>>

\* A write or a ping fails or misses its deadline.
WriterFails(c) ==
  /\ writer[c] = "running"
  /\ writer' = [writer EXCEPT ![c] = "stopping"]
  /\ UNCHANGED <<registered, channel, queue, conn, reader, fan, pushed, got>>

\* A receive from the closed channel, after what was still in it.
SeesClosed(c) ==
  /\ writer[c] = "running"
  /\ channel[c] = "closed"
  /\ queue[c] = <<>>
  /\ writer' = [writer EXCEPT ![c] = "stopping"]
  /\ UNCHANGED <<registered, channel, queue, conn, reader, fan, pushed, got>>

StopWriter(c) ==
  /\ writer[c] = "stopping"
  /\ writer' = [writer EXCEPT ![c] = "done"]
  /\ conn' = [conn EXCEPT ![c] = "down"]
  /\ UNCHANGED <<registered, channel, queue, reader, fan, pushed, got>>

------------------------------------------------------------------------------
\* Mutant of Recipients: every player.
RecipientsAll(a) == Player \intersect registered

Recipients(a) == {c \in Player \intersect registered : AthleteOf[c] = a}

\* The subscriber gets a message about athlete a and takes the read lock.
Receive(a) ==
  /\ fan.stage = "idle"
  /\ Len(pushed) < MaxPush
  /\ pushed' = Append(pushed, a)
  /\ fan' = [stage |-> "push", msg |-> Len(pushed'), todo |-> Recipients(a)]
  /\ UNCHANGED <<registered, channel, queue, conn, reader, writer, got>>

\* Mutants of Send: the queue has no bound; the send blocks while it is full.
SendAlways(c) ==
  /\ c \in fan.todo
  /\ queue' = [queue EXCEPT ![c] = Append(@, fan.msg)]
  /\ fan' = [fan EXCEPT !.todo = @ \ {c}]
  /\ UNCHANGED <<registered, channel, conn, reader, writer, pushed, got>>

SendBlocking(c) == Len(queue[c]) < Capacity /\ SendAlways(c)

\* select { case c.send <- msg: default: }
Send(c) ==
  /\ c \in fan.todo
  /\ IF Len(queue[c]) < Capacity
       THEN queue' = [queue EXCEPT ![c] = Append(@, fan.msg)]
       ELSE UNCHANGED queue
  /\ fan' = [fan EXCEPT !.todo = @ \ {c}]
  /\ UNCHANGED <<registered, channel, conn, reader, writer, pushed, got>>

\* Push returns and Broadcast takes its read lock.
Broadcast ==
  /\ fan.stage = "push" /\ fan.todo = {}
  /\ fan' = [fan EXCEPT !.stage = "broadcast", !.todo = Viewer \intersect registered]
  /\ UNCHANGED <<registered, channel, queue, conn, reader, writer, pushed, got>>

\* The handler returns nil and the message is acknowledged.
Acknowledge ==
  /\ fan.stage = "broadcast" /\ fan.todo = {}
  /\ fan' = Idle
  /\ UNCHANGED <<registered, channel, queue, conn, reader, writer, pushed, got>>

------------------------------------------------------------------------------
Reading(c) ==
  Add(c) \/ (conn[c] = "down" /\ ReadError(c)) \/ Remove(c) \/ CloseConn(c)
Writing(c) == SeesClosed(c) \/ StopWriter(c) \/ (conn[c] = "down" /\ WriterFails(c))
Fanning    == (\E c \in Client : Send(c)) \/ Broadcast \/ Acknowledge

Next ==
  \/ \E c \in Client :
       \/ Upgrade(c) \/ Add(c) \/ Break(c) \/ ReadError(c) \/ Remove(c) \/ CloseConn(c)
       \/ WriteMessage(c) \/ WriterFails(c) \/ SeesClosed(c) \/ StopWriter(c)
       \/ Send(c)
  \/ \E a \in Athlete : Receive(a)
  \/ Broadcast
  \/ Acknowledge

\* Goroutines run; a waiting Lock goes before later RLocks, so it is not starved
\* by the fan-out; a write on a dead connection fails.  Nothing is assumed of
\* the peers.
Spec == /\ Init /\ [][Next]_vars
        /\ WF_vars(Fanning)
        /\ \A c \in Client : SF_vars(Reading(c)) /\ WF_vars(Writing(c))

------------------------------------------------------------------------------
TypeOK ==
  /\ registered \subseteq Client
  /\ channel \in [Client -> {"none", "open", "closed"}]
  /\ \A c \in Client : queue[c] \in Seq(1 .. Len(pushed)) /\ Len(queue[c]) <= Capacity
  /\ conn \in [Client -> {"none", "up", "down"}]
  /\ reader \in [Client -> {"none", "adding", "reading", "leaving", "closing", "done"}]
  /\ writer \in [Client -> {"none", "running", "stopping", "done"}]
  /\ fan.stage \in {"idle", "push", "broadcast"} /\ fan.todo \subseteq Client
  /\ pushed \in Seq(Athlete)
  /\ \A c \in Client : got[c] \in Seq(1 .. Len(pushed))

\* The fan-out never sends on a closed channel, which would be a panic of the
\* whole process: a client is in the map exactly while its channel is open, so
\* it is closed once, and one that is about to be served is not removed
\* meanwhile.
NoSendOnClosed ==
  /\ \A c \in Client : c \in registered <=> channel[c] = "open"
  /\ fan.todo \subseteq registered

\* A player gets only events about the athlete of its token, and every client
\* gets what it gets in the order the bus delivers it, and a delivery once.
OwnEventsInOrder ==
  \A c \in Client :
    LET seen == got[c] \o queue[c]
    IN  /\ \A i, j \in DOMAIN seen : i < j => seen[i] < seen[j]
        /\ c \in Player => \A i \in DOMAIN seen : pushed[seen[i]] = AthleteOf[c]

\* Nothing leaks: who is in a hub has a goroutine that takes it out, and when
\* that one has gone, the connection is down and the channel closed, which ends
\* the other.
LeavesNothing ==
  \A c \in Client :
    /\ c \in registered <=> reader[c] \in {"reading", "leaving"}
    /\ reader[c] = "done" => conn[c] = "down" /\ channel[c] = "closed"

\* However slow or dead the clients are, a message is fanned out to the end.
FanoutFinishes == fan.stage # "idle" ~> fan.stage = "idle"

\* A broken connection leaves nothing behind: no entry in the hub, no
\* goroutine.  No step on the way there leaks.
BrokenIsCleanedUp ==
  [](/\ LeavesNothing
     /\ \A c \in Client : conn[c] = "down" => <>(/\ c \notin registered
                                                /\ reader[c] = "done"
                                                /\ writer[c] = "done"))
=============================================================================
