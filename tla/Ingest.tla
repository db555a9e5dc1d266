-------------------------------- MODULE Ingest --------------------------------
(***************************************************************************)
(* The webhook endpoint (internal/ingest/handler.go): requests handled at  *)
(* the same time, each in its own transaction, deduplicated by the primary *)
(* key of inbound_event.  A retry of a sender that got no answer, and a    *)
(* forged or stale copy, are simply further requests.                      *)
(***************************************************************************)
EXTENDS ReplayGuard, FiniteSets

CONSTANTS
  Request,     \* HTTP requests that reach the endpoint
  EventId,     \* values of X-Event-Id
  Names,       \* Names[r]: the event id request r carries
  Stamp,       \* Stamp[r]: its time stamp
  Verdict,     \* Verdict[r]: what the other checks would find
  Started,     \* the time when the first request comes in
  MaxNow       \* BOUND: when the clock stops

Verdicts == {"valid", "unreadable", "unsigned", "forged", "garbled", "incomplete"}

ASSUME RequestAssumption ==
  /\ Names \in [Request -> EventId] /\ Verdict \in [Request -> Verdicts]
  /\ MaxNow \in Nat /\ Started \in 0 .. MaxNow

\* A time stamp is parsed as an int64, and the clock is nowhere near its end.
ASSUME ClockAssumption ==
  /\ Stamp \in [Request -> - SecondMax - 1 .. SecondMax]
  /\ MaxNow + MaxSkew + Epoch <= SecondMax

VARIABLES
  inbound,     \* source_event_id of the committed rows of inbound_event
  outbox,      \* committed rows of outbox: id, event, and whose payload it is
  lastId,      \* the BIGSERIAL sequence of outbox
  req,         \* req[r]: where the handler of r is, its outbox id, its answer
  now          \* the clock of the process

vars == <<inbound, outbox, lastId, req, now>>

NoAnswer == 0
Fresh    == [pc |-> "sent", at |-> Started, id |-> 0, answer |-> NoAnswer]

Answers == {200, 202, 400, 401, 500}

Init ==
  /\ inbound = {}
  /\ outbox = {}
  /\ lastId = 0
  /\ req = [r \in Request |-> Fresh]
  /\ now = Started

Answer(r, status) ==
  req' = [req EXCEPT ![r].pc = "answered", ![r].answer = status]

\* Mutant of Claims: a failed request keeps its transaction open.
ClaimsForEver(r) == req[r].pc \in {"claimed", "written"} \/ req[r].answer = 500

\* Its row of inbound_event is written but not committed.
Claims(r) == req[r].pc \in {"claimed", "written"}

------------------------------------------------------------------------------
\* The checks in the order of the handler: body and headers, time stamp,
\* signature, payload.
Passes(r) == Verdict[r] = "valid" /\ CheckTimestamp(Stamp[r], now)

RejectStatus(r) ==
  IF \/ Verdict[r] = "forged"
     \/ Verdict[r] \notin {"unreadable", "unsigned"} /\ ~ CheckTimestamp(Stamp[r], now)
    THEN 401 ELSE 400

Reject(r) ==
  /\ req[r].pc = "sent"
  /\ ~ Passes(r)
  /\ Answer(r, RejectStatus(r))
  /\ UNCHANGED <<inbound, outbox, lastId, now>>

\* What follows may take place much later; `at' is the time of the check.
Begin(r) ==
  /\ req[r].pc = "sent"
  /\ Passes(r)
  /\ req' = [req EXCEPT ![r].pc = "begun", ![r].at = now]
  /\ UNCHANGED <<inbound, outbox, lastId, now>>

\* Mutant of InsertInboundEvent: no key on source_event_id.
InsertInboundEventNoKey(r) ==
  /\ req[r].pc = "begun"
  /\ req' = [req EXCEPT ![r].pc = "claimed"]
  /\ UNCHANGED <<inbound, outbox, lastId, now>>

\* A second insert of a key waits until the transaction that holds it has
\* ended.
InsertInboundEvent(r) ==
  /\ req[r].pc = "begun"
  /\ Names[r] \notin inbound
  /\ \A u \in Request : Claims(u) => Names[u] # Names[r]
  /\ req' = [req EXCEPT ![r].pc = "claimed"]
  /\ UNCHANGED <<inbound, outbox, lastId, now>>

\* Mutants of Duplicate: the sender is told of a conflict; an event under way
\* counts as stored.
DuplicateRefused(r) ==
  /\ req[r].pc = "begun"
  /\ Names[r] \in inbound
  /\ Answer(r, 409)
  /\ UNCHANGED <<inbound, outbox, lastId, now>>

DuplicateOfOpen(r) ==
  /\ req[r].pc = "begun"
  /\ Names[r] \in inbound \/ \E u \in Request : Claims(u) /\ Names[u] = Names[r]
  /\ Answer(r, 200)
  /\ UNCHANGED <<inbound, outbox, lastId, now>>

\* ON CONFLICT DO NOTHING returned no row: rollback and 200.
Duplicate(r) ==
  /\ req[r].pc = "begun"
  /\ Names[r] \in inbound
  /\ Answer(r, 200)
  /\ UNCHANGED <<inbound, outbox, lastId, now>>

InsertOutbox(r) ==
  /\ req[r].pc = "claimed"
  /\ lastId' = lastId + 1
  /\ req' = [req EXCEPT ![r].pc = "written", ![r].id = lastId']
  /\ UNCHANGED <<inbound, outbox, now>>

Row(r) == [id |-> req[r].id, event |-> Names[r], payload |-> r]

Publish(r) ==
  /\ inbound' = inbound \union {Names[r]}
  /\ outbox' = outbox \union {Row(r)}

Commit(r) ==
  /\ req[r].pc = "written"
  /\ Publish(r)
  /\ Answer(r, 202)
  /\ UNCHANGED <<lastId, now>>

\* The commit took effect and its answer was lost on the way back.
CommitUnseen(r) ==
  /\ req[r].pc = "written"
  /\ Publish(r)
  /\ Answer(r, 500)
  /\ UNCHANGED <<lastId, now>>

\* A statement fails, or the sender goes away and the context is cancelled:
\* the deferred Rollback releases the key.
Fail(r) ==
  /\ req[r].pc \in {"begun", "claimed", "written"}
  /\ Answer(r, 500)
  /\ UNCHANGED <<inbound, outbox, lastId, now>>

Tick ==
  /\ now < MaxNow
  /\ now' = now + 1
  /\ UNCHANGED <<inbound, outbox, lastId, req>>

Handle(r) ==
  \/ Reject(r)
  \/ Begin(r)
  \/ InsertInboundEvent(r)
  \/ Duplicate(r)
  \/ InsertOutbox(r)
  \/ Commit(r)

Next ==
  \/ \E r \in Request : Handle(r)
  \/ \E r \in Request : CommitUnseen(r)
  \/ \E r \in Request : Fail(r)
  \/ Tick

\* Every request has a goroutine of its own, which goes on while it can; that
\* something fails is never relied upon.
Spec == Init /\ [][Next]_vars /\ \A r \in Request : WF_vars(Handle(r))

------------------------------------------------------------------------------
TypeOK ==
  /\ inbound \subseteq EventId
  /\ outbox \subseteq [id : Nat \ {0}, event : EventId, payload : Request]
  /\ lastId \in Nat
  /\ req \in [Request -> [pc : {"sent", "begun", "claimed", "written", "answered"},
                          at : Int, id : Nat, answer : Answers \union {NoAnswer}]]

\* Dedupe: an event id is in the outbox exactly when it is in inbound_event,
\* and then in one row with an id of its own.
OneRowPerEvent ==
  /\ inbound = {o.event : o \in outbox}
  /\ \A o, p \in outbox : o.event = p.event \/ o.id = p.id => o = p

\* A sender that was told "accepted" or "duplicate" may forget the event: it is
\* durable, even when it was another request that brought it; and what is on its
\* way to the bus under its id is the payload that was accepted.
AnswersAreDurable ==
  \A r \in Request :
    /\ req[r].answer \in {200, 202} => Names[r] \in inbound
    /\ req[r].answer = 202 => \E o \in outbox : o.event = Names[r] /\ o.payload = r

InWindow(r) == Stamp[r] - req[r].at \in - MaxSkew .. MaxSkew

Stored(r) == req[r].answer \in {200, 202}

\* A sender that is told its event is stored sent it within the replay window, a
\* delay and a retry included, or with a time stamp so far ahead that the distance
\* saturates.  "Webhooks older/newer than this are rejected" (verify.go:22) is not
\* true of the latter: the guard lets them pass.
AcceptedInWindow ==
  \A r \in Request : Stored(r) => InWindow(r) \/ Stamp[r] - req[r].at > DurationMax

\* No request waits for ever on another one's key.
EveryRequestAnswered == \A r \in Request : <>(req[r].pc = "answered")
=============================================================================
