----------------------------- MODULE IngestProofs -----------------------------
(***************************************************************************)
(* The webhook endpoint, for every set of requests and every time stamp.   *)
(***************************************************************************)
EXTENDS Ingest, TLAPS

\* An int64 that is not too large is itself.
LEMMA SmallModulo ==
  ASSUME NEW n \in Nat, NEW x \in 0 .. 2 * n + 1
  PROVE  x % (2 * (n + 1)) = x
<1> DEFINE p == 2 * (n + 1)
<1>1. p \in Nat /\ p > 0 /\ x \in 0 .. p - 1
  OBVIOUS
<1> HIDE DEF p
<1>2. x % p = x
  BY <1>1
<1> QED
  BY <1>2 DEF p

\* One that is somewhat too large wraps around once.
LEMMA LargeModulo ==
  ASSUME NEW n \in Nat, NEW x \in 2 * n + 2 .. 4 * n + 3
  PROVE  x % (2 * (n + 1)) = x - 2 * (n + 1)
<1> DEFINE p == 2 * (n + 1)
<1>1. p \in Nat /\ p > 0 /\ x \in p .. 2 * p - 1
  OBVIOUS
<1> HIDE DEF p
<1>2. x % p = x - p
  BY <1>1
<1> QED
  BY <1>2 DEF p

------------------------------------------------------------------------------
\* How the replay guard turns a time stamp into a time: as it is, unless the
\* seconds wrap around.
LEMMA UnixSeconds ==
  ASSUME NEW unix \in - SecondMax - 1 .. SecondMax, Epoch <= SecondMax
  PROVE  Unix(unix) = IF unix + Epoch <= SecondMax
                        THEN unix + Epoch
                        ELSE unix + Epoch - 2 * (SecondMax + 1)
<1> DEFINE x == unix + Epoch + SecondMax + 1
<1>1. SecondMax \in Nat /\ Epoch \in Nat /\ unix \in Int
  BY GuardAssumption
<1>2. Unix(unix) = (x % (2 * (SecondMax + 1))) - (SecondMax + 1)
  BY DEF Unix
<1>3. CASE unix + Epoch <= SecondMax
  <2>1. x \in 0 .. 2 * SecondMax + 1
    BY <1>1, <1>3
  <2>2. x % (2 * (SecondMax + 1)) = x
    BY <1>1, <2>1, SmallModulo
  <2> QED
    BY <1>1, <1>2, <1>3, <2>2
<1>4. CASE unix + Epoch > SecondMax
  <2>1. x \in 2 * SecondMax + 2 .. 4 * SecondMax + 3
    BY <1>1, <1>4
  <2>2. x % (2 * (SecondMax + 1)) = x - 2 * (SecondMax + 1)
    BY <1>1, <2>1, LargeModulo
  <2> QED
    BY <1>1, <1>2, <1>4, <2>2
<1> QED
  BY <1>1, <1>3, <1>4

\* What the replay guard lets pass ("webhooks older/newer than this are
\* rejected", verify.go:22), to the second: the window, and the far end of the
\* future, where the distance does not fit a Duration and is the one negative
\* number that has no positive counterpart.
THEOREM WindowIsExact ==
  ASSUME NEW unix \in - SecondMax - 1 .. SecondMax,
         NEW time \in Nat, time + MaxSkew + Epoch <= SecondMax
  PROVE  CheckTimestamp(unix, time) <=>
           \/ unix - time \in - MaxSkew .. MaxSkew
           \/ unix - time > DurationMax /\ unix + Epoch <= SecondMax
<1>1. /\ SecondMax \in Nat /\ Epoch \in Nat /\ DurationMax \in Nat /\ MaxSkew \in Nat
      /\ MaxSkew < DurationMax /\ DurationMax < SecondMax
      /\ unix \in Int /\ unix <= SecondMax
  BY GuardAssumption
<1>2. Unix(time) = time + Epoch
  BY <1>1, UnixSeconds
<1>3. CASE unix + Epoch <= SecondMax
  <2>1. Unix(unix) = unix + Epoch
    BY <1>1, <1>3, UnixSeconds
  <2> QED
    BY <1>1, <1>2, <1>3, <2>1 DEF CheckTimestamp, Skew, Sub, DurationMin, Negated
<1>4. CASE unix + Epoch > SecondMax
  <2>1. Unix(unix) = unix + Epoch - 2 * (SecondMax + 1)
    BY <1>1, <1>4, UnixSeconds
  <2> QED
    BY <1>1, <1>2, <1>4, <2>1 DEF CheckTimestamp, Skew, Sub, DurationMin, Negated
<1> QED
  BY <1>1, <1>3, <1>4

------------------------------------------------------------------------------
Handling == [pc : {"sent", "begun", "claimed", "written", "answered"},
             at : Int, id : Nat, answer : Answers \union {NoAnswer}]

\* What each kind of step makes of the request it is about.
LEMMA RequestMoves ==
  ASSUME TypeOK, NEW r \in Request, NEW t \in Handling,
         req' = [req EXCEPT ![r] = t]
  PROVE  /\ req' \in [Request -> Handling]
         /\ req'[r] = t
         /\ \A u \in Request : u # r => req'[u] = req[u]
BY DEF TypeOK, Handling

\* A handler that answers is done with its transaction.
LEMMA AnswerMoves ==
  ASSUME TypeOK, NEW r \in Request, NEW status \in Answers, Answer(r, status)
  PROVE  /\ req' \in [Request -> Handling]
         /\ req'[r].pc = "answered" /\ req'[r].answer = status /\ req'[r].at = req[r].at
         /\ \A u \in Request : u # r => req'[u] = req[u]
<1> DEFINE t == [req[r] EXCEPT !.pc = "answered", !.answer = status]
<1>1. req[r] \in Handling
  BY DEF TypeOK, Handling
<1>2. /\ t \in Handling
      /\ t.pc = "answered" /\ t.answer = status /\ t.at = req[r].at
  BY <1>1 DEF Handling
<1>3. req' = [req EXCEPT ![r] = t]
  BY DEF Answer
<1> HIDE DEF t
<1>4. req'[r] = t
  BY <1>2, <1>3, RequestMoves
<1> QED
  BY <1>2, <1>3, <1>4, RequestMoves DEF t

------------------------------------------------------------------------------
\* An open transaction owns the key it has inserted: nobody else has it, open
\* or committed.
KeysAreExclusive ==
  \A r \in Request : Claims(r) =>
    /\ Names[r] \notin inbound
    /\ \A u \in Request : Claims(u) /\ Names[u] = Names[r] => u = r

\* And it owns the id it has taken from the sequence.
IdsAreTaken ==
  /\ \A o \in outbox : o.id <= lastId
  /\ \A r \in Request : req[r].pc = "written" =>
       /\ req[r].id \in 1 .. lastId
       /\ \A o \in outbox : o.id # req[r].id
       /\ \A u \in Request : req[u].pc = "written" /\ req[u].id = req[r].id => u = r

\* Whoever got past the checks, or was told 200 or 202, passed the replay guard
\* at the time that was noted.
Admitted(r) == req[r].pc \in {"begun", "claimed", "written"} \/ req[r].answer \in {200, 202}

CheckedInTime ==
  /\ now \in Started .. MaxNow
  /\ \A r \in Request : Admitted(r) =>
       /\ req[r].at \in Started .. MaxNow
       /\ CheckTimestamp(Stamp[r], req[r].at)

IngestInv == /\ TypeOK /\ KeysAreExclusive /\ IdsAreTaken /\ CheckedInTime
             /\ OneRowPerEvent /\ AnswersAreDurable

\* No request has been handled at the start.
LEMMA InitInv == Init => IngestInv
<1> SUFFICES ASSUME Init PROVE IngestInv
  OBVIOUS
<1> USE DEF Init
<1>1. /\ Started \in Int /\ Started <= MaxNow /\ MaxNow \in Int
      /\ \A r \in Request : req[r].pc = "sent" /\ req[r].answer = 0 /\ req[r] \in Handling
  BY RequestAssumption DEF Fresh, NoAnswer, Handling
<1>2. TypeOK
  BY <1>1 DEF TypeOK, Handling
<1>3. KeysAreExclusive /\ IdsAreTaken
  BY <1>1 DEF KeysAreExclusive, Claims, IdsAreTaken
<1>4. CheckedInTime
  BY <1>1 DEF CheckedInTime, Admitted
<1>5. OneRowPerEvent /\ AnswersAreDurable
  BY <1>1 DEF OneRowPerEvent, AnswersAreDurable
<1> QED
  BY <1>2, <1>3, <1>4, <1>5 DEF IngestInv

\* An answer that leaves the tables alone: a refusal, a failure, or "duplicate"
\* for an event that is there.
LEMMA QuietAnswer ==
  ASSUME IngestInv, NEW r \in Request, NEW status \in Answers \ {202}, Answer(r, status),
         UNCHANGED <<inbound, outbox, lastId, now>>,
         status = 200 => Names[r] \in inbound /\ Admitted(r)
  PROVE  IngestInv'
<1>1. TypeOK
  BY DEF IngestInv
<1>2. /\ req' \in [Request -> Handling]
      /\ req'[r].pc = "answered" /\ req'[r].answer = status /\ req'[r].at = req[r].at
      /\ \A u \in Request : u # r => req'[u] = req[u]
  BY <1>1, AnswerMoves
<1>3. TypeOK'
  BY <1>1, <1>2 DEF TypeOK, Handling
<1>4. KeysAreExclusive'
  BY <1>2 DEF IngestInv, KeysAreExclusive, Claims
<1>5. IdsAreTaken'
  BY <1>2 DEF IngestInv, IdsAreTaken
<1>6. CheckedInTime'
  BY <1>2 DEF IngestInv, CheckedInTime, Admitted
<1>7. OneRowPerEvent' /\ AnswersAreDurable'
  BY <1>2 DEF IngestInv, OneRowPerEvent, AnswersAreDurable
<1> QED
  BY <1>3, <1>4, <1>5, <1>6, <1>7 DEF IngestInv

\* The end of a transaction that takes effect, whether or not its handler
\* learns of it.
LEMMA PublishAnswer ==
  ASSUME IngestInv, NEW r \in Request, NEW status \in Answers, Answer(r, status),
         status \notin {200, 400, 401}, req[r].pc = "written", Publish(r), UNCHANGED <<lastId, now>>
  PROVE  IngestInv'
<1>1. /\ TypeOK /\ Claims(r) /\ Names[r] \in EventId
      /\ Names[r] \notin inbound
      /\ \A u \in Request : Claims(u) /\ Names[u] = Names[r] => u = r
      /\ req[r].id \in 1 .. lastId
      /\ \A o \in outbox : o.id # req[r].id
      /\ \A u \in Request : req[u].pc = "written" /\ req[u].id = req[r].id => u = r
  BY RequestAssumption DEF IngestInv, KeysAreExclusive, IdsAreTaken, Claims
<1>2. /\ req' \in [Request -> Handling]
      /\ req'[r].pc = "answered" /\ req'[r].answer = status /\ req'[r].at = req[r].at
      /\ \A u \in Request : u # r => req'[u] = req[u]
  <2>1. TypeOK /\ Answer(r, status)
    BY DEF IngestInv
  <2> QED
    BY <2>1, AnswerMoves
<1>3. /\ inbound' = inbound \union {Names[r]}
      /\ outbox' = outbox \union {Row(r)}
      /\ Row(r).id = req[r].id /\ Row(r).event = Names[r] /\ Row(r).payload = r
      /\ Row(r) \in [id : Nat \ {0}, event : EventId, payload : Request]
  BY <1>1 DEF Publish, Row, TypeOK
<1> DEFINE row == Row(r)
<1> HIDE DEF row
<1>4. TypeOK'
  BY <1>1, <1>2, <1>3 DEF TypeOK, Handling
<1>5. KeysAreExclusive'
  BY <1>1, <1>2, <1>3 DEF IngestInv, KeysAreExclusive, Claims
<1>6. IdsAreTaken'
  BY <1>1, <1>2, <1>3 DEF IngestInv, IdsAreTaken, TypeOK
<1>7. CheckedInTime'
  BY <1>2 DEF IngestInv, CheckedInTime, Admitted
<1>8. OneRowPerEvent'
  <2>1. inbound = {o.event : o \in outbox}
    BY DEF IngestInv, OneRowPerEvent
  <2>2. \A o \in outbox : o.event # Names[r]
    BY <1>1, <2>1
  <2>3. inbound' = {o.event : o \in outbox'}
    BY <1>3, <2>1
  <2> QED
    BY <1>1, <1>3, <2>2, <2>3 DEF IngestInv, OneRowPerEvent
<1>9. AnswersAreDurable'
  BY <1>2, <1>3 DEF IngestInv, AnswersAreDurable
<1> QED
  BY <1>4, <1>5, <1>6, <1>7, <1>8, <1>9 DEF IngestInv

\* Passing the checks notes the time.
LEMMA BeginInv ==
  ASSUME IngestInv, NEW r \in Request, Begin(r)
  PROVE  IngestInv'
<1> DEFINE t == [req[r] EXCEPT !.pc = "begun", !.at = now]
<1>1. /\ TypeOK /\ req[r] \in Handling /\ now \in Started .. MaxNow
      /\ Started \in Int /\ MaxNow \in Int /\ now \in Int
  BY RequestAssumption DEF IngestInv, TypeOK, Handling, CheckedInTime
<1>2. t \in Handling /\ t.pc = "begun" /\ t.at = now /\ t.answer = req[r].answer
  BY <1>1 DEF Handling
<1>3. req' = [req EXCEPT ![r] = t]
  BY DEF Begin
<1> HIDE DEF t
<1>4. /\ req' \in [Request -> Handling] /\ req'[r] = t
      /\ \A u \in Request : u # r => req'[u] = req[u]
  BY <1>1, <1>2, <1>3, RequestMoves
<1>5. /\ UNCHANGED <<inbound, outbox, lastId, now>>
      /\ CheckTimestamp(Stamp[r], now) /\ req[r].pc = "sent"
  BY DEF Begin, Passes
<1>6. TypeOK'
  BY <1>1, <1>4, <1>5 DEF TypeOK, Handling
<1>7. KeysAreExclusive'
  BY <1>2, <1>4, <1>5 DEF IngestInv, KeysAreExclusive, Claims
<1>8. IdsAreTaken'
  BY <1>2, <1>4, <1>5 DEF IngestInv, IdsAreTaken
<1>9. CheckedInTime'
  BY <1>1, <1>2, <1>4, <1>5 DEF IngestInv, CheckedInTime, Admitted
<1>10. OneRowPerEvent' /\ AnswersAreDurable'
  BY <1>2, <1>4, <1>5 DEF IngestInv, OneRowPerEvent, AnswersAreDurable
<1> QED
  BY <1>6, <1>7, <1>8, <1>9, <1>10 DEF IngestInv

\* The primary key gives the key of an event to one transaction.
LEMMA InsertInv ==
  ASSUME IngestInv, NEW r \in Request, InsertInboundEvent(r)
  PROVE  IngestInv'
<1> DEFINE t == [req[r] EXCEPT !.pc = "claimed"]
<1>1. TypeOK /\ req[r] \in Handling
  BY DEF IngestInv, TypeOK, Handling
<1>2. t \in Handling /\ t.pc = "claimed" /\ t.at = req[r].at /\ t.answer = req[r].answer
  BY <1>1 DEF Handling
<1>3. req' = [req EXCEPT ![r] = t]
  BY DEF InsertInboundEvent
<1> HIDE DEF t
<1>4. /\ req' \in [Request -> Handling] /\ req'[r] = t
      /\ \A u \in Request : u # r => req'[u] = req[u]
  BY <1>1, <1>2, <1>3, RequestMoves
<1>5. /\ UNCHANGED <<inbound, outbox, lastId, now>>
      /\ req[r].pc = "begun" /\ Names[r] \notin inbound
      /\ \A u \in Request : Claims(u) => Names[u] # Names[r]
  BY DEF InsertInboundEvent
<1>6. TypeOK'
  BY <1>1, <1>4, <1>5 DEF TypeOK, Handling
<1>7. KeysAreExclusive'
  BY <1>2, <1>4, <1>5 DEF IngestInv, KeysAreExclusive, Claims
<1>8. IdsAreTaken'
  BY <1>2, <1>4, <1>5 DEF IngestInv, IdsAreTaken
<1>9. CheckedInTime'
  BY <1>2, <1>4, <1>5 DEF IngestInv, CheckedInTime, Admitted
<1>10. OneRowPerEvent' /\ AnswersAreDurable'
  BY <1>2, <1>4, <1>5 DEF IngestInv, OneRowPerEvent, AnswersAreDurable
<1> QED
  BY <1>6, <1>7, <1>8, <1>9, <1>10 DEF IngestInv

\* The sequence gives each row an id of its own.
LEMMA OutboxInv ==
  ASSUME IngestInv, NEW r \in Request, InsertOutbox(r)
  PROVE  IngestInv'
<1> DEFINE t == [req[r] EXCEPT !.pc = "written", !.id = lastId + 1]
<1>1. TypeOK /\ req[r] \in Handling /\ lastId \in Nat /\ lastId + 1 \in Nat
  BY DEF IngestInv, TypeOK, Handling
<1>2. /\ t \in Handling /\ t.pc = "written" /\ t.id = lastId + 1
      /\ t.at = req[r].at /\ t.answer = req[r].answer
  BY <1>1 DEF Handling
<1>3. req' = [req EXCEPT ![r] = t]
  BY DEF InsertOutbox
<1> HIDE DEF t
<1>4. /\ req' \in [Request -> Handling] /\ req'[r] = t
      /\ \A u \in Request : u # r => req'[u] = req[u]
  BY <1>1, <1>2, <1>3, RequestMoves
<1>5. UNCHANGED <<inbound, outbox, now>> /\ lastId' = lastId + 1 /\ req[r].pc = "claimed"
  BY DEF InsertOutbox
<1>6. TypeOK'
  BY <1>1, <1>4, <1>5 DEF TypeOK, Handling
<1>7. KeysAreExclusive'
  BY <1>2, <1>4, <1>5 DEF IngestInv, KeysAreExclusive, Claims
<1>8. IdsAreTaken'
  <2>1. ASSUME NEW o \in outbox PROVE o.id \in Nat /\ o.id <= lastId /\ o.id # lastId + 1
    BY <1>1 DEF IngestInv, IdsAreTaken, TypeOK
  <2>2. ASSUME NEW u \in Request, u # r, req[u].pc = "written"
        PROVE  req[u].id \in 1 .. lastId
    BY <2>2 DEF IngestInv, IdsAreTaken
  <2> QED
    BY <1>1, <1>2, <1>4, <1>5, <2>1, <2>2 DEF IngestInv, IdsAreTaken
<1>9. CheckedInTime'
  BY <1>2, <1>4, <1>5 DEF IngestInv, CheckedInTime, Admitted
<1>10. OneRowPerEvent' /\ AnswersAreDurable'
  BY <1>2, <1>4, <1>5 DEF IngestInv, OneRowPerEvent, AnswersAreDurable
<1> QED
  BY <1>6, <1>7, <1>8, <1>9, <1>10 DEF IngestInv

\* Every step of every request keeps all of it.
LEMMA NextInv ==
  ASSUME IngestInv, [Next]_vars
  PROVE  IngestInv'
<1>1. ASSUME NEW r \in Request, Reject(r) PROVE IngestInv'
  BY <1>1, QuietAnswer DEF Reject, RejectStatus, Answers
<1>2. ASSUME NEW r \in Request, Begin(r) PROVE IngestInv'
  BY <1>2, BeginInv
<1>3. ASSUME NEW r \in Request, InsertInboundEvent(r) PROVE IngestInv'
  BY <1>3, InsertInv
<1>4. ASSUME NEW r \in Request, Duplicate(r) PROVE IngestInv'
  BY <1>4, QuietAnswer DEF Duplicate, Admitted, Answers
<1>5. ASSUME NEW r \in Request, InsertOutbox(r) PROVE IngestInv'
  BY <1>5, OutboxInv
<1>6. ASSUME NEW r \in Request, Commit(r) \/ CommitUnseen(r) PROVE IngestInv'
  BY <1>6, PublishAnswer DEF Commit, CommitUnseen, Answers
<1>7. ASSUME NEW r \in Request, Fail(r) PROVE IngestInv'
  BY <1>7, QuietAnswer DEF Fail, Answers
<1>8. CASE Tick
  <2>1. now' \in Started .. MaxNow /\ UNCHANGED <<inbound, outbox, lastId, req>>
    BY <1>8, RequestAssumption DEF Tick, IngestInv, CheckedInTime
  <2> QED
    BY <2>1 DEF IngestInv, TypeOK, KeysAreExclusive, Claims, IdsAreTaken, CheckedInTime,
                Admitted, OneRowPerEvent, AnswersAreDurable
<1>9. CASE UNCHANGED vars
  BY <1>9 DEF vars, IngestInv, TypeOK, KeysAreExclusive, Claims, IdsAreTaken,
              CheckedInTime, Admitted, OneRowPerEvent, AnswersAreDurable
<1> QED
  BY <1>1, <1>2, <1>3, <1>4, <1>5, <1>6, <1>7, <1>8, <1>9 DEF Next, Handle

------------------------------------------------------------------------------
\* The tables and the requests keep their types.
THEOREM TypeCorrect == Spec => []TypeOK
<1>1. IngestInv => TypeOK
  BY DEF IngestInv
<1> QED
  BY <1>1, InitInv, NextInv, PTL DEF Spec

\* "Webhook dedupe: PK source_event_id" (05_ARCHITECTURE_DIAGRAM.md:101), for
\* any number of requests at the same time: one row of the outbox for each
\* event id that was taken in.
THEOREM AlwaysOneRowPerEvent == Spec => []OneRowPerEvent
<1>1. IngestInv => OneRowPerEvent
  BY DEF IngestInv
<1> QED
  BY <1>1, InitInv, NextInv, PTL DEF Spec

\* A sender that was told 202 or 200 need not send again, whichever request
\* brought the event in and whatever failed meanwhile.
THEOREM AnswersAlwaysDurable == Spec => []AnswersAreDurable
<1>1. IngestInv => AnswersAreDurable
  BY DEF IngestInv
<1> QED
  BY <1>1, InitInv, NextInv, PTL DEF Spec

\* What is taken in was sent within the replay window, for every time stamp an
\* int64 can hold, those whose seconds wrap around included; the one exception
\* is the far future that AcceptedInWindow names and verify.go:22 does not.
THEOREM AlwaysAcceptedInWindow == Spec => []AcceptedInWindow
<1>1. IngestInv => AcceptedInWindow
  <2> SUFFICES ASSUME IngestInv, NEW r \in Request, req[r].answer \in {200, 202}
               PROVE  \/ Stamp[r] - req[r].at \in - MaxSkew .. MaxSkew
                      \/ Stamp[r] - req[r].at > DurationMax
    BY DEF AcceptedInWindow, Stored, InWindow
  <2>1. /\ req[r].at \in Started .. MaxNow /\ CheckTimestamp(Stamp[r], req[r].at)
        /\ Stamp[r] \in - SecondMax - 1 .. SecondMax
    BY ClockAssumption DEF IngestInv, CheckedInTime, Admitted
  <2>2. req[r].at \in Nat /\ req[r].at + MaxSkew + Epoch <= SecondMax
    BY <2>1, RequestAssumption, ClockAssumption, GuardAssumption
  <2> QED
    BY <2>1, <2>2, WindowIsExact
<1> QED
  BY <1>1, InitInv, NextInv, PTL DEF Spec
=============================================================================
