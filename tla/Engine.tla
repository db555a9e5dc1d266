-------------------------------- MODULE Engine --------------------------------
(***************************************************************************)
(* The milestone engine (internal/milestone/engine.go): Engine.Handle as a *)
(* database transaction per delivered event, with several transactions     *)
(* open at once and every statement a step of its own.                     *)
(*                                                                         *)
(* The bus delivers at least once and in any order: an event may reach     *)
(* Handle at any time and any number of times.  A statement may fail, the  *)
(* process may die and Postgres may break a deadlock: each of these is     *)
(* Rollback.  Postgres runs READ COMMITTED, so what a transaction wrote is *)
(* seen by others when it commits, and a row it locked does not change     *)
(* under it.                                                               *)
(***************************************************************************)
EXTENDS Milestones

CONSTANTS
  Worker,     \* database sessions of the partition goroutines
  Serves,     \* Serves[text]: the sessions that may handle that spelling of an
              \* athlete_id: the goroutine it hashes to, and the session of a
              \* killed process that Postgres has not noticed yet
  MaxTx,      \* BOUND: transactions begun
  NoEvent

ASSUME EngineAssumption ==
  /\ \A e \in Event : Serves[e.text] \subseteq Worker
  /\ MaxTx \in Nat
  /\ NoEvent \notin Event

VARIABLES
  progress, state,  \* columns of table milestone
  payouts,          \* keys of table payout_event
  stats,            \* events with a row in performance_stat
  outbox,           \* rows of table outbox on subject events.milestone
  lastId,           \* its BIGSERIAL sequence, which never rolls back
  clock,            \* source of now(), the start time of a transaction
  tx,               \* tx[w]: the transaction of session w
  handled           \* events for which Handle has returned nil

vars == <<progress, state, payouts, stats, outbox, lastId, clock, tx, handled>>
tables == <<progress, state, payouts, stats, outbox>>

NoTx == [pc |-> "idle", event |-> NoEvent, began |-> 0,
         locked |-> {}, done |-> {}, staged |-> <<>>]

Advanced == "MilestoneAdvanced"
Reached  == "MilestoneFulfilled"

Init ==
  /\ progress = Start
  /\ state = StartState
  /\ payouts = {}
  /\ stats = {}
  /\ outbox = {}
  /\ lastId = 0
  /\ clock = 0
  /\ tx = [w \in Worker |-> NoTx]
  /\ handled = {}

------------------------------------------------------------------------------
\* The outcome of the loop body for milestone m, whose row w has locked.
Outcome(w, m) == Advance(Clause[m], progress[m], tx[w].event.value)

\* Mutants of Unchanged: nothing is skipped; the state is compared too.
UnchangedNever(m, res) == FALSE
UnchangedToo(m, res) ==
  res.progress = progress[m] /\ res.crossed = {} /\ res.state = state[m]

\* Stale or duplicate: neither advances nor crosses.
Unchanged(m, res) == res.progress = progress[m] /\ res.crossed = {}

\* Mutant of LastCrossed: the first one.
FirstCrossed(res) == CHOOSE b \in res.crossed : \A c \in res.crossed : b <= c

\* The last element of res.Crossed.
LastCrossed(res) == CHOOSE b \in res.crossed : \A c \in res.crossed : c <= b

\* The outbox row for a staged change s of milestone m.
Row(w, m, s) ==
  [id        |-> s.id,
   at        |-> tx[w].began,
   text      |-> tx[w].event.text,
   milestone |-> m,
   type      |-> IF s.crossed = {} THEN Advanced ELSE Reached,
   progress  |-> s.progress,
   state     |-> s.state,
   boundary  |-> IF s.crossed = {} THEN 0 ELSE LastCrossed(s)]

Locked(w) == tx[w].pc = "open" /\ tx[w].locked = Concerned(tx[w].event)

------------------------------------------------------------------------------
\* An unparseable payload or athlete_id is acknowledged and forgotten.
Drop(e) ==
  /\ e.athlete = Unparsed
  /\ handled' = handled \union {e}
  /\ UNCHANGED <<tables, lastId, clock, tx>>

Begin(w, e) ==
  /\ tx[w].pc = "idle"
  /\ w \in Serves[e.text]
  /\ e.athlete # Unparsed
  /\ clock < MaxTx
  /\ clock' = clock + 1
  /\ tx' = [tx EXCEPT ![w] = [NoTx EXCEPT !.pc = "begun", !.event = e, !.began = clock']]
  /\ UNCHANGED <<tables, lastId, handled>>

\* INSERT ... ON CONFLICT DO NOTHING: passes over a row that is there, waits for
\* a transaction whose row with that key is not committed, and fails on the
\* foreign key when the athlete is not known.
InsertPerformanceStat(w) ==
  /\ tx[w].pc = "begun"
  /\ tx[w].event.athlete \in Athlete
  /\ \/ tx[w].event \in stats
     \/ \A u \in Worker : tx[u].pc = "open" => tx[u].event # tx[w].event
  /\ tx' = [tx EXCEPT ![w].pc = "open"]
  /\ UNCHANGED <<tables, lastId, clock, handled>>

\* Mutant of LockMilestone: a plain SELECT.
LockMilestoneNot(w, m) ==
  /\ tx[w].pc = "open"
  /\ m \in Concerned(tx[w].event) \ tx[w].locked
  /\ tx' = [tx EXCEPT ![w].locked = @ \union {m}]
  /\ UNCHANGED <<tables, lastId, clock, handled>>

\* SELECT ... FOR UPDATE without ORDER BY: one row lock after the other, in
\* any order, each waiting for the transaction that holds it.
LockMilestone(w, m) ==
  /\ tx[w].pc = "open"
  /\ m \in Concerned(tx[w].event) \ tx[w].locked
  /\ \A u \in Worker : m \notin tx[u].locked
  /\ tx' = [tx EXCEPT ![w].locked = @ \union {m}]
  /\ UNCHANGED <<tables, lastId, clock, handled>>

Skip(w, m) ==
  /\ Locked(w)
  /\ m \in tx[w].locked \ tx[w].done
  /\ Unchanged(m, Outcome(w, m))
  /\ tx' = [tx EXCEPT ![w].done = @ \union {m}]
  /\ UNCHANGED <<tables, lastId, clock, handled>>

\* UPDATE milestone, INSERT payout_event for each boundary, INSERT outbox.
Change(w, m) ==
  /\ Locked(w)
  /\ m \in tx[w].locked \ tx[w].done
  /\ ~ Unchanged(m, Outcome(w, m))
  /\ lastId' = lastId + 1
  /\ tx' = [tx EXCEPT
       ![w].done = @ \union {m},
       ![w].staged = [n \in DOMAIN @ \union {m} |->
                        IF n = m THEN [id       |-> lastId',
                                       progress |-> Outcome(w, m).progress,
                                       state    |-> Outcome(w, m).state,
                                       crossed  |-> Outcome(w, m).crossed]
                                 ELSE @[n]]]
  /\ UNCHANGED <<tables, clock, handled>>

\* What the transaction of w wrote becomes visible and its locks are released.
Publish(w) ==
  LET staged == tx[w].staged
  IN  /\ progress' = [m \in Milestone |->
                        IF m \in DOMAIN staged THEN staged[m].progress ELSE progress[m]]
      /\ state' = [m \in Milestone |->
                     IF m \in DOMAIN staged THEN staged[m].state ELSE state[m]]
      /\ payouts' = payouts \union
           UNION {{<<m, b>> : b \in staged[m].crossed} : m \in DOMAIN staged}
      /\ outbox' = outbox \union {Row(w, m, staged[m]) : m \in DOMAIN staged}
      /\ stats' = stats \union {tx[w].event}
      /\ tx' = [tx EXCEPT ![w] = NoTx]

\* Mutant of Ready: the loop is left after its first milestone.
ReadyEarly(w) == Locked(w) /\ (tx[w].locked = {} \/ tx[w].done # {})

Ready(w) == Locked(w) /\ tx[w].done = tx[w].locked

\* Handle returns nil: the delivery is acknowledged.
Commit(w) ==
  /\ Ready(w)
  /\ Publish(w)
  /\ handled' = handled \union {tx[w].event}
  /\ UNCHANGED <<lastId, clock>>

\* The commit took effect but its answer was lost: Handle returns an error and
\* the event will be delivered again.
CommitUnseen(w) ==
  /\ Ready(w)
  /\ Publish(w)
  /\ UNCHANGED <<lastId, clock, handled>>

\* Mutant of Rollback: the error is logged and the delivery acknowledged.
RollbackAcked(w) ==
  /\ tx[w].pc # "idle"
  /\ tx' = [tx EXCEPT ![w] = NoTx]
  /\ handled' = handled \union {tx[w].event}
  /\ UNCHANGED <<tables, lastId, clock>>

\* A failed statement, a broken deadlock, a killed process: deferred Rollback.
Rollback(w) ==
  /\ tx[w].pc # "idle"
  /\ tx' = [tx EXCEPT ![w] = NoTx]
  /\ UNCHANGED <<tables, lastId, clock, handled>>

Next ==
  \/ \E e \in Event : Drop(e)
  \/ \E w \in Worker, e \in Event : Begin(w, e)
  \/ \E w \in Worker : InsertPerformanceStat(w)
  \/ \E w \in Worker, m \in Milestone : LockMilestone(w, m)
  \/ \E w \in Worker, m \in Milestone : Skip(w, m)
  \/ \E w \in Worker, m \in Milestone : Change(w, m)
  \/ \E w \in Worker : Commit(w)
  \/ \E w \in Worker : CommitUnseen(w)
  \/ \E w \in Worker : Rollback(w)

Spec == Init /\ [][Next]_vars

------------------------------------------------------------------------------
Pending == [id : Nat, progress : Int, state : States, crossed : SUBSET Int]

IsTransaction(t) ==
  /\ t \in [pc     : {"idle", "begun", "open"},
            event  : Event \union {NoEvent},
            began  : Nat,
            locked : SUBSET Milestone,
            done   : SUBSET Milestone,
            staged : {t.staged}]
  /\ \E S \in SUBSET Milestone : t.staged \in [S -> Pending]

RowType(r) ==
  /\ r.id \in Nat /\ r.at \in Nat
  /\ r.milestone \in Milestone
  /\ r.type \in {Advanced, Reached}
  /\ r.progress \in Int
  /\ r.state \in States

TypeOK ==
  /\ progress \in [Milestone -> Int]
  /\ state \in [Milestone -> States]
  /\ payouts \subseteq Milestone \X Int
  /\ stats \subseteq Event
  /\ handled \subseteq Event
  /\ \A r \in outbox : RowType(r)
  /\ lastId \in Nat
  /\ clock \in Nat
  /\ DOMAIN tx = Worker
  /\ \A w \in Worker : IsTransaction(tx[w])

\* FOR UPDATE at work: no two transactions hold the same row, a transaction
\* works only on rows it holds, and what it has computed for them is what the
\* table as it is now calls for, until it commits.
RowsHeldOnce ==
  \A u, w \in Worker : u # w => tx[u].locked \intersect tx[w].locked = {}

HeldWhileOpen ==
  \A w \in Worker :
    /\ tx[w].pc # "idle" => tx[w].event \in Event
    /\ IF tx[w].pc = "open"
         THEN /\ tx[w].event.athlete \in Athlete
              /\ tx[w].locked \subseteq Concerned(tx[w].event)
         ELSE tx[w].locked = {}
    /\ tx[w].done \subseteq tx[w].locked
    /\ DOMAIN tx[w].staged \subseteq tx[w].done

StagedFor(m, value, s) ==
  /\ value > progress[m]
  /\ s.progress = value
  /\ s.state = StateAfter(Clause[m], progress[m], value)
  /\ s.crossed = Crossed(Clause[m], progress[m], value)

WorkStaysRight ==
  \A w \in Worker : \A m \in tx[w].done :
    IF m \in DOMAIN tx[w].staged
      THEN StagedFor(m, tx[w].event.value, tx[w].staged[m])
      ELSE tx[w].event.value <= progress[m]

LocksProtect == RowsHeldOnce /\ HeldWhileOpen /\ WorkStaysRight

\* No payout is missing, none is made twice and none is made early: the
\* payouts of a milestone are the boundaries between where it started and
\* where it is, however the transactions interleaved or were retried.
PayoutsMatchProgress ==
  payouts = UNION {Payments(m, Start[m], progress[m]) : m \in Milestone}

\* The milestones and performance_stat tell the same story: a milestone is at
\* the best value recorded for it.
ProgressIsBest ==
  \A m \in Milestone :
    LET recorded == {e \in stats : m \in Concerned(e)}
    IN  /\ \A e \in recorded : e.value <= progress[m]
        /\ progress[m] = Start[m] \/ \E e \in recorded : e.value = progress[m]

\* An acknowledged event is never lost: the milestones it concerns have
\* reached its value and what it earned is paid.
AcknowledgedCounts ==
  \A e \in handled : \A m \in Concerned(e) :
    /\ e.value <= progress[m]
    /\ Payments(m, Start[m], e.value) \subseteq payouts

RowsOf(m) == {r \in outbox : r.milestone = m}

\* The outbox is a log of the milestone table: in the order of the ids, which
\* is the order the relay reads it in, a milestone only goes up, and the last
\* row of a milestone is what the table says.
FeedFollowsTable ==
  \A m \in Milestone :
    /\ \A r, s \in RowsOf(m) : r.id < s.id => r.progress < s.progress
    /\ RowsOf(m) = {} => progress[m] = Start[m] /\ state[m] = StartState[m]
    /\ RowsOf(m) # {} =>
         \E r \in RowsOf(m) : /\ \A s \in RowsOf(m) : s.id <= r.id
                              /\ r.progress = progress[m]
                              /\ r.state = state[m]

\* Every payout is announced: the first row of its milestone that reaches the
\* boundary is a MilestoneFulfilled whose boundary is no smaller.
PayoutsAnnounced ==
  \A p \in payouts : \E r \in RowsOf(p[1]) :
    /\ r.type = Reached
    /\ p[2] <= r.boundary /\ r.boundary <= r.progress
    /\ \A s \in RowsOf(p[1]) : s.id < r.id => s.progress < p[2]

\* A stale or duplicate delivery never rewrites a milestone's state (engine.go
\* 69-70): the state moves only in a step that raises the progress.
StateMovesWithProgress ==
  [][\A m \in Milestone : /\ progress'[m] >= progress[m]
                          /\ state'[m] # state[m] => progress'[m] > progress[m]]_vars

\* Seen from the tables, a transaction is one indivisible application of its
\* event to all the milestones it concerns.
L == INSTANCE Ledger WITH applied <- stats
ImplementsLedger == L!Spec

\* What queries/events.sql:1 says of the outbox, read by the history endpoints
\* in the order of created_at: a milestone's events come in the order they
\* happened.
HistoryIsOrdered ==
  \A r, s \in outbox :
    r.milestone = s.milestone /\ r.at < s.at => r.progress <= s.progress
=============================================================================
