----------------------------- MODULE EngineProofs -----------------------------
(***************************************************************************)
(* What the row locks of the engine buy, for every set of milestones,      *)
(* events and sessions: a transaction is one application of its event to   *)
(* the tables, the payouts are exactly the boundaries that were passed,    *)
(* and the outbox tells the story of the milestone table.                  *)
(*                                                                         *)
(* The inductive invariant Inv is LocksProtect, with the types and the     *)
(* fact that no milestone is below where it started; FeedInv adds what the *)
(* outbox and its ids owe to the order of the commits.                     *)
(*                                                                         *)
(* The last part is about domain.Advance, which a transaction calls: its   *)
(* loops over machine integers (module AdvanceLoop) return the closed form *)
(* of module Tranche that the engine is modelled with.                     *)
(***************************************************************************)
EXTENDS Engine, AdvanceLoop, Lemmas

\* IsTransaction as a set.
Transaction ==
  [pc     : {"idle", "begun", "open"},
   event  : Event \union {NoEvent},
   began  : Nat,
   locked : SUBSET Milestone,
   done   : SUBSET Milestone,
   staged : UNION {[S -> Pending] : S \in SUBSET Milestone}]

\* TypeOK with the transactions in that form.
TypeInv ==
  /\ progress \in [Milestone -> Int]
  /\ state \in [Milestone -> States]
  /\ payouts \subseteq Milestone \X Int
  /\ stats \subseteq Event
  /\ handled \subseteq Event
  /\ \A r \in outbox : RowType(r)
  /\ lastId \in Nat
  /\ clock \in Nat
  /\ tx \in [Worker -> Transaction]

\* The invariant of the proof says what TypeOK says.
LEMMA TypeInvIsTypeOK == TypeInv => TypeOK
<1>1. ASSUME NEW t \in Transaction
      PROVE  IsTransaction(t)
  BY DEF Transaction, IsTransaction
<1> QED
  BY <1>1 DEF TypeInv, TypeOK

\* A transaction that is not idle has an event.
HasEvent == \A w \in Worker : tx[w].pc # "idle" => tx[w].event \in Event

\* A session without a transaction.
LEMMA NoTxType == NoTx \in Transaction
<1>1. <<>> \in [{} -> Pending]
  OBVIOUS
<1> QED
  BY <1>1 DEF NoTx, Transaction

\* What domain.Advance returns for a milestone and an event has its types.
LEMMA OutcomeType ==
  ASSUME TypeInv, NEW w \in Worker, NEW m \in Milestone, tx[w].event \in Event
  PROVE  /\ tx[w].event.value \in Int
         /\ Outcome(w, m).progress = Raised(progress[m], tx[w].event.value)
         /\ Outcome(w, m).progress \in Int
         /\ Outcome(w, m).state \in States
         /\ Outcome(w, m).crossed =
              Crossed(Clause[m], progress[m], Outcome(w, m).progress)
         /\ Outcome(w, m).crossed \in SUBSET Int
<1>1. tx[w].event.value \in Int
  BY EventAssumption
<1>2. progress[m] \in Int
  BY DEF TypeInv
<1> DEFINE v == tx[w].event.value
           p == progress[m]
           c == Clause[m]
           a == Advance(c, p, v)
<1> HIDE DEF v, p, c
<1>3. v \in Int /\ p \in Int
  BY <1>1, <1>2 DEF v, p
<1>4. /\ a.progress = Raised(p, v) /\ a.progress \in Int
      /\ a.state \in States
      /\ a.crossed = Crossed(c, p, Raised(p, v))
      /\ a.crossed \in SUBSET Int
  BY ONLY <1>3, AdvanceType
<1> HIDE DEF a
<1>5. a.crossed = Crossed(c, p, a.progress)
  BY <1>4
<1>6. Outcome(w, m) = a
  BY DEF Outcome, v, p, c, a
<1> QED
  BY <1>3, <1>4, <1>5, <1>6 DEF v, p, c

\* The tables as the migrations leave them.
LEMMA InitType == Init => TypeInv
BY NoTxType, StartAssumption DEF Init, TypeInv

\* What Change stages.
LEMMA ChangeStages ==
  ASSUME TypeInv, NEW w \in Worker, NEW m \in Milestone, tx[w].event \in Event,
         Change(w, m)
  PROVE  /\ tx'[w].staged \in [DOMAIN tx[w].staged \union {m} -> Pending]
         /\ tx' \in [Worker -> Transaction]
<1> DEFINE new == [id |-> lastId', progress |-> Outcome(w, m).progress,
                   state |-> Outcome(w, m).state, crossed |-> Outcome(w, m).crossed]
           old == tx[w].staged
           staged == [n \in DOMAIN old \union {m} |-> IF n = m THEN new ELSE old[n]]
<1>1. new \in Pending
  BY OutcomeType DEF Change, TypeInv, Pending
<1>2. tx[w] \in Transaction
  BY DEF TypeInv
<1>3. PICK S \in SUBSET Milestone : old \in [S -> Pending]
  BY <1>2 DEF Transaction
<1>4. staged \in [DOMAIN old \union {m} -> Pending]
  BY <1>1, <1>3
<1>5. DOMAIN old \union {m} \in SUBSET Milestone
  BY <1>3
<1>6. staged \in UNION {[T -> Pending] : T \in SUBSET Milestone}
  BY <1>4, <1>5
<1>7. tx' = [tx EXCEPT ![w].done = @ \union {m}, ![w].staged = staged]
  BY DEF Change
<1> HIDE DEF staged
<1>8. tx'[w].staged = staged
  BY <1>2, <1>7 DEF TypeInv, Transaction
<1>9. tx' \in [Worker -> Transaction]
  BY <1>2, <1>6, <1>7 DEF TypeInv, Transaction
<1> QED
  BY <1>4, <1>8, <1>9

\* The tables after a commit.
LEMMA PublishType ==
  ASSUME TypeInv, NEW w \in Worker, Ready(w), Publish(w), tx[w].event \in Event
  PROVE  /\ progress' \in [Milestone -> Int]
         /\ state' \in [Milestone -> States]
         /\ payouts' \subseteq Milestone \X Int
         /\ stats' \subseteq Event
         /\ \A r \in outbox' : RowType(r)
         /\ tx' \in [Worker -> Transaction]
<1> DEFINE staged == tx[w].staged
<1>0. tx[w] \in Transaction
  BY DEF TypeInv
<1>1. PICK S \in SUBSET Milestone : staged \in [S -> Pending]
  BY <1>0 DEF Transaction
<1>2. \A m \in DOMAIN staged : m \in Milestone /\ staged[m] \in Pending
  BY <1>1
<1>3. \A m \in DOMAIN staged : /\ staged[m].id \in Nat
                               /\ staged[m].progress \in Int
                               /\ staged[m].state \in States
                               /\ staged[m].crossed \subseteq Int
  BY <1>2 DEF Pending
<1>4. progress' \in [Milestone -> Int]
  BY <1>3 DEF Publish, TypeInv
<1>5. state' \in [Milestone -> States]
  BY <1>3 DEF Publish, TypeInv
<1>6. payouts' \subseteq Milestone \X Int
  BY <1>2, <1>3 DEF Publish, TypeInv
<1>7. stats' \subseteq Event
  BY DEF Publish, TypeInv
<1>8. tx[w].began \in Nat
  BY DEF TypeInv, Transaction
<1>9. ASSUME NEW m \in DOMAIN staged
      PROVE  RowType(Row(w, m, staged[m]))
  BY <1>2, <1>3, <1>8 DEF RowType, Row
<1>10. \A r \in outbox' : RowType(r)
  BY <1>9 DEF Publish, TypeInv
<1>11. tx' \in [Worker -> Transaction]
  BY NoTxType DEF Publish, TypeInv
<1> QED
  BY <1>4, <1>5, <1>6, <1>7, <1>10, <1>11

\* Every statement, commit and rollback keeps the types.
LEMMA NextType ==
  ASSUME TypeInv, HasEvent, [Next]_vars
  PROVE  TypeInv' /\ HasEvent'
<1> USE DEF HasEvent
<1> tx \in [Worker -> Transaction]
  BY DEF TypeInv
<1>1. ASSUME NEW e \in Event, Drop(e)
      PROVE  TypeInv' /\ HasEvent'
  BY <1>1 DEF Drop, TypeInv, tables
<1>2. ASSUME NEW w \in Worker, NEW e \in Event, Begin(w, e)
      PROVE  TypeInv' /\ HasEvent'
  <2> DEFINE t == [NoTx EXCEPT !.pc = "begun", !.event = e, !.began = clock']
  <2>0. clock' \in Nat
    BY <1>2 DEF Begin, TypeInv
  <2>1. t \in Transaction /\ t.event = e
    BY <2>0, NoTxType DEF Transaction
  <2>2. tx' = [tx EXCEPT ![w] = t]
    BY <1>2 DEF Begin
  <2> QED
    BY <1>2, <2>1, <2>2 DEF Begin, TypeInv, tables
<1>3. ASSUME NEW w \in Worker, InsertPerformanceStat(w)
      PROVE  TypeInv' /\ HasEvent'
  <2>1. tx' \in [Worker -> Transaction] /\ HasEvent'
    BY <1>3 DEF InsertPerformanceStat, Transaction
  <2> QED
    BY <1>3, <2>1 DEF InsertPerformanceStat, TypeInv, tables
<1>4. ASSUME NEW w \in Worker, NEW m \in Milestone, LockMilestone(w, m)
      PROVE  TypeInv' /\ HasEvent'
  <2>1. tx' \in [Worker -> Transaction] /\ HasEvent'
    BY <1>4 DEF LockMilestone, Transaction
  <2> QED
    BY <1>4, <2>1 DEF LockMilestone, TypeInv, tables
<1>5. ASSUME NEW w \in Worker, NEW m \in Milestone, Skip(w, m)
      PROVE  TypeInv' /\ HasEvent'
  <2>1. tx' \in [Worker -> Transaction] /\ HasEvent'
    BY <1>5 DEF Skip, Transaction
  <2> QED
    BY <1>5, <2>1 DEF Skip, TypeInv, tables
<1>6. ASSUME NEW w \in Worker, NEW m \in Milestone, Change(w, m)
      PROVE  TypeInv' /\ HasEvent'
  <2>1. tx[w].event \in Event
    BY <1>6 DEF Change, Locked
  <2>2. tx' \in [Worker -> Transaction]
    BY <1>6, <2>1, ChangeStages
  <2>3. HasEvent'
    BY <1>6, <2>1 DEF Change, Transaction
  <2> QED
    BY <1>6, <2>2, <2>3 DEF Change, TypeInv, tables
<1>7. ASSUME NEW w \in Worker, Ready(w), Publish(w), UNCHANGED <<lastId, clock>>,
             handled' \subseteq handled \union {tx[w].event}
      PROVE  TypeInv' /\ HasEvent'
  <2>1. tx[w].event \in Event
    BY <1>7 DEF Ready, Locked
  <2>2. HasEvent'
    BY <1>7 DEF Publish, NoTx
  <2> QED
    BY <1>7, <2>1, <2>2, PublishType DEF TypeInv
<1>8. ASSUME NEW w \in Worker, Commit(w)
      PROVE  TypeInv' /\ HasEvent'
  BY <1>7, <1>8 DEF Commit
<1>9. ASSUME NEW w \in Worker, CommitUnseen(w)
      PROVE  TypeInv' /\ HasEvent'
  BY <1>7, <1>9 DEF CommitUnseen
<1>10. ASSUME NEW w \in Worker, Rollback(w)
       PROVE  TypeInv' /\ HasEvent'
  <2>1. tx' \in [Worker -> Transaction] /\ HasEvent'
    BY <1>10, NoTxType DEF Rollback, NoTx
  <2> QED
    BY <1>10, <2>1 DEF Rollback, TypeInv, tables
<1>11. CASE UNCHANGED vars
  BY <1>11 DEF vars, TypeInv, RowType
<1> QED
  BY <1>1, <1>2, <1>3, <1>4, <1>5, <1>6, <1>8, <1>9, <1>10, <1>11 DEF Next

\* The variables of the engine keep their types: in particular a milestone's
\* progress stays a number, its state one of the four, and the transaction of
\* a session well formed.
THEOREM TypeCorrect == Spec => []TypeOK
<1>1. Init => TypeInv /\ HasEvent
  BY InitType DEF Init, HasEvent, NoTx
<1>2. TypeInv /\ HasEvent /\ [Next]_vars => (TypeInv /\ HasEvent)'
  BY NextType
<1>3. TypeInv => TypeOK
  BY TypeInvIsTypeOK
<1> QED
  BY <1>1, <1>2, <1>3, PTL DEF Spec

------------------------------------------------------------------------------
\* No milestone is below where it started.
NotBelowStart == \A m \in Milestone : Start[m] <= progress[m]

Inv == TypeInv /\ LocksProtect /\ NotBelowStart

\* What the steps below use of the types of an open transaction.
LEMMA InvFacts ==
  ASSUME Inv, NEW w \in Worker
  PROVE  /\ tx[w] \in Transaction
         /\ tx[w].pc # "idle" => tx[w].event \in Event
         /\ HasEvent
         /\ DOMAIN tx[w].staged \subseteq Milestone
         /\ \A m \in Milestone : progress[m] \in Int
<1>1. tx[w] \in Transaction
  BY DEF Inv, TypeInv
<1>2. DOMAIN tx[w].staged \subseteq Milestone
  BY <1>1 DEF Transaction
<1> QED
  BY <1>1, <1>2 DEF Inv, TypeInv, HasEvent, LocksProtect, HeldWhileOpen

\* No transaction is open at the start.
LEMMA InitInv == Init => Inv
<1> SUFFICES ASSUME Init PROVE Inv
  OBVIOUS
<1>1. \A w \in Worker : tx[w] = NoTx
  BY DEF Init
<1>2. DOMAIN NoTx.staged = {} /\ NoTx.pc = "idle" /\ NoTx.locked = {} /\ NoTx.done = {}
  BY DEF NoTx
<1>3. LocksProtect
  BY <1>1, <1>2 DEF LocksProtect, RowsHeldOnce, HeldWhileOpen, WorkStaysRight
<1>4. NotBelowStart
  BY StartAssumption DEF Init, NotBelowStart
<1> QED
  BY <1>3, <1>4, InitType DEF Inv

\* While the tables stand still and session w alone moves, it is enough that
\* the new transaction of w is right.
LEMMA OneSessionMoves ==
  ASSUME Inv, NEW w \in Worker, NEW t, tx' = [tx EXCEPT ![w] = t],
         UNCHANGED progress,
         t.locked \subseteq tx[w].locked
           \/ \E m \in Milestone : /\ t.locked \subseteq tx[w].locked \union {m}
                                   /\ \A u \in Worker : m \notin tx[u].locked,
         t.pc # "idle" => t.event \in Event,
         IF t.pc = "open" THEN /\ t.event.athlete \in Athlete
                               /\ t.locked \subseteq Concerned(t.event)
                          ELSE t.locked = {},
         t.done \subseteq t.locked,
         DOMAIN t.staged \subseteq t.done,
         \A m \in t.done : IF m \in DOMAIN t.staged
                             THEN StagedFor(m, t.event.value, t.staged[m])
                             ELSE t.event.value <= progress[m]
  PROVE  LocksProtect'
<1>1. DOMAIN tx = Worker
  BY DEF Inv, TypeInv
<1>2. tx'[w] = t /\ \A u \in Worker \ {w} : tx'[u] = tx[u]
  BY <1>1
<1>3. RowsHeldOnce'
  BY <1>2 DEF Inv, LocksProtect, RowsHeldOnce
<1>4. HeldWhileOpen'
  BY <1>2 DEF Inv, LocksProtect, HeldWhileOpen
<1>5. WorkStaysRight'
  BY <1>2 DEF Inv, LocksProtect, WorkStaysRight, StagedFor
<1> QED
  BY <1>3, <1>4, <1>5 DEF LocksProtect

------------------------------------------------------------------------------
\* A transaction that is ready to commit has staged the right change for
\* exactly the milestones its event moves.
LEMMA StagedIsMoved ==
  ASSUME Inv, NEW w \in Worker, Ready(w)
  PROVE  /\ tx[w].event \in Event /\ tx[w].event.athlete \in Athlete
         /\ DOMAIN tx[w].staged =
              {m \in Concerned(tx[w].event) : tx[w].event.value > progress[m]}
         /\ \A m \in DOMAIN tx[w].staged :
              m \in Milestone /\ StagedFor(m, tx[w].event.value, tx[w].staged[m])
<1> DEFINE e == tx[w].event
           staged == tx[w].staged
<1>1. e \in Event /\ e.athlete \in Athlete /\ DOMAIN staged \subseteq tx[w].done
  BY DEF Inv, LocksProtect, HeldWhileOpen, Ready, Locked
<1>2. tx[w].done = Concerned(e)
  BY DEF Ready, Locked
<1>3. \A m \in tx[w].done : IF m \in DOMAIN staged
                              THEN StagedFor(m, e.value, staged[m])
                              ELSE e.value <= progress[m]
  BY DEF Inv, LocksProtect, WorkStaysRight
<1>4. e.value \in Int /\ \A m \in Milestone : progress[m] \in Int
  BY <1>1, EventAssumption, InvFacts
<1>5. Concerned(e) \subseteq Milestone
  BY DEF Concerned
<1>6. \A m \in DOMAIN staged : e.value > progress[m]
  BY <1>1, <1>3 DEF StagedFor
<1>7. \A m \in Concerned(e) \ DOMAIN staged : ~ (e.value > progress[m])
  <2> TAKE m \in Concerned(e) \ DOMAIN staged
  <2>1. e.value <= progress[m]
    BY <1>2, <1>3
  <2> QED
    BY <1>4, <1>5, <2>1
<1> QED
  BY <1>1, <1>2, <1>3, <1>5, <1>6, <1>7

\* Committing does not disturb the work of the other transactions: they hold
\* none of the rows it writes.
LEMMA PublishKeepsLocks ==
  ASSUME Inv, NEW w \in Worker, Ready(w), Publish(w)
  PROVE  LocksProtect' /\ NotBelowStart'
<1> DEFINE staged == tx[w].staged
<1>1. tx'[w] = NoTx /\ \A u \in Worker \ {w} : tx'[u] = tx[u]
  BY DEF Inv, TypeInv, Publish
<1>2. DOMAIN NoTx.staged = {} /\ NoTx.pc = "idle" /\ NoTx.locked = {} /\ NoTx.done = {}
  BY DEF NoTx
<1>3. \A m \in DOMAIN staged : m \in tx[w].locked /\ m \in Milestone
  BY InvFacts DEF Inv, LocksProtect, HeldWhileOpen
<1>4. \A m \in Milestone : m \notin tx[w].locked => progress'[m] = progress[m]
  BY <1>3 DEF Publish
<1>5. RowsHeldOnce'
  BY <1>1, <1>2 DEF Inv, LocksProtect, RowsHeldOnce
<1>6. HeldWhileOpen'
  BY <1>1, <1>2 DEF Inv, LocksProtect, HeldWhileOpen
<1>7. WorkStaysRight'
  <2> SUFFICES ASSUME NEW u \in Worker, NEW m \in tx'[u].done
               PROVE  IF m \in DOMAIN tx'[u].staged
                        THEN StagedFor(m, tx[u].event.value, tx[u].staged[m])'
                        ELSE (tx[u].event.value <= progress[m])'
    BY DEF WorkStaysRight
  <2>1. u # w /\ tx'[u] = tx[u] /\ m \in tx[u].done
    BY <1>1, <1>2
  <2>2. m \in tx[u].locked /\ m \in Milestone
    BY <2>1, InvFacts DEF Inv, LocksProtect, HeldWhileOpen, Transaction
  <2>3. m \notin tx[w].locked
    BY <2>1, <2>2 DEF Inv, LocksProtect, RowsHeldOnce
  <2>4. progress'[m] = progress[m]
    BY <1>4, <2>2, <2>3
  <2> QED
    BY <2>1, <2>4 DEF Inv, LocksProtect, WorkStaysRight, StagedFor
<1>8. NotBelowStart'
  <2>1. \A m \in DOMAIN staged : /\ m \in Milestone
                                 /\ staged[m].progress = tx[w].event.value
                                 /\ tx[w].event.value > progress[m]
                                 /\ tx[w].event.value \in Int
    BY StagedIsMoved, EventAssumption DEF StagedFor
  <2>2. ASSUME NEW m \in Milestone PROVE Start[m] <= progress'[m]
    <3>1. Start[m] \in Int /\ progress[m] \in Int /\ Start[m] <= progress[m]
      BY StartAssumption, InvFacts DEF Inv, NotBelowStart
    <3>2. CASE m \in DOMAIN staged
      BY <2>1, <3>1, <3>2 DEF Publish
    <3>3. CASE m \notin DOMAIN staged
      BY <3>1, <3>3 DEF Publish
    <3> QED
      BY <3>2, <3>3
  <2> QED
    BY <2>2 DEF NotBelowStart
<1> QED
  BY <1>5, <1>6, <1>7, <1>8 DEF LocksProtect

\* Every step of every session keeps what the row locks protect.
LEMMA NextInv ==
  ASSUME Inv, [Next]_vars
  PROVE  Inv'
<1>1. TypeInv'
  BY NextType, InvFacts DEF Inv, HasEvent, LocksProtect, HeldWhileOpen
<1>2. tx \in [Worker -> Transaction]
  BY DEF Inv, TypeInv
<1>3. ASSUME UNCHANGED progress, UNCHANGED tx
      PROVE  LocksProtect' /\ NotBelowStart'
  BY <1>3 DEF Inv, LocksProtect, RowsHeldOnce, HeldWhileOpen, WorkStaysRight,
              StagedFor, NotBelowStart
<1>4. ASSUME UNCHANGED progress PROVE NotBelowStart'
  BY <1>4 DEF Inv, NotBelowStart
<1>5. ASSUME NEW e \in Event, Drop(e)
      PROVE  LocksProtect' /\ NotBelowStart'
  BY <1>3, <1>5 DEF Drop, tables
<1>6. DOMAIN NoTx.staged = {} /\ NoTx.locked = {} /\ NoTx.done = {} /\ NoTx.pc = "idle"
  BY DEF NoTx
<1>7. ASSUME NEW w \in Worker, NEW e \in Event, Begin(w, e)
      PROVE  LocksProtect' /\ NotBelowStart'
  <2> DEFINE t == [NoTx EXCEPT !.pc = "begun", !.event = e, !.began = clock']
  <2>1. /\ t.pc = "begun" /\ t.event = e
        /\ t.locked = {} /\ t.done = {} /\ DOMAIN t.staged = {}
    BY <1>6 DEF NoTx
  <2>2. tx' = [tx EXCEPT ![w] = t] /\ UNCHANGED progress
    BY <1>7 DEF Begin, tables
  <2> HIDE DEF t
  <2> QED
    BY <1>4, <2>1, <2>2, OneSessionMoves
<1>8. ASSUME NEW w \in Worker, InsertPerformanceStat(w)
      PROVE  LocksProtect' /\ NotBelowStart'
  <2> DEFINE t == [tx[w] EXCEPT !.pc = "open"]
  <2>1. /\ t.pc = "open" /\ t.event = tx[w].event /\ t.locked = tx[w].locked
        /\ t.done = tx[w].done /\ t.staged = tx[w].staged
    BY <1>2 DEF Transaction
  <2>2. tx' = [tx EXCEPT ![w] = t] /\ UNCHANGED progress
    BY <1>8 DEF InsertPerformanceStat, tables
  <2>3. /\ tx[w].locked = {} /\ tx[w].done = {} /\ DOMAIN tx[w].staged = {}
        /\ tx[w].event \in Event /\ tx[w].event.athlete \in Athlete
    BY <1>8 DEF InsertPerformanceStat, Inv, LocksProtect, HeldWhileOpen
  <2> HIDE DEF t
  <2> QED
    BY <1>4, <2>1, <2>2, <2>3, OneSessionMoves
<1>9. ASSUME NEW w \in Worker, NEW m \in Milestone, LockMilestone(w, m)
      PROVE  LocksProtect' /\ NotBelowStart'
  <2> DEFINE t == [tx[w] EXCEPT !.locked = @ \union {m}]
  <2>1. /\ t.pc = "open" /\ t.event = tx[w].event /\ t.locked = tx[w].locked \union {m}
        /\ t.done = tx[w].done /\ t.staged = tx[w].staged
    BY <1>2, <1>9 DEF Transaction, LockMilestone
  <2>2. tx' = [tx EXCEPT ![w] = t] /\ UNCHANGED progress
    BY <1>9 DEF LockMilestone, tables
  <2>3. m \in Concerned(tx[w].event) /\ \A u \in Worker : m \notin tx[u].locked
    BY <1>9 DEF LockMilestone
  <2>4. tx[w].pc = "open"
    BY <1>9 DEF LockMilestone
  <2>5. /\ tx[w].event \in Event /\ tx[w].event.athlete \in Athlete
        /\ tx[w].locked \subseteq Concerned(tx[w].event)
        /\ tx[w].done \subseteq tx[w].locked
        /\ DOMAIN tx[w].staged \subseteq tx[w].done
        /\ \A n \in tx[w].done : IF n \in DOMAIN tx[w].staged
                                   THEN StagedFor(n, tx[w].event.value, tx[w].staged[n])
                                   ELSE tx[w].event.value <= progress[n]
    BY <2>4 DEF Inv, LocksProtect, HeldWhileOpen, WorkStaysRight
  <2> HIDE DEF t
  <2> QED
    BY <1>4, <2>1, <2>2, <2>3, <2>5, OneSessionMoves
<1>10. ASSUME NEW w \in Worker, NEW m \in Milestone, Skip(w, m)
       PROVE  LocksProtect' /\ NotBelowStart'
  <2> DEFINE t == [tx[w] EXCEPT !.done = @ \union {m}]
  <2>1. /\ t.pc = tx[w].pc /\ t.event = tx[w].event /\ t.locked = tx[w].locked
        /\ t.done = tx[w].done \union {m} /\ t.staged = tx[w].staged
    BY <1>2 DEF Transaction
  <2>2. tx' = [tx EXCEPT ![w] = t] /\ UNCHANGED progress
    BY <1>10 DEF Skip, tables
  <2>3. tx[w].pc = "open" /\ m \in tx[w].locked /\ m \notin tx[w].done
    BY <1>10 DEF Skip, Locked
  <2>4. /\ tx[w].event \in Event /\ tx[w].event.athlete \in Athlete
        /\ tx[w].locked \subseteq Concerned(tx[w].event)
        /\ tx[w].done \subseteq tx[w].locked
        /\ DOMAIN tx[w].staged \subseteq tx[w].done
        /\ \A n \in tx[w].done : IF n \in DOMAIN tx[w].staged
                                   THEN StagedFor(n, tx[w].event.value, tx[w].staged[n])
                                   ELSE tx[w].event.value <= progress[n]
    BY <2>3 DEF Inv, LocksProtect, HeldWhileOpen, WorkStaysRight
  <2>5. tx[w].event.value <= progress[m]
    <3>1. tx[w].event.value \in Int /\ progress[m] \in Int
      BY <2>4, EventAssumption, InvFacts
    <3>2. Raised(progress[m], tx[w].event.value) = progress[m]
      BY <1>10, <2>4, OutcomeType DEF Skip, Unchanged, Inv
    <3> QED
      BY <3>1, <3>2, RaisedIsMax
  <2> HIDE DEF t
  <2> QED
    BY <1>4, <2>1, <2>2, <2>3, <2>4, <2>5, OneSessionMoves
<1>11. ASSUME NEW w \in Worker, NEW m \in Milestone, Change(w, m)
       PROVE  LocksProtect' /\ NotBelowStart'
  <2> DEFINE s == [id |-> lastId', progress |-> Outcome(w, m).progress,
                   state |-> Outcome(w, m).state, crossed |-> Outcome(w, m).crossed]
             staged == [n \in DOMAIN tx[w].staged \union {m} |->
                          IF n = m THEN s ELSE tx[w].staged[n]]
             t == [tx[w] EXCEPT !.done = @ \union {m}, !.staged = staged]
  <2>1. tx' = [tx EXCEPT ![w] = t] /\ UNCHANGED progress
    BY <1>2, <1>11 DEF Change, tables, Transaction
  <2>2. tx[w].pc = "open" /\ m \in tx[w].locked /\ m \notin tx[w].done
    BY <1>11 DEF Change, Locked
  <2>3. /\ tx[w].event \in Event /\ tx[w].event.athlete \in Athlete
        /\ tx[w].locked \subseteq Concerned(tx[w].event)
        /\ tx[w].done \subseteq tx[w].locked
        /\ DOMAIN tx[w].staged \subseteq tx[w].done
        /\ \A n \in tx[w].done : IF n \in DOMAIN tx[w].staged
                                   THEN StagedFor(n, tx[w].event.value, tx[w].staged[n])
                                   ELSE tx[w].event.value <= progress[n]
    BY <2>2 DEF Inv, LocksProtect, HeldWhileOpen, WorkStaysRight
  <2>4. StagedFor(m, tx[w].event.value, s)
    <3> DEFINE v == tx[w].event.value
               p == progress[m]
    <3>1. v \in Int /\ p \in Int
      BY <2>3, EventAssumption, InvFacts
    <3>2. /\ Outcome(w, m).progress = Raised(p, v)
          /\ Outcome(w, m).crossed = Crossed(Clause[m], p, Raised(p, v))
      BY <2>3, OutcomeType DEF Inv
    <3>3. Outcome(w, m).state = StateAfter(Clause[m], p, Raised(p, v))
      BY DEF Outcome, Advance
    <3>4. v > p
      <4>1. CASE Raised(p, v) = p
        <5>1. Crossed(Clause[m], p, Raised(p, v)) = {}
          BY <3>1, <4>1, CrossedBetween
        <5> QED
          BY <1>11, <3>2, <4>1, <5>1 DEF Change, Unchanged
      <4>2. CASE Raised(p, v) # p
        BY <3>1, <4>2 DEF Raised
      <4> QED
        BY <4>1, <4>2
    <3>5. Raised(p, v) = v
      BY <3>4 DEF Raised
    <3> QED
      BY <3>2, <3>3, <3>4, <3>5 DEF StagedFor
  <2> HIDE DEF s
  <2>5. /\ DOMAIN staged = DOMAIN tx[w].staged \union {m}
        /\ staged[m] = s
        /\ \A n \in DOMAIN tx[w].staged : n # m => staged[n] = tx[w].staged[n]
    OBVIOUS
  <2> HIDE DEF staged
  <2>6. /\ t.pc = tx[w].pc /\ t.event = tx[w].event /\ t.locked = tx[w].locked
        /\ t.done = tx[w].done \union {m} /\ t.staged = staged
    BY <1>2 DEF Transaction
  <2> HIDE DEF t
  <2>7. \A n \in t.done : IF n \in DOMAIN t.staged
                            THEN StagedFor(n, t.event.value, t.staged[n])
                            ELSE t.event.value <= progress[n]
    BY <2>2, <2>3, <2>4, <2>5, <2>6
  <2> QED
    BY <1>4, <2>1, <2>2, <2>3, <2>5, <2>6, <2>7, OneSessionMoves
<1>12. ASSUME NEW w \in Worker, Commit(w)
       PROVE  LocksProtect' /\ NotBelowStart'
  BY <1>12, PublishKeepsLocks DEF Commit
<1>13. ASSUME NEW w \in Worker, CommitUnseen(w)
       PROVE  LocksProtect' /\ NotBelowStart'
  BY <1>13, PublishKeepsLocks DEF CommitUnseen
<1>14. ASSUME NEW w \in Worker, Rollback(w)
       PROVE  LocksProtect' /\ NotBelowStart'
  <2>1. tx' = [tx EXCEPT ![w] = NoTx] /\ UNCHANGED progress
    BY <1>14 DEF Rollback, tables
  <2> QED
    BY <1>4, <1>6, <2>1, OneSessionMoves
<1>15. CASE UNCHANGED vars
  BY <1>1, <1>3, <1>15 DEF vars, Inv
<1> QED
  BY <1>1, <1>5, <1>7, <1>8, <1>9, <1>10, <1>11, <1>12, <1>13, <1>14, <1>15
  DEF Inv, Next

\* Row locks do what the engine takes them for ("FOR UPDATE row-locks the
\* athlete's milestones", engine.go:58): what a transaction computed from a row
\* is still right when it commits.
THEOREM LocksAlwaysProtect == Spec => []LocksProtect
<1>1. Init => Inv
  BY InitInv
<1>2. Inv /\ [Next]_vars => Inv'
  BY NextInv
<1>3. Inv => LocksProtect
  BY DEF Inv
<1> QED
  BY <1>1, <1>2, <1>3, PTL DEF Spec

------------------------------------------------------------------------------
\* The instance of Ledger has its own copies of the constant operators.
LEMMA SameOperators ==
  ASSUME NEW c, NEW old, NEW new, NEW m, NEW e
  PROVE  /\ L!Crossed(c, old, new) = Crossed(c, old, new)
         /\ L!StateAfter(c, old, new) = StateAfter(c, old, new)
         /\ L!Payments(m, old, new) = Payments(m, old, new)
         /\ L!Concerned(e) = Concerned(e)
<1>1. \A x, i, j : L!Crossed(x, i, j) = Crossed(x, i, j)
  BY DEF L!Crossed, Crossed, L!IsBoundary, IsBoundary, L!Stride, Stride,
         L!Allowed, Allowed
<1>2. L!StateAfter(c, old, new) = StateAfter(c, old, new)
  BY <1>1 DEF L!StateAfter, StateAfter, L!NextK, NextK, L!Allowed, Allowed,
              L!Stride, Stride, L!Proximity, Proximity, L!Boundary, Boundary,
              L!Hot, Hot, L!Warm, Warm, L!Quiet, Quiet, L!Fulfilled, Fulfilled
<1>3. L!Payments(m, old, new) = Payments(m, old, new)
  BY <1>1 DEF L!Payments, Payments
<1>4. L!Concerned(e) = Concerned(e)
  BY DEF L!Concerned, Concerned
<1> QED
  BY <1>1, <1>2, <1>3, <1>4

\* A commit is one application of the event to the tables.
LEMMA PublishApplies ==
  ASSUME Inv, NEW w \in Worker, Ready(w), Publish(w)
  PROVE  /\ tx[w].event \in Event
         /\ L!Apply(tx[w].event)
<1> DEFINE e == tx[w].event
           staged == tx[w].staged
           moved == {m \in Concerned(e) : e.value > progress[m]}
<1>1. /\ e \in Event /\ e.athlete \in Athlete
      /\ DOMAIN staged = moved
      /\ \A m \in moved : m \in Milestone /\ StagedFor(m, e.value, staged[m])
  BY StagedIsMoved
<1>2. L!Moved(e) = moved
  BY SameOperators DEF L!Moved
<1> HIDE DEF moved
<1>3. progress' = [m \in Milestone |-> IF m \in moved THEN e.value ELSE progress[m]]
  BY <1>1 DEF Publish, StagedFor
<1>4. state' = [m \in Milestone |->
                  IF m \in moved THEN StateAfter(Clause[m], progress[m], e.value)
                                 ELSE state[m]]
  BY <1>1 DEF Publish, StagedFor
<1>5. payouts' = payouts \union UNION {Payments(m, progress[m], e.value) : m \in moved}
  <2>1. \A m \in moved : {<<m, b>> : b \in staged[m].crossed}
                           = Payments(m, progress[m], e.value)
    BY <1>1 DEF StagedFor, Payments
  <2>2. payouts' = payouts \union
                     UNION {{<<m, b>> : b \in staged[m].crossed} : m \in moved}
    BY <1>1 DEF Publish
  <2> QED
    BY <2>1, <2>2
<1>6. stats' = stats \union {e}
  BY DEF Publish
<1> QED
  BY <1>1, <1>2, <1>3, <1>4, <1>5, <1>6, SameOperators DEF L!Apply
------------------------------------------------------------------------------
\* Each step of the engine is, for the tables, a step of Ledger or none.
LEMMA StepIsLedgerStep ==
  ASSUME Inv, [Next]_vars
  PROVE  [L!Next]_(L!vars)
<1> USE DEF L!Next, L!vars
<1>1. ASSUME UNCHANGED tables PROVE UNCHANGED L!vars
  BY <1>1 DEF tables
<1>2. ASSUME NEW w \in Worker, Ready(w), Publish(w) PROVE L!Next
  BY <1>2, PublishApplies
<1>3. ASSUME NEW w \in Worker, Commit(w) PROVE L!Next
  BY <1>2, <1>3 DEF Commit
<1>4. ASSUME NEW w \in Worker, CommitUnseen(w) PROVE L!Next
  BY <1>2, <1>4 DEF CommitUnseen
<1>5. ASSUME NEW e \in Event, Drop(e) PROVE UNCHANGED L!vars
  BY <1>1, <1>5 DEF Drop
<1>6. ASSUME NEW w \in Worker, NEW e \in Event, Begin(w, e) PROVE UNCHANGED L!vars
  BY <1>1, <1>6 DEF Begin
<1>7. ASSUME NEW w \in Worker, InsertPerformanceStat(w) \/ Rollback(w)
      PROVE  UNCHANGED L!vars
  BY <1>1, <1>7 DEF InsertPerformanceStat, Rollback
<1>8. ASSUME NEW w \in Worker, NEW m \in Milestone,
             LockMilestone(w, m) \/ Skip(w, m) \/ Change(w, m)
      PROVE  UNCHANGED L!vars
  BY <1>1, <1>8 DEF LockMilestone, Skip, Change
<1>9. CASE UNCHANGED vars
  BY <1>9 DEF vars
<1> QED
  BY <1>3, <1>4, <1>5, <1>6, <1>7, <1>8, <1>9 DEF Next

\* The engine implements its abstract specification: whatever the interleaving
\* of transactions, redeliveries, rollbacks and lost answers, the tables show
\* events applied one at a time, each to all the milestones it concerns.
THEOREM EngineImplementsLedger == Spec => ImplementsLedger
<1>1. Init => L!Init
  BY DEF Init, L!Init
<1>2. Init => Inv
  BY InitInv
<1>3. Inv /\ [Next]_vars => Inv'
  BY NextInv
<1>4. Inv /\ [Next]_vars => [L!Next]_(L!vars)
  BY StepIsLedgerStep
<1> QED
  BY <1>1, <1>2, <1>3, <1>4, PTL DEF Spec, ImplementsLedger, L!Spec

------------------------------------------------------------------------------
\* An application keeps the payouts equal to the boundaries passed.
LEMMA ApplyPaysWhatIsCrossed ==
  ASSUME Inv, PayoutsMatchProgress, NEW e \in Event, L!Apply(e)
  PROVE  PayoutsMatchProgress'
<1> DEFINE moved == {m \in Concerned(e) : e.value > progress[m]}
<1>1. L!Moved(e) = moved
  BY SameOperators DEF L!Moved
<1>2. \A m \in Milestone :
        /\ progress'[m] = IF m \in moved THEN e.value ELSE progress[m]
  BY <1>1 DEF L!Apply
<1>3. payouts' = payouts \union UNION {Payments(m, progress[m], e.value) : m \in moved}
  BY <1>1, SameOperators DEF L!Apply
<1>4. moved \subseteq Milestone /\ \A m \in moved : e.value > progress[m]
  BY DEF Concerned
<1> HIDE DEF moved
<1>5. ASSUME NEW m \in Milestone
      PROVE  Payments(m, Start[m], progress'[m]) =
               IF m \in moved
                 THEN Payments(m, Start[m], progress[m])
                        \union Payments(m, progress[m], e.value)
                 ELSE Payments(m, Start[m], progress[m])
  <2>1. /\ Start[m] \in Int /\ progress[m] \in Int /\ e.value \in Int
        /\ Start[m] <= progress[m]
    BY StartAssumption, EventAssumption DEF Inv, TypeInv, NotBelowStart
  <2>2. CASE m \in moved
    <3>1. progress[m] <= e.value
      BY <1>4, <2>1, <2>2
    <3>2. Crossed(Clause[m], Start[m], e.value) =
            Crossed(Clause[m], Start[m], progress[m])
              \union Crossed(Clause[m], progress[m], e.value)
      BY <2>1, <3>1, CrossedSplits
    <3>3. progress'[m] = e.value
      BY <1>2, <2>2
    <3> QED
      BY <2>2, <3>2, <3>3 DEF Payments
  <2>3. CASE m \notin moved
    BY <1>2, <2>3
  <2> QED
    BY <2>2, <2>3
<1>6. payouts = UNION {Payments(m, Start[m], progress[m]) : m \in Milestone}
  BY DEF PayoutsMatchProgress
<1>7. payouts' = UNION {Payments(m, Start[m], progress'[m]) : m \in Milestone}
  <2>1. ASSUME NEW p, p \in payouts'
        PROVE  \E m \in Milestone : p \in Payments(m, Start[m], progress'[m])
    BY <1>3, <1>4, <1>5, <1>6, <2>1
  <2>2. ASSUME NEW m \in Milestone, NEW p \in Payments(m, Start[m], progress'[m])
        PROVE  p \in payouts'
    BY <1>3, <1>5, <1>6
  <2> QED
    BY <2>1, <2>2
<1> QED
  BY <1>7 DEF PayoutsMatchProgress

\* Nothing is paid at the start.
LEMMA InitPaid == Init => PayoutsMatchProgress
<1> SUFFICES ASSUME Init PROVE PayoutsMatchProgress
  OBVIOUS
<1>1. \A m \in Milestone : Payments(m, Start[m], progress[m]) = {}
  BY StartAssumption, CrossedBetween DEF Init, Payments
<1> QED
  BY <1>1 DEF Init, PayoutsMatchProgress

\* Every step keeps them equal.
LEMMA NextKeepsPayouts ==
  ASSUME Inv, PayoutsMatchProgress, [Next]_vars
  PROVE  PayoutsMatchProgress'
<1>1. CASE \E e \in Event : L!Apply(e)
  BY <1>1, ApplyPaysWhatIsCrossed
<1>2. CASE UNCHANGED L!vars
  BY <1>2 DEF L!vars, PayoutsMatchProgress
<1> QED
  BY <1>1, <1>2, StepIsLedgerStep DEF L!Next

\* No double payout and none missing (05_ARCHITECTURE_DIAGRAM.md:102), for any
\* clauses and any order, interleaving and repetition of the deliveries: the
\* rows of payout_event are the boundaries in (start, progress].
THEOREM PayoutsAlwaysMatch == Spec => []PayoutsMatchProgress
<1>1. Init => Inv /\ PayoutsMatchProgress
  BY InitInv, InitPaid
<1>2. Inv /\ PayoutsMatchProgress /\ [Next]_vars => (Inv /\ PayoutsMatchProgress)'
  BY NextInv, NextKeepsPayouts
<1> QED
  BY <1>1, <1>2, PTL DEF Spec

------------------------------------------------------------------------------
\* No step of any interleaving lowers a progress, and only a step that raises
\* it touches the state: stale and duplicate deliveries preserve a
\* previously-fulfilled state (engine.go:69-70).
THEOREM StateOnlyMovesWithProgress == Spec => StateMovesWithProgress
<1> DEFINE Moves == \A m \in Milestone :
                      /\ progress'[m] >= progress[m]
                      /\ state'[m] # state[m] => progress'[m] > progress[m]
<1>1. Inv /\ [Next]_vars => [Moves]_vars
  <2> SUFFICES ASSUME Inv, [Next]_vars PROVE Moves
    OBVIOUS
  <2>1. \A m \in Milestone : progress[m] \in Int
    BY DEF Inv, TypeInv
  <2>2. ASSUME NEW e \in Event, L!Apply(e) PROVE Moves
    <3>1. e.value \in Int
      BY EventAssumption
    <3>2. \A m \in L!Moved(e) : e.value > progress[m]
      BY DEF L!Moved
    <3> QED
      BY <2>1, <2>2, <3>1, <3>2 DEF L!Apply
  <2>3. CASE UNCHANGED L!vars
    BY <2>1, <2>3 DEF L!vars
  <2> QED
    BY <2>2, <2>3, StepIsLedgerStep DEF L!Next
<1> QED
  BY <1>1, InitInv, NextInv, PTL DEF Spec, StateMovesWithProgress

------------------------------------------------------------------------------
\* What is recorded bounds the progress after each application.
LEMMA ApplyKeepsBest ==
  ASSUME Inv, ProgressIsBest, NEW f \in Event, L!Apply(f)
  PROVE  ProgressIsBest'
<1> SUFFICES ASSUME NEW m \in Milestone
             PROVE  /\ \A e \in stats' : m \in Concerned(e) => e.value <= progress'[m]
                    /\ \/ progress'[m] = Start[m]
                       \/ \E e \in stats' : m \in Concerned(e) /\ e.value = progress'[m]
  BY DEF ProgressIsBest
<1>1. /\ \A e \in stats : m \in Concerned(e) => e.value <= progress[m]
      /\ \/ progress[m] = Start[m]
         \/ \E e \in stats : m \in Concerned(e) /\ e.value = progress[m]
  BY DEF ProgressIsBest
<1>2. /\ progress[m] \in Int /\ f.value \in Int
      /\ \A e \in stats : e.value \in Int
  BY EventAssumption DEF Inv, TypeInv
<1>3. stats' = stats \union {f}
  BY DEF L!Apply
<1>4. CASE m \in Concerned(f) /\ f.value > progress[m]
  <2>1. progress'[m] = f.value
    BY <1>4, SameOperators DEF L!Apply, L!Moved
  <2> QED
    BY <1>1, <1>2, <1>3, <1>4, <2>1
<1>5. CASE ~ (m \in Concerned(f) /\ f.value > progress[m])
  <2>1. progress'[m] = progress[m]
    BY <1>5, SameOperators DEF L!Apply, L!Moved
  <2> QED
    BY <1>1, <1>2, <1>3, <1>5, <2>1
<1> QED
  BY <1>4, <1>5

\* Every step keeps the milestones at the best recorded values.
LEMMA NextKeepsBest ==
  ASSUME Inv, ProgressIsBest, [Next]_vars
  PROVE  ProgressIsBest'
<1>1. CASE \E e \in Event : L!Apply(e)
  BY <1>1, ApplyKeepsBest
<1>2. CASE UNCHANGED L!vars
  BY <1>2 DEF L!vars, ProgressIsBest
<1> QED
  BY <1>1, <1>2, StepIsLedgerStep DEF L!Next

\* Nothing is recorded at the start.
LEMMA InitBest == Init => ProgressIsBest
BY DEF Init, ProgressIsBest

\* The best observed value wins, in whatever order the observations arrive and
\* are applied ("Progress ... never decreases", tranche.go:15): table milestone
\* agrees with table performance_stat.
THEOREM ProgressAlwaysBest == Spec => []ProgressIsBest
<1>1. Init => Inv /\ ProgressIsBest
  BY InitInv, InitBest
<1>2. Inv /\ ProgressIsBest /\ [Next]_vars => (Inv /\ ProgressIsBest)'
  BY NextInv, NextKeepsBest
<1> QED
  BY <1>1, <1>2, PTL DEF Spec

------------------------------------------------------------------------------
\* What Handle has returned nil for is recorded, unless it was dropped.
HandledIsRecorded == \A e \in handled : e.athlete \in Athlete => e \in stats

LEMMA NextKeepsRecords ==
  ASSUME Inv, HandledIsRecorded, [Next]_vars
  PROVE  HandledIsRecorded'
<1> USE DEF HandledIsRecorded
<1>1. ASSUME UNCHANGED handled, stats \subseteq stats' PROVE HandledIsRecorded'
  BY <1>1
<1>2. ASSUME NEW e \in Event, Drop(e) PROVE HandledIsRecorded'
  BY <1>2, UnparsedAssumption DEF Drop, tables
<1>3. ASSUME NEW w \in Worker, NEW e \in Event, Begin(w, e) PROVE HandledIsRecorded'
  BY <1>1, <1>3 DEF Begin, tables
<1>4. ASSUME NEW w \in Worker, InsertPerformanceStat(w) \/ Rollback(w)
      PROVE  HandledIsRecorded'
  BY <1>1, <1>4 DEF InsertPerformanceStat, Rollback, tables
<1>5. ASSUME NEW w \in Worker, NEW m \in Milestone,
             LockMilestone(w, m) \/ Skip(w, m) \/ Change(w, m)
      PROVE  HandledIsRecorded'
  BY <1>1, <1>5 DEF LockMilestone, Skip, Change, tables
<1>6. ASSUME NEW w \in Worker, Commit(w) PROVE HandledIsRecorded'
  BY <1>6 DEF Commit, Publish
<1>7. ASSUME NEW w \in Worker, CommitUnseen(w) PROVE HandledIsRecorded'
  BY <1>1, <1>7 DEF CommitUnseen, Publish
<1>8. CASE UNCHANGED vars
  BY <1>8 DEF vars
<1> QED
  BY <1>2, <1>3, <1>4, <1>5, <1>6, <1>7, <1>8 DEF Next

\* An event that is recorded has been paid for.
LEMMA RecordsCount ==
  ASSUME Inv, PayoutsMatchProgress, ProgressIsBest, HandledIsRecorded
  PROVE  AcknowledgedCounts
<1> SUFFICES ASSUME NEW e \in handled, NEW m \in Concerned(e)
             PROVE  /\ e.value <= progress[m]
                    /\ Payments(m, Start[m], e.value) \subseteq payouts
  BY DEF AcknowledgedCounts
<1>1. m \in Milestone /\ e.athlete \in Athlete
  BY ClauseAssumption DEF Concerned
<1>2. e.value <= progress[m]
  BY <1>1 DEF HandledIsRecorded, ProgressIsBest
<1>3. /\ e.value \in Int /\ progress[m] \in Int /\ Start[m] \in Int
  BY <1>1, EventAssumption, StartAssumption DEF Inv, TypeInv
<1>4. Crossed(Clause[m], Start[m], e.value) \subseteq Crossed(Clause[m], Start[m], progress[m])
  BY <1>2, <1>3 DEF Crossed
<1>5. Payments(m, Start[m], e.value) \subseteq Payments(m, Start[m], progress[m])
  BY <1>4 DEF Payments
<1> QED
  BY <1>1, <1>2, <1>5 DEF PayoutsMatchProgress

\* The worker acknowledges what Handle returned nil for, "after it has durably
\* processed the message" (bus.go:60-61), and the bus forgets it.  By then its
\* milestones have reached it and its bonuses are paid, whatever was rolled
\* back and repeated before and whatever other sessions did.
THEOREM AcknowledgedAlwaysCounts == Spec => []AcknowledgedCounts
<1> DEFINE All == Inv /\ PayoutsMatchProgress /\ ProgressIsBest /\ HandledIsRecorded
<1>1. Init => All
  BY InitInv, InitPaid, InitBest DEF Init, HandledIsRecorded
<1>2. All /\ [Next]_vars => All'
  BY NextInv, NextKeepsPayouts, NextKeepsBest, NextKeepsRecords
<1>3. All => AcknowledgedCounts
  BY RecordsCount
<1> QED
  BY <1>1, <1>2, <1>3, PTL DEF Spec

------------------------------------------------------------------------------
\* The ids of the rows of a milestone follow its row lock: a transaction takes
\* them from the sequence while it holds the milestone, so they are larger than
\* those of all rows committed before; and no row is ahead of its milestone.
IdsFollowLocks ==
  /\ \A r \in outbox : r.id <= lastId /\ r.progress <= progress[r.milestone]
  /\ \A w \in Worker : \A m \in DOMAIN tx[w].staged :
       /\ tx[w].staged[m].id <= lastId
       /\ \A r \in RowsOf(m) : r.id < tx[w].staged[m].id

FeedInv == IdsFollowLocks /\ FeedFollowsTable /\ PayoutsAnnounced

\* The outbox is empty at the start.
LEMMA InitFeed == Init => FeedInv
<1> SUFFICES ASSUME Init PROVE FeedInv
  OBVIOUS
<1>1. \A w \in Worker : DOMAIN tx[w].staged = {}
  BY DEF Init, NoTx
<1>2. \A m \in Milestone : RowsOf(m) = {}
  BY DEF Init, RowsOf
<1>3. IdsFollowLocks
  BY <1>1 DEF Init, IdsFollowLocks
<1>4. FeedFollowsTable
  BY <1>2 DEF Init, FeedFollowsTable
<1>5. PayoutsAnnounced
  BY DEF Init, PayoutsAnnounced
<1> QED
  BY <1>3, <1>4, <1>5 DEF FeedInv

\* The types of what a session has staged.
LEMMA StagedType ==
  ASSUME Inv, NEW w \in Worker, NEW m \in DOMAIN tx[w].staged
  PROVE  /\ m \in Milestone
         /\ tx[w].staged[m].id \in Nat
         /\ tx[w].staged[m].progress \in Int
         /\ tx[w].staged[m].crossed \subseteq Int
<1>1. tx[w] \in Transaction
  BY DEF Inv, TypeInv
<1>2. PICK S \in SUBSET Milestone : tx[w].staged \in [S -> Pending]
  BY <1>1 DEF Transaction
<1>3. m \in S /\ tx[w].staged[m] \in Pending
  BY <1>2
<1> QED
  BY <1>3 DEF Pending

\* While the outbox and the tables stand still, only what is staged matters.
LEMMA QuietFeed ==
  ASSUME FeedInv, Inv, UNCHANGED tables, lastId' \in Nat, lastId <= lastId',
         \A w \in Worker : \A m \in DOMAIN tx'[w].staged :
           \/ m \in DOMAIN tx[w].staged /\ tx'[w].staged[m].id = tx[w].staged[m].id
           \/ lastId < lastId' /\ tx'[w].staged[m].id = lastId'
  PROVE  FeedInv'
<1>1. UNCHANGED <<outbox, progress, state, payouts>>
  BY DEF tables
<1>2. \A m : RowsOf(m)' = RowsOf(m)
  BY <1>1 DEF RowsOf
<1>3. lastId \in Nat /\ \A r \in outbox : r.id \in Nat
  BY DEF Inv, TypeInv, RowType
<1>4. \A w \in Worker : \A m \in DOMAIN tx[w].staged : tx[w].staged[m].id \in Nat
  BY StagedType
<1>5. IdsFollowLocks'
  <2>1. \A r \in outbox' : r.id <= lastId' /\ r.progress <= progress'[r.milestone]
    BY <1>1, <1>3 DEF FeedInv, IdsFollowLocks
  <2>2. ASSUME NEW w \in Worker, NEW m \in DOMAIN tx'[w].staged
        PROVE  /\ tx'[w].staged[m].id <= lastId'
               /\ \A r \in RowsOf(m) : r.id < tx'[w].staged[m].id
    <3>1. CASE m \in DOMAIN tx[w].staged /\ tx'[w].staged[m].id = tx[w].staged[m].id
      BY <1>3, <1>4, <3>1 DEF FeedInv, IdsFollowLocks
    <3>2. CASE lastId < lastId' /\ tx'[w].staged[m].id = lastId'
      <4>1. \A r \in RowsOf(m) : r.id \in Nat /\ r.id <= lastId
        BY <1>3 DEF RowsOf, FeedInv, IdsFollowLocks
      <4> QED
        BY <1>3, <3>2, <4>1
    <3> QED
      BY <3>1, <3>2
  <2> QED
    BY <1>2, <2>1, <2>2 DEF IdsFollowLocks
<1>6. FeedFollowsTable'
  BY <1>1, <1>2 DEF FeedInv, FeedFollowsTable
<1>7. PayoutsAnnounced'
  BY <1>1, <1>2 DEF FeedInv, PayoutsAnnounced
<1> QED
  BY <1>5, <1>6, <1>7 DEF FeedInv

\* What a commit does to the rows of one milestone.
LEMMA PublishRows ==
  ASSUME Inv, NEW w \in Worker, Ready(w), Publish(w), NEW m \in Milestone
  PROVE  LET staged == tx[w].staged
         IN  /\ m \in DOMAIN staged =>
                  /\ RowsOf(m)' = RowsOf(m) \union {Row(w, m, staged[m])}
                  /\ progress'[m] = staged[m].progress
                  /\ progress'[m] > progress[m]
                  /\ state'[m] = staged[m].state
             /\ m \notin DOMAIN staged =>
                  /\ RowsOf(m)' = RowsOf(m)
                  /\ progress'[m] = progress[m]
                  /\ state'[m] = state[m]
<1> DEFINE staged == tx[w].staged
<1>1. progress'[m] = IF m \in DOMAIN staged THEN staged[m].progress ELSE progress[m]
  BY DEF Publish
<1>2. state'[m] = IF m \in DOMAIN staged THEN staged[m].state ELSE state[m]
  BY DEF Publish
<1>3. m \in DOMAIN staged => staged[m].progress > progress[m]
  BY StagedIsMoved DEF StagedFor
<1>4. \A n : Row(w, n, staged[n]).milestone = n
  BY DEF Row
<1>5. outbox' = outbox \union {Row(w, n, staged[n]) : n \in DOMAIN staged}
  BY DEF Publish
<1> HIDE DEF staged
<1>6. m \in DOMAIN staged => RowsOf(m)' = RowsOf(m) \union {Row(w, m, staged[m])}
  BY <1>4, <1>5 DEF RowsOf
<1>7. m \notin DOMAIN staged => RowsOf(m)' = RowsOf(m)
  BY <1>4, <1>5 DEF RowsOf
<1> QED
  BY <1>1, <1>2, <1>3, <1>6, <1>7 DEF staged

\* The row of a change: it names the last boundary crossed, if there is one.
LEMMA NewRow ==
  ASSUME Inv, NEW w \in Worker, Ready(w), NEW m \in DOMAIN tx[w].staged
  PROVE  LET s == tx[w].staged[m]
             r == Row(w, m, s)
         IN  /\ r.id = s.id /\ r.milestone = m
             /\ r.progress = s.progress /\ r.state = s.state
             /\ \A b \in s.crossed : /\ r.type = Reached
                                     /\ progress[m] < b
                                     /\ b <= r.boundary /\ r.boundary <= r.progress
<1> DEFINE s == tx[w].staged[m]
           r == Row(w, m, s)
           v == tx[w].event.value
<1>1. /\ m \in Milestone /\ StagedFor(m, v, s) /\ tx[w].event \in Event
  BY StagedIsMoved
<1>2. progress[m] \in Int /\ v \in Int
  BY <1>1, EventAssumption DEF Inv, TypeInv
<1>3. /\ s.progress = v
      /\ s.crossed \subseteq progress[m] + 1 .. v
  BY <1>1 DEF StagedFor, Crossed
<1>4. /\ r.id = s.id /\ r.milestone = m
      /\ r.progress = s.progress /\ r.state = s.state
      /\ s.crossed # {} => r.type = Reached /\ r.boundary = LastCrossed(s)
  BY DEF Row
<1> HIDE DEF s, r, v
<1>5. ASSUME NEW b \in s.crossed
      PROVE  progress[m] < b /\ b <= LastCrossed(s) /\ LastCrossed(s) <= s.progress
  <2>1. PICK x \in s.crossed : \A y \in s.crossed : y <= x
    <3>1. progress[m] + 1 \in Int /\ s.crossed # {}
      BY <1>2
    <3> QED
      BY <1>2, <1>3, <3>1, LargestExists
  <2>2. LastCrossed(s) \in s.crossed /\ \A c \in s.crossed : c <= LastCrossed(s)
    BY <2>1 DEF LastCrossed
  <2>3. \A c \in s.crossed : c \in Int /\ progress[m] < c /\ c <= v
    BY <1>2, <1>3
  <2> QED
    BY <1>3, <2>2, <2>3
<1> QED
  BY <1>4, <1>5 DEF s, r

\* A commit appends to the log of each milestone it moves.
LEMMA PublishKeepsFeed ==
  ASSUME Inv, FeedInv, NEW w \in Worker, Ready(w), Publish(w), UNCHANGED lastId
  PROVE  FeedInv'
<1> DEFINE staged == tx[w].staged
<1>1. \A m \in Milestone : progress[m] \in Int
  BY DEF Inv, TypeInv
<1>2. \A r \in outbox : r.id \in Nat /\ r.progress \in Int /\ r.milestone \in Milestone
  BY DEF Inv, TypeInv, RowType
<1>3. \A m \in Milestone : \A r \in RowsOf(m) :
        r \in outbox /\ r.milestone = m /\ r.progress <= progress[m]
  BY DEF RowsOf, FeedInv, IdsFollowLocks
<1>4. ASSUME NEW m \in DOMAIN staged
      PROVE  /\ staged[m].id \in Nat /\ staged[m].id <= lastId
             /\ staged[m].progress \in Int
             /\ \A r \in RowsOf(m) : r.id < staged[m].id
  BY StagedType DEF FeedInv, IdsFollowLocks
<1>5. \A m \in DOMAIN staged : m \in Milestone
  BY StagedType
<1>6. tx'[w] = NoTx /\ \A u \in Worker \ {w} : tx'[u] = tx[u]
  BY DEF Inv, TypeInv, Publish
<1>7. \A m \in Milestone : progress'[m] \in Int /\ progress'[m] >= progress[m]
  BY <1>1, <1>4, PublishRows
<1>8. IdsFollowLocks'
  <2>1. ASSUME NEW r \in outbox'
        PROVE  r.id <= lastId' /\ r.progress <= progress'[r.milestone]
    <3>1. CASE r \in outbox
      <4>1. r.id <= lastId /\ r.progress <= progress[r.milestone]
        BY <3>1 DEF FeedInv, IdsFollowLocks
      <4> QED
        BY <1>1, <1>2, <1>7, <3>1, <4>1
    <3>2. CASE r \notin outbox
      <4>1. PICK m \in DOMAIN staged : r = Row(w, m, staged[m])
        BY <3>2 DEF Publish
      <4>2. r.id = staged[m].id /\ r.milestone = m /\ r.progress = staged[m].progress
        BY <4>1, NewRow
      <4>3. progress'[m] = staged[m].progress
        BY <1>5, PublishRows
      <4> QED
        BY <1>4, <4>2, <4>3
    <3> QED
      BY <3>1, <3>2
  <2>2. ASSUME NEW u \in Worker, NEW m \in DOMAIN tx'[u].staged
        PROVE  /\ tx'[u].staged[m].id <= lastId'
               /\ \A r \in RowsOf(m)' : r.id < tx'[u].staged[m].id
    <3>1. u # w /\ tx'[u] = tx[u]
      BY <1>6 DEF NoTx
    <3>2. m \in Milestone /\ m \in tx[u].locked
      BY <3>1, StagedType DEF Inv, LocksProtect, HeldWhileOpen
    <3>3. m \notin DOMAIN staged
      BY <3>1, <3>2 DEF Inv, LocksProtect, HeldWhileOpen, RowsHeldOnce
    <3>4. RowsOf(m)' = RowsOf(m)
      BY <3>2, <3>3, PublishRows
    <3> QED
      BY <3>1, <3>4 DEF FeedInv, IdsFollowLocks
  <2> QED
    BY <2>1, <2>2 DEF IdsFollowLocks
<1>9. ASSUME NEW m \in Milestone, m \in DOMAIN staged
      PROVE  LET r == Row(w, m, staged[m])
             IN  /\ RowsOf(m)' = RowsOf(m) \union {r}
                 /\ r.progress = progress'[m] /\ r.state = state'[m]
                 /\ r.id \in Nat /\ r.progress \in Int
                 /\ \A s \in RowsOf(m) : /\ s.id < r.id /\ s.progress < r.progress
                                         /\ s.id \in Nat /\ s.progress \in Int
  BY <1>1, <1>2, <1>3, <1>4, <1>9, PublishRows, NewRow
<1>10. FeedFollowsTable'
  <2> SUFFICES ASSUME NEW m \in Milestone
      PROVE /\ \A r, s \in RowsOf(m)' : r.id < s.id => r.progress < s.progress
            /\ RowsOf(m)' = {} => progress'[m] = Start[m] /\ state'[m] = StartState[m]
            /\ RowsOf(m)' # {} =>
                 \E r \in RowsOf(m)' : /\ \A s \in RowsOf(m)' : s.id <= r.id
                                       /\ r.progress = progress'[m]
                                       /\ r.state = state'[m]
    BY DEF FeedFollowsTable
  <2>1. CASE m \in DOMAIN staged
    <3> DEFINE n == Row(w, m, staged[m])
    <3>1. /\ RowsOf(m)' = RowsOf(m) \union {n}
          /\ n.progress = progress'[m] /\ n.state = state'[m]
          /\ n.id \in Nat /\ n.progress \in Int
          /\ \A s \in RowsOf(m) : /\ s.id < n.id /\ s.progress < n.progress
                                  /\ s.id \in Nat /\ s.progress \in Int
      BY <1>9, <2>1
    <3>2. \A r, s \in RowsOf(m) : r.id < s.id => r.progress < s.progress
      BY DEF FeedInv, FeedFollowsTable
    <3> HIDE DEF n
    <3>3. \A r, s \in RowsOf(m)' : r.id < s.id => r.progress < s.progress
      BY <3>1, <3>2
    <3>4. n \in RowsOf(m)' /\ \A s \in RowsOf(m)' : s.id <= n.id
      BY <3>1
    <3> QED
      BY <3>1, <3>3, <3>4
  <2>2. CASE m \notin DOMAIN staged
    BY <2>2, PublishRows DEF FeedInv, FeedFollowsTable
  <2> QED
    BY <2>1, <2>2
<1>11. PayoutsAnnounced'
  <2> SUFFICES ASSUME NEW p \in payouts'
      PROVE \E r \in RowsOf(p[1])' :
              /\ r.type = Reached
              /\ p[2] <= r.boundary /\ r.boundary <= r.progress
              /\ \A s \in RowsOf(p[1])' : s.id < r.id => s.progress < p[2]
    BY DEF PayoutsAnnounced
  <2>1. CASE p \in payouts
    <3>1. p[1] \in Milestone
      BY <2>1 DEF Inv, TypeInv
    <3>2. PICK r \in RowsOf(p[1]) :
              /\ r.type = Reached
              /\ p[2] <= r.boundary /\ r.boundary <= r.progress
              /\ \A s \in RowsOf(p[1]) : s.id < r.id => s.progress < p[2]
      BY <2>1 DEF FeedInv, PayoutsAnnounced
    <3>3. CASE p[1] \in DOMAIN staged
      <4> DEFINE n == Row(w, p[1], staged[p[1]])
      <4>1. /\ RowsOf(p[1])' = RowsOf(p[1]) \union {n}
            /\ n.id \in Nat /\ r.id \in Nat /\ r.id < n.id
        BY <1>9, <3>1, <3>3
      <4> HIDE DEF n
      <4>2. ~ (n.id < r.id)
        BY <4>1
      <4> QED
        BY <3>2, <4>1, <4>2
    <3>4. CASE p[1] \notin DOMAIN staged
      BY <3>1, <3>2, <3>4, PublishRows
    <3> QED
      BY <3>3, <3>4
  <2>2. CASE p \notin payouts
    <3>1. PICK m \in DOMAIN staged : \E b \in staged[m].crossed : p = <<m, b>>
      BY <2>2 DEF Publish
    <3>2. PICK b \in staged[m].crossed : p = <<m, b>>
      BY <3>1
    <3> DEFINE n == Row(w, m, staged[m])
    <3>3. /\ n.type = Reached /\ progress[m] < b
          /\ b <= n.boundary /\ n.boundary <= n.progress
      BY NewRow
    <3>4. /\ RowsOf(m)' = RowsOf(m) \union {n} /\ n.id \in Nat
      BY <1>5, <1>9
    <3>5. b \in Int
      BY StagedType
    <3> HIDE DEF n
    <3>6. \A s \in RowsOf(m)' : s.id < n.id => s.progress < b
      BY <1>1, <1>2, <1>3, <1>5, <3>3, <3>4, <3>5
    <3> QED
      BY <3>2, <3>3, <3>4, <3>6
  <2> QED
    BY <2>1, <2>2
<1> QED
  BY <1>8, <1>10, <1>11 DEF FeedInv

\* Every step keeps the outbox in step with the tables.
LEMMA NextFeed ==
  ASSUME Inv, FeedInv, [Next]_vars
  PROVE  FeedInv'
<1>1. lastId \in Nat /\ tx \in [Worker -> Transaction]
  BY DEF Inv, TypeInv
<1>2. ASSUME UNCHANGED <<tables, lastId>>,
             NEW w \in Worker, NEW t, tx' = [tx EXCEPT ![w] = t],
             t.staged = tx[w].staged \/ DOMAIN t.staged = {}
      PROVE  FeedInv'
  <2>1. tx'[w] = t /\ \A u \in Worker \ {w} : tx'[u] = tx[u]
    BY <1>1, <1>2
  <2>2. \A u \in Worker : \A m \in DOMAIN tx'[u].staged :
          m \in DOMAIN tx[u].staged /\ tx'[u].staged[m].id = tx[u].staged[m].id
    BY <1>2, <2>1
  <2> QED
    BY <1>1, <1>2, <2>2, QuietFeed
<1>3. ASSUME UNCHANGED <<tables, lastId, tx>> PROVE FeedInv'
  BY <1>1, <1>3, QuietFeed
<1>4. ASSUME NEW e \in Event, Drop(e) PROVE FeedInv'
  BY <1>3, <1>4 DEF Drop
<1>5. ASSUME NEW w \in Worker, NEW e \in Event, Begin(w, e) PROVE FeedInv'
  <2> DEFINE t == [NoTx EXCEPT !.pc = "begun", !.event = e, !.began = clock']
  <2>1. tx' = [tx EXCEPT ![w] = t] /\ UNCHANGED <<tables, lastId>>
    BY <1>5 DEF Begin
  <2>2. DOMAIN t.staged = {}
    BY DEF NoTx
  <2> HIDE DEF t
  <2> QED
    BY <1>2, <2>1, <2>2
<1>6. ASSUME NEW w \in Worker, InsertPerformanceStat(w) PROVE FeedInv'
  <2> DEFINE t == [tx[w] EXCEPT !.pc = "open"]
  <2>1. tx' = [tx EXCEPT ![w] = t] /\ UNCHANGED <<tables, lastId>>
    BY <1>6 DEF InsertPerformanceStat
  <2>2. t.staged = tx[w].staged
    BY <1>1 DEF Transaction
  <2> HIDE DEF t
  <2> QED
    BY <1>2, <2>1, <2>2
<1>7. ASSUME NEW w \in Worker, NEW m \in Milestone, LockMilestone(w, m) PROVE FeedInv'
  <2> DEFINE t == [tx[w] EXCEPT !.locked = @ \union {m}]
  <2>1. tx' = [tx EXCEPT ![w] = t] /\ UNCHANGED <<tables, lastId>>
    BY <1>7 DEF LockMilestone
  <2>2. t.staged = tx[w].staged
    BY <1>1 DEF Transaction
  <2> HIDE DEF t
  <2> QED
    BY <1>2, <2>1, <2>2
<1>8. ASSUME NEW w \in Worker, NEW m \in Milestone, Skip(w, m) PROVE FeedInv'
  <2> DEFINE t == [tx[w] EXCEPT !.done = @ \union {m}]
  <2>1. tx' = [tx EXCEPT ![w] = t] /\ UNCHANGED <<tables, lastId>>
    BY <1>8 DEF Skip
  <2>2. t.staged = tx[w].staged
    BY <1>1 DEF Transaction
  <2> HIDE DEF t
  <2> QED
    BY <1>2, <2>1, <2>2
<1>9. ASSUME NEW w \in Worker, NEW m \in Milestone, Change(w, m) PROVE FeedInv'
  <2> DEFINE s == [id |-> lastId', progress |-> Outcome(w, m).progress,
                   state |-> Outcome(w, m).state, crossed |-> Outcome(w, m).crossed]
             staged == [n \in DOMAIN tx[w].staged \union {m} |->
                          IF n = m THEN s ELSE tx[w].staged[n]]
             t == [tx[w] EXCEPT !.done = @ \union {m}, !.staged = staged]
  <2>1. lastId' = lastId + 1 /\ UNCHANGED tables
    BY <1>9 DEF Change
  <2>2. lastId' \in Nat /\ lastId < lastId'
    BY <1>1, <2>1
  <2>3. tx' = [tx EXCEPT ![w] = t]
    BY <1>1, <1>9 DEF Change, Transaction
  <2>4. s.id = lastId'
    OBVIOUS
  <2> HIDE DEF s
  <2>5. \A n \in DOMAIN staged : \/ n = m /\ staged[n] = s
                                 \/ n \in DOMAIN tx[w].staged /\ staged[n] = tx[w].staged[n]
    OBVIOUS
  <2> HIDE DEF staged
  <2>6. t.staged = staged
    BY <1>1 DEF Transaction
  <2> HIDE DEF t
  <2>7. tx'[w].staged = staged /\ \A u \in Worker \ {w} : tx'[u] = tx[u]
    BY <1>1, <2>3, <2>6
  <2>8. \A u \in Worker : \A n \in DOMAIN tx'[u].staged :
          \/ n \in DOMAIN tx[u].staged /\ tx'[u].staged[n].id = tx[u].staged[n].id
          \/ lastId < lastId' /\ tx'[u].staged[n].id = lastId'
    BY <2>2, <2>4, <2>5, <2>7
  <2> QED
    BY <1>1, <2>1, <2>2, <2>8, QuietFeed
<1>10. ASSUME NEW w \in Worker, Commit(w) PROVE FeedInv'
  BY <1>10, PublishKeepsFeed DEF Commit
<1>11. ASSUME NEW w \in Worker, CommitUnseen(w) PROVE FeedInv'
  BY <1>11, PublishKeepsFeed DEF CommitUnseen
<1>12. ASSUME NEW w \in Worker, Rollback(w) PROVE FeedInv'
  <2>1. tx' = [tx EXCEPT ![w] = NoTx] /\ UNCHANGED <<tables, lastId>>
    BY <1>12 DEF Rollback
  <2>2. DOMAIN NoTx.staged = {}
    BY DEF NoTx
  <2> QED
    BY <1>2, <2>1, <2>2
<1>13. CASE UNCHANGED vars
  BY <1>3, <1>13 DEF vars, tables
<1> QED
  BY <1>4, <1>5, <1>6, <1>7, <1>8, <1>9, <1>10, <1>11, <1>12, <1>13 DEF Next

\* "Writing an event and a state change happen in one DB transaction"
\* (02_LLM_BUILD_PROMPT.md:66-67): read by id, the outbox tells the story of
\* each milestone in the order in which it happened, to the end.
THEOREM FeedAlwaysFollows == Spec => []FeedFollowsTable
<1>1. Init => Inv /\ FeedInv
  BY InitInv, InitFeed
<1>2. Inv /\ FeedInv /\ [Next]_vars => (Inv /\ FeedInv)'
  BY NextInv, NextFeed
<1>3. FeedInv => FeedFollowsTable
  BY DEF FeedInv
<1> QED
  BY <1>1, <1>2, <1>3, PTL DEF Spec

\* A bonus is never paid in silence: a jump over several boundaries sends one
\* MilestoneFulfilled, and that one covers them all.
THEOREM PayoutsAlwaysAnnounced == Spec => []PayoutsAnnounced
<1>1. Init => Inv /\ FeedInv
  BY InitInv, InitFeed
<1>2. Inv /\ FeedInv /\ [Next]_vars => (Inv /\ FeedInv)'
  BY NextInv, NextFeed
<1>3. FeedInv => PayoutsAnnounced
  BY DEF FeedInv
<1> QED
  BY <1>1, <1>2, <1>3, PTL DEF Spec

------------------------------------------------------------------------------
\* The function that the engine calls, as it runs on machine integers.  Every
\* fact from here on is about them.
USE IntAssumption

\* Wrapping around gives a machine integer that differs by a number of turns.
LEMMA WrapType ==
  ASSUME NEW n \in Int
  PROVE  /\ Wrap(n) \in Int64
         /\ \E j \in Int : Wrap(n) = n + j * Modulus
<1> DEFINE m == n + MaxInt + 1
<1>1. MaxInt \in Nat /\ m \in Int /\ Modulus \in Nat /\ Modulus > 0
  BY DEF MachineIntegers, Modulus
<1>2. /\ m \div Modulus \in Int /\ m % Modulus \in 0 .. Modulus - 1
      /\ m = (m \div Modulus) * Modulus + (m % Modulus)
  BY <1>1, Division
<1>3. Wrap(n) = (m % Modulus) - MaxInt - 1
  BY DEF Wrap
<1>4. Wrap(n) \in Int64
  BY <1>1, <1>2, <1>3 DEF Int64, Modulus
<1> DEFINE q == m \div Modulus
<1>5. Wrap(n) = n + (- q) * Modulus /\ - q \in Int
  <2>1. (- q) * Modulus = - (q * Modulus)
    BY <1>1, <1>2
  <2> HIDE DEF q
  <2> QED
    BY <1>1, <1>2, <1>3, <2>1 DEF q
<1> QED
  BY <1>4, <1>5

\* Two machine integers that differ by turns are the same.
LEMMA WrapOnce ==
  ASSUME NEW x \in Int64, NEW y \in Int64, NEW j \in Int,
         x = y + j * Modulus
  PROVE  x = y
<1>1. MaxInt \in Nat /\ Modulus \in Nat /\ Modulus > 0 /\ x \in Int /\ y \in Int
      /\ x - y < Modulus /\ y - x < Modulus
  BY DEF MachineIntegers, Modulus, Int64
<1>2. CASE j >= 1
  <2>1. 1 * Modulus <= j * Modulus
    BY <1>1, <1>2, MulMono
  <2> QED
    BY <1>1, <2>1
<1>3. CASE j <= -1
  <2>1. j * Modulus <= (-1) * Modulus
    BY <1>1, <1>3, MulMono
  <2> QED
    BY <1>1, <2>1
<1> QED
  BY <1>1, <1>2, <1>3

------------------------------------------------------------------------------
\* A boundary that is a machine integer is computed without error, though the
\* product in it may wrap around.
LEMMA BoundaryIsExact ==
  ASSUME LoopTypeOK, NEW n \in Int, Boundary(clause, n) \in Int64
  PROVE  BoundaryAt(n) = Boundary(clause, n)
<1> DEFINE m == n * Stride(clause)
           t == clause.target
<1>1. /\ clause \in Terms /\ t \in Int /\ m \in Int
      /\ Boundary(clause, n) = t + m
      /\ Modulus \in Nat /\ MaxInt \in Nat
  <2>1. clause \in Terms /\ MaxInt \in Nat
    BY DEF MachineIntegers, LoopTypeOK, Terms, Int64
  <2>2. Stride(clause) \in Nat
    BY <2>1, BoundaryType
  <2> QED
    BY <2>1, <2>2 DEF Boundary, Terms, Modulus
<1>2. BoundaryAt(n) = Wrap(t + Wrap(m))
  BY DEF BoundaryAt
<1> HIDE DEF m, t
<1>3. PICK i \in Int : Wrap(m) = m + i * Modulus
  BY <1>1, WrapType
<1>4. i * Modulus \in Int /\ t + Wrap(m) \in Int
  BY <1>1, <1>3
<1>5. PICK j \in Int : Wrap(t + Wrap(m)) = t + Wrap(m) + j * Modulus
  BY <1>4, WrapType
<1>6. Wrap(t + Wrap(m)) \in Int64
  BY <1>4, WrapType
<1>7. i * Modulus + j * Modulus = (i + j) * Modulus /\ i + j \in Int /\ j * Modulus \in Int
  BY <1>1
<1>8. Wrap(t + Wrap(m)) = (t + m) + (i + j) * Modulus
  BY <1>1, <1>3, <1>4, <1>5, <1>7
<1> QED
  BY <1>1, <1>2, <1>6, <1>7, <1>8, WrapOnce

\* A machine integer wraps to itself.
LEMMA WrapIsExact ==
  ASSUME NEW n \in Int64
  PROVE  Wrap(n) = n
<1>1. n \in Int
  BY DEF MachineIntegers, Int64
<1> QED
  BY <1>1, WrapType, WrapOnce

------------------------------------------------------------------------------
\* The index both loops end at: that of the first boundary ahead, or the first
\* past the cap.
Stop == LET n == NextK(clause, Progress)
        IN  IF Allowed(clause, n) THEN n ELSE clause.maxRepeats + 1

\* The input as it is used by both loops.
LEMMA InputType ==
  ASSUME LoopTypeOK
  PROVE  /\ clause \in Terms /\ clause.maxRepeats \in Int64
         /\ MaxInt \in Nat /\ oldProgress \in Int /\ Progress \in Int64 /\ Progress \in Int
         /\ clause.target \in Int64 /\ clause.target \in Int
<1>1. MaxInt \in Nat /\ oldProgress \in Int64 /\ newValue \in Int64
      /\ clause \in [target : Int64, tranche : Int64, maxRepeats : Int64]
  BY DEF MachineIntegers, LoopTypeOK
<1>2. Progress \in Int64
  BY <1>1 DEF Progress, Raised
<1> QED
  BY <1>1, <1>2 DEF Int64, Terms

\* Below Stop a boundary may be paid and is not ahead, and is computed exactly;
\* at Stop it is past the cap, or ahead and computed exactly too.
LEMMA StopsThere ==
  ASSUME LoopTypeOK, Fits
  PROVE  /\ Stop \in Nat /\ Stop <= MaxInt
         /\ \A i \in Nat : i < Stop <=> Allowed(clause, i) /\ Boundary(clause, i) <= Progress
         /\ \A i \in 0 .. Stop - 1 : BoundaryAt(i) = Boundary(clause, i)
         /\ Allowed(clause, Stop) =>
              /\ Stop = NextK(clause, Progress) /\ Boundary(clause, Stop) > Progress
              /\ BoundaryAt(Stop) = Boundary(clause, Stop)
              /\ 2 * (Boundary(clause, Stop) - Progress) <= MaxInt
         /\ Allowed(clause, Stop) <=> Allowed(clause, NextK(clause, Progress))
<1> DEFINE n == NextK(clause, Progress)
           r == clause.maxRepeats
           B(i) == Boundary(clause, i)
<1>1. /\ clause \in Terms /\ MaxInt \in Nat /\ Progress \in Int64 /\ Progress \in Int
      /\ clause.target \in Int64 /\ clause.target \in Int
      /\ r \in Int /\ r <= MaxInt
  BY InputType DEF Int64
<1>2. n \in Nat /\ \A i \in Nat : B(i) <= Progress <=> i < n
  BY <1>1, NextKIsFirst
<1>3. \A i \in Nat : B(i) \in Int /\ B(i) >= clause.target
  <2>1. B(0) = clause.target
    BY <1>1, BoundaryType DEF Boundary
  <2>2. ASSUME NEW i \in Nat PROVE B(i) \in Int /\ B(i) >= clause.target
    <3>1. i = 0 \/ B(0) < B(i)
      BY <1>1, BoundariesAscend
    <3> QED
      BY <1>1, <2>1, <3>1, BoundaryType
  <2> QED
    BY <2>2
<1>4. \A i \in Nat : Allowed(clause, i) <=> r < 0 \/ i <= r
  BY DEF Allowed
<1>5. Stop = IF Allowed(clause, n) THEN n ELSE r + 1
  BY DEF Stop
<1>6. \/ n <= MaxInt /\ B(n) <= MaxInt /\ 2 * (B(n) - Progress) <= MaxInt
      \/ r \in 0 .. MaxInt - 1 /\ B(r) <= Progress
  BY DEF Fits
<1>9. ASSUME NEW i \in Nat, B(i) <= MaxInt PROVE BoundaryAt(i) = B(i)
  <2>1. B(i) \in Int64
    BY <1>1, <1>3, <1>9 DEF Int64
  <2> QED
    BY <2>1, BoundaryIsExact
<1>10. \A i \in Nat : B(i) <= Progress => BoundaryAt(i) = B(i)
  BY <1>1, <1>3, <1>9 DEF Int64
<1> HIDE DEF n, r
<1>7. CASE Allowed(clause, n)
  <2>1. Stop = n /\ (r < 0 \/ n <= r)
    BY <1>2, <1>4, <1>5, <1>7
  <2>2. n <= MaxInt /\ B(n) <= MaxInt /\ 2 * (B(n) - Progress) <= MaxInt
    BY <1>1, <1>2, <1>6, <2>1
  <2>3. \A i \in Nat : i < n => Allowed(clause, i)
    BY <1>1, <1>2, <1>4, <2>1
  <2>4. B(n) > Progress
    BY <1>1, <1>2, <1>3
  <2> QED
    BY <1>1, <1>2, <1>3, <1>7, <2>1, <2>2, <2>3, <2>4, <1>9, <1>10 DEF n
<1>8. CASE ~ Allowed(clause, n)
  <2>1. Stop = r + 1 /\ r >= 0 /\ r < n
    BY <1>1, <1>2, <1>4, <1>5, <1>8
  <2>2. Stop <= MaxInt
    BY <1>1, <1>2, <1>6, <2>1
  <2>3. ~ Allowed(clause, Stop)
    BY <1>1, <1>4, <2>1
  <2>4. \A i \in Nat : i < Stop <=> Allowed(clause, i) /\ B(i) <= Progress
    BY <1>1, <1>2, <1>4, <2>1
  <2> QED
    BY <1>1, <1>2, <1>3, <1>8, <2>1, <2>2, <2>3, <2>4, <1>9, <1>10 DEF n
<1> QED
  BY <1>7, <1>8

------------------------------------------------------------------------------
\* Every step leaves machine integers behind, also one that wraps around.
LEMMA BoundType ==
  ASSUME LoopTypeOK, NEW n \in Int
  PROVE  BoundaryAt(n) \in Int64
<1>1. clause \in Terms /\ clause.target \in Int
  BY InputType
<1>2. n * Stride(clause) \in Int
  BY <1>1, BoundaryType
<1>3. Wrap(n * Stride(clause)) \in Int64 /\ MaxInt \in Nat
  BY <1>2, WrapType DEF MachineIntegers
<1>4. clause.target + Wrap(n * Stride(clause)) \in Int
  BY <1>1, <1>3 DEF Int64
<1> QED
  BY <1>4, WrapType DEF BoundaryAt

LEMMA LoopInitType == LoopInit => LoopTypeOK
<1> SUFFICES ASSUME LoopInit PROVE LoopTypeOK
  OBVIOUS
<1>1. /\ Stored \subseteq Int64 /\ Observed \subseteq Int64
      /\ Target \subseteq Int64 /\ Tranches \subseteq Int64 /\ Repeats \subseteq Int64
      /\ 0 \in Int64
  BY DEF MachineIntegers, Int64
<1>2. [target : Target, tranche : Tranches, maxRepeats : Repeats]
        \subseteq [target : Int64, tranche : Int64, maxRepeats : Int64]
  BY <1>1
<1> QED
  BY <1>1, <1>2 DEF LoopInit, LoopTypeOK

LEMMA LoopNextType ==
  ASSUME LoopTypeOK, [LoopNext]_loopVars
  PROVE  LoopTypeOK'
<1>1. k \in Int /\ 0 \in Int64 /\ k + 1 \in Int
  BY DEF MachineIntegers, LoopTypeOK, Int64
<1>2. Bound \in Int64 /\ Wrap(k + 1) \in Int64
  BY <1>1, BoundType, WrapType DEF Bound
<1>3. CASE Collect
  <2>1. crossed' \in Seq(Int64) /\ k' \in Int64
    BY <1>2, <1>3 DEF Collect, LoopTypeOK
  <2> QED
    BY <1>3, <2>1 DEF Collect, Input, LoopTypeOK
<1>4. CASE EndCollect
  BY <1>1, <1>4 DEF EndCollect, Input, LoopTypeOK
<1>5. CASE Look
  BY <1>2, <1>5 DEF Look, Input, LoopTypeOK
<1>6. CASE Return
  <2>1. SwitchState(~ PastCap) \in States
    BY DEF SwitchState, States, Fulfilled, Hot, Warm, Quiet
  <2>2. Progress \in Int64
    BY InputType
  <2>3. result'.progress \in Int64 /\ result'.state \in States
    BY <1>6, <2>1, <2>2 DEF Return
  <2> QED
    BY <1>6, <2>3 DEF Return, Input, LoopTypeOK
<1>7. CASE UNCHANGED loopVars
  BY <1>7 DEF loopVars, LoopTypeOK
<1> QED
  BY <1>3, <1>4, <1>5, <1>6, <1>7 DEF LoopNext

\* Advance keeps to machine integers and returns one of the four states, also
\* where its arithmetic wraps around.
THEOREM LoopTypeCorrect == LoopSpec => []LoopTypeOK
BY LoopInitType, LoopNextType, PTL DEF LoopSpec

------------------------------------------------------------------------------
\* What the first loop has collected when it is at index n.
CollectedTo(n) ==
  /\ ToSet(crossed) =
       {Boundary(clause, i) : i \in {j \in 0 .. n - 1 : Boundary(clause, j) > oldProgress}}
  /\ AscendingBut({}, crossed)

\* The loop counter never passes Stop, and the slice holds the boundaries above
\* oldProgress up to the counter in the first loop and up to Stop after it.
LoopInv ==
  /\ LoopTypeOK
  /\ Fits => /\ k \in 0 .. Stop
             /\ pc = "crossing" => CollectedTo(k)
             /\ pc # "crossing" => CollectedTo(Stop)
             /\ ReturnsAdvance

\* Below the index where they end, the loops go on; there they end.
LEMMA LoopCondition ==
  ASSUME LoopTypeOK, Fits, k \in 0 .. Stop
  PROVE  /\ k \in Nat /\ Stop \in Nat
         /\ ~ PastCap /\ Bound <= Progress <=> k < Stop
         /\ k < Stop => /\ Wrap(k + 1) = k + 1
                        /\ Bound = Boundary(clause, k)
<1>1. /\ Stop \in Nat /\ Stop <= MaxInt /\ MaxInt \in Nat /\ k \in Nat
      /\ \A i \in Nat : i < Stop <=> Allowed(clause, i) /\ Boundary(clause, i) <= Progress
      /\ \A i \in 0 .. Stop - 1 : BoundaryAt(i) = Boundary(clause, i)
  BY StopsThere, InputType
<1>2. CASE k < Stop
  <2>1. k + 1 \in Int64 /\ k \in 0 .. Stop - 1
    BY <1>1, <1>2 DEF Int64
  <2>2. Wrap(k + 1) = k + 1
    BY <2>1, WrapIsExact
  <2> QED
    BY <1>1, <1>2, <2>1, <2>2 DEF PastCap, Bound
<1>3. CASE ~ (k < Stop)
  <2>1. k = Stop
    BY <1>1, <1>3
  <2>2. Allowed(clause, Stop) => BoundaryAt(Stop) = Boundary(clause, Stop)
                                   /\ Boundary(clause, Stop) > Progress
    BY StopsThere
  <2>3. Progress \in Int /\ clause \in Terms
    BY InputType
  <2>4. Boundary(clause, Stop) \in Int
    BY <1>1, <2>3, BoundaryType
  <2> QED
    BY <1>1, <2>1, <2>2, <2>3, <2>4 DEF PastCap, Bound
<1> QED
  BY <1>2, <1>3

\* The input stays what it was, and with it where the loops end.
LEMMA InputStays ==
  ASSUME UNCHANGED Input
  PROVE  Stop' = Stop /\ Progress' = Progress /\ Fits' = Fits
BY DEF Input, Stop, Progress, Fits

\* At the end of the first loop the slice holds what was crossed.
LEMMA CollectedIsCrossed ==
  ASSUME LoopTypeOK, Fits, CollectedTo(Stop)
  PROVE  ToSet(crossed) = Crossed(clause, oldProgress, Progress)
<1>1. /\ clause \in Terms /\ oldProgress \in Int /\ Progress \in Int
      /\ Stop \in Nat
      /\ \A i \in Nat : i < Stop <=> Allowed(clause, i) /\ Boundary(clause, i) <= Progress
  BY InputType, StopsThere
<1> DEFINE Visited == {j \in Nat : /\ Allowed(clause, j)
                                   /\ oldProgress < Boundary(clause, j)
                                   /\ Boundary(clause, j) <= Progress}
           Passed == {j \in 0 .. Stop - 1 : Boundary(clause, j) > oldProgress}
<1>2. Crossed(clause, oldProgress, Progress) = {Boundary(clause, i) : i \in Visited}
  BY <1>1, CrossedByIndex
<1>3. Visited = Passed
  <2>1. \A j \in Nat : Boundary(clause, j) \in Int
    BY <1>1, BoundaryType
  <2> QED
    BY <1>1, <2>1
<1> QED
  BY <1>2, <1>3 DEF CollectedTo

\* The switch on machine integers picks the state of the closed form.
LEMMA SwitchIsStateAfter ==
  ASSUME LoopTypeOK, Fits, k = Stop, CollectedTo(Stop)
  PROVE  SwitchState(~ PastCap) = StateAfter(clause, oldProgress, Progress)
<1> DEFINE n == NextK(clause, Progress)
<1>1. /\ clause \in Terms /\ Progress \in Int64 /\ Progress \in Int /\ MaxInt \in Nat
      /\ clause.target \in Int64
      /\ Stop \in Nat /\ n \in Nat
  BY InputType, StopsThere, NextKIsFirst
<1>2. crossed # <<>> <=> Crossed(clause, oldProgress, Progress) # {}
  <2>1. ToSet(crossed) = Crossed(clause, oldProgress, Progress)
    BY CollectedIsCrossed
  <2>2. crossed \in Seq(Int64)
    BY DEF LoopTypeOK
  <2>3. crossed # <<>> <=> ToSet(crossed) # {}
    <3>1. crossed # <<>> <=> Len(crossed) # 0
      BY <2>2, EmptySeq
    <3>2. Len(crossed) \in Nat /\ DOMAIN crossed = 1 .. Len(crossed)
      BY <2>2
    <3>3. Len(crossed) # 0 => crossed[1] \in ToSet(crossed)
      BY <3>2 DEF ToSet
    <3>4. Len(crossed) = 0 => ToSet(crossed) = {}
      BY <3>2 DEF ToSet
    <3> QED
      BY <3>1, <3>3, <3>4
  <2> QED
    BY <2>1, <2>3
<1>3. PastCap <=> ~ Allowed(clause, n)
  BY StopsThere DEF PastCap
<1>4. CASE Crossed(clause, oldProgress, Progress) # {} \/ ~ Allowed(clause, n)
  BY <1>2, <1>3, <1>4 DEF SwitchState, StateAfter
<1>5. CASE Crossed(clause, oldProgress, Progress) = {} /\ Allowed(clause, n)
  <2> DEFINE next == Boundary(clause, n)
             prev == IF n > 0 THEN Boundary(clause, n - 1) ELSE 0
             d == next - Progress
  <2>1. /\ k = n /\ Allowed(clause, Stop) /\ Bound = next
        /\ next > Progress /\ 2 * d <= MaxInt
    BY <1>5, StopsThere DEF Bound
  <2>2. next \in Int /\ prev \in Int /\ Boundary(clause, n - 1) \in Int
    BY <1>1, BoundaryType
  <2>3. Bound \in Int64
    BY <1>1, BoundType DEF Bound
  <2>4. (IF k > 0 THEN BoundaryAt(k - 1) ELSE 0) = prev
    BY <1>1, <2>1, StopsThere
  <2>5. Wrap(d) = d
    BY <1>1, <2>1, <2>2, WrapIsExact DEF Int64
  <2>6. Wrap(d * 2) = d * 2
    BY <1>1, <2>1, <2>2, WrapIsExact DEF Int64
  <2>7. Wrap(next - prev) = next - prev
    <3>1. n = 0 => next - prev = next
      BY <1>1, <2>2
    <3>2. n > 0 => next - prev = Stride(clause) /\ Stride(clause) \in Int64
      <4>1. n > 0 => next - prev = Stride(clause)
        <5> DEFINE s == Stride(clause)
        <5>1. s \in Nat /\ clause.target \in Int
          BY <1>1, BoundaryType DEF Terms
        <5> HIDE DEF s
        <5>2. n * s = (n - 1) * s + s /\ n * s \in Int /\ (n - 1) * s \in Int
          BY <1>1, <5>1
        <5>3. /\ Boundary(clause, n) = clause.target + n * s
              /\ Boundary(clause, n - 1) = clause.target + (n - 1) * s
          BY DEF Boundary, s
        <5> QED
          BY <5>1, <5>2, <5>3 DEF s
      <4>2. Stride(clause) \in Int64
        BY DEF MachineIntegers, Stride, LoopTypeOK, Int64
      <4> QED
        BY <4>1, <4>2
    <3>3. n = 0 \/ n > 0
      BY <1>1
    <3>4. next - prev \in Int64
      BY <2>1, <2>3, <3>1, <3>2, <3>3
    <3> QED
      BY <3>4, WrapIsExact
  <2>8. StateAfter(clause, oldProgress, Progress) = Proximity(clause, Progress, n)
    BY <1>5 DEF StateAfter
  <2>9. SwitchState(~ PastCap) =
          IF d <= 2 THEN Hot ELSE IF d * 2 <= next - prev THEN Warm ELSE Quiet
    BY <1>2, <1>3, <1>5, <2>1, <2>4, <2>5, <2>6, <2>7 DEF SwitchState
  <2> QED
    BY <2>8, <2>9 DEF Proximity
<1> QED
  BY <1>4, <1>5

\* One append more.
LEMMA CollectInv ==
  ASSUME LoopTypeOK, Fits, k \in 0 .. Stop, CollectedTo(k), Collect
  PROVE  k' \in 0 .. Stop /\ CollectedTo(k)'
<1>1. /\ k \in Nat /\ Stop \in Nat /\ k < Stop /\ k' = k + 1
      /\ Bound = Boundary(clause, k) /\ clause' = clause /\ oldProgress' = oldProgress
      /\ crossed' = IF Boundary(clause, k) > oldProgress THEN Append(crossed, Boundary(clause, k))
                                                         ELSE crossed
  BY LoopCondition DEF Collect, Input
<1>2. clause \in Terms /\ oldProgress \in Int /\ crossed \in Seq(Int64) /\ Bound \in Int64
  BY <1>1, InputType, BoundType DEF LoopTypeOK, Bound
<1> DEFINE B(i) == Boundary(clause, i)
           Passed(n) == {j \in 0 .. n - 1 : B(j) > oldProgress}
<1>3. Passed(k + 1) = IF B(k) > oldProgress THEN Passed(k) \union {k} ELSE Passed(k)
  BY <1>1
<1>4. ToSet(crossed) = {B(i) : i \in Passed(k)} /\ AscendingBut({}, crossed)
  BY DEF CollectedTo
<1>5. \A x \in ToSet(crossed) : x < B(k)
  <2>1. \A i \in Passed(k) : i \in Int /\ i < k
    BY <1>1
  <2>2. \A i \in Passed(k) : B(i) < B(k)
    BY <1>1, <1>2, <2>1, BoundariesAscend
  <2> QED
    BY <1>4, <2>2
<1>6. /\ ToSet(crossed') = {B(i) : i \in Passed(k + 1)}
      /\ AscendingBut({}, crossed')
  <2>1. CASE B(k) > oldProgress
    <3>1. crossed' = Append(crossed, B(k)) /\ B(k) \in Int64 /\ Int64 \subseteq Int
      BY <1>1, <1>2, <2>1 DEF Int64, MachineIntegers
    <3>2. AscendingBut({}, Append(crossed, B(k)))
      BY <1>2, <1>4, <1>5, <3>1, AppendAscending, Zenon
    <3>3. ToSet(crossed') = ToSet(crossed) \union {B(k)}
      BY <1>2, <3>1, AppendElements
    <3>4. Passed(k + 1) = Passed(k) \union {k}
      BY <1>3, <2>1
    <3> HIDE DEF B, Passed
    <3>5. {B(i) : i \in Passed(k) \union {k}} = {B(i) : i \in Passed(k)} \union {B(k)}
      OBVIOUS
    <3> QED
      BY <1>4, <3>1, <3>2, <3>3, <3>4, <3>5
  <2>2. CASE ~ (B(k) > oldProgress)
    BY <1>1, <1>3, <1>4, <2>2
  <2> QED
    BY <2>1, <2>2
<1>7. CollectedTo(k)' <=> /\ ToSet(crossed') = {B(i) : i \in Passed(k + 1)}
                          /\ AscendingBut({}, crossed')
  BY <1>1 DEF CollectedTo, AscendingBut
<1> QED
  BY <1>1, <1>6, <1>7

LEMMA LoopInitInv == LoopInit => LoopInv
<1> SUFFICES ASSUME LoopInit PROVE LoopInv
  OBVIOUS
<1>1. LoopTypeOK
  BY LoopInitType
<1>2. Fits => k \in 0 .. Stop
  BY <1>1, StopsThere DEF LoopInit
<1>3. CollectedTo(k)
  BY DEF LoopInit, CollectedTo, AscendingBut, ToSet
<1> QED
  BY <1>1, <1>2, <1>3 DEF LoopInit, LoopInv, ReturnsAdvance

LEMMA LoopNextInv ==
  ASSUME LoopInv, [LoopNext]_loopVars
  PROVE  LoopInv'
<1>1. LoopTypeOK /\ LoopTypeOK'
  BY LoopNextType DEF LoopInv
<1>2. UNCHANGED Input
  BY DEF LoopNext, loopVars, Input, Collect, EndCollect, Look, Return
<1> SUFFICES ASSUME Fits'
             PROVE  /\ k' \in 0 .. Stop'
                    /\ pc' = "crossing" => CollectedTo(k)'
                    /\ pc' # "crossing" => CollectedTo(Stop)'
                    /\ ReturnsAdvance'
  BY <1>1 DEF LoopInv
<1>3. Fits /\ Stop' = Stop
  BY <1>2, InputStays
<1>4. /\ k \in 0 .. Stop
      /\ pc = "crossing" => CollectedTo(k)
      /\ pc # "crossing" => CollectedTo(Stop)
      /\ ReturnsAdvance
  BY <1>3 DEF LoopInv
<1>5. /\ k \in Nat /\ Stop \in Nat
      /\ ~ PastCap /\ Bound <= Progress <=> k < Stop
      /\ k < Stop => Wrap(k + 1) = k + 1
      /\ (PastCap \/ ~ (Bound <= Progress)) => k = Stop
  BY <1>1, <1>3, <1>4, LoopCondition
<1>6. ~ (Bound <= Progress) <=> Bound > Progress
  <2>1. Bound \in Int /\ Progress \in Int
    BY <1>1, <1>5, BoundType, InputType DEF Bound, Int64
  <2> QED
    BY <2>1
<1>7. crossed' = crossed => CollectedTo(Stop)' = CollectedTo(Stop)
  BY <1>2, <1>3 DEF CollectedTo, Input, AscendingBut
<1>8. CASE Collect
  BY <1>1, <1>3, <1>4, <1>8, CollectInv DEF Collect, ReturnsAdvance
<1>9. CASE EndCollect
  <2>1. CollectedTo(Stop)
    BY <1>4, <1>5, <1>6, <1>9 DEF EndCollect
  <2> QED
    BY <1>3, <1>5, <1>7, <1>9, <2>1 DEF EndCollect, ReturnsAdvance
<1>10. CASE Look
  BY <1>3, <1>4, <1>5, <1>7, <1>10 DEF Look, ReturnsAdvance
<1>11. CASE Return
  <2>1. /\ k = Stop /\ CollectedTo(Stop) /\ k' = k /\ pc' = "done" /\ crossed' = crossed
        /\ result' = [progress |-> Progress, state |-> SwitchState(~ PastCap)]
    BY <1>4, <1>5, <1>6, <1>11 DEF Return
  <2>2. /\ SwitchState(~ PastCap) = StateAfter(clause, oldProgress, Progress)
        /\ ToSet(crossed) = Crossed(clause, oldProgress, Progress)
    BY <1>1, <1>3, <2>1, SwitchIsStateAfter, CollectedIsCrossed
  <2>3. LET a == Advance(clause, oldProgress, newValue)
        IN  a.progress = Progress /\ a.state = StateAfter(clause, oldProgress, Progress)
            /\ a.crossed = Crossed(clause, oldProgress, Progress)
    BY DEF Advance, Progress
  <2>4. \A i, j \in DOMAIN crossed : i < j => crossed[i] < crossed[j]
    BY <2>1 DEF CollectedTo, AscendingBut
  <2>5. oldProgress' = oldProgress /\ newValue' = newValue /\ clause' = clause
    BY <1>2 DEF Input
  <2>6. ReturnsAdvance'
    BY <2>1, <2>2, <2>3, <2>4, <2>5 DEF ReturnsAdvance
  <2> QED
    BY <1>3, <1>4, <1>7, <2>1, <2>6
<1>12. CASE UNCHANGED loopVars
  <2>1. CollectedTo(k)' = CollectedTo(k) /\ ReturnsAdvance' = ReturnsAdvance
    BY <1>12
       DEF loopVars, CollectedTo, AscendingBut, ReturnsAdvance, Fits, Progress
  <2> QED
    BY <1>3, <1>4, <1>7, <1>12, <2>1 DEF loopVars
<1> QED
  BY <1>8, <1>9, <1>10, <1>11, <1>12 DEF LoopNext

\* Whenever its numbers fit an int64, what Advance (tranche.go:25) returns is the
\* closed form that the engine is modelled with: the boundaries passed, each once
\* and in ascending order, and the state of the switch.
THEOREM AlwaysReturnsAdvance == LoopSpec => []ReturnsAdvance
<1>1. LoopInv => ReturnsAdvance
  BY DEF LoopInv, ReturnsAdvance
<1> QED
  BY <1>1, LoopInitInv, LoopNextInv, PTL DEF LoopSpec

\* And it gets there in as many turns of each loop (tranche.go:37 and :52) as there
\* are boundaries up to the progress, or fewer if the cap ends them; what is left
\* to show of termination is that a turn ends.
THEOREM LoopsAlwaysBounded == LoopSpec => []LoopsAreBounded
<1>1. LoopInv => LoopsAreBounded
  <2> SUFFICES ASSUME LoopInv, Fits
               PROVE  /\ k \in 0 .. NextK(clause, Progress)
                      /\ clause.maxRepeats >= 0 => k <= clause.maxRepeats + 1
    BY DEF LoopsAreBounded
  <2>1. LoopTypeOK /\ k \in 0 .. Stop
    BY DEF LoopInv
  <2>2. clause \in Terms /\ clause.maxRepeats \in Int /\ Progress \in Int
    BY <2>1, InputType DEF Int64
  <2>3. NextK(clause, Progress) \in Nat
    BY <2>2, NextKIsFirst
  <2> QED
    BY <2>1, <2>2, <2>3 DEF Stop, Allowed
<1> QED
  BY <1>1, LoopInitInv, LoopNextInv, PTL DEF LoopSpec
=============================================================================
