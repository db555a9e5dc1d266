---------------------------- MODULE PipelineProofs ----------------------------
(***************************************************************************)
(* What is paid follows from what was accepted, for every set of events    *)
(* and milestones: neither the order in which the relay and the worker     *)
(* hand things on, nor how often, leaves a trace in the tables.            *)
(*                                                                         *)
(* The inductive invariant relates the tables to the events applied so     *)
(* far (PaidAsApplied), the events to where they came from (TypeOK), and   *)
(* the progress to the rows of the outbox that tell of it (Announced).     *)
(***************************************************************************)
EXTENDS Pipeline, Lemmas

\* The instance of Ledger has its own copies of the constant operators.
LEMMA SameBook ==
  ASSUME NEW m, NEW e, NEW old, NEW new
  PROVE  /\ Book!Payments(m, old, new) = Payments(m, old, new)
         /\ Book!Concerned(e) = Concerned(e)
         /\ Book!StateAfter(Clause[m], old, new) \in States
<1>1. \A c, i, j : Book!Crossed(c, i, j) = Crossed(c, i, j)
  BY DEF Book!Crossed, Crossed, Book!IsBoundary, IsBoundary, Book!Stride, Stride,
         Book!Allowed, Allowed
<1>2. Book!Payments(m, old, new) = Payments(m, old, new)
  BY <1>1 DEF Book!Payments, Payments
<1>3. Book!Concerned(e) = Concerned(e)
  BY DEF Book!Concerned, Concerned
<1>4. Book!StateAfter(Clause[m], old, new) \in States
  BY DEF Book!StateAfter, Book!Proximity, States,
         Book!Hot, Hot, Book!Warm, Warm, Book!Quiet, Quiet, Book!Fulfilled, Fulfilled
<1> QED
  BY <1>2, <1>3, <1>4

\* The milestones an event moves are some of those it concerns.
LEMMA MovedAreConcerned ==
  ASSUME NEW e
  PROVE  /\ Book!Moved(e) = {m \in Concerned(e) : e.value > progress[m]}
         /\ Book!Moved(e) \subseteq Milestone
BY SameBook DEF Book!Moved, Concerned

\* What the handling of an event does to one milestone.
LEMMA ApplyMoves ==
  ASSUME NEW e \in Event, Book!Apply(e), NEW m \in Milestone
  PROVE  progress'[m] = IF m \in Concerned(e) /\ e.value > progress[m]
                          THEN e.value ELSE progress[m]
BY MovedAreConcerned DEF Book!Apply

------------------------------------------------------------------------------
\* An event that is handled keeps the types of the tables.
LEMMA ApplyType ==
  ASSUME TypeOK, NEW e \in Event, Book!Apply(e)
  PROVE  /\ progress' \in [Milestone -> Int]
         /\ state' \in [Milestone -> States]
         /\ payouts' \subseteq Milestone \X Int
         /\ applied' = applied \union {e}
         /\ e \in Known
<1>1. e.value \in Int /\ \A m \in Milestone : progress[m] \in Int
  BY EventAssumption DEF TypeOK
<1>2. progress' \in [Milestone -> Int]
  BY <1>1 DEF Book!Apply, TypeOK
<1>3. state' \in [Milestone -> States]
  BY SameBook DEF Book!Apply, TypeOK
<1>4. \A m \in Book!Moved(e) : Payments(m, progress[m], e.value) \subseteq Milestone \X Int
  <2> SUFFICES ASSUME NEW m \in Book!Moved(e)
               PROVE  Payments(m, progress[m], e.value) \subseteq Milestone \X Int
    OBVIOUS
  <2>1. m \in Milestone
    BY MovedAreConcerned
  <2>2. Crossed(Clause[m], progress[m], e.value) \subseteq Int
    BY <1>1, <2>1, CrossedBetween
  <2> QED
    BY <2>1, <2>2 DEF Payments
<1>5. payouts' = payouts \union
        UNION {Payments(m, progress[m], e.value) : m \in Book!Moved(e)}
  BY SameBook DEF Book!Apply
<1>6. payouts' \subseteq Milestone \X Int
  BY <1>4, <1>5 DEF TypeOK
<1> QED
  BY <1>2, <1>3, <1>6 DEF Book!Apply, Known

\* The rows the engine adds to the outbox are changes.
LEMMA ChangesAreChange ==
  ASSUME NEW e \in Event
  PROVE  Changes(e) \subseteq Change
BY MovedAreConcerned DEF Changes, Change

\* Nothing is anywhere before it was where it comes from.
LEMMA InitType == Init => TypeOK
BY StartAssumption DEF Init, Bus!Init, Queue!Init, Book!Init, TypeOK

LEMMA NextType ==
  ASSUME TypeOK, [Next]_vars
  PROVE  TypeOK'
<1>1. ASSUME NEW e \in Event, Accept(e) PROVE TypeOK'
  BY <1>1 DEF Accept, Bus!Put, worker, tables, TypeOK
<1>2. ASSUME NEW i \in Event \union Change, Relay(i) PROVE TypeOK'
  BY <1>2 DEF Relay, Bus!Hand, Bus!Done, worker, tables, TypeOK
<1>3. ASSUME NEW e \in Event, Handle(e) PROVE TypeOK'
  <2>1. /\ progress' \in [Milestone -> Int]
        /\ state' \in [Milestone -> States]
        /\ payouts' \subseteq Milestone \X Int
        /\ applied' = applied \union {e}
        /\ e \in Known
    BY <1>3, ApplyType DEF Handle
  <2>2. /\ e \in stored /\ outbox' = outbox \union Changes(e)
        /\ UNCHANGED <<stored, stamped, pushed>>
    BY <1>3 DEF Handle, relay
  <2>3. /\ handled' \subseteq handled \union {e}
        /\ acked' \subseteq handled'
    BY <1>3 DEF Handle, Queue!Hand, worker, TypeOK
  <2> QED
    BY <2>1, <2>2, <2>3, ChangesAreChange DEF TypeOK
<1>4. ASSUME NEW c \in Change, Push(c) PROVE TypeOK'
  BY <1>4 DEF Push, relay, worker, tables, TypeOK
<1>5. CASE UNCHANGED vars
  BY <1>5 DEF vars, TypeOK
<1> QED
  BY <1>1, <1>2, <1>3, <1>4, <1>5 DEF Next

\* Along the whole way nothing comes from nowhere: only what the bus has
\* stored is stamped, handled or pushed, only what was committed is stored,
\* and only what the engine has applied is acknowledged.
THEOREM TypeCorrect == Spec => []TypeOK
<1>1. Init => TypeOK
  BY InitType
<1>2. TypeOK /\ [Next]_vars => TypeOK'
  BY NextType
<1> QED
  BY <1>1, <1>2, PTL DEF Spec

------------------------------------------------------------------------------
\* What the tables owe to the events applied so far, before any of them is
\* acknowledged: a milestone stands at the best applied value, and what is paid
\* are the boundaries up to there.
StandsAtBest(m) ==
  /\ Start[m] <= progress[m]
  /\ \A e \in applied : m \in Concerned(e) => e.value <= progress[m]
  /\ \/ progress[m] = Start[m]
     \/ \E e \in applied : m \in Concerned(e) /\ e.value = progress[m]

PaidAsApplied ==
  /\ \A m \in Milestone : StandsAtBest(m)
  /\ payouts = UNION {Payments(m, Start[m], progress[m]) : m \in Milestone}

PipelineInv == TypeOK /\ PaidAsApplied

\* Nothing is paid at the start.
LEMMA InitPaid == Init => PaidAsApplied
<1> SUFFICES ASSUME Init PROVE PaidAsApplied
  OBVIOUS
<1>1. /\ progress = Start /\ payouts = {} /\ applied = {}
      /\ \A m \in Milestone : Start[m] \in Int
  BY StartAssumption DEF Init, Book!Init
<1>2. \A m \in Milestone : Payments(m, Start[m], progress[m]) = {}
  BY <1>1, CrossedBetween DEF Payments
<1> QED
  BY <1>1, <1>2 DEF PaidAsApplied, StandsAtBest

\* Applying an event leaves each milestone at the best applied value.
LEMMA ApplyKeepsBest ==
  ASSUME PipelineInv, NEW f \in Event, Book!Apply(f), NEW m \in Milestone
  PROVE  StandsAtBest(m)'
<1>1. StandsAtBest(m)
  BY DEF PipelineInv, PaidAsApplied
<1>2. /\ progress[m] \in Int /\ Start[m] \in Int /\ f.value \in Int
      /\ \A e \in applied : e.value \in Int
  BY EventAssumption, StartAssumption DEF PipelineInv, TypeOK, Known
<1>3. applied' = applied \union {f}
  BY DEF Book!Apply
<1>4. progress'[m] = IF m \in Concerned(f) /\ f.value > progress[m]
                       THEN f.value ELSE progress[m]
  BY ApplyMoves
<1>5. CASE m \in Concerned(f) /\ f.value > progress[m]
  BY <1>1, <1>2, <1>3, <1>4, <1>5 DEF StandsAtBest
<1>6. CASE ~ (m \in Concerned(f) /\ f.value > progress[m])
  BY <1>1, <1>2, <1>3, <1>4, <1>6 DEF StandsAtBest
<1> QED
  BY <1>5, <1>6

\* Applying an event pays for the way from the old to the new progress, so what
\* is paid for a milestone is again the whole way from its start.
LEMMA ApplyPays ==
  ASSUME PipelineInv, NEW f \in Event, Book!Apply(f)
  PROVE  payouts' = UNION {Payments(m, Start[m], progress'[m]) : m \in Milestone}
<1> DEFINE moved == Book!Moved(f)
<1>1. /\ moved \subseteq Milestone
      /\ \A m \in Milestone : progress'[m] = IF m \in moved THEN f.value ELSE progress[m]
      /\ \A m \in moved : f.value > progress[m]
  BY ApplyMoves, MovedAreConcerned
<1>2. payouts' = payouts \union UNION {Payments(m, progress[m], f.value) : m \in moved}
  BY SameBook DEF Book!Apply
<1>3. payouts = UNION {Payments(m, Start[m], progress[m]) : m \in Milestone}
  BY DEF PipelineInv, PaidAsApplied
<1> HIDE DEF moved
<1>4. ASSUME NEW m \in Milestone
      PROVE  Payments(m, Start[m], progress'[m]) =
               IF m \in moved
                 THEN Payments(m, Start[m], progress[m])
                        \union Payments(m, progress[m], f.value)
                 ELSE Payments(m, Start[m], progress[m])
  <2>1. /\ Start[m] \in Int /\ progress[m] \in Int /\ f.value \in Int
        /\ Start[m] <= progress[m]
    BY StartAssumption, EventAssumption
       DEF PipelineInv, TypeOK, PaidAsApplied, StandsAtBest
  <2>2. CASE m \in moved
    <3>1. progress[m] <= f.value
      BY <1>1, <2>1, <2>2
    <3>2. Crossed(Clause[m], Start[m], f.value) =
            Crossed(Clause[m], Start[m], progress[m])
              \union Crossed(Clause[m], progress[m], f.value)
      BY <2>1, <3>1, CrossedSplits
    <3>3. progress'[m] = f.value
      BY <1>1, <2>2
    <3> QED
      BY <2>2, <3>2, <3>3 DEF Payments
  <2>3. CASE m \notin moved
    BY <1>1, <2>3
  <2> QED
    BY <2>2, <2>3
<1>5. ASSUME NEW p, p \in payouts'
      PROVE  \E m \in Milestone : p \in Payments(m, Start[m], progress'[m])
  BY <1>1, <1>2, <1>3, <1>4, <1>5
<1>6. ASSUME NEW m \in Milestone, NEW p \in Payments(m, Start[m], progress'[m])
      PROVE  p \in payouts'
  BY <1>2, <1>3, <1>4
<1> QED
  BY <1>5, <1>6

\* Every step keeps the tables in line with the applied events.
LEMMA NextPaid ==
  ASSUME PipelineInv, [Next]_vars
  PROVE  PaidAsApplied'
<1>1. ASSUME UNCHANGED tables PROVE PaidAsApplied'
  BY <1>1 DEF tables, PipelineInv, PaidAsApplied, StandsAtBest
<1>2. ASSUME NEW e \in Event, Handle(e) PROVE PaidAsApplied'
  <2>1. Book!Apply(e)
    BY <1>2 DEF Handle
  <2> QED
    BY <2>1, ApplyKeepsBest, ApplyPays DEF PaidAsApplied
<1>3. ASSUME NEW e \in Event, Accept(e) PROVE PaidAsApplied'
  BY <1>1, <1>3 DEF Accept
<1>4. ASSUME NEW i \in Event \union Change, Relay(i) PROVE PaidAsApplied'
  BY <1>1, <1>4 DEF Relay
<1>5. ASSUME NEW c \in Change, Push(c) PROVE PaidAsApplied'
  BY <1>1, <1>5 DEF Push
<1>6. CASE UNCHANGED vars
  BY <1>1, <1>6 DEF vars, tables
<1> QED
  BY <1>2, <1>3, <1>4, <1>5, <1>6 DEF Next

------------------------------------------------------------------------------
\* What was applied was accepted, so what is paid is owed.
LEMMA PaidIsOwed ==
  ASSUME PipelineInv
  PROVE  payouts \subseteq Owed
<1> SUFFICES ASSUME NEW m \in Milestone, NEW p \in Payments(m, Start[m], progress[m])
             PROVE  p \in Owed
  BY DEF PipelineInv, PaidAsApplied
<1>1. Start[m] \in Int /\ StandsAtBest(m)
  BY StartAssumption DEF PipelineInv, PaidAsApplied
<1>2. progress[m] # Start[m]
  BY <1>1, CrossedBetween DEF Payments
<1>3. PICK e \in applied : m \in Concerned(e) /\ e.value = progress[m]
  BY <1>1, <1>2 DEF StandsAtBest
<1>4. e \in Accepted
  BY DEF PipelineInv, TypeOK, Known, Accepted
<1> QED
  BY <1>3, <1>4 DEF Owed

\* Once every accepted event of a known athlete is acknowledged, nothing that
\* is owed is missing.
LEMMA OwedIsPaid ==
  ASSUME PipelineInv, Accepted \intersect Known \subseteq acked
  PROVE  /\ Owed \subseteq payouts
         /\ \A m \in Milestone : Best(m, progress[m])
<1>1. Accepted \intersect Known \subseteq applied /\ applied \subseteq Accepted
  BY DEF PipelineInv, TypeOK, Known, Accepted
<1>2. ASSUME NEW m \in Milestone PROVE Best(m, progress[m])
  BY <1>1 DEF PipelineInv, PaidAsApplied, StandsAtBest, Best
<1>3. ASSUME NEW e \in Accepted, NEW m \in Concerned(e),
             NEW p \in Payments(m, Start[m], e.value)
      PROVE  p \in payouts
  <2>1. m \in Milestone /\ e \in Event /\ e.athlete \in Athlete
    BY ClauseAssumption DEF Concerned, Accepted
  <2>2. e \in applied
    BY <1>1, <2>1 DEF Known
  <2>3. /\ Start[m] \in Int /\ progress[m] \in Int /\ e.value \in Int
        /\ e.value <= progress[m]
    BY <2>1, <2>2, StartAssumption, EventAssumption
       DEF PipelineInv, TypeOK, PaidAsApplied, StandsAtBest
  <2>4. Crossed(Clause[m], Start[m], e.value) \subseteq Crossed(Clause[m], Start[m], progress[m])
    BY <2>3 DEF Crossed
  <2>5. p \in Payments(m, Start[m], progress[m])
    BY <2>4 DEF Payments
  <2> QED
    BY <2>1, <2>5 DEF PipelineInv, PaidAsApplied
<1> QED
  BY <1>2, <1>3 DEF Owed

------------------------------------------------------------------------------
\* A milestone that has moved stands where a row of the outbox says it does.
Announced ==
  \A m \in Milestone : progress[m] # Start[m] => Changed(m, progress[m]) \in outbox

\* The engine writes that row in the transaction that moves the milestone.
LEMMA NextAnnounced ==
  ASSUME Announced, [Next]_vars
  PROVE  Announced'
<1>1. ASSUME outbox \subseteq outbox', UNCHANGED progress
      PROVE  Announced'
  BY <1>1 DEF Announced
<1>2. ASSUME NEW e \in Event, Handle(e)
      PROVE  Announced'
  <2>1. Book!Apply(e) /\ outbox' = outbox \union Changes(e)
    BY <1>2 DEF Handle
  <2>2. ASSUME NEW m \in Milestone, progress'[m] # Start[m]
        PROVE  Changed(m, progress'[m]) \in outbox'
    <3>1. CASE m \in Concerned(e) /\ e.value > progress[m]
      <4>1. progress'[m] = e.value /\ m \in Book!Moved(e)
        BY <2>1, <3>1, ApplyMoves, MovedAreConcerned
      <4> QED
        BY <2>1, <4>1 DEF Changes
    <3>2. CASE ~ (m \in Concerned(e) /\ e.value > progress[m])
      <4>1. progress'[m] = progress[m]
        BY <2>1, <3>2, ApplyMoves
      <4> QED
        BY <2>1, <2>2, <4>1 DEF Announced
    <3> QED
      BY <3>1, <3>2
  <2> QED
    BY <2>2 DEF Announced
<1>3. ASSUME NEW e \in Event, Accept(e)
      PROVE  Announced'
  BY <1>1, <1>3 DEF Accept, Bus!Put, tables
<1>4. ASSUME NEW i \in Event \union Change, Relay(i)
      PROVE  Announced'
  BY <1>1, <1>4 DEF Relay, Bus!Hand, Bus!Done, tables
<1>5. ASSUME NEW c \in Change, Push(c)
      PROVE  Announced'
  BY <1>1, <1>5 DEF Push, tables
<1>6. CASE UNCHANGED vars
  BY <1>1, <1>6 DEF vars
<1> QED
  BY <1>2, <1>3, <1>4, <1>5, <1>6 DEF Next

\* An event that was applied has nothing left to do.
LEMMA AppliedIsCounted ==
  ASSUME PipelineInv, Announced
  PROVE  HandledIsCounted
<1> SUFFICES ASSUME NEW e \in handled, NEW m \in Concerned(e)
             PROVE  /\ e.value <= progress[m]
                    /\ Payments(m, Start[m], e.value) \subseteq payouts
                    /\ e.value > Start[m] => Changed(m, progress[m]) \in outbox
  BY DEF HandledIsCounted
<1>1. e \in applied /\ e \in Event /\ m \in Milestone
  BY DEF PipelineInv, TypeOK, Known, Concerned
<1>2. /\ Start[m] \in Int /\ progress[m] \in Int /\ e.value \in Int
      /\ e.value <= progress[m]
  BY <1>1, StartAssumption, EventAssumption
     DEF PipelineInv, TypeOK, PaidAsApplied, StandsAtBest
<1>3. Payments(m, Start[m], e.value) \subseteq payouts
  <2>1. Crossed(Clause[m], Start[m], e.value) \subseteq Crossed(Clause[m], Start[m], progress[m])
    BY <1>2 DEF Crossed
  <2>2. Payments(m, Start[m], e.value) \subseteq Payments(m, Start[m], progress[m])
    BY <2>1 DEF Payments
  <2> QED
    BY <1>1, <2>2 DEF PipelineInv, PaidAsApplied
<1>4. e.value > Start[m] => Changed(m, progress[m]) \in outbox
  <2>1. e.value > Start[m] => progress[m] # Start[m]
    BY <1>2
  <2> QED
    BY <1>1, <2>1 DEF Announced
<1> QED
  BY <1>2, <1>3, <1>4

\* Both invariants, from the first state and in every step.
LEMMA InitAnnounced == Init => PipelineInv /\ Announced
BY InitType, InitPaid DEF PipelineInv, Announced, Init, Book!Init

LEMMA NextPipeline ==
  ASSUME PipelineInv, Announced, [Next]_vars
  PROVE  PipelineInv' /\ Announced'
BY NextType, NextPaid, NextAnnounced DEF PipelineInv

\* The worker acknowledges an event when Handle has returned nil
\* (cmd/worker/main.go): from then on nothing of it can be missing, for any
\* losses, repetitions and reorderings on the way.
THEOREM HandledAlwaysCounted == Spec => []HandledIsCounted
BY AppliedIsCounted, InitAnnounced, NextPipeline, PTL DEF Spec

\* From the webhook to the bonus, for any accepted webhooks, clauses and
\* losses on the way: nothing is paid that no accepted webhook calls for, what is
\* reported as handled is counted, and when all of them are acknowledged exactly
\* what they call for is paid ("at-least-once everywhere, idempotent consumers",
\* 05_ARCHITECTURE_DIAGRAM.md:106).
THEOREM AlwaysPaidAsAccepted == Spec => []PaidAsAccepted
<1>1. PipelineInv /\ Announced => PaidAsAccepted
  BY PaidIsOwed, OwedIsPaid, AppliedIsCounted DEF PaidAsAccepted
<1> QED
  BY <1>1, InitAnnounced, NextPipeline, PTL DEF Spec
=============================================================================
