------------------------------- MODULE Pipeline -------------------------------
(***************************************************************************)
(* From an accepted webhook to a paid bonus on the screen: the parts put   *)
(* together, each as the abstract specification that it was shown to       *)
(* implement.  The relay is a Handover of the rows of the outbox to the    *)
(* bus (Relay), the worker a Handover of the stored performance events to  *)
(* the engine (Worker), a transaction of the engine an Apply of the Ledger *)
(* (Engine), and a webhook one row of the outbox (Ingest).  The engine     *)
(* writes the changes it makes to the same outbox, from where the same     *)
(* relay takes them to the subscriber of the api (Fanout).                 *)
(***************************************************************************)
EXTENDS Milestones

VARIABLES
  outbox,      \* committed rows: accepted events, and changes of milestones
  stored,      \* rows on the bus
  stamped,     \* rows with published_at set
  handled,     \* events for which Handle returned nil
  acked,       \* events the bus does not send any more
  progress, state, payouts, applied,   \* of the Ledger
  pushed       \* changes pushed to whoever is connected

vars == <<outbox, stored, stamped, handled, acked,
          progress, state, payouts, applied, pushed>>
relay == <<stored, stamped>>
worker == <<handled, acked>>
tables == <<progress, state, payouts, applied>>

\* A payload of events.milestone.  A milestone reaches a value once, so two
\* rows of the outbox are never the same change.
Changed(m, value) == [milestone |-> m, progress |-> value]

Change == UNION {{Changed(m, e.value) : m \in Concerned(e)} : e \in Event}

\* The foreign key refuses the others each time.
Known == {e \in Event : e.athlete \in Athlete}

Bus == INSTANCE Handover WITH
         Item <- Event \union Change, Hopeless <- {},
         put <- outbox, handed <- stored, done <- stamped

Queue == INSTANCE Handover WITH
           Item <- Event, Hopeless <- Event \ Known,
           put <- stored \intersect Event, handed <- handled, done <- acked

Book == INSTANCE Ledger

Init ==
  /\ Bus!Init /\ Queue!Init /\ Book!Init
  /\ pushed = {}

------------------------------------------------------------------------------
\* A webhook is accepted; the handler lets only parsed athletes through.
Accept(e) ==
  /\ e.athlete # Unparsed
  /\ Bus!Put(e)
  /\ UNCHANGED <<worker, tables, pushed>>

\* One more try of the relay for row i.
Relay(i) ==
  /\ Bus!Hand(i) \/ Bus!Done(i)
  /\ UNCHANGED <<worker, tables, pushed>>

\* Mutant of Changes: only payouts are worth telling.
ChangesPaid(e) ==
  {Changed(m, e.value) : m \in {n \in Book!Moved(e) : Payments(n, progress[n], e.value) # {}}}

\* The rows the engine adds to the outbox: one for each milestone it moves.
Changes(e) == {Changed(m, e.value) : m \in Book!Moved(e)}

\* Mutant of Handle: an event whose Handle fails may count as handled.
HandleFailed(e) ==
  /\ e \in stored
  /\ \/ Book!Apply(e) /\ outbox' = outbox \union Changes(e)
     \/ UNCHANGED <<tables, outbox>>
  /\ UNCHANGED <<relay, pushed>>
  /\ Queue!Hand(e)

\* The worker hands e to the engine, which commits.  The worker may see that
\* and acknowledge, or the answer, the process or the acknowledgement is lost
\* and e comes back.
Handle(e) ==
  /\ e \in stored
  /\ Book!Apply(e)
  /\ outbox' = outbox \union Changes(e)
  /\ UNCHANGED <<relay, pushed>>
  /\ Queue!Hand(e) \/ UNCHANGED worker

\* The subscriber of the api gets a change, at least once and in any order.
Push(c) ==
  /\ c \in stored
  /\ pushed' = pushed \union {c}
  /\ UNCHANGED <<outbox, relay, worker, tables>>

Next ==
  \/ \E e \in Event : Accept(e)
  \/ \E i \in Event \union Change : Relay(i)
  \/ \E e \in Event : Handle(e)
  \/ \E c \in Change : Push(c)

\* What the parts promise: a row of the outbox and an event that can be applied
\* do not stay behind (Handover!Delivers of Relay and Worker), and the
\* subscriber comes to the end of each message (FanoutFinishes).
Spec == /\ Init /\ [][Next]_vars
        /\ \A i \in Event \union Change : WF_vars(Relay(i))
        /\ \A e \in Event : WF_vars(Handle(e))
        /\ \A c \in Change : WF_vars(Push(c))

------------------------------------------------------------------------------
Accepted == outbox \intersect Event

TypeOK ==
  /\ outbox \subseteq Event \union Change
  /\ stamped \subseteq stored /\ stored \subseteq outbox
  /\ acked \subseteq handled /\ handled \subseteq applied
  /\ applied \subseteq Known \intersect stored
  /\ progress \in [Milestone -> Int] /\ state \in [Milestone -> States]
  /\ payouts \subseteq Milestone \X Int
  /\ pushed \subseteq Change \intersect stored

\* What is owed for the accepted webhooks, whatever order they came in.
Owed == UNION {UNION {Payments(m, Start[m], e.value) : m \in Concerned(e)} : e \in Accepted}

Best(m, p) == /\ \A e \in Accepted \intersect Known : m \in Concerned(e) => e.value <= p
              /\ \/ p = Start[m]
                 \/ \E e \in Accepted : m \in Concerned(e) /\ e.value = p

\* What Handle reported as done, so that the bus may forget it, has left nothing
\* undone: the milestones have its value, the boundaries up to it are paid, and
\* the outbox holds the change to where each of them stands now.
HandledIsCounted ==
  \A e \in handled : \A m \in Concerned(e) :
    /\ e.value <= progress[m]
    /\ Payments(m, Start[m], e.value) \subseteq payouts
    /\ e.value > Start[m] => Changed(m, progress[m]) \in outbox

\* Nothing is paid that no accepted webhook calls for, and what is reported as
\* done is counted; and when each of them has been acknowledged, exactly that is
\* paid and the milestones stand at the best values: the order, the retries and
\* the losses on the way leave no trace.
PaidAsAccepted ==
  /\ payouts \subseteq Owed
  /\ HandledIsCounted
  /\ Accepted \intersect Known \subseteq acked =>
       payouts = Owed /\ \A m \in Milestone : Best(m, progress[m])

\* An accepted webhook of a player under contract is counted in the end: its
\* milestones have reached its value, the boundaries up to it are paid, and a
\* change that shows a progress not below it has been pushed.
Counted(e) ==
  \A m \in Concerned(e) :
    /\ e.value <= progress[m]
    /\ Payments(m, Start[m], e.value) \subseteq payouts
    /\ e.value > Start[m] => \E c \in pushed : c.milestone = m /\ c.progress >= e.value

AcceptedIsCounted == \A e \in Known : e \in outbox ~> Counted(e)
=============================================================================
