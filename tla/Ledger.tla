-------------------------------- MODULE Ledger --------------------------------
(***************************************************************************)
(* What the engine promises, with no transactions, workers or messages: an *)
(* event is applied to all the milestones it concerns in one step, and     *)
(* applying it again changes nothing.                                      *)
(***************************************************************************)
EXTENDS Milestones

VARIABLES progress, state, payouts,
          applied      \* the events applied so far

vars == <<progress, state, payouts, applied>>

Init ==
  /\ progress = Start
  /\ state = StartState
  /\ payouts = {}
  /\ applied = {}

\* The milestones event e moves forward.
Moved(e) == {m \in Concerned(e) : e.value > progress[m]}

Apply(e) ==
  /\ e.athlete \in Athlete
  /\ applied' = applied \union {e}
  /\ progress' = [m \in Milestone |->
                    IF m \in Moved(e) THEN e.value ELSE progress[m]]
  /\ state' = [m \in Milestone |->
                 IF m \in Moved(e) THEN StateAfter(Clause[m], progress[m], e.value)
                                   ELSE state[m]]
  /\ payouts' = payouts \union
       UNION {Payments(m, progress[m], e.value) : m \in Moved(e)}

Next == \E e \in Event : Apply(e)

Spec == Init /\ [][Next]_vars
=============================================================================
