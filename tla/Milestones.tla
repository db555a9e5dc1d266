------------------------------ MODULE Milestones ------------------------------
(***************************************************************************)
(* What the engine and its abstract specification share: the rows of the   *)
(* tables milestone and athlete that never change, and the performance     *)
(* events.  An event stands for one accepted webhook.                      *)
(***************************************************************************)
EXTENDS Tranche, FiniteSets

CONSTANTS
  Milestone,   \* ids of the milestone rows
  Clause,      \* a row's athlete, metric, target, tranche and maxRepeats
  Athlete,     \* the rows of athlete: what the foreign key accepts
  Unparsed,    \* the athlete of an event whose payload or uuid does not parse
  Event,       \* source, athlete, text (as athlete_id is spelled), metric, value
  Start,       \* progress of a row when it was inserted (0002, 0003)
  StartState   \* and its state

ASSUME ClauseAssumption ==
  Clause \in [Milestone -> [athlete : Athlete, metric : STRING, target : Int,
                            tranche : Int, maxRepeats : Int]]

ASSUME StartAssumption ==
  Start \in [Milestone -> Int] /\ StartState \in [Milestone -> States]

ASSUME EventAssumption ==
  \A e \in Event : e.value \in Int

\* inbound_event has source_event_id as its primary key, so a source names one
\* accepted webhook.
ASSUME SourceAssumption ==
  \A e, f \in Event : e.source = f.source => e = f

ASSUME UnparsedAssumption == Unparsed \notin Athlete

\* WHERE athlete_id = $1 AND metric = $2
Concerned(e) == {m \in Milestone : /\ Clause[m].athlete = e.athlete
                                   /\ Clause[m].metric = e.metric}

\* The keys (milestone_id, boundary) of payout_event due when m goes from old
\* to new.
Payments(m, old, new) == {<<m, b>> : b \in Crossed(Clause[m], old, new)}
=============================================================================
