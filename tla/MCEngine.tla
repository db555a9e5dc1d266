------------------------------- MODULE MCEngine -------------------------------
(***************************************************************************)
(* One athlete with two appearance clauses (an unlimited one and one that  *)
(* pays once more after its target) and one goals clause, two sessions.    *)
(* The values jump over one, two and no boundaries, and arrive in every    *)
(* order.                                                                  *)
(***************************************************************************)
EXTENDS Engine, TLC

CONSTANTS m1, m2, m3, w1, w2

Row3(a, b, c) == [m \in Milestone |-> CASE m = m1 -> a [] m = m2 -> b [] m = m3 -> c]

Bonus(metric, target, tranche, max) ==
  [athlete |-> "everton", metric |-> metric, target |-> target,
   tranche |-> tranche, maxRepeats |-> max]

MCClause == Row3(Bonus("appearances", 2, 3, -1),
                 Bonus("appearances", 5, 1, 1),
                 Bonus("goals", 1, 2, 0))
MCStart      == Row3(1, 0, 0)
MCStartState == Row3(Hot, Quiet, Hot)

Sent(source, athlete, metric, value) ==
  [source |-> source, athlete |-> athlete, text |-> "lower",
   metric |-> metric, value |-> value]

MCEvent == {Sent("e1", "everton", "appearances", 2),
            Sent("e2", "everton", "appearances", 6),
            Sent("e3", "everton", "goals", 1),
            Sent("e4", "nobody", "appearances", 9),
            Sent("e5", "unparsed", "appearances", 9)}

Sessions == Permutations(Worker)

\* A session of a killed process is still open while its successor works.
MCServes == [t \in {"lower"} |-> Worker]

------------------------------------------------------------------------------
\* The same athlete spelled in two ways hashes to two goroutines.
Spelled(source, text, value) ==
  [source |-> source, athlete |-> "everton", text |-> text,
   metric |-> "appearances", value |-> value]

TwoSpellings == {Spelled("e1", "lower", 2), Spelled("e2", "UPPER", 6)}
TwoGoroutines == [t \in {"lower", "UPPER"} |-> IF t = "lower" THEN {w1} ELSE {w2}]
OneClause == [m \in Milestone |-> Bonus("appearances", 2, 3, -1)]
FromZero  == [m \in Milestone |-> 0]
FromHot   == [m \in Milestone |-> Hot]
=============================================================================
