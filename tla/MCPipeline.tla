------------------------------ MODULE MCPipeline ------------------------------
(***************************************************************************)
(* Two appearance clauses of one player; his second number pays one of     *)
(* them and moves the other without paying.  One event names an athlete that *)
(* does not exist and one does not parse.                                  *)
(***************************************************************************)
EXTENDS Pipeline

CONSTANTS m1, m2

Bonus(target, tranche, max) ==
  [athlete |-> "everton", metric |-> "appearances", target |-> target,
   tranche |-> tranche, maxRepeats |-> max]

MCClause == [m \in Milestone |-> IF m = m1 THEN Bonus(2, 3, -1) ELSE Bonus(7, 1, 1)]
MCStart  == [m \in Milestone |-> IF m = m1 THEN 1 ELSE 3]
MCStartState == [m \in Milestone |-> IF m = m1 THEN Hot ELSE Quiet]

Sent(source, athlete, value) ==
  [source |-> source, athlete |-> athlete, text |-> "lower",
   metric |-> "appearances", value |-> value]

MCEvent == {Sent("e1", "everton", 2), Sent("e2", "everton", 6),
            Sent("e3", "nobody", 9), Sent("e4", "unparsed", 9)}
=============================================================================
