------------------------------- MODULE Tranche -------------------------------
(***************************************************************************)
(* The milestone arithmetic of internal/milestone/domain/tranche.go, in    *)
(* closed form: which payout boundaries an observed value crosses and      *)
(* which state the milestone is left in.  The loops of the Go function are *)
(* the machine AdvanceLoop, which is checked to compute these operators.   *)
(*                                                                         *)
(* A clause `c' is a record with the fields target, tranche, maxRepeats.   *)
(***************************************************************************)
EXTENDS Integers

Quiet     == "quiet"
Warm      == "warm"
Hot       == "hot"
Fulfilled == "fulfilled"
States    == {Quiet, Warm, Hot, Fulfilled}

\* A tranche that is not positive counts as 1.
Stride(c) == IF c.tranche <= 0 THEN 1 ELSE c.tranche

\* May the k-th step beyond the target still pay?  Negative: unlimited.
Allowed(c, k) == c.maxRepeats < 0 \/ k <= c.maxRepeats

Boundary(c, k) == c.target + k * Stride(c)

IsBoundary(c, b) ==
  /\ b >= c.target
  /\ (b - c.target) % Stride(c) = 0
  /\ Allowed(c, (b - c.target) \div Stride(c))

\* Mutant of Raised: the stored value is not consulted.
RaisedBlindly(old, value) == value

\* Progress never goes back.
Raised(old, value) == IF value > old THEN value ELSE old

\* The boundaries in (old, new]: each one is a payout.
Crossed(c, old, new) == {b \in (old + 1) .. new : IsBoundary(c, b)}

\* Index of the smallest boundary above progress p, the cap left aside.
NextK(c, p) == IF p < c.target THEN 0 ELSE (p - c.target) \div Stride(c) + 1

\* Mutant of Proximity: the inner switch assigns nothing.
ProximityUnset(c, p, k) == ""

\* How close progress p is to the boundary with index k, the next one.
Proximity(c, p, k) ==
  LET next     == Boundary(c, k)
      prev     == IF k > 0 THEN Boundary(c, k - 1) ELSE 0
      distance == next - p
  IN  IF distance <= 2 THEN Hot
      ELSE IF distance * 2 <= next - prev THEN Warm
      ELSE Quiet

StateAfter(c, old, new) ==
  IF Crossed(c, old, new) # {} \/ ~ Allowed(c, NextK(c, new))
    THEN Fulfilled
    ELSE Proximity(c, new, NextK(c, new))

\* domain.Advance: what an observed value makes of a milestone.
Advance(c, old, value) ==
  LET new == Raised(old, value)
  IN  [progress |-> new,
       state    |-> StateAfter(c, old, new),
       crossed  |-> Crossed(c, old, new)]
=============================================================================
