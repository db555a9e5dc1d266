----------------------------- MODULE AdvanceLoop -----------------------------
(***************************************************************************)
(* domain.Advance as it runs: two loops over k with machine integers that  *)
(* end at MaxInt (of an int64 in the program) and wrap around there.  The  *)
(* question is when the loops stop and that they then return what the      *)
(* closed form of module Tranche says.                                     *)
(***************************************************************************)
EXTENDS Tranche, Sequences, SequencesExt

CONSTANTS MaxInt,     \* the largest int64
          Stored,     \* values of oldProgress
          Observed,   \* values of newValue
          Target,     \* values of target
          Tranches,   \* values of tranche, zero and negative ones included
          Repeats     \* values of maxRepeats

\* How many machine integers there are, and which.
Modulus == 2 * (MaxInt + 1)
Int64 == - MaxInt - 1 .. MaxInt

\* All columns and the event's value are int64.
MachineIntegers ==
  /\ MaxInt \in Nat /\ MaxInt > 0
  /\ Stored \subseteq Int64 /\ Observed \subseteq Int64
  /\ Target \subseteq Int64 /\ Tranches \subseteq Int64 /\ Repeats \subseteq Int64

ASSUME IntAssumption == MachineIntegers

VARIABLES oldProgress, newValue,   \* the arguments
          clause,     \* target, tranche, maxRepeats
          pc,         \* "crossing", "looking", "done"
          k,          \* loop counter
          crossed,    \* the slice, in the order of the appends
          result      \* what is returned

loopVars == <<oldProgress, newValue, clause, pc, k, crossed, result>>

\* Two's complement wrap-around.
Wrap(n) == ((n + MaxInt + 1) % Modulus) - MaxInt - 1

NoResult == [state |-> "none"]

\* BOUND: appends after which the process is out of memory; a loop that gets
\* there has wrapped around and never returns.
MaxSlice == Modulus

LoopTypeOK ==
  /\ oldProgress \in Int64 /\ newValue \in Int64
  /\ clause \in [target : Int64, tranche : Int64, maxRepeats : Int64]
  /\ pc \in {"crossing", "looking", "done"}
  /\ k \in Int64
  /\ crossed \in Seq(Int64)
  /\ result = NoResult \/ (result.progress \in Int64 /\ result.state \in States)

LoopInit ==
  /\ oldProgress \in Stored
  /\ newValue \in Observed
  /\ clause \in [target : Target, tranche : Tranches, maxRepeats : Repeats]
  /\ pc = "crossing"
  /\ k = 0
  /\ crossed = <<>>
  /\ result = NoResult

Progress == Raised(oldProgress, newValue)
BoundaryAt(n) == Wrap(clause.target + Wrap(n * Stride(clause)))
\* Mutant of PastCap: the cap is not consulted.
PastCapNever == FALSE

PastCap == ~ Allowed(clause, k)
Bound   == BoundaryAt(k)

Input == <<oldProgress, newValue, clause>>

\* Mutant of Collect: b >= oldProgress.
CollectReached ==
  /\ pc = "crossing"
  /\ ~ PastCap
  /\ Bound <= Progress
  /\ Len(crossed) < MaxSlice
  /\ crossed' = IF Bound >= oldProgress THEN Append(crossed, Bound) ELSE crossed
  /\ k' = Wrap(k + 1)
  /\ UNCHANGED <<Input, pc, result>>

\* First loop: collect the boundaries in (oldProgress, progress].
Collect ==
  /\ pc = "crossing"
  /\ ~ PastCap
  /\ Bound <= Progress
  /\ Len(crossed) < MaxSlice
  /\ crossed' = IF Bound > oldProgress THEN Append(crossed, Bound) ELSE crossed
  /\ k' = Wrap(k + 1)
  /\ UNCHANGED <<Input, pc, result>>

EndCollect ==
  /\ pc = "crossing"
  /\ PastCap \/ Bound > Progress
  /\ pc' = "looking"
  /\ k' = 0
  /\ UNCHANGED <<Input, crossed, result>>

\* Second loop: the smallest boundary ahead of progress.
Look ==
  /\ pc = "looking"
  /\ ~ PastCap
  /\ Bound <= Progress
  /\ k' = Wrap(k + 1)
  /\ UNCHANGED <<Input, pc, crossed, result>>

\* Mutant of SwitchState: the inner switch assigns nothing.
SwitchUnset(hasNext) == IF crossed # <<>> \/ ~ hasNext THEN Fulfilled ELSE ""

\* The state switch, with machine arithmetic.
SwitchState(hasNext) ==
  LET prev     == IF k > 0 THEN BoundaryAt(k - 1) ELSE 0
      gap      == Wrap(Bound - prev)
      distance == Wrap(Bound - Progress)
  IN  IF crossed # <<>> \/ ~ hasNext THEN Fulfilled
      ELSE IF distance <= 2 THEN Hot
      ELSE IF Wrap(distance * 2) <= gap THEN Warm
      ELSE Quiet

Return ==
  /\ pc = "looking"
  /\ PastCap \/ Bound > Progress
  /\ result' = [progress |-> Progress, state |-> SwitchState(~ PastCap)]
  /\ pc' = "done"
  /\ UNCHANGED <<Input, k, crossed>>

LoopNext == Collect \/ EndCollect \/ Look \/ Return

LoopSpec == LoopInit /\ [][LoopNext]_loopVars /\ WF_loopVars(LoopNext)

------------------------------------------------------------------------------
\* No number the function computes leaves the machine's range: the index of the
\* first boundary ahead of progress, that boundary and twice the distance to it;
\* or the cap ends the loops before.
Fits ==
  LET n == NextK(clause, Progress)
  IN  \/ /\ n <= MaxInt /\ Boundary(clause, n) <= MaxInt
         /\ 2 * (Boundary(clause, n) - Progress) <= MaxInt
      \/ /\ clause.maxRepeats \in 0 .. MaxInt - 1
         /\ Boundary(clause, clause.maxRepeats) <= Progress

\* Within the range, a return of Advance is the closed form of Tranche:
\* every boundary in (old, progress] once, in ascending order, and the state
\* of the switch.
ReturnsAdvance ==
  pc = "done" /\ Fits =>
    LET a == Advance(clause, oldProgress, newValue)
    IN  /\ result = [progress |-> a.progress, state |-> a.state]
        /\ ToSet(crossed) = a.crossed
        /\ \A i, j \in DOMAIN crossed : i < j => crossed[i] < crossed[j]

\* Within the range neither loop turns more often than there are boundaries up to
\* progress, or than the cap allows; so its counter does not wrap around.
LoopsAreBounded ==
  Fits => /\ k \in 0 .. NextK(clause, Progress)
          /\ clause.maxRepeats >= 0 => k <= clause.maxRepeats + 1

\* A capped milestone comes to a return, unless its cap is the largest integer,
\* which no k exceeds; an unlimited one does when the boundary ahead of progress
\* is representable.  On the way there LoopsAreBounded holds.
Terminates ==
  [](/\ LoopsAreBounded
     /\ Fits \/ clause.maxRepeats \in 0 .. MaxInt - 1 => <>(pc = "done"))
=============================================================================
