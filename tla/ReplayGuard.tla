----------------------------- MODULE ReplayGuard -----------------------------
(***************************************************************************)
(* The time-stamp check of internal/ingest/verify.go on machine integers,  *)
(* in whole seconds.  Seconds since 1970 are moved to the year 1 in an     *)
(* int64 that wraps around; a difference is a Duration, an int64 of        *)
(* nanoseconds, which holds far less and saturates.                        *)
(***************************************************************************)
EXTENDS Integers

CONSTANTS
  SecondMax,     \* largest int64
  Epoch,         \* seconds from the year 1 to 1970
  DurationMax,   \* largest Duration, in seconds (292 years)
  MaxSkew        \* 300

ASSUME GuardAssumption ==
  /\ SecondMax \in Nat /\ Epoch \in Nat /\ DurationMax \in Nat /\ MaxSkew \in Nat
  /\ MaxSkew < DurationMax /\ DurationMax < SecondMax

\* time.Unix(unix, 0)
Unix(unix) ==
  ((unix + Epoch + SecondMax + 1) % (2 * (SecondMax + 1))) - (SecondMax + 1)

DurationMin == - DurationMax - 1

\* t.Sub(u)
Sub(t, u) == IF t - u > DurationMax THEN DurationMax
             ELSE IF t - u < DurationMin THEN DurationMin
             ELSE t - u

\* -d of a machine integer
Negated(d) == IF d = DurationMin THEN DurationMin ELSE - d

\* Mutant of Skew: the sign is left alone.
SkewSigned(unix, now) == Sub(Unix(now), Unix(unix))

\* d after `if d < 0'
Skew(unix, now) ==
  LET d == Sub(Unix(now), Unix(unix))
  IN  IF d < 0 THEN Negated(d) ELSE d

CheckTimestamp(unix, now) == Skew(unix, now) <= MaxSkew
=============================================================================
