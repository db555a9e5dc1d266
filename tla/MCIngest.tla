------------------------------- MODULE MCIngest -------------------------------
(***************************************************************************)
(* A delivery and its retry with the same time stamp, both valid at first  *)
(* and stale later; a third copy stamped further ahead than a Duration     *)
(* holds; an event from a clock that is ahead; a forged copy; and a time   *)
(* stamp so far ahead that the seconds wrap around.                        *)
(***************************************************************************)
EXTENDS Ingest

CONSTANTS r1, r2, r3, r4, r5, r6

MCNames == [r \in Request |-> IF r \in {r1, r2, r3} THEN "e1" ELSE "e2"]

MCStamp == [r \in Request |-> CASE r \in {r1, r2} -> 10
                               [] r = r3 -> 30
                               [] r = r4 -> 15
                               [] r = r5 -> 12
                               [] r = r6 -> 125]

MCVerdict == [r \in Request |-> IF r = r5 THEN "forged" ELSE "valid"]
=============================================================================
