----------------------------- MODULE MCAdvanceLoop -----------------------------
(***************************************************************************)
(* AdvanceLoop on 5-bit integers: small enough that wrap-around happens,   *)
(* large enough that two or more boundaries fit below it.                  *)
(***************************************************************************)
EXTENDS AdvanceLoop

MCStored   == {-16, -3} \union 0 .. 6 \union {13, 15}
MCObserved == {-16, -1} \union 0 .. 8 \union {13, 15}
MCTarget   == {-16, -2} \union 0 .. 6
MCTranches == {-16, 15} \union 0 .. 5
MCRepeats  == -1 .. 2 \union {15}
=============================================================================
