------------------------------- MODULE MCFanout -------------------------------
(***************************************************************************)
(* One player, one club viewer, and messages about two athletes; a channel *)
(* of one message, so that it is full as soon as the writer is slow.       *)
(***************************************************************************)
EXTENDS Fanout

CONSTANTS p1, p2, v1

MCAthleteOf == [c \in Player |-> IF c = p1 THEN "everton" ELSE "rafael"]
=============================================================================
