-------------------------------- MODULE MCClub --------------------------------
(***************************************************************************)
(* Two clicks for one player, one for another, one for an athlete that     *)
(* does not exist and one that does not parse.                             *)
(***************************************************************************)
EXTENDS Club

CONSTANTS c1, c2, c4, c5, c6

MCAbout == [c \in Click |-> CASE c = c4 -> "rafael"
                             [] c = c5 -> "nobody"
                             [] c = c6 -> "unparsed"
                             [] OTHER  -> "everton"]

MCSeed == [a \in Player |-> IF a = "everton" THEN 18 ELSE 13]
=============================================================================
