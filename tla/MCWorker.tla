------------------------------- MODULE MCWorker -------------------------------
(***************************************************************************)
(* Four messages on two partitions with room for one delivery each: two of *)
(* one athlete, one of an athlete that does not exist (on the same         *)
(* partition), and one whose athlete_id is empty.                          *)
(***************************************************************************)
EXTENDS Worker

MCText == <<"nobody", "everton", "everton", "">>
MCHash == [text \in {"everton", "nobody"} |-> 7]
=============================================================================
