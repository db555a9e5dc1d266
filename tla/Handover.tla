------------------------------- MODULE Handover -------------------------------
(***************************************************************************)
(* What the relay and the worker promise: at least once, whatever fails in *)
(* between.  An item that was put in front of one of them is handed on,    *)
(* possibly many times and in any order, and is ticked off (published_at,  *)
(* the acknowledgement) only after that.                                   *)
(***************************************************************************)
CONSTANTS
  Item,
  Hopeless     \* items that may stay behind

VARIABLES
  put,         \* items waiting or done
  handed,      \* items handed on at least once
  done         \* items ticked off

vars == <<put, handed, done>>

Init == put = {} /\ handed = {} /\ done = {}

Put(i) ==
  /\ i \notin put
  /\ put' = put \union {i}
  /\ UNCHANGED <<handed, done>>

\* Handed on, and perhaps ticked off in the same step.
Hand(i) ==
  /\ i \in put
  /\ handed' = handed \union {i}
  /\ done' \in {done, done \union {i}}
  /\ UNCHANGED put

Done(i) ==
  /\ i \in handed
  /\ done' = done \union {i}
  /\ UNCHANGED <<put, handed>>

Next == \E i \in Item : Put(i) \/ Hand(i) \/ Done(i)

\* Nothing else stays behind.
Delivers == \A i \in Item \ Hopeless : i \in put ~> i \in done

\* What may happen, apart from what must.
Safe == Init /\ [][Next]_vars

Spec == Safe /\ Delivers
=============================================================================
