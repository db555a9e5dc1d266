------------------------------ MODULE MCContracts ------------------------------
(***************************************************************************)
(* Four requests of two athletes and of nobody, who name their own and     *)
(* each other's contracts and documents, at the same time.                 *)
(***************************************************************************)
EXTENDS Contracts, TLC

CONSTANTS r1, r2, r3, r4

Ask(op, athlete, target) == [op |-> op, athlete |-> athlete, target |-> target]

MCOwnerOf == [c \in Contract |-> "everton"]

MCCall ==
  {Ask("contracts", "everton", "none"), Ask("clauses", "rafael", "c1")}
    \union {Ask("upload", "everton", t) : t \in {"c1", "unlinked", "missing"}}
    \union {Ask("upload", "rafael", "c1")}
    \union {Ask(op, "everton", "d1") : op \in {"get", "text", "remove"}}
    \union {Ask("remove", "rafael", "d1"), Ask("text", "rafael", "d1"),
            Ask("list", "rafael", "none"),
            Ask("contracts", "nobody", "none"), Ask("text", "everton", "none")}

Requests == Permutations(Request)
=============================================================================
