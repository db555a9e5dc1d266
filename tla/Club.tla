--------------------------------- MODULE Club ---------------------------------
(***************************************************************************)
(* The club console (internal/club/handler.go): "record appearance" counts *)
(* one up in appearance_counter and forwards the number as a signed        *)
(* webhook, which the pipeline applies later, in any order and more than   *)
(* once.  Clicks run at the same time and their calls may fail.            *)
(*                                                                         *)
(* The pipeline is seen from here only by what it does to the progress of  *)
(* the player's appearances milestone: module Engine.                      *)
(***************************************************************************)
EXTENDS Naturals, FiniteSets

CONSTANTS
  Click,       \* requests to /club/record-appearance
  Player,      \* athletes under contract
  About,       \* About[c]: the athlete_id of click c
  Seed,        \* Seed[a]: the literal of migration 0004, the seeded progress
  UsedBefore   \* appearances recorded before migration 0004 was applied

ASSUME ClubAssumption == Seed \in [Player -> Nat] /\ UsedBefore \subseteq Nat

VARIABLES
  counter,     \* appearance_counter.value
  progress,    \* milestone.progress
  origin,      \* progress when the migration was applied (history)
  sent,        \* accepted webhooks: the click and its number
  click        \* click[c]: where the handler is, its number, its answer

clubVars == <<counter, progress, origin, sent, click>>

\* INSERT INTO appearance_counter ... VALUES (..., 18), (..., 13)
Migrated == Seed

ClubInit ==
  /\ \E used \in UsedBefore : progress = [a \in Player |-> Seed[a] + used]
  /\ origin = progress
  /\ counter = Migrated
  /\ sent = {}
  /\ click = [c \in Click |-> [pc |-> "new", number |-> 0, answer |-> 0]]

Answer(c, status) ==
  click' = [click EXCEPT ![c].pc = "answered", ![c].answer = status]

------------------------------------------------------------------------------
\* A body or an athlete_id that does not parse.
Reject(c) ==
  /\ click[c].pc = "new"
  /\ About[c] = "unparsed"
  /\ Answer(c, 400)
  /\ UNCHANGED <<counter, progress, origin, sent>>

\* Mutant of IncrementAppearanceCounter: what it replaced, the milestone's
\* progress plus one.
ReadThenAddOne(c) ==
  /\ click[c].pc = "new"
  /\ About[c] \in Player
  /\ counter' = [counter EXCEPT ![About[c]] = progress[About[c]] + 1]
  /\ click' = [click EXCEPT ![c].pc = "counted", ![c].number = counter'[About[c]]]
  /\ UNCHANGED <<progress, origin, sent>>

\* INSERT ... ON CONFLICT DO UPDATE SET value = value + 1 RETURNING value
IncrementAppearanceCounter(c) ==
  /\ click[c].pc = "new"
  /\ About[c] \in Player
  /\ counter' = [counter EXCEPT ![About[c]] = @ + 1]
  /\ click' = [click EXCEPT ![c].pc = "counted", ![c].number = counter'[About[c]]]
  /\ UNCHANGED <<progress, origin, sent>>

\* Mutant of IncrementFails: the error is not looked at and 0 is sent.
IncrementFailsIgnored(c) ==
  /\ click[c].pc = "new"
  /\ About[c] # "unparsed"
  /\ click' = [click EXCEPT ![c].pc = "counted"]
  /\ UNCHANGED <<counter, progress, origin, sent>>

\* The statement fails; it always does for an athlete that does not exist.
IncrementFails(c) ==
  /\ click[c].pc = "new"
  /\ About[c] # "unparsed"
  /\ Answer(c, 500)
  /\ UNCHANGED <<counter, progress, origin, sent>>

\* It took effect and its answer was lost.
IncrementUnseen(c) ==
  /\ click[c].pc = "new"
  /\ About[c] \in Player
  /\ counter' = [counter EXCEPT ![About[c]] = @ + 1]
  /\ Answer(c, 500)
  /\ UNCHANGED <<progress, origin, sent>>

Sent(c) == sent' = sent \union {[click |-> c, number |-> click[c].number]}

\* ForwardSigned: the webhook is accepted and its answer relayed.
Forward(c) ==
  /\ click[c].pc = "counted"
  /\ Sent(c)
  /\ Answer(c, 202)
  /\ UNCHANGED <<counter, progress, origin>>

\* The webhook's own refusal is relayed, and the counter stays advanced: unreadable
\* (400), a signature or a time stamp it does not accept (401), failed (500), or
\* the duplicate of one sent in the same nanosecond (200).  Or it does not get
\* through (502).
ForwardFails(c) ==
  /\ click[c].pc = "counted"
  /\ \E status \in {200, 400, 401, 500, 502} : Answer(c, status)
  /\ UNCHANGED <<counter, progress, origin, sent>>

\* The webhook is accepted but the answer to it, or to its commit, is lost.
ForwardUnseen(c) ==
  /\ click[c].pc = "counted"
  /\ Sent(c)
  /\ \E status \in {500, 502} : Answer(c, status)
  /\ UNCHANGED <<counter, progress, origin>>

\* The engine gets an accepted event, at any time after it was accepted.
Observe(s) ==
  /\ s.number > progress[About[s.click]]
  /\ progress' = [progress EXCEPT ![About[s.click]] = s.number]
  /\ UNCHANGED <<counter, origin, sent, click>>

ClubNext ==
  \/ \E c \in Click :
       \/ Reject(c)
       \/ IncrementAppearanceCounter(c) \/ IncrementFails(c) \/ IncrementUnseen(c)
       \/ Forward(c) \/ ForwardFails(c) \/ ForwardUnseen(c)
  \/ \E s \in sent : Observe(s)

ClubSpec == ClubInit /\ [][ClubNext]_clubVars

------------------------------------------------------------------------------
ClubTypeOK ==
  /\ counter \in [Player -> Nat]
  /\ progress \in [Player -> Nat]
  /\ sent \subseteq [click : Click, number : Nat \ {0}]
  /\ click \in [Click -> [pc : {"new", "counted", "answered"}, number : Nat,
                          answer : {0, 200, 202, 400, 401, 500, 502}]]

\* Nothing is under way.
Quiet == /\ \A c \in Click : click[c].pc = "answered"
         /\ \A s \in sent : s.number <= progress[About[s.click]]

AcceptedFor(a) == {c \in Click : About[c] = a /\ click[c].answer = 202}

\* Once everything has settled, each accepted click has moved the player on by
\* one appearance at least, so no two of them sent one number ("the first click
\* after this migration continues the sequence",
\* 0004_appearance_counter.up.sql:18-19).
AcceptedClicksCount ==
  Quiet => \A a \in Player :
    progress[a] >= origin[a] + Cardinality(AcceptedFor(a))
=============================================================================
