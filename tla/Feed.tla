--------------------------------- MODULE Feed ---------------------------------
(***************************************************************************)
(* A page of the player (web/index.html): it asks for the milestones, then *)
(* for the history of its events, then opens the WebSocket; each message   *)
(* is shown and asks for the milestones again.  Meanwhile the engine       *)
(* commits events to the outbox and the relay and the subscriber push them *)
(* to whoever is connected.  The club's page (web/club.html) does the same *)
(* with the roster and the events of all players, so none is Foreign.      *)
(*                                                                         *)
(* Each event moves the progress by one.  Events are numbered by           *)
(* created_at; they may commit and be pushed in another order.             *)
(***************************************************************************)
EXTENDS Naturals, FiniteSets, Sequences, Functions

CONSTANTS
  Count,       \* number of events of the athlete
  Foreign,     \* events whose athlete_id is not spelled as uuid prints it
  Limit,       \* of the history (50)
  Backlog,     \* messages on their way to the page before the hub drops (32)
  MaxFaults    \* BOUND: lost connections, redeliveries, requests that fail

Event == 1 .. Count

ASSUME FeedAssumption ==
  /\ Count \in Nat /\ Foreign \subseteq Event
  /\ Limit \in Nat \ {0} /\ Backlog \in Nat \ {0} /\ MaxFaults \in Nat

VARIABLES
  committed,   \* events in the outbox and in the milestone's progress
  newest,      \* the one that was committed last, or 0 (history)
  announced,   \* events pushed at least once
  pc,          \* the page: "booting", "loading", "connecting", "live", "closed",
               \* "dead"
  arriving,    \* messages on their way to the page
  shown,       \* events in the page's feed
  streamed,    \* those that came over the WebSocket
  panel,       \* the progress the page shows, 0 if none
  asked,       \* requests for the milestones not served yet
  answers,     \* answers[v]: answers with progress v on their way
  before,      \* events committed when the history was read (history)
  owed,        \* events the hub queued for the page and did not lose (history)
  seen,        \* the highest progress the page has shown (history)
  overtaken,   \* was the answer shown last older than one shown before? (history)
  failed,      \* has a request for the milestones failed? (history)
  faults

pageVars == <<committed, newest, announced, pc, arriving, shown, streamed, panel,
              asked, answers, before, owed, seen, overtaken, failed, faults>>
events == <<committed, newest, announced>>
socket == <<pc, arriving, owed>>
feed == <<shown, streamed, before>>
progressBar == <<panel, asked, answers, seen, overtaken, failed>>

PageInit ==
  /\ committed = {} /\ newest = 0 /\ announced = {}
  /\ pc = "booting" /\ arriving = <<>>
  /\ shown = {} /\ streamed = {} /\ before = {} /\ owed = {}
  /\ panel = 0 /\ asked = 0 /\ answers = [v \in 0 .. Count |-> 0]
  /\ seen = 0 /\ overtaken = FALSE /\ failed = FALSE /\ faults = 0

Fault == faults < MaxFaults /\ faults' = faults + 1

Progress == Cardinality(committed)

------------------------------------------------------------------------------
Commit(i) ==
  /\ i \notin committed
  /\ committed' = committed \union {i}
  /\ newest' = i
  /\ UNCHANGED <<announced, socket, feed, progressBar, faults>>

\* Mutant of Push: the queue has no bound.
PushUnbounded(i) ==
  /\ i \in committed
  /\ IF i \in announced THEN Fault ELSE UNCHANGED faults
  /\ announced' = announced \union {i}
  /\ IF pc = "live"
       THEN arriving' = Append(arriving, i) /\ owed' = owed \union {i}
       ELSE UNCHANGED <<arriving, owed>>
  /\ UNCHANGED <<committed, newest, pc, feed, progressBar>>

\* The subscriber pushes to the page if it is in the hub and has room.
Push(i) ==
  /\ i \in committed
  /\ IF i \in announced THEN Fault ELSE UNCHANGED faults
  /\ announced' = announced \union {i}
  /\ IF pc = "live" /\ Len(arriving) < Backlog
       THEN arriving' = Append(arriving, i) /\ owed' = owed \union {i}
       ELSE UNCHANGED <<arriving, owed>>
  /\ UNCHANGED <<committed, newest, pc, feed, progressBar>>

------------------------------------------------------------------------------
\* boot: refresh and wait for it.
Boot ==
  /\ pc = "booting"
  /\ panel' = Progress
  /\ seen' = Progress
  /\ pc' = "loading"
  /\ UNCHANGED <<events, arriving, owed, feed, asked, answers, overtaken, failed,
                 faults>>

\* It is answered 500: no milestones, and on with the history.
BootRefused ==
  /\ pc = "booting"
  /\ Fault
  /\ pc' = "loading"
  /\ UNCHANGED <<events, arriving, owed, feed, progressBar>>

\* A request does not get through: the page stays as it is, without a socket.
BootFails ==
  /\ pc \in {"booting", "loading"}
  /\ Fault
  /\ pc' = "dead"
  /\ UNCHANGED <<events, arriving, owed, feed, progressBar>>

\* ORDER BY created_at DESC LIMIT n
Newest(S, n) == {i \in S : Cardinality({j \in S : j > i}) < n}

\* Mutant of History: what was published.
HistoryPublished == Newest((committed \intersect announced) \ Foreign, Limit)

\* ListRecentMilestoneEventsForAthlete: payload->>'athlete_id' = the uuid as
\* printed, published or not.
History == Newest(committed \ Foreign, Limit)

LoadHistory ==
  /\ pc = "loading"
  /\ shown' = History
  /\ before' = committed
  /\ pc' = "connecting"
  /\ UNCHANGED <<events, arriving, owed, streamed, progressBar, faults>>

\* It is answered 500: no history, and on with the socket.
HistoryRefused ==
  /\ pc = "loading"
  /\ Fault
  /\ pc' = "connecting"
  /\ UNCHANGED <<events, arriving, owed, feed, progressBar>>

Connect ==
  /\ pc = "connecting"
  /\ pc' = "live"
  /\ UNCHANGED <<events, arriving, owed, feed, progressBar, faults>>

\* The connection breaks, with what was on its way.
Close ==
  /\ pc = "live"
  /\ Fault
  /\ pc' = "closed"
  /\ arriving' = <<>>
  /\ owed' = owed \ Range(arriving)
  /\ UNCHANGED <<events, feed, progressBar>>

\* onclose after 1.5 s: the socket only, not the history.
Reconnect ==
  /\ pc = "closed"
  /\ pc' = "connecting"
  /\ UNCHANGED <<events, arriving, owed, feed, progressBar, faults>>

\* Mutant of OnMessage: the milestones are not asked for.
OnMessageQuiet ==
  /\ arriving # <<>>
  /\ shown' = shown \union {Head(arriving)}
  /\ streamed' = streamed \union {Head(arriving)}
  /\ arriving' = Tail(arriving)
  /\ UNCHANGED <<events, pc, owed, before, progressBar, faults>>

\* renderEvent, and refresh without waiting for it.
OnMessage ==
  /\ arriving # <<>>
  /\ shown' = shown \union {Head(arriving)}
  /\ streamed' = streamed \union {Head(arriving)}
  /\ arriving' = Tail(arriving)
  /\ asked' = asked + 1
  /\ overtaken' = FALSE /\ failed' = FALSE
  /\ UNCHANGED <<events, pc, owed, before, panel, answers, seen, faults>>

\* The list handler reads the milestones.
Serve ==
  /\ asked > 0
  /\ asked' = asked - 1
  /\ answers' = [answers EXCEPT ![Progress] = @ + 1]
  /\ UNCHANGED <<events, socket, feed, panel, seen, overtaken, failed, faults>>

\* It answers 500, which is shown as no milestones.
ServeFails ==
  /\ asked > 0
  /\ Fault
  /\ asked' = asked - 1
  /\ panel' = 0
  /\ failed' = TRUE
  /\ UNCHANGED <<events, socket, feed, answers, seen, overtaken>>

\* A refresh is two requests, and one of them does not get through, or its answer
\* does not: nobody waits for the promise that is rejected, the panel stays as it
\* is, and nothing asks again before the next message.
RefreshLost ==
  /\ Fault
  /\ \/ asked > 0 /\ asked' = asked - 1 /\ UNCHANGED answers
     \/ \E v \in 0 .. Count : /\ answers[v] > 0
                              /\ answers' = [answers EXCEPT ![v] = @ - 1]
                              /\ UNCHANGED asked
  /\ failed' = TRUE
  /\ UNCHANGED <<events, socket, feed, panel, seen, overtaken>>

\* Answers arrive in any order, and the one that arrives last is shown.
Render(v) ==
  /\ answers[v] > 0
  /\ answers' = [answers EXCEPT ![v] = @ - 1]
  /\ panel' = v
  /\ overtaken' = (v < seen)
  /\ seen' = IF v > seen THEN v ELSE seen
  /\ UNCHANGED <<events, socket, feed, asked, failed, faults>>

PageNext ==
  \/ \E i \in Event : Commit(i) \/ Push(i)
  \/ Boot \/ BootRefused \/ BootFails
  \/ LoadHistory \/ HistoryRefused
  \/ Connect \/ Close \/ Reconnect
  \/ OnMessage \/ Serve \/ ServeFails \/ RefreshLost
  \/ \E v \in 0 .. Count : Render(v)

\* The page's script runs, requests are served and answered, a committed event
\* is pushed once at least; that faults end is the bound MaxFaults.
PageSpec == /\ PageInit /\ [][PageNext]_pageVars
            /\ \A i \in Event : WF_pageVars(i \notin announced /\ Push(i))
            /\ WF_pageVars(Boot) /\ WF_pageVars(LoadHistory)
            /\ WF_pageVars(Connect) /\ WF_pageVars(Reconnect)
            /\ WF_pageVars(OnMessage) /\ WF_pageVars(Serve)
            /\ \A v \in 0 .. Count : WF_pageVars(Render(v))

------------------------------------------------------------------------------
PageTypeOK ==
  /\ committed \subseteq Event /\ newest \in 0 .. Count /\ announced \subseteq committed
  /\ pc \in {"booting", "loading", "connecting", "live", "closed", "dead"}
  /\ arriving \in Seq(announced) /\ Len(arriving) <= Backlog
  /\ streamed \subseteq shown /\ shown \subseteq committed
  /\ panel \in 0 .. Count /\ asked \in Nat /\ answers \in [0 .. Count -> Nat]
  /\ before \subseteq committed /\ owed \subseteq announced
  /\ seen \in panel .. Progress /\ faults \in 0 .. MaxFaults
  /\ overtaken \in BOOLEAN /\ failed \in BOOLEAN

\* Among the newest of the athlete's own spelling when the history was read.
Recent(i) == i \in before \ Foreign /\ Cardinality({j \in before \ Foreign : j > i}) < Limit

\* What the page has to show is in its feed: the newest events as of the history,
\* and what the hub queued for it, unless that is still on its way.
NoSilentGap ==
  \A i \in Event : /\ Recent(i) => i \in shown
                   /\ i \in owed => i \in shown \union Range(arriving)

\* Since the last message a refresh failed, or the progress was shown and then an
\* older answer came.
LeftBehind == failed \/ (overtaken /\ seen = Progress)

\* When the event that was committed last came over the WebSocket, the panel has
\* the progress with it, or that is coming: the milestones are asked for, or an
\* answer with it is on its way.
ProgressIsComing ==
  newest \in streamed =>
    asked > 0 \/ answers[Progress] > 0 \/ panel = Progress \/ LeftBehind

\* The feed has no other gaps than these: an event that was not committed when
\* the history was read and was pushed while the page was not in the hub, lost
\* with a connection or dropped on a full queue; and of the older ones, those
\* spelled otherwise or beyond the limit.  At no time is one of the others missing
\* that is not on its way.
FeedIsComplete ==
  [](/\ NoSilentGap
     /\ \A i \in Event : <>[](Recent(i) \/ i \in owed => i \in shown))

\* When the event that was committed last came over the WebSocket, the panel ends
\* with the progress after it, and until then that is on its way; it is left behind
\* only by a refresh that failed or, since nothing orders the answers to two
\* refreshes, by an older answer that came after one with the progress.
PanelCatchesUp ==
  [](/\ ProgressIsComing
     /\ <>[](newest \in streamed => panel = Progress \/ LeftBehind))
=============================================================================
