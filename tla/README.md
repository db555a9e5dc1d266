# PlayerBoard: TLA+ models, checks and proofs

PlayerBoard tracks the performance clauses of footballers' contracts. A signed
webhook reports an observed total ("20 appearances"), the milestone engine moves
the athlete's milestones to it and pays a bonus for every boundary passed, and the
change is shown live to the player and to the club. Everything in between is
asynchronous, at least once, and spread over two processes, Postgres and NATS
JetStream. This directory holds the models of that pipeline, what TLC checks about
them on small instances, and what TLAPS proves about them for all instances.

## 1. The system

    sender --HTTP--> ingest --tx--> [outbox] --relay--> events.performance
                                                             |
                                        worker: partition channels, goroutines
                                                             |
                              engine.Handle --tx--> milestone, payout_event, [outbox]
                                                             |
    player, club <--WebSocket-- hubs <-- subscriber <-- events.milestone <--relay

| Component | State it keeps | Operations | Interacts with | Hard behaviour | Correct when |
|---|---|---|---|---|---|
| milestone arithmetic (`internal/milestone/domain`) | none | `Advance` | called by the engine | two open-ended loops, caps, machine integers | every boundary in (old, new] once, progress never falls, it returns |
| milestone engine (`internal/milestone/engine.go`) | tables milestone, payout_event, performance_stat, outbox | `Handle`: one transaction per delivery | worker calls it; writes the outbox | overlapping transactions, redelivery, lost commit, deadlock, several milestones per event | a delivery is applied all or nothing, once in effect; payouts = boundaries passed |
| webhook ingest (`internal/ingest/handler.go`, `verify.go`) | tables inbound_event, outbox | `receive` | writes the outbox | concurrent duplicates, retries after lost answers, a clock that saturates | one outbox row per event id, an answer means durable, nothing from outside the replay window |
| outbox relay (`internal/ingest/outbox.go`) | published_at of the outbox rows | `drain` on a ticker | lists rows of both writers, publishes | crash between publish and mark, ids visible out of order | nothing lost, nothing marked unpublished, order of what it sees |
| bus (`internal/platform/bus`) | the stream (external) | `Publish`, `Consume`, `Subscribe` | between all of them | at least once, AckWait, MaxAckPending | see the users |
| worker dispatch (`cmd/worker`) | partition channels | callback, goroutines | bus to engine | full channels block everything, retries overtake, poisoned messages | acknowledged means handled; others progress |
| live delivery (`internal/realtime`, subscriber in `cmd/api`) | hub maps, send channels, connections | `add`, `remove`, `Push`, `Broadcast`, two pumps | bus to browsers | close against send, slow and dead clients | no panic, no block, no leak, own events only |
| club console (`internal/club`, `forward.go`, migration 0004) | appearance_counter | `recordAppearance`, reads | posts to ingest | concurrent clicks, failure between count and send | clicks never share a number, accepted clicks count |
| reads and history (`internal/milestone/handler.go`), pages (`web/index.html`, `club.html`) | what the page shows | list, recent events; boot, messages, reconnect | read milestone and outbox, fed by the hubs | history and live feed overlap or leave a gap, answers overtake each other | only the gaps one can name, the panel catches up |
| contracts, documents (`internal/contract`) | audit_log, contract_document | scoped reads, document CRUD | auth | audit after read, update of a removed row, retry after a lost answer | own rows only, audited, removed stays removed |
| auth, config, db, log, httpx, scripts | none that matters here | | | | |

## 2. The modules

| Module | Models | State corresponds to | Actions correspond to |
|---|---|---|---|
| `Tranche` | the result of `domain.Advance`, in closed form | no state | `Raised`, `Crossed`, `NextK`, `Proximity`, `StateAfter` = the parts of the function |
| `AdvanceLoop` | the same function as it runs | its locals, in machine integers up to `MaxInt` | one step per loop iteration and the return |
| `Milestones` | rows and events the engine shares with its specification | constants | `Concerned` = the WHERE of the SELECT, `Payments` = the inserts of one milestone |
| `Ledger` | abstract specification of the engine | milestone, payout_event, the set of applied events | `Apply(e)`: the whole event at once |
| `Engine` | `Engine.Handle` | tables, the outbox sequence, one transaction per database session | a step per statement: `Begin`, `InsertPerformanceStat`, `LockMilestone` (one row each), `Skip`/`Change` (one loop body), `Commit`, `CommitUnseen`, `Rollback`; `Drop` for what does not parse |
| `Handover` | abstract specification of relay and worker: at least once | what was put, handed on, ticked off | `Put`, `Hand`, `Done`, and `Delivers` |
| `ReplayGuard` | `CheckTimestamp` on machine integers | no state | `Unix`, `Sub`, `Negated` = Go's time arithmetic, `Skew` = the distance |
| `Ingest` | `Handler.receive` | inbound_event, outbox, one handler per request, the clock | `Reject`, `Begin`, `InsertInboundEvent`, `Duplicate`, `InsertOutbox`, `Commit`, `CommitUnseen`, `Fail` |
| `Relay` | `Relay.Run`/`drain` and the writers | visible and open rows, published_at, the stream, the batch | `List`, `Publish`, `Mark`, each with its failure and its lost answer |
| `Worker` | `cmd/worker` over `Bus.Consume` | unacknowledged and due messages, inbox, callback, channels, goroutines | `Receive`, `Dispatch`, `Take`, `Ack`, `Nak`, `Restart`; the server's `Send`, `SendAgain`, `Expire` |
| `Fanout` | `internal/realtime` and the subscriber | hub maps, channels, connections, two goroutines each, the fan-out's place | `Add`, `Remove`, ..., `Send` = the select of `Push` and `Broadcast` |
| `Contracts` | `internal/contract` behind the token | contract_document, audit_log, one handler per request | `Arrive` (middleware and parsing), `Read`, `Audit` and `Reply`, `Get`, `Upload`, `UpdateText`, `Remove`, their failures; `Cut` where a request ends without an answer |
| `Feed` | the script of a page, the handlers it calls | committed and pushed events, the page's socket, feed and panel, requests under way | `Boot`, `LoadHistory`, `Connect`, `Reconnect`, `OnMessage` = the script's functions; `Serve`, `Render` = a refresh, `ServeFails` and `RefreshLost` its failures; `Commit`, `Push` for the rest of the system |
| `Pipeline` | webhook to bonus, from the abstract specifications | the outbox, the stream, the ledger, what was pushed | `Accept`, `Relay`, `Handle`, `Push` |
| `Club` | `recordAppearance`, `ForwardSigned` | appearance_counter, milestone progress, accepted webhooks | `IncrementAppearanceCounter`, `Forward`, their failures, `Observe` for the engine |
| `Lemmas`, and `EngineProofs`, `IngestProofs`, `RelayProofs`, `WorkerProofs`, `FanoutProofs`, `ContractsProofs`, `PipelineProofs` | facts the proofs share; the theorems about each module and their proofs. The last parts of `EngineProofs`, `FanoutProofs` and `ContractsProofs` are about `AdvanceLoop`, `Feed` and `Club`, whose definitions carry names of their own (`LoopSpec`, `PageSpec`, `ClubSpec`, ...) so that both specifications can be in scope | | |
| `MC...` | instances for TLC | | |

How the pieces fit. `Engine` takes `Tranche` through `Milestones`; `AdvanceLoop`
justifies `Tranche` against the loops; `Ledger` is instantiated in `Engine` with
`applied <- stats`. `Ingest`, `Relay`, `Worker` and `Engine` are four stages
joined by at-least-once hand-overs, and each assumes of the one before only what that
one is checked for: `Engine` assumes nothing of its deliveries (any event, any
number of times, in any order, by any session), `Relay` lets rows appear in any
order, `Worker` lets `Handle` fail. `SourceAssumption` of `Milestones` (a source id
names one event) is `OneRowPerEvent` of `Ingest`.

`Pipeline` puts them together without their insides:

    Relay  implements  Handover  (put = committed rows, handed = stream, done = published_at)
    Worker implements  Handover  (put = sent, handed = Handle returned nil, done = acknowledged)
    Engine implements  Ledger    (applied = performance_stat)

It runs two `Handover`s and a `Ledger` in sequence: the engine's own outbox rows go
back to the first `Handover`. An application whose commit, answer or acknowledgement
is lost is an `Apply` with no `Hand`, so the same event comes again.

Modelling decisions worth knowing:

- *Postgres* runs READ COMMITTED. A transaction's writes are staged in `tx` and
  published at commit; a locked row does not change under its holder, so reading
  the table in `Change` is reading the locked row. An INSERT whose key another open
  transaction holds waits for it. A deadlock is a cycle of disabled `LockMilestone`
  steps out of which `Rollback` leads. The order the loop visits rows in is free
  (the SELECT has none), so all orders are explored.
- *Overlap.* An athlete's events normally run on one goroutine. They overlap
  when the athlete_id is spelled in two ways, or when the session of a killed worker
  is still open. `Serves` says which sessions may take which spelling.
- *A lost answer* is an action of its own beside success and failure, wherever the
  code waits for one: commits, publishes, marks, acknowledgements, the counter, the
  refresh of a page. For the audit insert it is the same step as success (`Audit`): the row is
  there, the error is only logged. The writes of `Contracts` choose between the answers
  (`Written`).
- *Hub and ClubHub* are the same code twice; `Fanout` has one set of actions over
  players and viewers, and two locks. Sends of one fan-out are free in their order,
  as iteration over a Go map is. A redelivered bus message is another message.
- *One api process.* The durable push consumer of the subscriber can be bound once, so
  a second api does not start, and there is one relay.
- *Time.* `Ingest` has a clock in seconds that runs while requests are handled; a
  Duration saturates where Go's does, on an int64 scaled down.
- *Data.* Events, athletes and payloads are values of small sets; amounts,
  currencies, JSON and wording are left out.

## 3. What TLC checks

| Run | Expect | Shows | Bounds and why they are enough |
|---|---|---|---|
| `engine` | pass | the nine properties of section 4 | two sessions, three milestones (unlimited, capped at one repeat, capped at zero), five events (one unknown athlete, one that does not parse), `MaxTx` = 3 transactions: two can overlap and a third can retry either. Values jump over no, one and two boundaries. Sessions are interchangeable, hence the symmetry |
| `engine_history` | violation | history by created_at shows a milestone going back | two sessions, two spellings, one clause |
| `advance_loop` | pass | the loops compute the closed form, in as many turns as there are boundaries, and return | 5-bit integers (`MaxInt` = 15): all values near zero, the boundaries and both ends of the range, tranches and targets from negative to large, caps -1 to 2 and the largest integer |
| `ingest` | pass | dedupe, durability of answers, the replay window, nobody waits for ever | six requests over two event ids: a delivery and its retry, in time at first and stale after the clock's one tick; a stamp beyond a Duration, one that wraps the seconds around, a sender whose clock is ahead, and a forged copy |
| `relay` | pass | at-least-once relay, refinement of `Handover` | four ids, batches of two (a full one and what the limit leaves), two faults anywhere |
| `worker` | pass | order, refinement of `Handover` | four messages (the first poisoned, the last without athlete), two partitions of capacity one (always full), three unacknowledged, two faults |
| `fanout` | pass | safety and progress of live delivery | one player and one viewer (each hub has its own lock), capacity one, two messages about two athletes |
| `club` | pass | no accepted click is lost behind another | two clicks of one player, one of another, one unknown, one garbled |
| `club_migration` | violation | the first click after migration 0004 may count nothing | one click, one appearance before |
| `contracts` | pass | tenancy, audit, the life of a document | four requests, two athletes and nobody, one contract, two document ids: a document can be uploaded, removed and updated by overlapping requests of its owner and of the other, and linked to a contract of its athlete, of the other, to none, or to one that does not exist. Requests are interchangeable, hence the symmetry |
| `feed` | pass | gaps of a feed, catching up of the panel | three events, one spelled otherwise, a history of one (so it cuts off), room for one message (so the hub drops), two faults: lost connections, redeliveries, requests refused or lost |
| `pipeline` | pass | what is paid and shown follows from what was accepted | two events of one player that cross, jump and only advance, one of an unknown athlete, one that does not parse; two clauses. No fault bound is needed: losing and repeating are part of `Handover` |

Constants named BOUND in the modules (`MaxTx`, `MaxId`, `MaxFaults`, `MaxPush`,
`MaxSlice`) exist only to end the runs. `CHECK_DEADLOCK FALSE` stands in the runs
whose system ends by itself when requests, clicks or messages are used up. In
`engine` and `worker` something can always be done (an event that does not parse
may come again, a poisoned message does), so progress is not left to the
deadlock check there: `Delivers`, in `ImplementsHandover`, states it for the worker.

## 4. The properties

Engine. `LocksProtect`: whatever a transaction has computed from a row is, until it
commits, what the row as it is now calls for, though the table moves under other
transactions. `PayoutsMatchProgress`: payout_event is exactly the boundaries between
start and progress. `ProgressIsBest`: each milestone is at the best value in
performance_stat. `AcknowledgedCounts`: an acknowledged event has been applied and
paid. `FeedFollowsTable`: the outbox, by id, is a log of the milestone table.
`PayoutsAnnounced`: each payout is accounted for by a MilestoneFulfilled, though a
jump over several boundaries announces only the last. `StateMovesWithProgress`: stale
deliveries leave a fulfilled state alone. `ImplementsLedger`: a transaction is one
indivisible `Apply`.

Arithmetic. `ReturnsAdvance`, `Terminates`: within `Fits`, that is as long as the
first boundary ahead and twice the distance to it are representable, the loops return
the closed form, after no more turns than there are boundaries up to the progress or than the
cap allows (`LoopsAreBounded`, a part of `Terminates`). A capped milestone returns always,
unless its cap is the largest int64, which no k exceeds. Outside `Fits` an unlimited milestone
may loop for ever: a value within one tranche of the largest int64 makes k*tranche
wrap around.

Ingest. `OneRowPerEvent`: an event id is one row, however many requests bring it.
`AnswersAreDurable`: "accepted" and "duplicate" are only said of what is committed, and
the accepted payload is the one on its way. `AcceptedInWindow`: what is stored was sent
within `MaxSkew` of the check, or so far ahead that the distance does not fit a Duration
(its negation is negative again; the signature still has to be right). The second half
contradicts `verify.go:22`: see the disagreements below.
`EveryRequestAnswered`: nobody waits for ever on another one's key.

Relay and worker. `ImplementsHandover`, safety and liveness: nothing is ticked off that
was not handed on, and nothing stays behind but what is hopeless. Of the worker that is
a poisoned message (an athlete that does not exist fails on the foreign key
every time and is redelivered for ever), as long as those are fewer than MaxAckPending;
otherwise everything is. `NoOvertaking` and `InOrderUnlessRetried` say what order is kept.

Live delivery. `NoSendOnClosed`: no panic of the process. `OwnEventsInOrder`: a client gets
its own messages, once each and in the order of the bus. `FanoutFinishes`: no client blocks
the others. `BrokenIsCleanedUp`: a broken connection ends, with all it had; `LeavesNothing` is
its safety half: who is in a hub has a goroutine that takes it out, and one that has ended
leaves a closed channel and a closed connection.

Club. `AcceptedClicksCount`: each accepted click moves its player on; accepted means answered
202, any other answer of the webhook (200, 400, 401, 500) being relayed to the click as it is. Other
senders of the same metric (the dev endpoints, a stats provider) are outside this
model: they can be ahead of the club's counter, and clicks then move nothing until it
has caught up.

Contracts. `TenantsAreApart`: whatever ids a request names, it sees and changes only its
athlete's rows. `RemovedStaysRemoved`: an update under way does not bring a document
back, though it is answered "analyzed". `ReadsAreAudited`: a served read has its row,
except where that insert failed, which is only logged; a row is the only one of a read whose
statement succeeded, though its answer may have been cut off since, and a refused or failed read
has none. None of these is about the contract an uploaded document is linked to: `Upload`
takes any existing id, also of another athlete's contract, as the code does, and 201 or 500
tells whether the id exists.

Page. `FeedIsComplete`: an event is missing from the feed only if it was older than the
limit or spelled otherwise when the history was read, or was pushed while the page was
not connected, to a full queue or into a breaking connection. `PanelCatchesUp`: the panel
ends with the progress of the event that was committed last, if that came over the socket, unless
since the last message a refresh failed (refused, or request or answer lost), or the progress was
shown and then an older answer came (`LeftBehind`). Without the last exception TLC refutes the
property with two events and no fault: both answers are served in order and shown in reverse.
Their parts `NoSilentGap` and `ProgressIsComing` are what holds at every moment: what has to be
in the feed is in it or on its way, and so is the progress.

End to end. `PaidAsAccepted`: nothing is paid that no accepted webhook calls for, and
when all are acknowledged the payouts and the progress are a function of the set of
accepted webhooks, not of order, retries or losses; and once `Handle` has returned nil, so that
the bus may forget the event, its milestones have its value, are paid up to it, and their change
is in the outbox (its part `HandledIsCounted`). `AcceptedIsCounted`: an
accepted webhook of a known athlete is applied, paid and pushed in the end.

### Where code and comments disagree

1. `queries/events.sql:1` calls the outbox an ordered event log; it is read by
   created_at, the start time of the transaction (`engine_history`).
2. `0004_appearance_counter.up.sql:18` seeds literals, so an upgraded database can
   restart the sequence (`club_migration`).
3. `verify.go:22` and `01_PRODUCT_AND_ARCHITECTURE.md:185` reject whatever is more than five
   minutes off; a stamp further ahead than a Duration reaches (some 292 years) passes the
   guard: `now.Sub` saturates at the smallest int64, which is its own negation and not above
   `MaxSkew`. `AcceptedInWindow` holds only with that exception: the runs store such a stamp
   if it is correctly signed, and `WindowIsExact` proves that there are no others.
4. `README-run.md:60` and `README.md:23` have the player's page follow the events live; the answers
   to two refreshes may overtake each other, and the panel then stays at the older progress until
   another message comes. `PanelCatchesUp` holds only with that exception (`overtaken`).

Comments that claim more than the properties above, which hold:

- `outbox.go:53` "preserve ordering": true of what the relay can see
  (`NoOvertaking`), not of the ids, since a row may commit after a larger id went out.
- `cmd/worker/main.go:105` "ordering guarantee": only until something is retried
  (`InOrderUnlessRetried`). The engine does not depend on it (`PaidAsAccepted`).
- `hub.go:54` "slow clients are dropped": the message is dropped and the client stays,
  with a gap (`FeedIsComplete`).
- `01_PRODUCT_AND_ARCHITECTURE.md:283` "audit_log row written on every contract/clause
  read": not when the insert fails (`ReadsAreAudited`).

## 5. Fairness

- `Engine`: none; only safety and refinement are stated.
- `Ingest`: weak fairness of the forward steps of each request (net/http gives each
  a goroutine). Failures are never relied on.
- `Relay`: weak fairness of `List` (the ticker), `Publish` and `Mark` (the calls
  return). That calls do not fail for ever is the bound `MaxFaults`.
- `Worker`: weak fairness of the server's sends, the callback, the goroutines, and
  of `Ack` or `Nak` together: `Handle` returns, which outcome is open.
- `Fanout`: weak fairness of the fan-out and of each writer, strong fairness of the
  reader's steps, because `Lock` waits for a lock that is taken and released again; Go's
  RWMutex does not starve a waiting writer. A write on a broken connection fails
  (write deadline). Nothing is assumed of peers: they may never read.
- `Club`: none; that an accepted event arrives is what `Relay` and `Worker` are
  checked for.
- `Contracts`: none; only safety is stated.
- `Feed`: weak fairness of the script's steps, of serving and answering a request, and
  of the first push of a committed event (`AcceptedIsCounted`). That connections
  stop breaking and refreshes stop being refused or lost is the bound `MaxFaults`; a refresh that
  failed is not asked again, and no fairness makes up for it.
- `Pipeline`: weak fairness of each row's relay and each event's handling, which is
  `Delivers` of the two hand-overs, as `Relay` and `Worker` are checked to implement it,
  and of each push, which is `FanoutFinishes`. An unknown athlete's event is never
  handled and none of these depends on it.

## 6. What is proved

For all constants that satisfy the named assumptions of the modules, and without the
bounds of the runs. The assumptions say what the code and the schema say: clauses are
records of integers, events have integer values, a source names one event
(`SourceAssumption`), capacities and batches are positive, an athlete's id is not the mark
of a missing one. Three are about machine integers: `IntAssumption` (`MachineIntegers`) says
that all inputs of `Advance` are int64s, of any width; `GuardAssumption` relates the ranges of
Go's seconds and Durations as an int64 relates them, and `ClockAssumption` says that a stamp
is an int64 (`strconv.ParseInt`) and that the server's own clock is not within `MaxSkew` of
the end of it.

| Module | Theorem | Statement |
|---|---|---|
| each `...Proofs` | `TypeCorrect` | `Spec => []TypeOK` |
| the last parts | `LoopTypeCorrect`, `PageTypeCorrect`, `ClubTypeCorrect` | `LoopSpec => []LoopTypeOK`, `PageSpec => []PageTypeOK`, `ClubSpec => []ClubTypeOK` |
| `EngineProofs` (`AdvanceLoop`) | `AlwaysReturnsAdvance` | `LoopSpec => []ReturnsAdvance` |
| | `LoopsAlwaysBounded` | `LoopSpec => []LoopsAreBounded`, the safety part of `Terminates` |
| `EngineProofs` (`Engine`) | `LocksAlwaysProtect` | `Spec => []LocksProtect` |
| | `EngineImplementsLedger` | `Spec => ImplementsLedger`, that is `L!Spec` |
| | `PayoutsAlwaysMatch` | `Spec => []PayoutsMatchProgress` |
| | `StateOnlyMovesWithProgress` | `Spec => StateMovesWithProgress` |
| | `ProgressAlwaysBest` | `Spec => []ProgressIsBest` |
| | `AcknowledgedAlwaysCounts` | `Spec => []AcknowledgedCounts` |
| | `FeedAlwaysFollows` | `Spec => []FeedFollowsTable` |
| | `PayoutsAlwaysAnnounced` | `Spec => []PayoutsAnnounced` |
| `IngestProofs` | `AlwaysOneRowPerEvent` | `Spec => []OneRowPerEvent` |
| | `AnswersAlwaysDurable` | `Spec => []AnswersAreDurable` |
| | `AlwaysAcceptedInWindow` | `Spec => []AcceptedInWindow` |
| | `WindowIsExact` | what `CheckTimestamp` accepts is the window, and beyond it only what is too far ahead for a Duration |
| `RelayProofs` | `NeverOvertakes` | `Spec => NoOvertaking` |
| | `RelayHandsOver` | `Spec => H!Safe`, the safety part of `ImplementsHandover` |
| `WorkerProofs` | `AlwaysInOrderUnlessRetried` | `Spec => []InOrderUnlessRetried` |
| | `WorkerHandsOver` | `Spec => H!Safe`, the safety part of `ImplementsHandover` |
| `FanoutProofs` | `NeverSendsOnClosed` | `Spec => []NoSendOnClosed` |
| | `AlwaysOwnEventsInOrder` | `Spec => []OwnEventsInOrder` |
| | `AlwaysLeavesNothing` | `Spec => []LeavesNothing`, the safety part of `BrokenIsCleanedUp` |
| `FanoutProofs` (`Feed`) | `PageHasNoSilentGap` | `PageSpec => []NoSilentGap`, the safety part of `FeedIsComplete` |
| | `PageProgressIsComing` | `PageSpec => []ProgressIsComing`, the safety part of `PanelCatchesUp` |
| `ContractsProofs` | `TenantsAlwaysApart` | `Spec => TenantsAreApart` |
| | `RemovedAlwaysStaysRemoved` | `Spec => []RemovedStaysRemoved` |
| | `ReadsAlwaysAudited` | `Spec => []ReadsAreAudited` |
| `ContractsProofs` (`Club`) | `ClicksAlwaysCount` | `ClubSpec => []AcceptedClicksCount`, where `UsedBefore` is at most {0} |
| `PipelineProofs` | `AlwaysPaidAsAccepted` | `Spec => []PaidAsAccepted` |
| | `HandledAlwaysCounted` | `Spec => []HandledIsCounted`, a part of `PaidAsAccepted` |
| `Lemmas` | `CrossedSplits` | the boundaries in (a, c] are those in (a, b] and those in (b, c], disjointly |
| | `NextKIsFirst` | the division in `NextK` finds the first boundary ahead |

Every inductive invariant below was checked by TLC on the instance of the module's run
before it was proved.

*Arithmetic.* On integers of any width, `Wrap` is the identity inside the range (`WrapIsExact`), and
two machine integers that differ by whole turns are the same (`WrapOnce`), so a boundary in the range
is computed exactly even if the product in it wraps around (`BoundaryIsExact`). `StopsThere` says where both loops end: at `Stop`, the index of the first
boundary ahead (`NextKIsFirst`) or the first past the cap; below it every boundary lies between the
target and the progress. The inductive invariant `LoopInv` is that, within `Fits`, `k` never
passes `Stop` and the slice holds the boundaries above the old progress up to `k`, ascending.
`CollectedIsCrossed` and `SwitchIsStateAfter` then make of it what `Advance` in `Tranche` returns.

*Engine.* `TypeInv` is `TypeOK` with the domain of the staged changes spelled
out. The inductive invariant is

    Inv == TypeInv /\ LocksProtect /\ NotBelowStart

`PayoutsMatchProgress` is not inductive: at a commit it must be known that what was
staged earlier still fits the table. That is `LocksProtect`, in three parts: no row is
held twice (`RowsHeldOnce`), a session works only on rows it holds
(`HeldWhileOpen`), and its staged changes are what `Advance` makes of the current
progress (`WorkStaysRight`). `OneSessionMoves` shows that a step of one session that
leaves the tables alone disturbs no other; `PublishKeepsLocks` that a commit disturbs
no other, because they hold none of its rows. `StagedIsMoved` and `PublishApplies`
then turn a commit into `L!Apply`, which gives the refinement; `CrossedSplits`
applied to that step (`ApplyPaysWhatIsCrossed`) gives the payouts. `AcknowledgedCounts`
follows from those and `HandledIsRecorded` (what was acknowledged is in
performance_stat). The outbox needs one more fact about the locks, `IdsFollowLocks`: the id
a session has staged for a milestone is larger than every committed id of that milestone,
because the sequence is asked while the row is held, though ids of different
milestones do commit out of order.

*Ingest.* A request that has inserted its event id but not committed owns that key
(`KeysAreExclusive`) and the outbox id it took (`IdsAreTaken`); whoever is past the checks, or
was told that its event is stored, passed the guard at the time that was noted
(`CheckedInTime`). `WindowIsExact` turns the guard, with its wrap-around and saturation, into
the window of `AcceptedInWindow`.

*Relay and worker.* `SmallestOf`: what the SELECT takes is at most a batch, and nothing it leaves is
smaller; the batch only shrinks from there (`BatchShrinks`), which is the bound in `TypeOK`. `Published`: what is marked is in the stream, and what was listed and is
no longer in the batch is in the stream or comes after the batch. With it, `NoOvertaking`
holds of each step, and each step maps to one of `Handover` or to none. The order kept by
the worker is harder. `Routed`: a delivery is only in the partition of its athlete.
`FirstCopiesAscend`: along a partition's goroutine, its channel, the callback and the inbox,
the messages that were sent once appear in ascending order. `OvertakenIsGone`: when one was
handled, an earlier one of its athlete that was not handled and not sent again is nowhere on
the way. Only together are they inductive.

*Live delivery.* `FanStages` ties the stage of the fan-out to the message it is about and to
whom it still has to serve. `InOrder(c)` says that what a client has got and what is in its
queue ascend, and stay below the current message as long as the client awaits it; the
same client is not served twice because it leaves `todo` in the step that serves it. `Life(c)`
follows one connection from the upgrade to its end.

*Page.* `PageInv`: nothing is on its way to a page that is not connected, nothing was streamed before
the history was asked for, and no answer is ahead of the table. `GapInv` adds that nothing is
owed to a page before it reads the history, which replaces what it shows; `ProgressIsComing` is
inductive with `PageInv`, for a message asks again, an answer cannot go beyond the table, and
whatever takes the last request or answer away without showing the progress sets `failed` or
`overtaken`.

*Club.* `ClubInv`: a counted click has a number above the seed and not above the counter, and no
other click for that player has it (`NumberIsOwn`). At rest the accepted numbers are between
the seed and the progress, so there are no more of them than that (`QuietCounts`, by injection).
`UsedBefore` at most {0} is the precondition of the migration's comment, a database without
appearances of its own; the run `club_migration` shows what happens otherwise.

*Contracts.* `Handlers` says what a handler knows of its request: past the middleware it has an
athlete, the documents it names were given out, what it holds is its own athlete's, and once past
the audit insert it has its row or is known to have none. `ReadingInv` serves all steps that leave
the tables alone, a cut among them.
`WriteInv` shows once for the three writes that rows are old ones or have ids that nobody
can have named, hence a removed document stays away. `AuditIsCounted` makes the next audit
id a new one.

*Pipeline.* `PaidAsApplied` relates payouts and progress to the applied events: each
milestone is at the best value applied (`StandsAtBest`), and paid are the boundaries up to it.
With `Announced` (where a milestone has moved to, a row of the outbox says so) they give
`HandledIsCounted`. `AlwaysPaidAsAccepted` follows because only accepted events are applied, and
at rest all are.

Only model-checked, and why:

- All liveness: `EveryRequestAnswered`, `FanoutFinishes`, `AcceptedIsCounted`, and the liveness
  parts of `ImplementsHandover` (`Delivers`), `BrokenIsCleanedUp`, `FeedIsComplete`,
  `PanelCatchesUp` and `Terminates`. It needs ENABLED, which the prover does not handle.
  The safety parts are theorems: `RelayHandsOver` and `WorkerHandsOver`, `AlwaysLeavesNothing`,
  `PageHasNoSilentGap`, `PageProgressIsComing`, `LoopsAlwaysBounded`.
- What the two runs that expect a violation refute.

## 7. Not modelled, and why

- Cryptography, JWT and JSON parsing: libraries; their outcome is a verdict.
- Start-up, configuration, logging, routing, shutdown of the api process: no
  state the properties are about; hazards are noted in PROJECT.json where they are real.
  A request that a shutdown cuts off is `Fail` or `CommitUnseen` in `Ingest`, `Cut` in `Contracts`.
- The fields of contracts, clauses and documents, and the analysis page: its analysis
  works on a text in the browser, and it uses the endpoints of `Contracts`.
- The roster and the milestone list as reads of their own: single statements that change
  nothing; the page's use of the list is `Serve` in `Feed`.
- Migrations as steps: their result is the initial state, and for 0004 the
  constant `UsedBefore`.
- NATS and Postgres themselves: only as the code uses them.

## 8. Plan

Models, done in this order because the payouts are what the system is for: `Tranche`,
`AdvanceLoop`, `Ledger`, `Engine`, the stages around it (`Ingest`, `Relay`, `Worker`,
`Fanout`, `Club`), the hand-over they share and their composition (`Handover`,
`Pipeline`), and what surrounds them (`ReplayGuard`, `Contracts`, `Feed`).

Proofs, in this order: the engine (its locks, the refinement, the payouts, then what the
outbox and the acknowledgements owe to them), the composition, the stages around the
engine, and the endpoints.
Every invariant and action property of the passing runs is a theorem, and so is the safety part
of each liveness property that has one.

Left, should the code grow in that direction:

1. The retries of the engine after a deadlock: that they end depends on the timing of Postgres and
   the bus, which the models leave open.
2. Shutdown of the api process, with the requests it cuts off (`cmd/api/main.go:175`).
3. An outbox row that the bus never accepts (`outbox.go:52`): a `Hopeless` item of `Relay`.
