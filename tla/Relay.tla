--------------------------------- MODULE Relay ---------------------------------
(***************************************************************************)
(* The transactional outbox and its relay (internal/ingest/outbox.go).     *)
(* Webhook handlers and the engine are writers: an insert takes an id from *)
(* the sequence, and the row is visible when its transaction commits, so   *)
(* rows may become visible in another order than that of their ids.  The   *)
(* relay lists a batch, publishes and marks row by row, and gives a batch  *)
(* up at the first failure.                                                *)
(***************************************************************************)
EXTENDS Naturals, FiniteSets, Sequences, SequencesExt

CONSTANTS
  Batch,       \* rows listed at a time (100)
  MaxId,       \* BOUND: ids taken from the sequence
  MaxFaults    \* BOUND: failures of the relay's calls and restarts

ASSUME RelayAssumption == Batch \in Nat \ {0} /\ MaxId \in Nat /\ MaxFaults \in Nat

VARIABLES
  lastId,      \* last value of the sequence
  open,        \* ids of rows whose transaction is running
  rows,        \* ids of the committed rows
  marked,      \* ids of the rows with published_at set
  stream,      \* what the bus has stored, oldest first
  batch,       \* rows of the current batch still to be published or marked
  listed,      \* rows that were visible when the batch was listed (history)
  pc,          \* "waiting", "publishing", "marking"
  faults       \* failures so far

vars == <<lastId, open, rows, marked, stream, batch, listed, pc, faults>>
writers == <<lastId, open, rows>>
relay == <<marked, stream, batch, listed, pc, faults>>

Init ==
  /\ lastId = 0
  /\ open = {} /\ rows = {} /\ marked = {}
  /\ stream = <<>>
  /\ batch = {} /\ listed = {}
  /\ pc = "waiting"
  /\ faults = 0

------------------------------------------------------------------------------
\* InsertOutbox of some transaction.
Insert ==
  /\ lastId < MaxId
  /\ lastId' = lastId + 1
  /\ open' = open \union {lastId'}
  /\ UNCHANGED <<rows, relay>>

Commit(id) ==
  /\ id \in open
  /\ open' = open \ {id}
  /\ rows' = rows \union {id}
  /\ UNCHANGED <<lastId, relay>>

\* The sequence keeps the gap.
Rollback(id) ==
  /\ id \in open
  /\ open' = open \ {id}
  /\ UNCHANGED <<lastId, rows, relay>>

------------------------------------------------------------------------------
\* Mutant of Unpublished: a cursor instead of a stamp.
UnpublishedCursor == {i \in rows : \A j \in marked : j < i}

Unpublished == rows \ marked

\* Mutant of Smallest: no LIMIT.
SmallestAll(S, n) == S

\* ORDER BY id LIMIT n
Smallest(S, n) == {i \in S : Cardinality({j \in S : j < i}) < n}

\* The row the loop is at.
Current == CHOOSE i \in batch : \A j \in batch : i <= j

\* ListUnpublishedOutbox on a tick.
List ==
  /\ pc = "waiting"
  /\ Unpublished # {}
  /\ batch' = Smallest(Unpublished, Batch)
  /\ listed' = rows
  /\ pc' = "publishing"
  /\ UNCHANGED <<writers, marked, stream, faults>>

Publish ==
  /\ pc = "publishing"
  /\ stream' = Append(stream, Current)
  /\ pc' = "marking"
  /\ UNCHANGED <<writers, marked, batch, listed, faults>>

\* The loop moves on to the next row, or the batch is done.
NextRow ==
  /\ batch' = batch \ {Current}
  /\ pc' = IF batch' = {} THEN "waiting" ELSE "publishing"

Mark ==
  /\ pc = "marking"
  /\ marked' = marked \union {Current}
  /\ NextRow
  /\ UNCHANGED <<writers, stream, listed, faults>>

\* break, or a restart of the process: what is left waits for another tick.
GiveUp ==
  /\ faults < MaxFaults
  /\ faults' = faults + 1
  /\ batch' = {}
  /\ pc' = "waiting"

\* Mutant of PublishFails: continue, not break.
PublishFailsContinue ==
  /\ pc = "publishing"
  /\ faults < MaxFaults
  /\ faults' = faults + 1
  /\ NextRow
  /\ UNCHANGED <<writers, marked, stream, listed>>

PublishFails ==
  /\ pc = "publishing"
  /\ GiveUp
  /\ UNCHANGED <<writers, marked, stream, listed>>

\* Stored by the bus, but the acknowledgement was lost.
PublishUnseen ==
  /\ pc = "publishing"
  /\ stream' = Append(stream, Current)
  /\ GiveUp
  /\ UNCHANGED <<writers, marked, listed>>

MarkFails ==
  /\ pc = "marking"
  /\ GiveUp
  /\ UNCHANGED <<writers, marked, stream, listed>>

MarkUnseen ==
  /\ pc = "marking"
  /\ marked' = marked \union {Current}
  /\ GiveUp
  /\ UNCHANGED <<writers, stream, listed>>

Next ==
  \/ Insert
  \/ \E id \in open : Commit(id)
  \/ \E id \in open : Rollback(id)
  \/ List
  \/ Publish
  \/ Mark
  \/ PublishFails
  \/ PublishUnseen
  \/ MarkFails
  \/ MarkUnseen

\* The ticker fires for ever and each call of the loop returns; that failures
\* end is the bound MaxFaults.
Spec == Init /\ [][Next]_vars /\ WF_vars(List) /\ WF_vars(Publish) /\ WF_vars(Mark)

------------------------------------------------------------------------------
TypeOK ==
  /\ lastId \in Nat
  /\ open \subseteq 1 .. lastId
  /\ rows \subseteq (1 .. lastId) \ open
  /\ marked \subseteq rows
  /\ batch \subseteq listed /\ listed \subseteq rows
  /\ Cardinality(batch) <= Batch
  /\ stream \in Seq(rows)
  /\ pc \in {"waiting", "publishing", "marking"}
  /\ (pc = "waiting") = (batch = {})
  /\ faults \in Nat

\* "preserve ordering" (outbox.go:53), as far as the relay can see: a row goes
\* out only after all the smaller ids that were visible to it.
NoOvertaking ==
  [][stream' # stream =>
       \A id \in listed : id < Last(stream') => id \in ToSet(stream)]_vars

\* At least once, whichever call failed and wherever the process died: a row is
\* stamped published only when the bus has it, no committed row is left behind
\* however late its id became visible, and only committed rows go out.
H == INSTANCE Handover WITH
       Item <- 1 .. MaxId, Hopeless <- {},
       put <- rows, handed <- ToSet(stream), done <- marked
ImplementsHandover == H!Spec
=============================================================================
