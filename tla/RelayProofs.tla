------------------------------ MODULE RelayProofs ------------------------------
(***************************************************************************)
(* The relay of the outbox, for every number of rows, batch size and order *)
(* of commits: what is published is committed, what is marked is           *)
(* published, and a row is not published before a smaller one that the     *)
(* relay has seen.                                                         *)
(***************************************************************************)
EXTENDS Relay, Lemmas, FiniteSetTheorems

\* There is a row the loop is at, as long as the batch is not empty.
LEMMA CurrentIsSmallest ==
  ASSUME TypeOK, batch # {}
  PROVE  /\ Current \in batch /\ Current \in rows /\ Current \in listed
         /\ \A j \in batch : Current <= j
<1>1. batch \subseteq Nat /\ batch \subseteq listed /\ listed \subseteq rows
  BY DEF TypeOK
<1>2. \E i \in batch : \A j \in batch : i <= j
  BY <1>1, SmallestExists
<1> QED
  BY <1>1, <1>2 DEF Current

\* ORDER BY id LIMIT n takes something if there is something, n rows at most, and
\* nothing that it leaves is smaller than something it takes.
LEMMA SmallestOf ==
  ASSUME NEW S, NEW max \in Nat, S \subseteq 1 .. max, NEW n \in Nat \ {0}
  PROVE  /\ Smallest(S, n) \subseteq S
         /\ S # {} => Smallest(S, n) # {}
         /\ Cardinality(Smallest(S, n)) <= n
         /\ \A i \in S \ Smallest(S, n) : \A j \in Smallest(S, n) : j < i
<1> DEFINE Below(i) == {j \in S : j < i}
<1>1. IsFiniteSet(S) /\ S \subseteq Nat
  <2>1. IsFiniteSet(1 .. max)
    BY FS_Interval
  <2>2. S \in SUBSET (1 .. max)
    OBVIOUS
  <2>3. IsFiniteSet(S)
    BY <2>1, <2>2, FS_Subset
  <2> QED
    BY <2>3
<1>2. \A i \in S : IsFiniteSet(Below(i)) /\ Cardinality(Below(i)) \in Nat
  BY <1>1, FS_Subset, FS_CardinalityType
<1>3. ASSUME S # {} PROVE Smallest(S, n) # {}
  <2>1. PICK i \in S : \A j \in S : i <= j
    BY <1>1, <1>3, SmallestExists
  <2>2. Below(i) = {}
    <3>1. ASSUME NEW j \in S PROVE ~ (j < i)
      BY <1>1, <2>1
    <3> QED
      BY <3>1
  <2>3. Cardinality(Below(i)) = 0
    BY <2>2, FS_EmptySet
  <2> QED
    BY <2>3 DEF Smallest
<1>4. ASSUME NEW i \in S \ Smallest(S, n), NEW j \in Smallest(S, n), ~ (j < i)
      PROVE  FALSE
  <2>1. i \in S /\ j \in S /\ i <= j /\ i \in Int /\ j \in Int
    BY <1>4 DEF Smallest
  <2>2. Below(i) \in SUBSET Below(j)
    <3>1. ASSUME NEW k \in S, k < i PROVE k < j
      BY <1>1, <2>1, <3>1
    <3> QED
      BY <3>1
  <2>3. Cardinality(Below(i)) <= Cardinality(Below(j))
    BY <1>2, <2>1, <2>2, FS_Subset
  <2>4. Cardinality(Below(j)) < n /\ ~ (Cardinality(Below(i)) < n)
    BY <1>4 DEF Smallest
  <2> QED
    BY <1>2, <2>1, <2>3, <2>4
<1>5. Cardinality(Smallest(S, n)) <= n
  <2> DEFINE T == Smallest(S, n)
  <2>1. T \subseteq S /\ T \subseteq 1 .. max /\ IsFiniteSet(T)
    BY <1>1, FS_Subset DEF Smallest
  <2>2. CASE T = {}
    BY <2>2, FS_EmptySet
  <2>3. CASE T # {}
    <3>1. PICK x \in T : \A y \in T : y <= x
      <4>1. 1 \in Int /\ max \in Int
        OBVIOUS
      <4> HIDE DEF T
      <4> QED
        BY <4>1, <2>1, <2>3, LargestExists
    <3>2. x \in S /\ Cardinality(Below(x)) < n
      BY <3>1 DEF Smallest
    <3>3. T \ {x} \in SUBSET Below(x)
      <4>1. ASSUME NEW y \in T, y # x PROVE y \in S /\ y < x
        BY <1>1, <2>1, <3>1, <4>1
      <4> QED
        BY <4>1
    <3>4. Cardinality(T \ {x}) <= Cardinality(Below(x))
      BY <1>2, <3>2, <3>3, FS_Subset
    <3>5. Cardinality(T \ {x}) = Cardinality(T) - 1 /\ Cardinality(T) \in Nat
      BY <2>1, <3>1, FS_RemoveElement, FS_CardinalityType
    <3> QED
      BY <1>2, <3>2, <3>4, <3>5
  <2> QED
    BY <2>2, <2>3
<1> QED
  BY <1>3, <1>4, <1>5 DEF Smallest

\* What is left of a batch is not larger than the batch.
LEMMA BatchShrinks ==
  ASSUME TypeOK, NEW S \in SUBSET batch
  PROVE  Cardinality(S) <= Batch
<1>1. 1 .. lastId \in SUBSET Nat /\ lastId \in Nat /\ batch \in SUBSET (1 .. lastId)
  BY DEF TypeOK
<1>2. IsFiniteSet(1 .. lastId)
  BY <1>1, FS_Interval
<1>3. IsFiniteSet(batch)
  BY <1>1, <1>2, FS_Subset
<1>4. /\ Cardinality(S) <= Cardinality(batch)
      /\ Cardinality(S) \in Nat /\ Cardinality(batch) \in Nat
  BY <1>3, FS_Subset, FS_CardinalityType
<1> QED
  BY <1>4, RelayAssumption DEF TypeOK

------------------------------------------------------------------------------
\* Nothing has been inserted at the start.
LEMMA InitType == Init => TypeOK
<1>1. Cardinality({}) <= Batch
  BY FS_EmptySet, RelayAssumption
<1> QED
  BY <1>1 DEF Init, TypeOK

\* A committed row keeps the others where they are.
LEMMA CommitType ==
  ASSUME TypeOK, NEW id \in open, Commit(id)
  PROVE  TypeOK'
<1>1. rows \subseteq rows' /\ stream' = stream /\ stream \in Seq(rows)
  BY DEF Commit, relay, TypeOK
<1>2. stream' \in Seq(rows')
  BY <1>1, SeqMonotonic
<1> QED
  BY <1>2 DEF Commit, relay, TypeOK

\* A batch that is given up leaves the loop waiting.
LEMMA GiveUpType ==
  ASSUME TypeOK, GiveUp, UNCHANGED <<writers, listed>>,
         marked' \subseteq rows, stream' \in Seq(rows)
  PROVE  TypeOK'
<1>1. pc' = "waiting" /\ batch' = {} /\ faults' \in Nat
  BY DEF GiveUp, TypeOK
<1>2. UNCHANGED <<lastId, open, rows, listed>>
  BY DEF writers
<1>3. (pc' = "waiting") = (batch' = {})
  BY <1>1
<1>4. Cardinality(batch') <= Batch
  BY <1>1, FS_EmptySet, RelayAssumption
<1> QED
  BY <1>1, <1>2, <1>3, <1>4 DEF TypeOK

LEMMA NextType ==
  ASSUME TypeOK, [Next]_vars
  PROVE  TypeOK'
<1>1. CASE Insert
  BY <1>1 DEF Insert, relay, TypeOK
<1>2. ASSUME NEW id \in open, Commit(id) PROVE TypeOK'
  BY <1>2, CommitType
<1>3. ASSUME NEW id \in open, Rollback(id) PROVE TypeOK'
  BY <1>3 DEF Rollback, relay, TypeOK
<1>4. CASE List
  <2>1. Unpublished \subseteq 1 .. lastId /\ lastId \in Nat /\ Unpublished \subseteq rows
    BY DEF Unpublished, TypeOK
  <2>2. /\ Smallest(Unpublished, Batch) \subseteq rows
        /\ Smallest(Unpublished, Batch) # {}
        /\ Cardinality(Smallest(Unpublished, Batch)) <= Batch
    BY <1>4, <2>1, SmallestOf, RelayAssumption DEF List
  <2> QED
    BY <1>4, <2>2 DEF List, writers, TypeOK
<1>5. CASE Publish \/ PublishUnseen
  <2>1. batch # {} /\ pc = "publishing"
    BY <1>5 DEF Publish, PublishUnseen, TypeOK
  <2>2. Append(stream, Current) \in Seq(rows)
    BY <2>1, CurrentIsSmallest DEF TypeOK
  <2>3. CASE Publish
    BY <2>1, <2>2, <2>3 DEF Publish, writers, TypeOK
  <2>4. CASE PublishUnseen
    BY <2>2, <2>4, GiveUpType DEF PublishUnseen, TypeOK
  <2> QED
    BY <1>5, <2>3, <2>4
<1>6. CASE Mark \/ MarkUnseen
  <2>1. batch # {} /\ pc = "marking"
    BY <1>6 DEF Mark, MarkUnseen, TypeOK
  <2>2. Current \in rows
    BY <2>1, CurrentIsSmallest
  <2>3. CASE Mark
    <3>1. (pc' = "waiting") = (batch' = {}) /\ pc' \in {"waiting", "publishing"}
      BY <2>3 DEF Mark, NextRow
    <3>2. Cardinality(batch') <= Batch
      BY <2>3, BatchShrinks DEF Mark, NextRow
    <3> QED
      BY <2>2, <2>3, <3>1, <3>2 DEF Mark, NextRow, writers, TypeOK
  <2>4. CASE MarkUnseen
    BY <2>2, <2>4, GiveUpType DEF MarkUnseen, TypeOK
  <2> QED
    BY <1>6, <2>3, <2>4
<1>7. CASE PublishFails \/ MarkFails
  BY <1>7, GiveUpType DEF PublishFails, MarkFails, TypeOK
<1>8. CASE UNCHANGED vars
  BY <1>8 DEF vars, TypeOK
<1> QED
  BY <1>1, <1>2, <1>3, <1>4, <1>5, <1>6, <1>7, <1>8 DEF Next

\* Ids are given once, to rows that are committed or open, and only committed
\* rows are listed, published and marked.
THEOREM TypeCorrect == Spec => []TypeOK
BY InitType, NextType, PTL DEF Spec

------------------------------------------------------------------------------
\* What the loop has behind it: the rows it has marked are on the bus, and so is
\* the one it is about to mark; and a row that it saw when it listed the batch
\* and that is not in what is left of the batch is on the bus, or comes after
\* the batch.
Published ==
  /\ marked \subseteq ToSet(stream)
  /\ pc = "marking" => Current \in ToSet(stream)
  /\ pc # "waiting" =>
       \A id \in listed \ batch : id \in ToSet(stream) \/ \A j \in batch : j < id

RelayInv == TypeOK /\ Published /\ lastId <= MaxId

LEMMA InitInv == Init => RelayInv
BY InitType, RelayAssumption DEF Init, RelayInv, Published

\* The loop lists the smallest rows, so those it leaves come after them.
LEMMA ListInv ==
  ASSUME RelayInv, List
  PROVE  Published'
<1>1. Unpublished \subseteq 1 .. lastId /\ lastId \in Nat
  BY DEF Unpublished, RelayInv, TypeOK
<1>2. /\ batch' = Smallest(Unpublished, Batch) /\ listed' = rows /\ pc' = "publishing"
      /\ marked' = marked /\ stream' = stream
  BY DEF List
<1>3. \A id \in Unpublished \ batch' : \A j \in batch' : j < id
  BY <1>1, <1>2, SmallestOf, RelayAssumption
<1>4. \A id \in listed' \ batch' : id \in marked \/ id \in Unpublished \ batch'
  BY <1>2 DEF Unpublished
<1> QED
  BY <1>2, <1>3, <1>4 DEF RelayInv, Published

\* Publishing puts the row the loop is at on the bus.
LEMMA PublishInv ==
  ASSUME RelayInv, Publish \/ PublishUnseen
  PROVE  Published'
<1>1. stream \in Seq(rows) /\ stream' = Append(stream, Current) /\ marked' = marked
  BY DEF Publish, PublishUnseen, RelayInv, TypeOK
<1>2. ToSet(stream') = ToSet(stream) \union {Current}
  BY <1>1, AppendElements
<1>3. CASE Publish
  <2>1. batch' = batch /\ listed' = listed /\ pc = "publishing"
    BY <1>3 DEF Publish
  <2>2. Current' = Current
    BY <2>1 DEF Current
  <2> QED
    BY <1>1, <1>2, <2>1, <2>2 DEF RelayInv, Published
<1>4. CASE PublishUnseen
  BY <1>1, <1>2, <1>4 DEF PublishUnseen, GiveUp, RelayInv, Published
<1> QED
  BY <1>3, <1>4

\* The row that leaves the batch is on the bus.
LEMMA MarkInv ==
  ASSUME RelayInv, Mark \/ MarkUnseen
  PROVE  Published'
<1>1. /\ pc = "marking" /\ stream' = stream /\ listed' = listed
      /\ marked' = marked \union {Current}
  BY DEF Mark, MarkUnseen
<1>2. Current \in ToSet(stream)
  BY <1>1 DEF RelayInv, Published
<1>3. CASE Mark
  <2>1. batch' = batch \ {Current} /\ pc' \in {"waiting", "publishing"}
    BY <1>3 DEF Mark, NextRow
  <2>2. \A id \in listed \ batch : id \in ToSet(stream) \/ \A j \in batch : j < id
    BY <1>1 DEF RelayInv, Published
  <2> QED
    BY <1>1, <1>2, <2>1, <2>2 DEF RelayInv, Published
<1>4. CASE MarkUnseen
  BY <1>1, <1>2, <1>4 DEF MarkUnseen, GiveUp, RelayInv, Published
<1> QED
  BY <1>3, <1>4

LEMMA NextInv ==
  ASSUME RelayInv, [Next]_vars
  PROVE  RelayInv'
<1>1. TypeOK'
  BY NextType DEF RelayInv
<1>2. lastId' <= MaxId
  BY RelayAssumption DEF Next, vars, RelayInv, TypeOK, Insert, Commit, Rollback, List, Publish,
     Mark, PublishFails, PublishUnseen, MarkFails, MarkUnseen, writers
<1>3. Published'
  <2>1. ASSUME UNCHANGED <<marked, stream, batch, listed, pc>> PROVE Published'
    <3>1. Current' = Current
      BY <2>1 DEF Current
    <3> QED
      BY <2>1, <3>1 DEF RelayInv, Published
  <2>2. CASE Insert \/ (\E id \in open : Commit(id)) \/ (\E id \in open : Rollback(id))
    BY <2>1, <2>2 DEF Insert, Commit, Rollback, relay
  <2>3. CASE PublishFails \/ MarkFails
    BY <2>3 DEF PublishFails, MarkFails, GiveUp, RelayInv, Published
  <2>4. CASE UNCHANGED vars
    BY <2>1, <2>4 DEF vars
  <2> QED
    BY <2>2, <2>3, <2>4, ListInv, PublishInv, MarkInv DEF Next
<1> QED
  BY <1>1, <1>2, <1>3 DEF RelayInv

------------------------------------------------------------------------------
\* "preserve ordering" (outbox.go:53), for any order of commits and any
\* failures: what goes out has no smaller row left behind that the relay saw.
THEOREM NeverOvertakes == Spec => NoOvertaking
<1> DEFINE Orderly == stream' # stream =>
                        \A id \in listed : id < Last(stream') => id \in ToSet(stream)
<1>1. RelayInv /\ [Next]_vars => [Orderly]_vars
  <2> SUFFICES ASSUME RelayInv, [Next]_vars, stream' # stream
               PROVE  \A id \in listed : id < Last(stream') => id \in ToSet(stream)
    OBVIOUS
  <2>1. Publish \/ PublishUnseen
    BY DEF Next, vars, Insert, Commit, Rollback, relay, List, Mark, PublishFails, MarkFails,
           MarkUnseen
  <2>2. /\ stream \in Seq(rows) /\ stream' = Append(stream, Current)
        /\ pc = "publishing" /\ batch # {} /\ TypeOK
    BY <2>1 DEF Publish, PublishUnseen, RelayInv, TypeOK
  <2>3. Last(stream') = Current
    BY <2>2, AppendElements
  <2>4. Current \in batch /\ \A j \in batch : Current <= j
    BY <2>2, CurrentIsSmallest
  <2>5. ASSUME NEW id \in listed, id < Current PROVE id \in ToSet(stream)
    <3>1. id \in Nat /\ Current \in Nat
      BY <2>2, <2>4 DEF TypeOK
    <3>2. id \notin batch /\ ~ (Current < id)
      BY <2>4, <2>5, <3>1
    <3> QED
      BY <2>2, <2>4, <3>2 DEF RelayInv, Published
  <2> QED
    BY <2>3, <2>5
<1> QED
  BY <1>1, InitInv, NextInv, PTL DEF Spec, NoOvertaking

\* The relay is a handover: only what is committed is published, and only what
\* is published is marked, wherever it fails or is restarted.  That nothing
\* stays behind is liveness, and left to model checking.
THEOREM RelayHandsOver == Spec => H!Safe
<1>1. Init => H!Init
  BY DEF Init, H!Init, ToSet
<1>2. RelayInv /\ [Next]_vars => [H!Next]_(H!vars)
  <2> SUFFICES ASSUME RelayInv, [Next]_vars PROVE [H!Next]_(H!vars)
    OBVIOUS
  <2> USE DEF H!Next, H!vars
  <2>1. /\ TypeOK /\ rows \subseteq 1 .. MaxId /\ open \subseteq 1 .. MaxId
        /\ open \intersect rows = {}
    BY RelayAssumption DEF RelayInv, TypeOK
  <2>2. CASE Insert \/ (\E id \in open : Rollback(id)) \/ List \/ PublishFails \/ MarkFails
    BY <2>2 DEF Insert, Rollback, List, PublishFails, MarkFails, relay, writers
  <2>3. ASSUME NEW id \in open, Commit(id) PROVE H!Next
    <3>1. H!Put(id)
      BY <2>1, <2>3 DEF Commit, relay, H!Put
    <3> QED
      BY <2>1, <3>1
  <2>4. CASE Publish \/ PublishUnseen
    <3>1. /\ stream \in Seq(rows) /\ batch # {}
          /\ stream' = Append(stream, Current) /\ marked' = marked /\ rows' = rows
      BY <2>4 DEF Publish, PublishUnseen, writers, RelayInv, TypeOK
    <3>2. Current \in rows /\ ToSet(stream') = ToSet(stream) \union {Current}
      BY <2>1, <3>1, CurrentIsSmallest, AppendElements
    <3>3. H!Hand(Current)
      BY <3>1, <3>2 DEF H!Hand
    <3> QED
      BY <2>1, <3>2, <3>3
  <2>5. CASE Mark \/ MarkUnseen
    <3>1. /\ pc = "marking" /\ batch # {} /\ rows' = rows /\ stream' = stream
          /\ marked' = marked \union {Current}
      BY <2>5 DEF Mark, MarkUnseen, writers, RelayInv, TypeOK
    <3>2. Current \in rows /\ Current \in ToSet(stream)
      BY <2>1, <3>1, CurrentIsSmallest DEF RelayInv, Published
    <3>3. H!Done(Current)
      BY <3>1, <3>2 DEF H!Done
    <3> QED
      BY <2>1, <3>2, <3>3
  <2>6. CASE UNCHANGED vars
    BY <2>6 DEF vars
  <2> QED
    BY <2>2, <2>3, <2>4, <2>5, <2>6 DEF Next
<1> QED
  BY <1>1, <1>2, InitInv, NextInv, PTL DEF Spec, H!Safe
=============================================================================
