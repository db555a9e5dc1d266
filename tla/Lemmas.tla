-------------------------------- MODULE Lemmas --------------------------------
(***************************************************************************)
(* Facts about the operators that the proofs of several components use:    *)
(* the tranche arithmetic, for every clause and every value, smallest and  *)
(* largest elements, and queues.                                           *)
(***************************************************************************)
EXTENDS Tranche, SequencesExt, SequenceTheorems, WellFoundedInduction, TLAPS

\* Progress is the larger of what is stored and what is observed, so it never
\* decreases (Result.Progress, tranche.go:15).
LEMMA RaisedIsMax ==
  ASSUME NEW old \in Int, NEW value \in Int
  PROVE  /\ Raised(old, value) \in Int
         /\ Raised(old, value) >= old /\ Raised(old, value) >= value
         /\ Raised(old, value) \in {old, value}
BY DEF Raised

\* A boundary is crossed only by going over it, so an update that does not
\* raise the progress crosses none.
LEMMA CrossedBetween ==
  ASSUME NEW c, NEW old \in Int, NEW new \in Int
  PROVE  /\ Crossed(c, old, new) \subseteq Int
         /\ \A b \in Crossed(c, old, new) : old < b /\ b <= new
         /\ new <= old => Crossed(c, old, new) = {}
BY DEF Crossed

\* Going from old to new at once crosses what going there in two steps does,
\* and no boundary is crossed in both: how the observations are grouped into
\* events does not matter to what is paid.
LEMMA CrossedSplits ==
  ASSUME NEW c, NEW old \in Int, NEW mid \in Int, NEW new \in Int,
         old <= mid, mid <= new
  PROVE  /\ Crossed(c, old, new) = Crossed(c, old, mid) \union Crossed(c, mid, new)
         /\ Crossed(c, old, mid) \intersect Crossed(c, mid, new) = {}
BY DEF Crossed

\* The switch of Advance always assigns one of the four states.
LEMMA StateAfterType ==
  ASSUME NEW c, NEW old, NEW new
  PROVE  StateAfter(c, old, new) \in States
BY DEF StateAfter, Proximity, States, Quiet, Warm, Hot, Fulfilled

\* What Advance returns.
LEMMA AdvanceType ==
  ASSUME NEW c, NEW old \in Int, NEW value \in Int
  PROVE  /\ Advance(c, old, value).progress = Raised(old, value)
         /\ Advance(c, old, value).progress \in Int
         /\ Advance(c, old, value).state \in States
         /\ Advance(c, old, value).crossed = Crossed(c, old, Raised(old, value))
         /\ Advance(c, old, value).crossed \in SUBSET Int
BY RaisedIsMax, CrossedBetween, StateAfterType DEF Advance

\* A set of integers with bounds has a largest one: the last boundary crossed
\* (engine.go:107) exists whenever one is crossed.
LEMMA LargestExists ==
  ASSUME NEW a \in Int, NEW b \in Int, NEW S, S \subseteq a .. b, S # {}
  PROVE  \E x \in S : \A y \in S : y <= x
<1> DEFINE T == {b - x : x \in S}
<1>1. T \subseteq Nat /\ T # {}
  <2>1. ASSUME NEW x \in S PROVE b - x \in Nat
    BY a <= x /\ x <= b
  <2>2. PICK x : x \in S
    OBVIOUS
  <2>3. b - x \in T
    BY <2>2
  <2> QED
    BY <2>1, <2>3
<1> DEFINE R == OpToRel(<, Nat)
<1>2. IsWellFoundedOn(R, Nat)
  BY NatLessThanWellFounded
<1>3. \A i, j \in Nat : i < j => <<i, j>> \in R
  BY DEF OpToRel
<1> HIDE DEF R
<1>4. PICK i \in T : \A j \in T : <<j, i>> \notin R
  BY <1>1, <1>2, WFMin
<1>5. PICK x \in S : i = b - x
  BY <1>4
<1>6. ASSUME NEW y \in S PROVE y <= x
  <2>1. b - y \in T /\ <<b - y, b - x>> \notin R
    BY <1>4, <1>5
  <2>2. ~ (b - y < b - x)
    BY <1>1, <1>3, <1>4, <1>5, <2>1
  <2> QED
    BY <2>2
<1> QED
  BY <1>6

\* A set of naturals has a smallest element.
LEMMA SmallestExists ==
  ASSUME NEW S, S \subseteq Nat, S # {}
  PROVE  \E i \in S : \A j \in S : i <= j
<1> DEFINE R == OpToRel(<, Nat)
<1>1. IsWellFoundedOn(R, Nat)
  BY NatLessThanWellFounded
<1>2. \A i, j \in Nat : i < j => <<i, j>> \in R
  BY DEF OpToRel
<1> HIDE DEF R
<1>3. PICK i \in S : \A j \in S : <<j, i>> \notin R
  BY <1>1, WFMin
<1>4. ASSUME NEW j \in S PROVE i <= j
  <2>1. i \in Nat /\ j \in Nat
    OBVIOUS
  <2>2. ~ (j < i)
    BY <1>2, <1>3, <2>1
  <2> QED
    BY <2>1, <2>2
<1> QED
  BY <1>4

------------------------------------------------------------------------------
\* Multiples of a stride keep their order.
LEMMA MulMono ==
  ASSUME NEW a \in Int, NEW b \in Int, NEW s \in Nat, a <= b
  PROVE  a * s <= b * s
<1>1. (b - a) * s >= 0
  OBVIOUS
<1>2. (b - a) * s = b * s - a * s
  OBVIOUS
<1> QED
  BY <1>1, <1>2

\* Division by a stride.
LEMMA Division ==
  ASSUME NEW a \in Int, NEW s \in Nat, s > 0
  PROVE  /\ a \div s \in Int /\ (a >= 0 => a \div s >= 0)
         /\ a % s \in 0 .. s - 1
         /\ a = (a \div s) * s + (a % s)
OBVIOUS

\* Quotient and remainder are unique.
LEMMA UniqueQuotient ==
  ASSUME NEW s \in Nat, s > 0, NEW i \in Int, NEW j \in Int, NEW r \in 0 .. s - 1,
         i * s + r = j * s
  PROVE  i = j /\ r = 0
<1>1. i * s \in Int /\ j * s \in Int
  OBVIOUS
<1>2. CASE i < j
  <2>1. (i + 1) * s <= j * s /\ (i + 1) * s = i * s + s
    BY <1>2, MulMono
  <2> QED
    BY <1>1, <2>1
<1>3. CASE i > j
  <2>1. (j + 1) * s <= i * s /\ (j + 1) * s = j * s + s
    BY <1>3, MulMono
  <2> QED
    BY <1>1, <2>1
<1> QED
  BY <1>1, <1>2, <1>3

\* What Advance is told of a clause, of any integers.
Terms == [target : Int, tranche : Int, maxRepeats : Int]

\* A stride is positive.
LEMMA BoundaryType ==
  ASSUME NEW c \in Terms, NEW i \in Int
  PROVE  Stride(c) \in Nat /\ Stride(c) > 0 /\ Boundary(c, i) \in Int
<1>1. c.target \in Int /\ c.tranche \in Int
  BY DEF Terms
<1>2. Stride(c) \in Nat /\ Stride(c) > 0
  BY <1>1 DEF Stride
<1>3. i * Stride(c) \in Int
  BY <1>2
<1> QED
  BY <1>1, <1>2, <1>3 DEF Boundary

\* Boundaries grow with their index.
LEMMA BoundariesAscend ==
  ASSUME NEW c \in Terms, NEW i \in Int, NEW j \in Int, i < j
  PROVE  Boundary(c, i) + Stride(c) <= Boundary(c, j) /\ Boundary(c, i) < Boundary(c, j)
<1> DEFINE s == Stride(c)
<1>1. c.target \in Int /\ s \in Nat /\ s > 0
  BY BoundaryType DEF Terms
<1> HIDE DEF s
<1>2. (i + 1) * s <= j * s /\ i * s \in Int /\ j * s \in Int
  BY <1>1, MulMono
<1>3. (i + 1) * s = i * s + s
  BY <1>1
<1>4. Boundary(c, i) = c.target + i * s /\ Boundary(c, j) = c.target + j * s
  BY DEF Boundary, s
<1> QED
  BY <1>1, <1>2, <1>3, <1>4 DEF s

\* NextK is the index of the first boundary ahead, which the second loop of
\* Advance (tranche.go:52) looks for one by one: those below it are not ahead.
LEMMA NextKIsFirst ==
  ASSUME NEW c \in Terms, NEW p \in Int
  PROVE  /\ NextK(c, p) \in Nat
         /\ \A i \in Nat : Boundary(c, i) <= p <=> i < NextK(c, p)
<1> DEFINE s == Stride(c)
           n == NextK(c, p)
           q == (p - c.target) \div s
           r == (p - c.target) % s
<1>1. c.target \in Int /\ s \in Nat /\ s > 0
  BY BoundaryType DEF Terms
<1>2. /\ p < c.target => n = 0
      /\ p >= c.target => n = q + 1
  BY <1>1 DEF NextK
<1>3. p >= c.target => q \in Nat /\ r \in 0 .. s - 1 /\ p - c.target = q * s + r
  BY <1>1, Division
<1> HIDE DEF q, r
<1>4. n \in Nat
  BY <1>1, <1>2, <1>3
<1>5. n > 0 => Boundary(c, n - 1) <= p
  <2>1. n > 0 => Boundary(c, n - 1) = c.target + q * s /\ p >= c.target
    BY <1>1, <1>2, <1>3 DEF Boundary
  <2>2. q \in Nat => q * s \in Int
    BY <1>1
  <2> HIDE DEF n, s
  <2> QED
    BY <1>1, <1>2, <1>3, <2>1, <2>2
<1>6. Boundary(c, n) > p
  <2>1. CASE p < c.target
    BY <1>1, <1>2, <2>1 DEF Boundary
  <2>2. CASE p >= c.target
    <3>1. Boundary(c, n) = c.target + (q + 1) * s
      BY <1>2, <2>2 DEF Boundary
    <3> HIDE DEF n, s
    <3>2. (q + 1) * s = q * s + s /\ q * s \in Int
      BY <1>1, <1>3, <2>2
    <3> QED
      BY <1>1, <1>3, <2>2, <3>1, <3>2
  <2> QED
    BY <1>1, <2>1, <2>2
<1> HIDE DEF n
<1>7. ASSUME NEW i \in Nat, i < n PROVE Boundary(c, i) <= p
  <2>1. i = n - 1 \/ Boundary(c, i) < Boundary(c, n - 1)
    BY <1>4, <1>7, BoundariesAscend
  <2>2. Boundary(c, i) \in Int /\ Boundary(c, n - 1) \in Int
    BY <1>4, BoundaryType
  <2> QED
    BY <1>4, <1>5, <1>7, <2>1, <2>2
<1>8. ASSUME NEW i \in Nat, n <= i PROVE Boundary(c, i) > p
  <2>1. i = n \/ Boundary(c, n) < Boundary(c, i)
    BY <1>4, <1>8, BoundariesAscend
  <2>2. Boundary(c, i) \in Int /\ Boundary(c, n) \in Int
    BY <1>4, BoundaryType
  <2> QED
    BY <1>6, <2>1, <2>2
<1>9. ASSUME NEW i \in Nat PROVE Boundary(c, i) <= p <=> i < n
  BY <1>4, <1>7, <1>8, BoundaryType
<1> QED
  BY <1>4, <1>9 DEF n

\* What is crossed, by index: the loop visits boundaries that way.
LEMMA CrossedByIndex ==
  ASSUME NEW c \in Terms, NEW old1 \in Int, NEW new1 \in Int
  PROVE  Crossed(c, old1, new1) =
           {Boundary(c, i) : i \in {j \in Nat : /\ Allowed(c, j)
                                              /\ old1 < Boundary(c, j)
                                              /\ Boundary(c, j) <= new1}}
<1> DEFINE s == Stride(c)
           Visited == {j \in Nat : Allowed(c, j) /\ old1 < Boundary(c, j)
                                               /\ Boundary(c, j) <= new1}
<1>1. c.target \in Int /\ s \in Nat /\ s > 0
  BY BoundaryType DEF Terms
<1>2. ASSUME NEW j \in Nat PROVE IsBoundary(c, Boundary(c, j)) <=> Allowed(c, j)
  <2> DEFINE d == Boundary(c, j) - c.target
  <2>1. d = j * s /\ d \in Nat /\ Boundary(c, j) \in Int
    BY <1>1 DEF Boundary
  <2>2. d % s \in 0 .. s - 1 /\ d \div s \in Nat /\ d = (d \div s) * s + (d % s)
    BY <1>1, <2>1, Division
  <2>3. d \div s = j /\ d % s = 0
    <3> DEFINE i == d \div s
               r == d % s
    <3>1. i \in Int /\ r \in 0 .. s - 1 /\ i * s + r = j * s
      BY <2>1, <2>2
    <3> HIDE DEF i, r, s, d
    <3>2. i = j /\ r = 0
      BY <1>1, <3>1, UniqueQuotient
    <3> QED
      BY <3>2 DEF i, r
  <2> QED
    BY <1>1, <2>1, <2>3 DEF IsBoundary
<1>3. ASSUME NEW b \in Int, IsBoundary(c, b)
      PROVE  \E j \in Nat : b = Boundary(c, j)
  <2> DEFINE d == b - c.target
  <2>1. d \in Nat /\ d % s = 0
    BY <1>1, <1>3 DEF IsBoundary
  <2> HIDE DEF d
  <2>2. d \div s \in Nat /\ d = (d \div s) * s
    <3> HIDE DEF s
    <3> QED
      BY <1>1, <2>1, Division
  <2>3. b = c.target + d
    BY <1>1 DEF d
  <2>4. b = Boundary(c, d \div s)
    BY <2>2, <2>3 DEF Boundary
  <2> QED
    BY <2>2, <2>4
<1>4. ASSUME NEW b \in Crossed(c, old1, new1) PROVE \E j \in Visited : b = Boundary(c, j)
  <2>1. b \in Int /\ old1 < b /\ b <= new1 /\ IsBoundary(c, b)
    BY DEF Crossed
  <2> QED
    BY <1>2, <1>3, <2>1
<1>5. ASSUME NEW j \in Visited PROVE Boundary(c, j) \in Crossed(c, old1, new1)
  BY <1>2, BoundaryType DEF Crossed
<1> QED
  BY <1>4, <1>5

------------------------------------------------------------------------------
\* What appending does to the elements and the end of a sequence.
LEMMA AppendElements ==
  ASSUME NEW S, NEW s \in Seq(S), NEW e
  PROVE  /\ ToSet(Append(s, e)) = ToSet(s) \union {e}
         /\ Last(Append(s, e)) = e
<1>1. /\ Len(s) \in Nat /\ Len(Append(s, e)) = Len(s) + 1
      /\ DOMAIN s = 1 .. Len(s) /\ DOMAIN Append(s, e) = 1 .. Len(s) + 1
      /\ \A i \in 1 .. Len(s) : Append(s, e)[i] = s[i]
      /\ Append(s, e)[Len(s) + 1] = e
  OBVIOUS
<1>2. ToSet(Append(s, e)) \subseteq ToSet(s) \union {e}
  BY <1>1 DEF ToSet
<1>3. ToSet(s) \subseteq ToSet(Append(s, e))
  BY <1>1 DEF ToSet
<1>4. e \in ToSet(Append(s, e))
  <2>1. Len(s) + 1 \in DOMAIN Append(s, e)
    BY <1>1
  <2> QED
    BY <1>1, <2>1 DEF ToSet
<1> QED
  BY <1>1, <1>2, <1>3, <1>4 DEF Last

\* What taking the first element of a queue leaves.
LEMMA TailElements ==
  ASSUME NEW S, NEW s \in Seq(S), s # <<>>
  PROVE  /\ Head(s) \in S /\ Tail(s) \in Seq(S) /\ Len(Tail(s)) < Len(s)
         /\ ToSet(s) = {Head(s)} \union ToSet(Tail(s))
<1>1. /\ Len(s) \in Nat \ {0} /\ DOMAIN s = 1 .. Len(s)
      /\ Head(s) = s[1] /\ Tail(s) \in Seq(S) /\ Len(Tail(s)) = Len(s) - 1
      /\ DOMAIN Tail(s) = 1 .. Len(s) - 1
      /\ \A i \in 1 .. Len(s) - 1 : Tail(s)[i] = s[i + 1]
  BY EmptySeq, LenProperties, HeadTailProperties
<1>2. ToSet(Tail(s)) \subseteq ToSet(s)
  BY <1>1 DEF ToSet
<1>3. Head(s) \in ToSet(s)
  BY <1>1 DEF ToSet
<1>4. ASSUME NEW i \in 1 .. Len(s) PROVE s[i] \in {Head(s)} \union ToSet(Tail(s))
  <2>1. CASE i = 1
    BY <1>1, <2>1
  <2>2. CASE i # 1
    <3>1. i - 1 \in DOMAIN Tail(s) /\ s[i] = Tail(s)[i - 1]
      BY <1>1, <2>2
    <3> QED
      BY <3>1 DEF ToSet
  <2> QED
    BY <2>1, <2>2
<1>5. ToSet(s) \subseteq {Head(s)} \union ToSet(Tail(s))
  BY <1>1, <1>4 DEF ToSet
<1> QED
  BY <1>1, <1>2, <1>3, <1>5, HeadTailProperties

\* A queue of numbers in ascending order, but for the members of E, which may
\* come too late.
AscendingBut(E, s) ==
  \A i, k \in DOMAIN s : k < i /\ s[i] \notin E => s[k] < s[i]

LEMMA AppendAscending ==
  ASSUME NEW S, S \subseteq Int, NEW s \in Seq(S), NEW e \in S, NEW E, AscendingBut(E, s),
         e \notin E => \A x \in ToSet(s) : x < e
  PROVE  AscendingBut(E, Append(s, e))
<1>1. /\ Len(s) \in Nat /\ DOMAIN s = 1 .. Len(s) /\ DOMAIN Append(s, e) = 1 .. Len(s) + 1
      /\ \A i \in 1 .. Len(s) : Append(s, e)[i] = s[i] /\ s[i] \in ToSet(s)
      /\ Append(s, e)[Len(s) + 1] = e
  BY DEF ToSet
<1> SUFFICES ASSUME NEW i \in 1 .. Len(s) + 1, NEW k \in 1 .. Len(s) + 1, k < i,
                    Append(s, e)[i] \notin E
             PROVE  Append(s, e)[k] < Append(s, e)[i]
  BY <1>1 DEF AscendingBut
<1>2. k \in 1 .. Len(s)
  BY <1>1
<1>3. CASE i \in 1 .. Len(s)
  BY <1>1, <1>2, <1>3 DEF AscendingBut
<1>4. CASE i = Len(s) + 1
  BY <1>1, <1>2, <1>4
<1> QED
  BY <1>1, <1>3, <1>4

LEMMA TailAscending ==
  ASSUME NEW s \in Seq(Nat), s # <<>>, NEW E, AscendingBut(E, s)
  PROVE  /\ AscendingBut(E, Tail(s))
         /\ \A x \in ToSet(Tail(s)) \ E : Head(s) < x
<1>1. /\ Len(s) \in Nat \ {0} /\ DOMAIN s = 1 .. Len(s)
      /\ Head(s) = s[1]
      /\ DOMAIN Tail(s) = 1 .. Len(s) - 1
      /\ \A i \in 1 .. Len(s) - 1 : Tail(s)[i] = s[i + 1]
  BY EmptySeq, LenProperties, HeadTailProperties
<1>2. ASSUME NEW i \in 1 .. Len(s) - 1, Tail(s)[i] \notin E
      PROVE  /\ Head(s) < Tail(s)[i]
             /\ \A k \in 1 .. Len(s) - 1 : k < i => Tail(s)[k] < Tail(s)[i]
  <2>1. i + 1 \in DOMAIN s /\ s[i + 1] \notin E /\ 1 \in DOMAIN s /\ 1 < i + 1
    BY <1>1, <1>2
  <2>2. \A k \in 1 .. Len(s) - 1 : k < i => k + 1 \in DOMAIN s /\ k + 1 < i + 1
    BY <1>1
  <2> QED
    BY <1>1, <2>1, <2>2 DEF AscendingBut
<1> QED
  BY <1>1, <1>2 DEF AscendingBut, ToSet

\* Putting a message at the end of what is behind another sequence, and moving
\* the first one of what is behind to the end of what is in front.
LEMMA ConcatAppend ==
  ASSUME NEW S, NEW s \in Seq(S), NEW t \in Seq(S), NEW e \in S
  PROVE  s \o Append(t, e) = Append(s \o t, e)
<1>1. Append(t, e) \in Seq(S) /\ s \o t \in Seq(S)
  OBVIOUS
<1>2. s \o Append(t, e) \in Seq(S) /\ Append(s \o t, e) \in Seq(S)
  BY <1>1
<1>3. /\ Len(s) \in Nat /\ Len(t) \in Nat
      /\ Len(s \o Append(t, e)) = Len(s) + Len(t) + 1
      /\ Len(Append(s \o t, e)) = Len(s) + Len(t) + 1
  BY <1>1
<1>4. ASSUME NEW i \in 1 .. Len(s) + Len(t) + 1
      PROVE  (s \o Append(t, e))[i] = Append(s \o t, e)[i]
  BY <1>1, <1>3
<1> QED
  BY <1>2, <1>3, <1>4, SeqEqual

LEMMA ConcatMove ==
  ASSUME NEW S, NEW s \in Seq(S), NEW t \in Seq(S), t # <<>>
  PROVE  Append(s, Head(t)) \o Tail(t) = s \o t
<1>1. /\ Head(t) \in S /\ Tail(t) \in Seq(S) /\ Len(Tail(t)) = Len(t) - 1
      /\ Len(t) \in Nat \ {0} /\ Len(s) \in Nat /\ Head(t) = t[1]
      /\ \A i \in 1 .. Len(t) - 1 : Tail(t)[i] = t[i + 1]
  BY HeadTailProperties, EmptySeq
<1>2. Append(s, Head(t)) \in Seq(S) /\ Len(Append(s, Head(t))) = Len(s) + 1
  BY <1>1
<1>3. /\ Append(s, Head(t)) \o Tail(t) \in Seq(S) /\ s \o t \in Seq(S)
      /\ Len(Append(s, Head(t)) \o Tail(t)) = Len(s) + Len(t)
      /\ Len(s \o t) = Len(s) + Len(t)
  BY <1>1, <1>2
<1>4. ASSUME NEW i \in 1 .. Len(s) + Len(t)
      PROVE  (Append(s, Head(t)) \o Tail(t))[i] = (s \o t)[i]
  <2>1. CASE i <= Len(s)
    BY <1>1, <1>2, <2>1
  <2>2. CASE i = Len(s) + 1
    BY <1>1, <1>2, <2>2
  <2>3. CASE i > Len(s) + 1
    <3>1. i - (Len(s) + 1) \in 1 .. Len(t) - 1
      BY <1>1, <2>3
    <3>2. Tail(t)[i - (Len(s) + 1)] = t[i - Len(s)]
      BY <1>1, <3>1
    <3>3. (Append(s, Head(t)) \o Tail(t))[i] = Tail(t)[i - (Len(s) + 1)]
      BY <1>1, <1>2, <2>3, ConcatProperties
    <3>4. (s \o t)[i] = t[i - Len(s)]
      BY <1>1, <2>3, ConcatProperties
    <3> QED
      BY <3>2, <3>3, <3>4
  <2> QED
    BY <1>1, <2>1, <2>2, <2>3
<1> QED
  BY <1>3, <1>4, SeqEqual
=============================================================================
