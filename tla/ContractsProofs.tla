---------------------------- MODULE ContractsProofs ----------------------------
(***************************************************************************)
(* Type correctness of the endpoints for contracts and documents, that     *)
(* tenants are apart, that what was removed stays removed, and that reads  *)
(* are audited, for any requests, athletes, contracts and documents.       *)
(*                                                                         *)
(* The last part is about the club's console (module Club): its clicks for *)
(* a player never share a number, so each that is accepted counts.         *)
(***************************************************************************)
EXTENDS Contracts, Club, FiniteSetTheorems, TLAPS

Row      == [id : Contract \union Document, athlete : Athlete]
Answers  == {0, 200, 201, 204, 400, 401, 404, 500}
DocRows  == [id : given, athlete : Athlete, contract : Linkable, text : Request]
Handling == [pc     : {"none", "authorised", "read", "audited", "answered", "cut"},
             call   : Call \union {NoCall},
             rows   : SUBSET Row,
             answer : Answers]

\* TypeOK, with the handlers as one function of records.
TypeInv == TypeOK /\ req \in [Request -> Handling]

\* What a handler knows of its request: it has an athlete once it is past the
\* middleware, names documents that were given out, has not answered before its
\* last step, holds rows of its own athlete only, and once past its insert has
\* an audit row or is known to have none.
InOrder(r) ==
  /\ req[r].pc \in {"authorised", "read", "audited"} => Me(r) \in Athlete
  /\ req[r].pc # "answered" => req[r].answer = 0
  /\ req[r].pc \in {"read", "audited"} => req[r].call.op \in Reads
  /\ req[r].pc = "audited" =>
       r \in unaudited \/ \E a \in audit : a.of = r /\ a.athlete = Me(r)
  /\ Target(r) \in Document => Target(r) \in given
  /\ \A x \in req[r].rows : x.athlete = Me(r)

Handlers == \A r \in Request : InOrder(r)

\* The ids of the audit log count its rows.
AuditIsCounted == IsFiniteSet(audit) /\ \A a \in audit : a.id <= Cardinality(audit)

ContractsInv == /\ TypeInv /\ Handlers /\ AuditIsCounted
                /\ RemovedStaysRemoved /\ ReadsAreAudited

------------------------------------------------------------------------------
\* A step of r's handler after the middleware: the call stays what it was, and
\* no other handler moves.
LEMMA HandlerMoves ==
  ASSUME TypeInv, NEW r \in Request,
         NEW pc \in {"read", "audited", "answered", "cut"},
         NEW rows, rows \subseteq Row, NEW answer \in Answers, Moves(r, pc, rows, answer)
  PROVE  /\ req' \in [Request -> Handling]
         /\ req'[r].pc = pc /\ req'[r].call = req[r].call
         /\ req'[r].rows = rows /\ req'[r].answer = answer
         /\ \A u \in Request : u # r => req'[u] = req[u]
<1> DEFINE t == [req[r] EXCEPT !.pc = pc, !.rows = rows, !.answer = answer]
<1>1. req \in [Request -> Handling] /\ req[r] \in Handling
  BY DEF TypeInv
<1>2. /\ t \in Handling
      /\ t.pc = pc /\ t.call = req[r].call /\ t.rows = rows /\ t.answer = answer
  BY <1>1 DEF Handling
<1>3. req' = [req EXCEPT ![r] = t]
  BY <1>1 DEF Moves
<1> HIDE DEF t
<1> QED
  BY <1>1, <1>2, <1>3

\* A request moves, the tables do not, and nothing is said to be gone, nor to be
\* read unless its audit is done.
LEMMA QuietInv ==
  ASSUME ContractsInv, NEW r \in Request, UNCHANGED tables,
         req' \in [Request -> Handling],
         \A u \in Request : u # r => req'[u] = req[u],
         req'[r].rows \subseteq [id : Contract \union given, athlete : Athlete],
         InOrder(r)', req'[r].answer # 204,
         \/ /\ req[r].pc \in {"none", "authorised", "read"}
            /\ req'[r].call.op \in Reads => req'[r].answer # 200
         \/ /\ req[r].pc = "audited" /\ req'[r].call = req[r].call
            /\ req'[r].pc \in {"answered", "cut"} /\ req'[r].answer \in {0, 200}
  PROVE  ContractsInv'
<1>1. UNCHANGED <<docs, given, audit, unaudited>>
  BY DEF tables
<1>2. TypeInv'
  BY <1>1 DEF ContractsInv, TypeInv, TypeOK, Handling, Answers
<1>3. Handlers'
  BY <1>1 DEF ContractsInv, Handlers, InOrder, Me, Target
<1>4. AuditIsCounted'
  BY <1>1 DEF ContractsInv, AuditIsCounted
<1>5. RemovedStaysRemoved'
  BY <1>1 DEF ContractsInv, RemovedStaysRemoved, Me, Target
<1>6. ReadsAreAudited'
  <2>1. ASSUME NEW u \in Request, req'[u].call.op \in Reads, req'[u].answer = 200
        PROVE  u \in unaudited' \/ \E a \in audit' : a.of = u /\ a.athlete = Me(u)'
    BY <1>1, <2>1 DEF ContractsInv, Handlers, InOrder, ReadsAreAudited, Me
  <2>2. ASSUME NEW a \in audit'
        PROVE  /\ a.action = req'[a.of].call.op /\ a.athlete = Me(a.of)'
               /\ req'[a.of].pc \in {"audited", "answered", "cut"}
               /\ req'[a.of].answer \in {0, 200}
    <3>1. /\ a \in audit /\ a.of \in Request
          /\ a.action = req[a.of].call.op /\ a.athlete = Me(a.of)
          /\ req[a.of].pc \in {"audited", "answered", "cut"} /\ req[a.of].answer \in {0, 200}
      BY <1>1 DEF ContractsInv, TypeInv, TypeOK, ReadsAreAudited
    <3>2. CASE a.of = r
      BY <3>1, <3>2 DEF Me
    <3>3. CASE a.of # r
      BY <3>1, <3>3 DEF Me
    <3> QED
      BY <3>2, <3>3
  <2>3. \A a, b \in audit' : a.id = b.id \/ a.of = b.of => a = b
    BY <1>1 DEF ContractsInv, ReadsAreAudited
  <2> QED
    BY <2>1, <2>2, <2>3 DEF ReadsAreAudited
<1> QED
  BY <1>2, <1>3, <1>4, <1>5, <1>6 DEF ContractsInv

\* The middleware lets nobody in without an athlete.
LEMMA ArriveInv ==
  ASSUME ContractsInv, NEW r \in Request, NEW k \in Call, Arrive(r, k)
  PROVE  ContractsInv'
<1> DEFINE pc == IF Refusal(k) = 0 THEN "authorised" ELSE "answered"
           t  == [Fresh EXCEPT !.pc = pc, !.call = k, !.answer = Refusal(k)]
<1>1. req \in [Request -> Handling] /\ k.athlete \in Athlete \union {Nobody}
  BY ContractsAssumption DEF ContractsInv, TypeInv
<1>2. /\ Refusal(k) \in {0, 400, 401} /\ (Refusal(k) = 0 => k.athlete \in Athlete)
      /\ pc \in {"authorised", "answered"} /\ (pc = "authorised" => Refusal(k) = 0)
  BY <1>1 DEF Refusal
<1>3. Fresh \in Handling /\ Fresh.rows = {} /\ DOMAIN Fresh = {"pc", "call", "rows", "answer"}
  BY DEF Fresh, Handling, Answers
<1> HIDE DEF pc
<1>4. /\ t \in Handling
      /\ t.pc = pc /\ t.call = k /\ t.rows = {} /\ t.answer = Refusal(k)
  <2>1. /\ DOMAIN t = {"pc", "call", "rows", "answer"}
        /\ t.pc = pc /\ t.call = k /\ t.rows = {} /\ t.answer = Refusal(k)
    BY <1>3
  <2>2. t.pc \in {"authorised", "answered"} /\ t.answer \in Answers
    BY <1>2, <2>1 DEF Answers
  <2>3. t = [f \in {"pc", "call", "rows", "answer"} |-> t[f]]
    BY <1>3
  <2> QED
    BY <2>1, <2>2, <2>3 DEF Handling
<1>5. /\ req[r].pc = "none" /\ UNCHANGED tables
      /\ k.target \in Document => k.target \in given
      /\ req' = [req EXCEPT ![r] = t]
  BY DEF Arrive, pc
<1> HIDE DEF t
<1>6. /\ req' \in [Request -> Handling] /\ req'[r] = t
      /\ \A u \in Request : u # r => req'[u] = req[u]
  BY <1>1, <1>4, <1>5
<1>7. InOrder(r)'
  BY <1>2, <1>4, <1>5, <1>6 DEF InOrder, Me, Target, tables
<1> QED
  BY <1>2, <1>4, <1>5, <1>6, <1>7, QuietInv

\* A handler that reads, fails, answers or is cut off moves without the tables.
LEMMA ReadingInv ==
  ASSUME ContractsInv, NEW r \in Request, UNCHANGED tables,
         req[r].pc \in {"authorised", "read", "audited"},
         NEW pc \in {"read", "answered", "cut"}, NEW rows,
         NEW answer \in {0, 200, 404, 500},
         Moves(r, pc, rows, answer),
         rows \subseteq [id : Contract \union given, athlete : Athlete],
         \A x \in rows : x.athlete = Me(r),
         pc # "answered" => answer = 0,
         pc = "read" => req[r].call.op \in Reads,
         req[r].pc = "audited" => pc # "read" /\ answer \in {0, 200},
         answer = 200 /\ req[r].call.op \in Reads => req[r].pc = "audited"
  PROVE  ContractsInv'
<1>1. /\ TypeInv /\ InOrder(r) /\ rows \subseteq Row /\ answer \in Answers
      /\ pc \in {"read", "audited", "answered", "cut"}
  BY DEF ContractsInv, Handlers, TypeInv, TypeOK, Row, Answers
<1>2. /\ req' \in [Request -> Handling]
      /\ req'[r].pc = pc /\ req'[r].call = req[r].call
      /\ req'[r].rows = rows /\ req'[r].answer = answer
      /\ \A u \in Request : u # r => req'[u] = req[u]
  BY <1>1, HandlerMoves, SMTT(60)
<1>3. InOrder(r)'
  BY <1>1, <1>2 DEF InOrder, Me, Target, tables
<1> QED
  BY <1>2, <1>3, QuietInv

\* A failure is an answer without rows.
LEMMA FailsInv ==
  ASSUME ContractsInv, NEW r \in Request, Fails(r)
  PROVE  ContractsInv'
<1> DEFINE answer == IF req[r].call.op = "get" THEN 404 ELSE 500
<1>1. /\ req[r].pc = "authorised" /\ UNCHANGED tables
      /\ Moves(r, "answered", {}, answer) /\ answer \in {404, 500}
  BY DEF Fails
<1> HIDE DEF answer
<1> QED
  BY <1>1, ReadingInv

\* The rows that are read are those of the athlete of the token.
LEMMA ReadInv ==
  ASSUME ContractsInv, NEW r \in Request, Read(r)
  PROVE  ContractsInv'
<1> DEFINE rows == {[id |-> c, athlete |-> OwnerOf[c]] : c \in MyContracts(r)}
<1>1. /\ req[r].pc = "authorised" /\ req[r].call.op \in Reads /\ UNCHANGED tables
      /\ Moves(r, "read", rows, 0)
  BY DEF Read, Asks
<1>2. /\ rows \subseteq [id : Contract \union given, athlete : Athlete]
      /\ \A x \in rows : x.athlete = Me(r)
  BY ContractsAssumption DEF MyContracts
<1> HIDE DEF rows
<1> QED
  BY <1>1, <1>2, ReadingInv

\* So are the documents.
LEMMA GetInv ==
  ASSUME ContractsInv, NEW r \in Request, Get(r)
  PROVE  ContractsInv'
<1> DEFINE found  == IF req[r].call.op = "list" THEN Mine(r) ELSE Targeted(r)
           rows   == {[id |-> d.id, athlete |-> d.athlete] : d \in found}
           answer == IF req[r].call.op = "get" /\ found = {} THEN 404 ELSE 200
<1>1. /\ req[r].pc = "authorised" /\ req[r].call.op \in {"list", "get"}
      /\ req[r].call.op \notin Reads /\ UNCHANGED tables
      /\ Moves(r, "answered", rows, answer) /\ answer \in {200, 404}
  BY DEF Get, Asks, Reads
<1>2. \A d \in found : d \in docs /\ d.athlete = Me(r)
  BY DEF Mine, Targeted
<1>3. docs \subseteq DocRows
  BY DEF ContractsInv, TypeInv, TypeOK, DocRows
<1>4. /\ rows \subseteq [id : Contract \union given, athlete : Athlete]
      /\ \A x \in rows : x.athlete = Me(r)
  BY <1>2, <1>3 DEF DocRows
<1> HIDE DEF found, rows, answer
<1> QED
  BY <1>1, <1>4, ReadingInv

\* What was read is answered after the audit.
LEMMA ReplyInv ==
  ASSUME ContractsInv, NEW r \in Request, Reply(r)
  PROVE  ContractsInv'
<1>1. /\ req[r].pc = "audited" /\ UNCHANGED tables
      /\ Moves(r, "answered", req[r].rows, 200)
  BY DEF Reply
<1>2. /\ req[r].rows \subseteq [id : Contract \union given, athlete : Athlete]
      /\ \A x \in req[r].rows : x.athlete = Me(r)
  BY DEF ContractsInv, TypeInv, TypeOK, Handlers, InOrder
<1> QED
  BY <1>1, <1>2, ReadingInv

\* A request that is cut off shows nothing.
LEMMA CutInv ==
  ASSUME ContractsInv, NEW r \in Request, Cut(r)
  PROVE  ContractsInv'
<1>1. /\ req[r].pc \in {"authorised", "read", "audited"} /\ UNCHANGED tables
      /\ Moves(r, "cut", {}, 0)
  BY DEF Cut
<1> QED
  BY <1>1, ReadingInv

------------------------------------------------------------------------------
\* The audit of a read, with its row or without: the row's id is a new one, and
\* no row was of this request before.
LEMMA AuditInv ==
  ASSUME ContractsInv, NEW r \in Request, Audit(r) \/ AuditFails(r)
  PROVE  ContractsInv'
<1> DEFINE a == AuditRow(r)
           n == Cardinality(audit)
<1>1. /\ req[r].pc = "read" /\ UNCHANGED <<docs, given>>
      /\ Moves(r, "audited", req[r].rows, 0)
      /\ TypeInv /\ InOrder(r) /\ req[r].call.op \in Reads /\ Me(r) \in Athlete
      /\ \/ audit' = audit \union {a} /\ unaudited' = unaudited
         \/ audit' = audit /\ unaudited' = unaudited \union {r}
  BY DEF Audit, AuditFails, ContractsInv, Handlers, InOrder
<1>2. /\ req' \in [Request -> Handling]
      /\ req'[r].pc = "audited" /\ req'[r].call = req[r].call
      /\ req'[r].rows = req[r].rows /\ req'[r].answer = 0
      /\ \A u \in Request : u # r => req'[u] = req[u]
  <2>1. req[r].rows \subseteq Row /\ 0 \in Answers
    BY <1>1 DEF TypeInv, TypeOK, Row, Answers
  <2> QED
    BY <1>1, <2>1, HandlerMoves
<1>3. /\ IsFiniteSet(audit) /\ n \in Nat /\ \A b \in audit : b.id <= n
      /\ IsFiniteSet(audit \union {a})
      /\ a \notin audit => Cardinality(audit \union {a}) = n + 1
  <2>1. IsFiniteSet(audit) /\ \A b \in audit : b.id <= n
    BY DEF ContractsInv, AuditIsCounted
  <2> QED
    BY <2>1, FS_CardinalityType, FS_AddElement
<1>4. /\ a.id = n + 1 /\ a.athlete = Me(r) /\ a.of = r /\ a.action = req[r].call.op
      /\ a \in [id : Nat \ {0}, athlete : Athlete, action : Reads, of : Request]
  BY <1>1, <1>3 DEF AuditRow
<1> HIDE DEF a, n
<1>5. /\ \A b \in audit : b.id # a.id /\ b.of # r /\ b.of \in Request /\ b.id \in Nat
      /\ a \notin audit
  <2>1. \A b \in audit : b.id \in Nat /\ b.of \in Request /\ req[b.of].pc # "read"
    BY <1>1 DEF TypeInv, TypeOK, ContractsInv, ReadsAreAudited
  <2> QED
    BY <1>1, <1>3, <1>4, <2>1
<1>6. TypeInv'
  BY <1>1, <1>2, <1>4 DEF TypeInv, TypeOK, Handling, Answers
<1>7. Handlers'
  <2>1. InOrder(r)'
    <3>1. r \in unaudited' \/ \E b \in audit' : b.of = r /\ b.athlete = Me(r)
      BY <1>1, <1>4
    <3> QED
      BY <1>1, <1>2, <3>1 DEF InOrder, Me, Target
  <2>2. ASSUME NEW u \in Request, u # r PROVE InOrder(u)'
    <3>1. InOrder(u) /\ req'[u] = req[u] /\ audit \subseteq audit' /\ unaudited \subseteq unaudited'
      BY <1>1, <1>2, <2>2 DEF ContractsInv, Handlers
    <3> QED
      BY <1>1, <3>1 DEF InOrder, Me, Target
  <2> QED
    BY <2>1, <2>2 DEF Handlers
<1>8. AuditIsCounted'
  <2>1. CASE audit' = audit
    BY <2>1 DEF ContractsInv, AuditIsCounted
  <2>2. CASE audit' = audit \union {a}
    <3>1. Cardinality(audit') = n + 1
      BY <1>3, <1>5, <2>2
    <3>2. \A b \in audit' : b.id <= n + 1
      BY <1>3, <1>4, <1>5, <2>2
    <3> QED
      BY <1>3, <2>2, <3>1, <3>2 DEF AuditIsCounted
  <2> QED
    BY <1>1, <2>1, <2>2
<1>9. RemovedStaysRemoved'
  BY <1>1, <1>2 DEF ContractsInv, RemovedStaysRemoved, Me, Target
<1>10. ReadsAreAudited'
  <2>1. ASSUME NEW u \in Request, req'[u].call.op \in Reads, req'[u].answer = 200
        PROVE  u \in unaudited' \/ \E b \in audit' : b.of = u /\ b.athlete = Me(u)'
    BY <1>1, <1>2, <2>1 DEF ContractsInv, ReadsAreAudited, Me
  <2>2. ASSUME NEW b \in audit'
        PROVE  /\ b.action = req'[b.of].call.op /\ b.athlete = Me(b.of)'
               /\ req'[b.of].pc \in {"audited", "answered", "cut"}
               /\ req'[b.of].answer \in {0, 200}
    <3>1. CASE b \in audit
      <4>1. b.of # r /\ b.of \in Request
        BY <1>5, <3>1
      <4> QED
        BY <1>2, <3>1, <4>1 DEF ContractsInv, ReadsAreAudited, Me
    <3>2. CASE b = a
      BY <1>2, <1>4, <3>2 DEF Me
    <3> QED
      BY <1>1, <3>1, <3>2
  <2>3. \A b, c \in audit' : b.id = c.id \/ b.of = c.of => b = c
    BY <1>1, <1>4, <1>5 DEF ContractsInv, ReadsAreAudited
  <2> QED
    BY <2>1, <2>2, <2>3 DEF ReadsAreAudited
<1> QED
  BY <1>6, <1>7, <1>8, <1>9, <1>10 DEF ContractsInv

------------------------------------------------------------------------------
\* What the writes have in common: the rows they leave are old ones, perhaps
\* with another text, or have an id that was not given before, which no request
\* can have named.
LEMMA WriteInv ==
  ASSUME ContractsInv, NEW r \in Request, Asks(r, Writes),
         NEW status \in {200, 201, 204}, Written(r, status),
         UNCHANGED <<audit, unaudited>>,
         given \subseteq given', given' \subseteq Document,
         docs' \subseteq DocRows',
         \A c, d \in docs' : c.id = d.id => c = d,
         \A d \in docs' : \/ d.id \notin given
                          \/ \E c \in docs : c.id = d.id /\ c.athlete = d.athlete,
         status = 204 => ~ \E d \in docs' : d.id = Target(r) /\ d.athlete = Me(r)
  PROVE  ContractsInv'
<1>1. /\ TypeInv /\ InOrder(r)
      /\ req[r].pc = "authorised" /\ req[r].call.op \notin Reads
  BY DEF ContractsInv, Handlers, Asks, Reads, Writes
<1>2. PICK pc \in {"answered", "cut"}, answer \in {status, 500, 0} :
        Moves(r, pc, {}, answer) /\ (pc = "cut" => answer = 0)
  BY DEF Written
<1>3. /\ req' \in [Request -> Handling]
      /\ req'[r].pc = pc /\ req'[r].call = req[r].call
      /\ req'[r].rows = {} /\ req'[r].answer = answer
      /\ \A u \in Request : u # r => req'[u] = req[u]
  BY <1>1, <1>2, HandlerMoves DEF Answers
<1>4. TypeInv'
  <2>1. /\ docs' \subseteq [id : given', athlete : Athlete, contract : Linkable, text : Request]
        /\ \A c, d \in docs' : c.id = d.id => c = d
    BY DEF DocRows
  <2>2. ASSUME NEW u \in Request
        PROVE  /\ req'[u].pc \in {"none", "authorised", "read", "audited", "answered", "cut"}
               /\ req'[u].call \in Call \union {NoCall}
               /\ req'[u].rows \subseteq [id : Contract \union given', athlete : Athlete]
               /\ req'[u].answer \in Answers
    BY <1>1, <1>3 DEF TypeInv, TypeOK, Handling
  <2> QED
    BY <1>1, <1>3, <2>1, <2>2 DEF TypeInv, TypeOK, Answers
<1>5. Handlers'
  <2>1. InOrder(r)'
    BY <1>1, <1>2, <1>3 DEF InOrder, Me, Target
  <2>2. ASSUME NEW u \in Request, u # r PROVE InOrder(u)'
    <3>1. InOrder(u) /\ req'[u] = req[u]
      BY <1>3, <2>2 DEF ContractsInv, Handlers
    <3> QED
      BY <3>1 DEF InOrder, Me, Target
  <2> QED
    BY <2>1, <2>2 DEF Handlers
<1>6. AuditIsCounted'
  BY DEF ContractsInv, AuditIsCounted
<1>7. RemovedStaysRemoved'
  <2>1. ASSUME NEW u \in Request, u # r, req[u].answer = 204,
               NEW d \in docs', d.id = Target(u), d.athlete = Me(u)
        PROVE  FALSE
    <3>1. d.id \in Document
      BY DEF DocRows
    <3>2. Target(u) \in given
      BY <2>1, <3>1 DEF ContractsInv, Handlers, InOrder
    <3> QED
      BY <2>1, <3>2 DEF ContractsInv, RemovedStaysRemoved
  <2> QED
    BY <1>2, <1>3, <2>1 DEF RemovedStaysRemoved, Me, Target
<1>8. ReadsAreAudited'
  <2>1. ASSUME NEW a \in audit PROVE a.of \in Request /\ a.of # r
    BY <1>1 DEF ContractsInv, TypeInv, TypeOK, InOrder, ReadsAreAudited
  <2> QED
    BY <1>1, <1>3, <2>1 DEF ContractsInv, ReadsAreAudited, Me
<1> QED
  BY <1>4, <1>5, <1>6, <1>7, <1>8 DEF ContractsInv

\* The rows as they are, once for the three writes.
LEMMA DocsType ==
  ContractsInv => /\ docs \subseteq DocRows
                  /\ \A c, d \in docs : c.id = d.id => c = d
                  /\ given \subseteq Document
BY DEF ContractsInv, TypeInv, TypeOK, DocRows

\* A new document has an id of its own.
LEMMA UploadInv ==
  ASSUME ContractsInv, NEW r \in Request, Upload(r)
  PROVE  ContractsInv'
<1>1. PICK id \in Document \ given :
        /\ docs' = docs \union {[id |-> id, athlete |-> Me(r),
                                contract |-> Target(r), text |-> r]}
        /\ given' = given \union {id} /\ Target(r) \in Linkable
  BY DEF Upload
<1>2. /\ Asks(r, Writes) /\ Written(r, 201) /\ UNCHANGED <<audit, unaudited>>
      /\ Me(r) \in Athlete
  BY DEF Upload, Asks, Writes, ContractsInv, Handlers, InOrder
<1>3. /\ docs' \subseteq DocRows'
      /\ \A c, d \in docs' : c.id = d.id => c = d
      /\ \A d \in docs' : \/ d.id \notin given
                          \/ \E c \in docs : c.id = d.id /\ c.athlete = d.athlete
  BY <1>1, <1>2, DocsType DEF DocRows
<1> QED
  BY <1>1, <1>2, <1>3, WriteInv, DocsType

\* Only the text of a row that is there changes.
LEMMA UpdateTextInv ==
  ASSUME ContractsInv, NEW r \in Request, UpdateText(r)
  PROVE  ContractsInv'
<1>1. /\ Asks(r, Writes) /\ Written(r, 200) /\ UNCHANGED <<given, audit, unaudited>>
      /\ docs' = (docs \ Targeted(r)) \union {[d EXCEPT !.text = r] : d \in Targeted(r)}
  BY DEF UpdateText, Asks, Writes
<1>2. ASSUME NEW d \in docs'
      PROVE  /\ d \in DocRows'
             /\ \E c \in docs : /\ c.id = d.id /\ c.athlete = d.athlete
                             /\ d = IF c \in Targeted(r) THEN [c EXCEPT !.text = r] ELSE c
  BY <1>1, DocsType DEF Targeted, Mine, DocRows
<1>3. \A c, d \in docs' : c.id = d.id => c = d
  BY <1>2, DocsType
<1> QED
  BY <1>1, <1>2, <1>3, WriteInv, DocsType

\* Afterwards the athlete has no such document.
LEMMA RemoveInv ==
  ASSUME ContractsInv, NEW r \in Request, Remove(r)
  PROVE  ContractsInv'
<1>1. /\ Asks(r, Writes) /\ Written(r, 204) /\ UNCHANGED <<given, audit, unaudited>>
      /\ docs' = docs \ Targeted(r)
  BY DEF Remove, Asks, Writes
<1>2. ~ \E d \in docs' : d.id = Target(r) /\ d.athlete = Me(r)
  BY <1>1 DEF Targeted, Mine
<1>3. /\ docs' \subseteq docs /\ docs' \subseteq DocRows'
      /\ \A c, d \in docs' : c.id = d.id => c = d
  BY <1>1, DocsType DEF DocRows
<1> QED
  BY <1>1, <1>2, <1>3, WriteInv, DocsType

------------------------------------------------------------------------------
\* No request has arrived at the start.
LEMMA InitInv == Init => ContractsInv
<1> SUFFICES ASSUME Init PROVE ContractsInv
  OBVIOUS
<1> USE DEF Init
<1>1. /\ Fresh \in Handling
      /\ Fresh.pc = "none" /\ Fresh.rows = {} /\ Fresh.answer = 0
      /\ Fresh.call.target \notin Document /\ Fresh.call \in Call \union {NoCall}
  BY ContractsAssumption DEF Fresh, NoCall, Handling, Answers
<1>2. req \in [Request -> Handling] /\ \A r \in Request : req[r] = Fresh
  BY <1>1
<1>3. TypeInv
  BY <1>1, <1>2 DEF TypeInv, TypeOK
<1>4. Handlers
  BY <1>1, <1>2 DEF Handlers, InOrder, Me, Target
<1>5. AuditIsCounted
  BY FS_EmptySet DEF AuditIsCounted
<1>6. RemovedStaysRemoved /\ ReadsAreAudited
  BY <1>1, <1>2 DEF RemovedStaysRemoved, ReadsAreAudited
<1> QED
  BY <1>3, <1>4, <1>5, <1>6 DEF ContractsInv

\* Every step of a handler keeps the invariant.
LEMMA NextInv == ContractsInv /\ [Next]_vars => ContractsInv'
<1> SUFFICES ASSUME ContractsInv, [Next]_vars PROVE ContractsInv'
  OBVIOUS
<1>1. ASSUME NEW r \in Request, NEW k \in Call, Arrive(r, k) PROVE ContractsInv'
  BY <1>1, ArriveInv
<1>2. ASSUME NEW r \in Request,
             Fails(r) \/ Cut(r) \/ Read(r) \/ Audit(r) \/ AuditFails(r) \/ Reply(r)
               \/ Get(r) \/ Upload(r) \/ UpdateText(r) \/ Remove(r)
      PROVE  ContractsInv'
  BY <1>2, FailsInv, CutInv, ReadInv, AuditInv, ReplyInv, GetInv, UploadInv, UpdateTextInv, RemoveInv
<1>3. CASE UNCHANGED vars
  <2>1. UNCHANGED <<docs, given, audit, unaudited, req>>
    BY <1>3 DEF vars
  <2> QED
    BY <2>1 DEF ContractsInv, TypeInv, TypeOK, Handlers, InOrder, AuditIsCounted,
                RemovedStaysRemoved, ReadsAreAudited, Me, Target
<1> QED
  BY <1>1, <1>2, <1>3 DEF Next

\* The tables and the handlers keep their types, ids of documents are unique.
THEOREM TypeCorrect == Spec => []TypeOK
<1>1. ContractsInv => TypeOK
  BY DEF ContractsInv, TypeInv
<1> QED
  BY <1>1, InitInv, NextInv, PTL DEF Spec

\* What its owner was told is removed (DeleteContractDocument answered 204) does
\* not come back, whatever updates and uploads were under way.
THEOREM RemovedAlwaysStaysRemoved == Spec => []RemovedStaysRemoved
<1>1. ContractsInv => RemovedStaysRemoved
  BY DEF ContractsInv
<1> QED
  BY <1>1, InitInv, NextInv, PTL DEF Spec

\* Every served read of contracts or clauses (Service.Contracts, Service.Clauses)
\* has its audit row, unless just that insert failed; every row is the only one
\* of a read whose statement succeeded, which is answered or cut off.
THEOREM ReadsAlwaysAudited == Spec => []ReadsAreAudited
<1>1. ContractsInv => ReadsAreAudited
  BY DEF ContractsInv
<1> QED
  BY <1>1, InitInv, NextInv, PTL DEF Spec

\* A row that a handler adds, changes or takes away belongs to the athlete of
\* its token, and so does what it answers.
LEMMA StepIsOwn ==
  ASSUME ContractsInv, ContractsInv', [Next]_vars, vars' # vars
  PROVE  AnswersAreOwn' /\ ChangesAreOwn
<1>1. AnswersAreOwn'
  BY DEF ContractsInv, Handlers, InOrder, AnswersAreOwn
<1>2. ASSUME UNCHANGED docs PROVE ChangesAreOwn
  BY <1>2 DEF ChangesAreOwn
<1>3. ASSUME NEW r \in Request, Upload(r) \/ UpdateText(r) \/ Remove(r)
      PROVE  ChangesAreOwn
  <2>1. ASSUME NEW d \in (docs' \ docs) \union (docs \ docs') PROVE d.athlete = Me(r)
    BY <1>3, <2>1, DocsType DEF DocRows, Upload, UpdateText, Remove, Targeted, Mine
  <2>2. req'[r] # req[r]
    <3>1. req[r].pc = "authorised" /\ req \in [Request -> Handling] /\ TypeInv
      BY <1>3 DEF Upload, UpdateText, Remove, Asks, ContractsInv, TypeInv
    <3>2. PICK pc \in {"answered", "cut"}, answer \in {0, 200, 201, 204, 500} :
            Moves(r, pc, {}, answer)
      BY <1>3 DEF Upload, UpdateText, Remove, Written
    <3>3. req'[r].pc = pc
      BY <3>1, <3>2, HandlerMoves DEF Answers
    <3> QED
      BY <3>1, <3>3
  <2> QED
    BY <2>1, <2>2 DEF ChangesAreOwn
<1>4. UNCHANGED docs \/ \E r \in Request : Upload(r) \/ UpdateText(r) \/ Remove(r)
  BY DEF Next, vars, tables, Arrive, Fails, Cut, Read, Audit, AuditFails, Reply, Get
<1> QED
  BY <1>1, <1>2, <1>3, <1>4

\* Whatever ids a request names, it sees and changes only rows of the athlete
\* its token stands for.
THEOREM TenantsAlwaysApart == Spec => TenantsAreApart
<1>1. ContractsInv /\ ContractsInv' /\ [Next]_vars => [AnswersAreOwn' /\ ChangesAreOwn]_vars
  BY StepIsOwn
<1> QED
  BY <1>1, InitInv, NextInv, PTL DEF Spec, TenantsAreApart

------------------------------------------------------------------------------
\* The other page that writes for an athlete, "record appearance" of the club.
\* Every fact from here on is about the constants of Club.
USE ClubAssumption

\* What a click knows of its number: it has one once it is counted, from above
\* the seed and not above the counter, and no other click for that athlete has
\* it; what was accepted was sent with it.
NumberIsOwn(c) ==
  /\ click[c].pc = "new" => click[c].number = 0
  /\ click[c].pc = "counted" => click[c].number > 0
  /\ click[c].pc # "answered" => click[c].answer = 0
  /\ click[c].number > 0 =>
       /\ About[c] \in Player
       /\ Seed[About[c]] < click[c].number
       /\ click[c].number <= counter[About[c]]
       /\ \A d \in Click \ {c} :
            About[d] = About[c] => click[d].number # click[c].number
  /\ click[c].answer = 202 =>
       click[c].number > 0 /\ [click |-> c, number |-> click[c].number] \in sent

ClubInv ==
  /\ ClubTypeOK
  /\ \A c \in Click : NumberIsOwn(c)
  /\ origin \in [Player -> Nat]
  /\ \A a \in Player : Seed[a] <= counter[a] /\ origin[a] <= progress[a]

------------------------------------------------------------------------------
\* A click's record.
ClickAnswers == {0, 200, 202, 400, 401, 500, 502}
ClickState   == [pc : {"new", "counted", "answered"}, number : Nat,
                 answer : ClickAnswers]

\* TypeOK, with that record.
LEMMA TypesOfClicks == ClubTypeOK => click \in [Click -> ClickState]
BY DEF ClubTypeOK, ClickState, ClickAnswers

\* An answer leaves the other clicks and the number alone.
LEMMA AnswerMoves ==
  ASSUME click \in [Click -> ClickState], NEW c \in Click,
         NEW status \in ClickAnswers, Answer(c, status)
  PROVE  /\ click' \in [Click -> ClickState]
         /\ click'[c].pc = "answered" /\ click'[c].answer = status
         /\ click'[c].number = click[c].number
         /\ \A d \in Click \ {c} : click'[d] = click[d]
<1> DEFINE t == [click[c] EXCEPT !.pc = "answered", !.answer = status]
<1>1. click[c] \in ClickState
  OBVIOUS
<1>2. t.pc = "answered" /\ t.answer = status /\ t.number = click[c].number
  BY <1>1 DEF ClickState
<1>3. t \in ClickState
  BY <1>1 DEF ClickState
<1>4. click' = [click EXCEPT ![c] = t]
  BY <1>1 DEF Answer
<1> HIDE DEF t
<1> QED
  BY <1>2, <1>3, <1>4

\* The statement gives a click the next number.
LEMMA IncrementMoves ==
  ASSUME click \in [Click -> ClickState], counter \in [Player -> Nat],
         NEW c \in Click, IncrementAppearanceCounter(c)
  PROVE  /\ About[c] \in Player
         /\ counter' = [counter EXCEPT ![About[c]] = @ + 1] /\ counter' \in [Player -> Nat]
         /\ click' \in [Click -> ClickState]
         /\ click'[c].pc = "counted" /\ click'[c].answer = click[c].answer
         /\ click'[c].number = counter[About[c]] + 1
         /\ \A d \in Click \ {c} : click'[d] = click[d]
<1> DEFINE n == counter'[About[c]]
           t == [click[c] EXCEPT !.pc = "counted", !.number = n]
<1>1. click[c] \in ClickState /\ About[c] \in Player
  BY DEF IncrementAppearanceCounter
<1>2. counter' = [counter EXCEPT ![About[c]] = @ + 1]
  BY DEF IncrementAppearanceCounter
<1>3. n = counter[About[c]] + 1 /\ n \in Nat /\ counter' \in [Player -> Nat]
  BY <1>1, <1>2
<1>4. click' = [click EXCEPT ![c] = t]
  BY DEF IncrementAppearanceCounter
<1> HIDE DEF n
<1>5. t.pc = "counted" /\ t.number = n /\ t.answer = click[c].answer
  BY <1>1 DEF ClickState
<1>6. t \in ClickState
  BY <1>1, <1>3 DEF ClickState
<1> HIDE DEF t
<1> QED
  BY <1>1, <1>2, <1>3, <1>4, <1>5, <1>6

\* No click has a number yet.
LEMMA ClubInitInv == ClubInit => ClubInv
<1> SUFFICES ASSUME ClubInit PROVE ClubInv
  OBVIOUS
<1>1. PICK used \in UsedBefore : progress = [a \in Player |-> Seed[a] + used]
  BY DEF ClubInit
<1>2. used \in Nat /\ Seed \in [Player -> Nat]
  OBVIOUS
<1>3. progress \in [Player -> Nat] /\ counter = Seed /\ origin = progress
  BY <1>1, <1>2 DEF ClubInit, Migrated
<1>4. /\ sent = {} /\ click = [c \in Click |-> [pc |-> "new", number |-> 0, answer |-> 0]]
  BY DEF ClubInit
<1>5. ClubTypeOK
  BY <1>2, <1>3, <1>4 DEF ClubTypeOK
<1>6. \A c \in Click : NumberIsOwn(c)
  BY <1>4 DEF NumberIsOwn
<1>7. \A a \in Player : Seed[a] <= counter[a] /\ origin[a] <= progress[a]
  BY <1>2, <1>3
<1> QED
  BY <1>3, <1>5, <1>6, <1>7 DEF ClubInv

\* An answer that is not 202, with or without the webhook having been accepted.
LEMMA AnsweredInv ==
  ASSUME ClubInv, NEW c \in Click, NEW status \in {200, 400, 401, 500, 502}, Answer(c, status),
         sent' = sent \/ (click[c].pc = "counted" /\ Sent(c)),
         UNCHANGED <<counter, progress, origin>>
  PROVE  ClubInv'
<1>1. ClubTypeOK /\ click \in [Click -> ClickState]
  BY TypesOfClicks DEF ClubInv, ClubTypeOK
<1>2. /\ click' \in [Click -> ClickState]
      /\ click'[c].pc = "answered" /\ click'[c].answer = status
      /\ click'[c].number = click[c].number
      /\ \A d \in Click \ {c} : click'[d] = click[d]
  BY <1>1, AnswerMoves DEF ClickAnswers
<1>3. sent \subseteq sent' /\ sent' \subseteq [click : Click, number : Nat \ {0}]
  <2>1. click[c].pc = "counted" => click[c].number > 0
    BY DEF ClubInv, NumberIsOwn
  <2>2. click[c].number \in Nat
    BY <1>1 DEF ClickState
  <2> QED
    BY <1>1, <2>1, <2>2 DEF Sent, ClubTypeOK
<1>4. ClubTypeOK'
  BY <1>1, <1>2, <1>3 DEF ClubTypeOK, ClickState, ClickAnswers
<1>5. ASSUME NEW d \in Click PROVE NumberIsOwn(d)'
  BY <1>2, <1>3 DEF ClubInv, NumberIsOwn
<1> QED
  BY <1>4, <1>5 DEF ClubInv

\* A click that gets its number from the counter, whether it learns it or not.
LEMMA CountedInv ==
  ASSUME ClubInv, NEW c \in Click,
         IncrementAppearanceCounter(c)
  PROVE  ClubInv'
<1>1. ClubTypeOK /\ click \in [Click -> ClickState] /\ counter \in [Player -> Nat]
      /\ \A d \in Click : click[d] \in ClickState /\ click[d].number \in Nat
  BY TypesOfClicks DEF ClubInv, ClubTypeOK
<1>2. /\ About[c] \in Player /\ click[c].pc = "new"
      /\ UNCHANGED <<progress, origin, sent>>
      /\ counter' = [counter EXCEPT ![About[c]] = @ + 1] /\ counter' \in [Player -> Nat]
      /\ click' \in [Click -> ClickState]
      /\ click'[c].pc = "counted" /\ click'[c].answer = click[c].answer
      /\ click'[c].number = counter[About[c]] + 1
      /\ \A d \in Click \ {c} : click'[d] = click[d]
  BY <1>1, IncrementMoves DEF IncrementAppearanceCounter
<1>3. /\ counter'[About[c]] = counter[About[c]] + 1
      /\ \A a \in Player : counter[a] <= counter'[a] /\ counter[a] \in Nat /\ counter'[a] \in Nat
  BY <1>1, <1>2
<1>4. ClubTypeOK'
  BY <1>1, <1>2 DEF ClubTypeOK, ClickState, ClickAnswers
<1>5. \A a \in Player : Seed[a] \in Nat /\ Seed[a] <= counter[a]
  BY DEF ClubInv
<1>6. click[c].answer = 0 /\ click[c].number = 0
  BY <1>2 DEF ClubInv, NumberIsOwn
<1>7. \A d \in Click : NumberIsOwn(d)
  BY DEF ClubInv
<1>8. NumberIsOwn(c)'
  <2>1. ASSUME NEW d \in Click \ {c}, About[d] = About[c]
        PROVE  click'[d].number # click'[c].number
    <3>1. click[d].number > 0 => click[d].number <= counter[About[c]]
      BY <1>7, <2>1 DEF NumberIsOwn
    <3> QED
      BY <1>1, <1>2, <1>3, <3>1
  <2>2. /\ click'[c].number > 0 /\ Seed[About[c]] < click'[c].number
        /\ click'[c].number <= counter'[About[c]]
    BY <1>2, <1>3, <1>5
  <2> QED
    BY <1>2, <1>6, <2>1, <2>2 DEF NumberIsOwn
<1>9. ASSUME NEW d \in Click, d # c PROVE NumberIsOwn(d)'
  <2>1. click'[d] = click[d] /\ click[d].number \in Nat
    BY <1>1, <1>2, <1>9
  <2>2. ASSUME click[d].number > 0
        PROVE  /\ click[d].number <= counter'[About[d]]
               /\ \A e \in Click \ {d} :
                    About[e] = About[d] => click'[e].number # click[d].number
    <3>1. /\ About[d] \in Player /\ click[d].number <= counter[About[d]]
          /\ \A e \in Click \ {d} : About[e] = About[d] => click[e].number # click[d].number
      BY <1>7, <2>2 DEF NumberIsOwn
    <3>2. click[d].number <= counter'[About[d]]
      BY <1>3, <2>1, <3>1
    <3>3. About[c] = About[d] => click'[c].number # click[d].number
      BY <1>2, <1>3, <2>1, <3>1
    <3> QED
      BY <1>2, <3>1, <3>2, <3>3
  <2>3. NumberIsOwn(d)
    BY <1>7
  <2> QED
    BY <1>2, <2>1, <2>2, <2>3 DEF NumberIsOwn
<1>10. \A a \in Player : Seed[a] <= counter'[a] /\ origin'[a] <= progress'[a]
  BY <1>2, <1>3, <1>5 DEF ClubInv
<1> QED
  BY <1>2, <1>4, <1>8, <1>9, <1>10 DEF ClubInv

\* The counter moves on and the click does not learn its number: the number is lost,
\* no later click gets it.
LEMMA UnseenInv ==
  ASSUME ClubInv, NEW c \in Click, IncrementUnseen(c)
  PROVE  ClubInv'
<1>1. ClubTypeOK /\ click \in [Click -> ClickState] /\ counter \in [Player -> Nat]
  BY TypesOfClicks DEF ClubInv, ClubTypeOK
<1>2. /\ click' \in [Click -> ClickState]
      /\ click'[c].pc = "answered" /\ click'[c].answer = 500
      /\ click'[c].number = click[c].number
      /\ \A d \in Click \ {c} : click'[d] = click[d]
  BY <1>1, AnswerMoves DEF IncrementUnseen, ClickAnswers
<1>3. /\ About[c] \in Player /\ UNCHANGED <<progress, origin, sent>>
      /\ counter' = [counter EXCEPT ![About[c]] = @ + 1]
  BY DEF IncrementUnseen
<1>4. /\ counter' \in [Player -> Nat]
      /\ \A a \in Player : counter[a] <= counter'[a] /\ counter[a] \in Nat /\ counter'[a] \in Nat
  BY <1>1, <1>3
<1>5. ClubTypeOK'
  BY <1>1, <1>2, <1>3, <1>4 DEF ClubTypeOK, ClickState, ClickAnswers
<1>6. \A a \in Player : Seed[a] \in Nat /\ Seed[a] <= counter[a] /\ origin[a] <= progress[a]
  BY DEF ClubInv
<1>7. ASSUME NEW d \in Click PROVE NumberIsOwn(d)'
  <2>1. NumberIsOwn(d) /\ click[d].number \in Nat
    BY <1>1 DEF ClubInv, ClickState
  <2>2. \A e \in Click : click'[e].number = click[e].number
    BY <1>2
  <2>3. click[d].number > 0 => click[d].number <= counter'[About[d]]
    BY <1>4, <2>1 DEF NumberIsOwn
  <2> QED
    BY <1>2, <1>3, <2>1, <2>2, <2>3 DEF NumberIsOwn
<1> QED
  BY <1>3, <1>4, <1>5, <1>6, <1>7 DEF ClubInv

\* The webhook is accepted and the click is told so.
LEMMA ForwardInv ==
  ASSUME ClubInv, NEW c \in Click, Forward(c)
  PROVE  ClubInv'
<1>1. ClubTypeOK /\ click \in [Click -> ClickState]
  BY TypesOfClicks DEF ClubInv, ClubTypeOK
<1>2. /\ click' \in [Click -> ClickState]
      /\ click'[c].pc = "answered" /\ click'[c].answer = 202
      /\ click'[c].number = click[c].number
      /\ \A d \in Click \ {c} : click'[d] = click[d]
  BY <1>1, AnswerMoves DEF Forward, ClickAnswers
<1>3. /\ click[c].pc = "counted" /\ UNCHANGED <<counter, progress, origin>>
      /\ sent' = sent \union {[click |-> c, number |-> click[c].number]}
  BY DEF Forward, Sent
<1>4. click[c].number \in Nat /\ click[c].number > 0
  <2>1. click[c].number \in Nat
    BY <1>1 DEF ClickState
  <2> QED
    BY <1>3, <2>1 DEF ClubInv, NumberIsOwn
<1>5. ClubTypeOK'
  BY <1>1, <1>2, <1>3, <1>4 DEF ClubTypeOK, ClickState, ClickAnswers
<1>6. ASSUME NEW d \in Click PROVE NumberIsOwn(d)'
  BY <1>2, <1>3, <1>4 DEF ClubInv, NumberIsOwn
<1> QED
  BY <1>3, <1>5, <1>6 DEF ClubInv

\* The engine looks at what was accepted and at the progress only.
LEMMA ObserveInv ==
  ASSUME ClubInv, NEW s \in sent, Observe(s)
  PROVE  ClubInv'
<1> DEFINE a == About[s.click]
<1>1. /\ s.number > progress[a] /\ progress' = [progress EXCEPT ![a] = s.number]
      /\ UNCHANGED <<counter, origin, sent, click>>
  BY DEF Observe
<1>2. ClubTypeOK /\ progress \in [Player -> Nat] /\ s.number \in Nat
  BY DEF ClubInv, ClubTypeOK
<1> HIDE DEF a
<1>3. progress' \in [Player -> Nat]
  BY <1>1, <1>2
<1>4. ClubTypeOK'
  BY <1>1, <1>2, <1>3 DEF ClubTypeOK
<1>5. \A b \in Player : progress'[b] = IF b = a THEN s.number ELSE progress[b]
  BY <1>1, <1>2
<1>6. \A b \in Player : origin'[b] <= progress'[b]
  BY <1>1, <1>2, <1>3, <1>5 DEF ClubInv
<1> QED
  BY <1>1, <1>4, <1>6 DEF ClubInv, NumberIsOwn

\* So every step keeps the numbers apart.
LEMMA ClubNextInv ==
  ASSUME ClubInv, [ClubNext]_clubVars
  PROVE  ClubInv'
<1>1. ASSUME NEW c \in Click,
             Reject(c) \/ IncrementFails(c) \/ ForwardFails(c) \/ ForwardUnseen(c)
      PROVE  ClubInv'
  <2>1. \E status \in {200, 400, 401, 500, 502} : Answer(c, status)
    BY <1>1 DEF Reject, IncrementFails, ForwardFails, ForwardUnseen
  <2>2. /\ sent' = sent \/ (click[c].pc = "counted" /\ Sent(c))
        /\ UNCHANGED <<counter, progress, origin>>
    BY <1>1 DEF Reject, IncrementFails, ForwardFails, ForwardUnseen
  <2> QED
    BY <2>1, <2>2, AnsweredInv
<1>2. ASSUME NEW c \in Click,
             IncrementAppearanceCounter(c) \/ IncrementUnseen(c) \/ Forward(c)
      PROVE  ClubInv'
  BY <1>2, CountedInv, UnseenInv, ForwardInv
<1>3. CASE UNCHANGED clubVars
  BY <1>3 DEF clubVars, ClubInv, ClubTypeOK, NumberIsOwn
<1> QED
  BY <1>1, <1>2, <1>3, ObserveInv DEF ClubNext

\* The console (recordAppearance of internal/club/handler.go) for any clicks at
\* once: what it posts to ingest always carries a number from the counter, never
\* the zero of a click that was not counted.
THEOREM ClubTypeCorrect == ClubSpec => []ClubTypeOK
<1>1. ClubInv => ClubTypeOK
  BY DEF ClubInv
<1> QED
  BY <1>1, ClubInitInv, ClubNextInv, PTL DEF ClubSpec

\* When all is quiet, the numbers of the accepted clicks are between the seed
\* and the progress, and no two clicks for the player have the same.
LEMMA QuietCounts ==
  ASSUME ClubInv, Quiet, NEW a \in Player
  PROVE  progress[a] >= Seed[a] + Cardinality(AcceptedFor(a)) \/ progress[a] < Seed[a]
<1> DEFINE A == AcceptedFor(a)
           f == [c \in A |-> click[c].number]
           T == (Seed[a] + 1) .. progress[a]
<1>1. Seed[a] \in Nat /\ progress[a] \in Nat /\ click \in [Click -> ClickState]
  BY TypesOfClicks DEF ClubInv, ClubTypeOK
<1>2. ASSUME NEW c \in A PROVE click[c].number \in T
  <2>1. c \in Click /\ About[c] = a /\ click[c].answer = 202 /\ NumberIsOwn(c)
    BY DEF AcceptedFor, ClubInv
  <2>2. click[c].number > 0 /\ [click |-> c, number |-> click[c].number] \in sent
        /\ Seed[a] < click[c].number
    BY <2>1 DEF NumberIsOwn
  <2>3. click[c].number <= progress[a]
    BY <2>1, <2>2 DEF Quiet
  <2>4. click[c].number \in Nat
    BY <1>1, <2>1 DEF ClickState
  <2> QED
    BY <1>1, <2>2, <2>3, <2>4
<1>3. ASSUME NEW c \in A, NEW d \in A, click[c].number = click[d].number PROVE c = d
  <2>1. /\ c \in Click /\ d \in Click /\ About[c] = a /\ About[d] = a
        /\ NumberIsOwn(c) /\ click[c].answer = 202
    BY DEF AcceptedFor, ClubInv
  <2>2. click[c].number > 0
    BY <2>1 DEF NumberIsOwn
  <2> QED
    BY <1>3, <2>1, <2>2 DEF NumberIsOwn
<1>4. f \in Injection(A, T)
  BY <1>2, <1>3 DEF Injection, IsInjective
<1>5. /\ IsFiniteSet(T)
      /\ Cardinality(T) = IF Seed[a] + 1 > progress[a] THEN 0 ELSE progress[a] - Seed[a]
  <2>1. Seed[a] + 1 \in Int /\ progress[a] \in Int
    BY <1>1
  <2>2. /\ IsFiniteSet(T)
        /\ Cardinality(T) = IF Seed[a] + 1 > progress[a] THEN 0
                            ELSE progress[a] - (Seed[a] + 1) + 1
    BY <2>1, FS_Interval, Zenon
  <2> QED
    BY <1>1, <2>2
<1> HIDE DEF A, f, T
<1>6. IsFiniteSet(A) /\ Cardinality(A) <= Cardinality(T)
  BY <1>4, <1>5, FS_Injection
<1>7. Cardinality(A) \in Nat /\ Cardinality(A) = Cardinality(AcceptedFor(a))
  BY <1>6, FS_CardinalityType DEF A
<1> QED
  BY <1>1, <1>5, <1>6, <1>7

\* "The first click after this migration continues the sequence"
\* (0004_appearance_counter.up.sql:18-19), and so does every later one, however
\* many are under way: each accepted click has moved its player on in the end.
\* Proved for a database on which no appearance was recorded before the
\* migration; with one, run club_migration shows the contrary.
THEOREM ClicksAlwaysCount ==
  ASSUME UsedBefore \subseteq {0}
  PROVE  ClubSpec => []AcceptedClicksCount
<1> DEFINE Unused == ClubInv /\ origin = Seed
<1>1. ClubInit => Unused
  <2> SUFFICES ASSUME ClubInit PROVE Unused
    OBVIOUS
  <2>1. PICK used \in UsedBefore : progress = [a \in Player |-> Seed[a] + used]
    BY DEF ClubInit
  <2>2. used = 0 /\ Seed \in [Player -> Nat]
    OBVIOUS
  <2>3. progress = Seed
    BY <2>1, <2>2
  <2> QED
    BY <2>3, ClubInitInv DEF ClubInit
<1>2. Unused /\ [ClubNext]_clubVars => Unused'
  <2>1. [ClubNext]_clubVars => origin' = origin
    BY DEF ClubNext, clubVars, Reject, IncrementAppearanceCounter, IncrementFails,
           IncrementUnseen, Forward, ForwardFails, ForwardUnseen, Observe
  <2> QED
    BY <2>1, ClubNextInv
<1>3. Unused => AcceptedClicksCount
  <2> SUFFICES ASSUME Unused, Quiet, NEW a \in Player
               PROVE  progress[a] >= origin[a] + Cardinality(AcceptedFor(a))
    BY DEF AcceptedClicksCount
  <2>1. progress[a] \in Nat /\ Seed[a] \in Nat /\ Seed[a] <= progress[a]
    BY DEF ClubInv, ClubTypeOK
  <2> QED
    BY <2>1, QuietCounts
<1> QED
  BY <1>1, <1>2, <1>3, PTL DEF ClubSpec
=============================================================================
