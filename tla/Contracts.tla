------------------------------- MODULE Contracts -------------------------------
(***************************************************************************)
(* The endpoints under /me for contracts and uploaded documents            *)
(* (internal/contract).  A request is authenticated, runs one statement    *)
(* scoped by the athlete of its token, and answers later; a read of        *)
(* contracts or clauses writes an audit row in between.  Requests of one   *)
(* athlete (two tabs, a retry after a lost answer) and of others overlap,  *)
(* and any of them may be cut off: the process stops, the client is gone.  *)
(***************************************************************************)
EXTENDS Naturals, FiniteSets

CONSTANTS
  Request,
  Athlete,
  Nobody,      \* what the middleware finds in a missing or invalid token
  Contract,
  OwnerOf,     \* OwnerOf[c]: athlete_id of contract c
  Document,    \* ids that uuid.New may give
  Call,        \* what may be asked: op, athlete of the token, target
  NoTarget,    \* an id, a form or a body that does not parse
  Unlinked,    \* an upload without a contract_id, or with one that is no UUID
  Missing      \* the id of no contract

Reads  == {"contracts", "clauses"}
Writes == {"upload", "text", "remove"}

ASSUME ContractsAssumption ==
  /\ Nobody \notin Athlete
  /\ {NoTarget, Unlinked, Missing} \intersect (Contract \union Document) = {}
  /\ OwnerOf \in [Contract -> Athlete]
  /\ Call \subseteq [op      : Reads \union Writes \union {"list", "get"},
                     athlete : Athlete \union {Nobody},
                     target  : Contract \union Document \union
                               {NoTarget, Unlinked, Missing}]

VARIABLES
  docs,        \* rows of contract_document: id, athlete_id, contract_id,
               \* and of which request the text is
  given,       \* ids given out so far
  audit,       \* rows of audit_log
  unaudited,   \* requests whose audit row could not be written (history)
  req          \* req[r]: where its handler is, the call, what it read, answer

vars == <<docs, given, audit, unaudited, req>>
tables == <<docs, given, audit, unaudited>>

NoCall == [op |-> "list", athlete |-> Nobody, target |-> NoTarget]
Fresh  == [pc |-> "none", call |-> NoCall, rows |-> {}, answer |-> 0]

Init ==
  /\ docs = {} /\ given = {}
  /\ audit = {} /\ unaudited = {}
  /\ req = [r \in Request |-> Fresh]

Me(r)     == req[r].call.athlete
Target(r) == req[r].call.target
Asks(r, ops) == req[r].pc = "authorised" /\ req[r].call.op \in ops

\* The next step of r's handler, what it has read, and the answer so far.
Moves(r, pc, rows, answer) ==
  req' = [req EXCEPT ![r].pc = pc, ![r].rows = rows, ![r].answer = answer]

------------------------------------------------------------------------------
\* auth.Middleware, then the id in the path, the form or the body.
Refusal(k) ==
  IF k.athlete = Nobody THEN 401
  ELSE IF k.op \notin {"contracts", "list"} /\ k.target = NoTarget THEN 400
  ELSE 0

\* The id of a document is not known before it is given.
Arrive(r, k) ==
  /\ req[r].pc = "none"
  /\ k.target \in Document => k.target \in given
  /\ req' = [req EXCEPT ![r] =
       [Fresh EXCEPT !.pc = IF Refusal(k) = 0 THEN "authorised" ELSE "answered",
                     !.call = k, !.answer = Refusal(k)]]
  /\ UNCHANGED tables

\* A statement fails; a document that could not be read counts as not found.
Fails(r) ==
  /\ req[r].pc = "authorised"
  /\ Moves(r, "answered", {}, IF req[r].call.op = "get" THEN 404 ELSE 500)
  /\ UNCHANGED tables

\* WHERE athlete_id = $1, and for clauses of the named contract.
MyContracts(r) ==
  {c \in Contract : OwnerOf[c] = Me(r) /\ (req[r].call.op = "clauses" => c = Target(r))}

\* One clause of a contract stands for all of them.
Read(r) ==
  /\ Asks(r, Reads)
  /\ Moves(r, "read", {[id |-> c, athlete |-> OwnerOf[c]] : c \in MyContracts(r)}, 0)
  /\ UNCHANGED tables

AuditRow(r) == [id |-> Cardinality(audit) + 1, athlete |-> Me(r),
                action |-> req[r].call.op, of |-> r]

\* Mutant of Audit: only when there is something to show.
AuditNonEmpty(r) ==
  /\ req[r].pc = "read"
  /\ audit' = IF req[r].rows = {} THEN audit ELSE audit \union {AuditRow(r)}
  /\ Moves(r, "audited", req[r].rows, 0)
  /\ UNCHANGED <<docs, given, unaudited>>

\* The row is there, and the handler goes on whether it learns so or not: an
\* insert whose answer is lost is logged as failed and changes nothing else.
Audit(r) ==
  /\ req[r].pc = "read"
  /\ audit' = audit \union {AuditRow(r)}
  /\ Moves(r, "audited", req[r].rows, 0)
  /\ UNCHANGED <<docs, given, unaudited>>

\* No row is written: logged, and the rows are returned all the same.
AuditFails(r) ==
  /\ req[r].pc = "read"
  /\ unaudited' = unaudited \union {r}
  /\ Moves(r, "audited", req[r].rows, 0)
  /\ UNCHANGED <<docs, given, audit>>

Reply(r) ==
  /\ req[r].pc = "audited"
  /\ Moves(r, "answered", req[r].rows, 200)
  /\ UNCHANGED tables

\* The process stops, or the client is gone: nothing is answered any more.
Cut(r) ==
  /\ req[r].pc \in {"authorised", "read", "audited"}
  /\ Moves(r, "cut", {}, 0)
  /\ UNCHANGED tables

------------------------------------------------------------------------------
\* Mutant of Mine: WHERE id = $1.
MineAny(r) == docs

\* WHERE athlete_id = $2
Mine(r) == {d \in docs : d.athlete = Me(r)}

\* AND id = $1
Targeted(r) == {d \in Mine(r) : d.id = Target(r)}

Get(r) ==
  /\ Asks(r, {"list", "get"})
  /\ LET found == IF req[r].call.op = "list" THEN Mine(r) ELSE Targeted(r)
     IN  Moves(r, "answered", {[id |-> d.id, athlete |-> d.athlete] : d \in found},
               IF req[r].call.op = "get" /\ found = {} THEN 404 ELSE 200)
  /\ UNCHANGED tables

\* A write has taken effect and is answered, or the answer of the database is
\* lost and the client sees a failure, or the request is cut off.
Written(r, status) ==
  \/ \E answer \in {status, 500} : Moves(r, "answered", {}, answer)
  \/ Moves(r, "cut", {}, 0)

\* What the foreign key of contract_id lets in; any athlete's contract will do.
Linkable == Contract \union {Unlinked}

\* Mutant of Upload: the id of the row is not the one that was given.
UploadUnderContract(r) ==
  /\ Asks(r, {"upload"}) /\ Target(r) \in Linkable
  /\ \E id \in Document \ given :
       /\ docs' = docs \union {[id |-> Target(r), athlete |-> Me(r),
                                contract |-> Target(r), text |-> r]}
       /\ given' = given \union {id}
  /\ Written(r, 201)
  /\ UNCHANGED <<audit, unaudited>>

Upload(r) ==
  /\ Asks(r, {"upload"}) /\ Target(r) \in Linkable
  /\ \E id \in Document \ given :
       /\ docs' = docs \union {[id |-> id, athlete |-> Me(r),
                                contract |-> Target(r), text |-> r]}
       /\ given' = given \union {id}
  /\ Written(r, 201)
  /\ UNCHANGED <<audit, unaudited>>

\* Mutant of UpdateText: an upsert.
UpdateTextUpsert(r) ==
  /\ Asks(r, {"text"})
  /\ docs' = (docs \ Targeted(r)) \union
             {[id |-> Target(r), athlete |-> Me(r), contract |-> Unlinked, text |-> r]}
  /\ Written(r, 200)
  /\ UNCHANGED <<given, audit, unaudited>>

\* No row is no error: 200 all the same.
UpdateText(r) ==
  /\ Asks(r, {"text"})
  /\ docs' = (docs \ Targeted(r)) \union {[d EXCEPT !.text = r] : d \in Targeted(r)}
  /\ Written(r, 200)
  /\ UNCHANGED <<given, audit, unaudited>>

Remove(r) ==
  /\ Asks(r, {"remove"})
  /\ docs' = docs \ Targeted(r)
  /\ Written(r, 204)
  /\ UNCHANGED <<given, audit, unaudited>>

Next ==
  \/ \E r \in Request, k \in Call : Arrive(r, k)
  \/ \E r \in Request :
       \/ Fails(r) \/ Cut(r)
       \/ Read(r) \/ Audit(r) \/ AuditFails(r) \/ Reply(r)
       \/ Get(r) \/ Upload(r) \/ UpdateText(r) \/ Remove(r)

Spec == Init /\ [][Next]_vars

------------------------------------------------------------------------------
TypeOK ==
  /\ docs \subseteq [id : given, athlete : Athlete,
                      contract : Linkable, text : Request]
  /\ \A c, d \in docs : c.id = d.id => c = d
  /\ given \subseteq Document
  /\ audit \subseteq [id : Nat \ {0}, athlete : Athlete, action : Reads, of : Request]
  /\ unaudited \subseteq Request
  /\ \A r \in Request :
       /\ req[r].pc \in {"none", "authorised", "read", "audited", "answered", "cut"}
       /\ req[r].call \in Call \union {NoCall}
       /\ req[r].rows \subseteq [id : Contract \union given, athlete : Athlete]
       /\ req[r].answer \in {0, 200, 201, 204, 400, 401, 404, 500}

\* "athlete_id is always derived from the verified token" (jwt.go:1): whatever
\* ids a request names, it sees and changes only what is its athlete's own.
AnswersAreOwn == \A r \in Request : \A x \in req[r].rows : x.athlete = Me(r)

ChangesAreOwn ==
  \A d \in (docs' \ docs) \union (docs \ docs') :
    \E r \in Request : req'[r] # req[r] /\ Me(r) = d.athlete

TenantsAreApart == [][AnswersAreOwn' /\ ChangesAreOwn]_vars

\* Once its owner was told that a document is gone it stays gone, though an
\* update of it that was under way is answered "analyzed" afterwards.
RemovedStaysRemoved ==
  \A r \in Request : req[r].answer = 204 =>
    ~ \E d \in docs : d.id = Target(r) /\ d.athlete = Me(r)

\* "Append-only audit_log row written on every contract/clause read"
\* (01_PRODUCT_AND_ARCHITECTURE.md:283), also of one that found nothing: each
\* served read has its row, unless just that insert failed.  And nothing else
\* writes one: each row is the only one of a request that its athlete was let
\* in with and whose rows were read, answered with them or cut off, so that a
\* refused or a failed read leaves no trace.
ReadsAreAudited ==
  /\ \A r \in Request : req[r].call.op \in Reads /\ req[r].answer = 200 =>
       r \in unaudited \/ \E a \in audit : a.of = r /\ a.athlete = Me(r)
  /\ \A a \in audit :
       /\ a.action = req[a.of].call.op /\ a.athlete = Me(a.of)
       /\ req[a.of].pc \in {"audited", "answered", "cut"}
       /\ req[a.of].answer \in {0, 200}
  /\ \A a, b \in audit : a.id = b.id \/ a.of = b.of => a = b
=============================================================================
