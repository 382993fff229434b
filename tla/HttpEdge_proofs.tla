-------------------------- MODULE HttpEdge_proofs --------------------------
(* Proofs about HttpEdge, for any finite set of requests and every route,   *)
(* input, client id and outcome of a use case.                              *)
EXTENDS HttpEdge, FiniteSetTheorems, SequenceTheorems, TLAPS

-----------------------------------------------------------------------------
(* The inductive invariant                                                  *)

Inputs == {"json", "id", "fields"}
DrawnIds == {Drawn[k] : k \in DOMAIN Drawn}
Ids == ClientIds \cup {Unavailable} \cup DrawnIds
Answers == [status : Nat, header : Ids, body : Ids \cup {"payload", "text"}]
Errors ==
  {"nil", "input", "notFound", "alreadyExists", "inactive", "approved", "other"}
Result == [error : Errors, type : ErrorTypes \cup {Untyped}]

RequestType ==
  [phase : {"idle", "handler", "after", "done"}, route : Routes,
   fails : SUBSET Inputs, sent : ClientIds, id : Ids, check : Nat \ {0},
   executed : Seq(Result), recorded : Nat,
   errorType : ErrorTypes \cup {Untyped}, wire : Seq(Answers)]

\* The handler has answered nothing yet, and refused nothing it has checked.
Unanswered(x) ==
  /\ x.wire = <<>> /\ x.executed = <<>> /\ x.errorType = Untyped
  /\ x.check <= Len(Checks(x.route)) + 1
  /\ \A k \in 1..(x.check - 1) : Checks(x.route)[k] \notin x.fails
  /\ x.fails \subseteq {Checks(x.route)[k] : k \in DOMAIN Checks(x.route)}

\* The statuses of the answers: chi's own, and the ones of the handlers.
Codes(route) ==
  IF route = "unmatched" THEN {404, 405} ELSE {200, 201, 400, 404, 409, 500}

\* The category of a handler's answer with a status.
Category(status) ==
  CASE status < 400 -> Untyped
    [] status = 400 -> Validation
    [] status \in {404, 409} -> Domain
    [] OTHER -> Infrastructure

\* The handler has answered, once and truly.
TrueAnswer(x) ==
  /\ Len(x.wire) = 1
  /\ x.recorded = x.wire[1].status
  /\ Len(x.executed) = IF x.route \in UseCases /\ x.fails = {} THEN 1 ELSE 0
  /\ x.fails # {} => x.wire[1].status = 400
  /\ x.executed # <<>> =>
       (x.wire[1].status < 300 <=> x.executed[1].error = "nil")
  /\ x.wire[1].status \in Codes(x.route)
  /\ x.errorType =
       IF x.route = "unmatched" THEN Untyped ELSE Category(x.wire[1].status)
  /\ x.wire[1].header = x.id
  /\ x.wire[1].status >= 400 => (x.wire[1].body = x.id <=> x.route # "unmatched")

EdgeRequest(x) ==
  /\ x \in RequestType
  /\ x.phase = "idle" => x = Idle
  /\ x.phase = "handler" => Unanswered(x)
  /\ x.phase \in {"after", "done"} => TrueAnswer(x)
  /\ x.phase # "idle" /\ x.sent # Blank => x.id = x.sent

\* The requests without an id of their own, and the draws made for them.
Anonymous == {r \in Requests : request[r].phase # "idle" /\ request[r].sent = Blank}
Draws ==
  /\ generated \in Nat /\ generated = Cardinality(Anonymous)
  /\ \A r \in Anonymous :
       request[r].id = Unavailable \/ \E k \in 1..generated : request[r].id = Drawn[k]
  /\ \A r, q \in Anonymous :
       request[r].id = request[q].id /\ request[r].id # Unavailable => r = q

Counters ==
  /\ requestsTotal \in Nat
  /\ errorsTotal \in [ErrorTypes -> Nat]
  /\ CountersComplete

EdgeInv ==
  /\ request \in [Requests -> RequestType]
  /\ \A r \in Requests : EdgeRequest(request[r])
  /\ Draws
  /\ Counters
-----------------------------------------------------------------------------
(* One request                                                              *)

\* The checks of each route, by position.
LEMMA ChecksFacts ==
  ASSUME NEW route \in Routes
  PROVE  /\ Len(Checks(route)) \in 0..3
         /\ DOMAIN Checks(route) = 1..Len(Checks(route))
         /\ route \in {"health", "unmatched"} => Len(Checks(route)) = 0
<1>1. CASE route \in Creates
  <2>1. Checks(route) = <<"json", "fields">>
    BY <1>1 DEF Checks, Creates
  <2>2. route \notin {"health", "unmatched"}
    BY <1>1 DEF Creates
  <2> QED BY <2>1, <2>2
<1>2. CASE route = "updateCustomer"
  BY <1>2 DEF Checks, Creates
<1>3. CASE route \in {"deactivateCustomer", "listInvoices"}
  BY <1>3 DEF Checks, Creates
<1>4. CASE route \in {"health", "unmatched"}
  BY <1>4 DEF Checks, Creates
<1> QED BY <1>1, <1>2, <1>3, <1>4 DEF Routes, UseCases

\* An answer that is written once, and what it leaves of the request.
Wrote(x, y, status, type, body) ==
  /\ y \in RequestType
  /\ y.wire = <<[status |-> status, header |-> x.id, body |-> body]>>
  /\ y.recorded = status /\ y.errorType = type
  /\ y.phase = x.phase /\ y.route = x.route /\ y.fails = x.fails
  /\ y.sent = x.sent /\ y.id = x.id /\ y.check = x.check
  /\ y.executed = x.executed

\* Writing the first answer.
LEMMA Answering ==
  ASSUME NEW x \in RequestType, x.wire = <<>>, NEW status \in Nat,
         NEW body \in Ids \cup {"payload", "text"}
  PROVE  Wrote(x, Answer(x, status, body), status, x.errorType, body)
<1> DEFINE a == [status |-> status, header |-> x.id, body |-> body]
           w == <<a>>
           y == Answer(x, status, body)
<1>1. a \in Answers
  BY DEF Answers, RequestType
<1>2. Append(x.wire, a) = w
  OBVIOUS
<1>3. w \in Seq(Answers)
  BY <1>1
<1>4. y = [x EXCEPT !.recorded = status, !.wire = w]
  BY <1>2 DEF Answer, RequestType
<1> HIDE DEF w, y
<1>5. y \in RequestType
  BY <1>3, <1>4 DEF RequestType
<1>6. Wrote(x, y, status, x.errorType, body)
  BY <1>4, <1>5 DEF Wrote, RequestType, w
<1> QED BY <1>6 DEF y

\* With the category of an error, or as the payload.
LEMMA Writing ==
  ASSUME NEW x \in RequestType, x.wire = <<>>, NEW status \in Nat,
         NEW type \in ErrorTypes \cup {Untyped},
         NEW body \in Ids \cup {"payload", "text"}
  PROVE  /\ Wrote(x, WriteWithType(x, status, type, body), status, type, body)
         /\ Wrote(x, WriteJSON(x, status), status, x.errorType, "payload")
<1> DEFINE y == Answer(x, status, body)
           z == [y EXCEPT !.errorType = type]
<1>1. Wrote(x, y, status, x.errorType, body)
  BY Answering
<1> HIDE DEF y
<1>2. y \in RequestType
  BY <1>1 DEF Wrote
<1>3. /\ z \in RequestType /\ z.errorType = type
      /\ z.wire = y.wire /\ z.recorded = y.recorded /\ z.phase = y.phase
      /\ z.route = y.route /\ z.fails = y.fails /\ z.sent = y.sent
      /\ z.id = y.id /\ z.check = y.check /\ z.executed = y.executed
  BY <1>2 DEF RequestType
<1> HIDE DEF z
<1>4. Wrote(x, z, status, type, body)
  BY <1>1, <1>3 DEF Wrote
<1>5. z = WriteWithType(x, status, type, body)
  BY DEF z, y, WriteWithType
<1>6. Wrote(x, WriteJSON(x, status), status, x.errorType, "payload")
  BY Answering DEF WriteJSON
<1> QED BY <1>4, <1>5, <1>6

\* A request as its handler gets it.
Arrival(route, fails, sent, id) ==
  [Idle EXCEPT !.phase = "handler", !.route = route, !.fails = fails,
               !.sent = sent, !.id = id]

\* The middlewares hand the request to its handler.
LEMMA ReceiveRequest ==
  ASSUME NEW route \in Routes, NEW fails \in SUBSET Inputs,
         NEW sent \in ClientIds, NEW id \in Ids,
         fails \subseteq {Checks(route)[k] : k \in DOMAIN Checks(route)},
         sent # Blank => id = sent
  PROVE  LET y == Arrival(route, fails, sent, id)
         IN EdgeRequest(y) /\ y.phase = "handler" /\ y.sent = sent /\ y.id = id
<1> DEFINE y == Arrival(route, fails, sent, id)
<1>1. Idle \in RequestType
  <2>1. <<>> \in Seq(Result) /\ <<>> \in Seq(Answers) /\ 1 \in Nat \ {0} /\ 200 \in Nat
    OBVIOUS
  <2>2. Blank \in Ids /\ Blank \in ClientIds /\ "unmatched" \in Routes
    BY EdgeAssumption DEF Ids, Routes
  <2> QED BY <2>1, <2>2 DEF Idle, RequestType
<1>2. /\ y \in RequestType
      /\ y.phase = "handler" /\ y.route = route /\ y.fails = fails
      /\ y.sent = sent /\ y.id = id /\ y.check = Idle.check
      /\ y.executed = Idle.executed /\ y.errorType = Idle.errorType
      /\ y.wire = Idle.wire
  BY <1>1 DEF RequestType, Arrival
<1> HIDE DEF y
<1>3. /\ Idle.check = 1 /\ Idle.executed = <<>> /\ Idle.errorType = Untyped
      /\ Idle.wire = <<>>
  BY DEF Idle
<1>4. Unanswered(y)
  BY <1>2, <1>3, ChecksFacts DEF Unanswered
<1>5. EdgeRequest(y)
  BY <1>2, <1>4 DEF EdgeRequest
<1> QED BY <1>2, <1>5 DEF y

\* A request that is answered stands as TrueAnswer says.
LEMMA AnsweredRequest ==
  ASSUME NEW x, EdgeRequest(x), x.phase = "handler",
         NEW y \in RequestType, y.phase = "after",
         y.route = x.route, y.sent = x.sent, y.id = x.id, TrueAnswer(y)
  PROVE  EdgeRequest(y)
BY DEF EdgeRequest

\* A request that has its answer, and is otherwise the one its handler got.
Settled(x, y) ==
  EdgeRequest(y) /\ y.phase = "after" /\ y.sent = x.sent /\ y.id = x.id

\* No id reads like the text of chi's answers.
LEMMA TextIsNoId == "text" \notin Ids
BY EdgeAssumption DEF Ids, DrawnIds, Unavailable

\* A request no handler answers: the health check, an unknown path or method.
LEMMA UnhandledRequest ==
  ASSUME NEW x, EdgeRequest(x), x.phase = "handler",
         x.route \in {"health", "unmatched"}, NEW status \in Nat,
         NEW body \in {"payload", "text"},
         x.route = "health" => status = 200 /\ body = "payload",
         x.route = "unmatched" => status \in {404, 405} /\ body = "text"
  PROVE  Settled(x, [Answer(x, status, body) EXCEPT !.phase = "after"])
<1>0. /\ x \in RequestType /\ Unanswered(x) /\ x.wire = <<>>
      /\ x.errorType = Untyped /\ x.executed = <<>> /\ x.id \in Ids
  BY DEF EdgeRequest, Unanswered, RequestType
<1>1. x.fails = {}
  <2>1. DOMAIN Checks(x.route) = {}
    BY <1>0, ChecksFacts DEF RequestType
  <2> QED BY <1>0, <2>1 DEF Unanswered
<1> DEFINE y == Answer(x, status, body)
           z == [y EXCEPT !.phase = "after"]
<1>2. Wrote(x, y, status, Untyped, body)
  BY <1>0, Answering
<1> HIDE DEF y
<1>3. y \in RequestType
  BY <1>2 DEF Wrote
<1>4. /\ z \in RequestType /\ z.phase = "after" /\ z.wire = y.wire
      /\ z.recorded = y.recorded /\ z.errorType = y.errorType
      /\ z.route = y.route /\ z.fails = y.fails /\ z.sent = y.sent
      /\ z.id = y.id /\ z.executed = y.executed
  BY <1>3 DEF RequestType
<1> HIDE DEF z
<1>5. /\ z.wire = <<[status |-> status, header |-> x.id, body |-> body]>>
      /\ z.recorded = status /\ z.errorType = Untyped /\ z.route = x.route
      /\ z.fails = {} /\ z.sent = x.sent /\ z.id = x.id /\ z.executed = <<>>
  BY <1>0, <1>1, <1>2, <1>4 DEF Wrote
<1>6. /\ Len(z.wire) = 1 /\ z.wire[1].status = status
      /\ z.wire[1].header = x.id /\ z.wire[1].body = body
  BY <1>5
<1>7. x.route \notin UseCases
  BY DEF UseCases, Creates
<1>8. TrueAnswer(z)
  <2>1. CASE x.route = "health"
    BY <1>5, <1>6, <1>7, <2>1 DEF TrueAnswer, Category, Codes
  <2>2. CASE x.route = "unmatched"
    <3>1. body # x.id
      BY <1>0, <2>2, TextIsNoId
    <3> QED BY <1>5, <1>6, <1>7, <2>2, <3>1 DEF TrueAnswer, Codes
  <2> QED BY <2>1, <2>2
<1>9. Settled(x, z)
  BY <1>4, <1>5, <1>8, AnsweredRequest DEF Settled
<1> QED BY <1>9 DEF y, z

\* A check that fails is answered with 400, and nothing is executed.
LEMMA RefusedRequest ==
  ASSUME NEW x, EdgeRequest(x), x.phase = "handler", ~Checked(x),
         x.route \in UseCases, Checks(x.route)[x.check] \in x.fails
  PROVE  Settled(x, Refuse(x))
<1>0. /\ x \in RequestType /\ Unanswered(x) /\ x.wire = <<>>
      /\ x.executed = <<>> /\ x.id \in Ids /\ x.fails # {}
  BY DEF EdgeRequest, Unanswered, RequestType
<1> DEFINE y == WriteInputError(x)
           z == [y EXCEPT !.phase = "after"]
<1>1. Wrote(x, y, 400, Validation, x.id)
  BY <1>0, Writing DEF WriteInputError, ErrorTypes
<1> HIDE DEF y
<1>2. /\ z \in RequestType /\ z.phase = "after"
      /\ z.wire = <<[status |-> 400, header |-> x.id, body |-> x.id]>>
      /\ z.recorded = 400 /\ z.errorType = Validation /\ z.route = x.route
      /\ z.fails = x.fails /\ z.sent = x.sent /\ z.id = x.id
      /\ z.executed = <<>>
  BY <1>0, <1>1 DEF Wrote, RequestType
<1> HIDE DEF z
<1>3. TrueAnswer(z)
  <2>1. /\ Len(z.wire) = 1 /\ z.wire[1].status = 400
        /\ z.wire[1].header = x.id /\ z.wire[1].body = x.id
    BY <1>2
  <2>2. x.route # "unmatched"
    BY DEF UseCases, Creates
  <2> QED BY <1>0, <1>2, <2>1, <2>2 DEF TrueAnswer, Category, Codes
<1>4. EdgeRequest(z)
  BY <1>2, <1>3, AnsweredRequest
<1>5. Refuse(x) = z
  BY DEF Refuse, y, z
<1> QED BY <1>2, <1>4, <1>5 DEF Settled

\* A check that succeeds leads to the next.
LEMMA PassedRequest ==
  ASSUME NEW x, EdgeRequest(x), x.phase = "handler", ~Checked(x),
         Checks(x.route)[x.check] \notin x.fails
  PROVE  LET y == [x EXCEPT !.check = @ + 1]
         IN EdgeRequest(y) /\ y.phase = "handler" /\ y.sent = x.sent /\ y.id = x.id
<1>0. x \in RequestType /\ Unanswered(x) /\ x.check \in Nat \ {0} /\ x.route \in Routes
  BY DEF EdgeRequest, RequestType
<1> DEFINE n == x.check + 1
           y == [x EXCEPT !.check = n]
<1>1. n \in Nat \ {0}
  BY <1>0
<1> HIDE DEF n
<1>2. /\ y \in RequestType /\ y.phase = "handler" /\ y.check = n
      /\ y.wire = x.wire /\ y.errorType = x.errorType /\ y.route = x.route
      /\ y.fails = x.fails /\ y.sent = x.sent /\ y.id = x.id
      /\ y.executed = x.executed
  BY <1>0, <1>1 DEF RequestType
<1>3. y = [x EXCEPT !.check = @ + 1]
  BY DEF n
<1> HIDE DEF y
<1>4. n <= Len(Checks(x.route)) + 1
  BY <1>0, ChecksFacts DEF Checked, n
<1>5. \A k \in 1..(n - 1) : Checks(x.route)[k] \notin x.fails
  <2>1. \A k \in 1..(n - 1) : k \in 1..(x.check - 1) \/ k = x.check
    BY <1>0 DEF n
  <2> QED BY <1>0, <2>1 DEF Unanswered
<1>6. Unanswered(y)
  BY <1>0, <1>2, <1>4, <1>5 DEF Unanswered
<1>7. EdgeRequest(y)
  BY <1>2, <1>6 DEF EdgeRequest
<1> QED BY <1>2, <1>3, <1>7

\* When every check has succeeded, the input fails none.
LEMMA CheckedFailsNone ==
  ASSUME NEW x, EdgeRequest(x), x.phase = "handler", Checked(x)
  PROVE  x.fails = {}
<1>1. x \in RequestType /\ Unanswered(x) /\ x.check \in Nat \ {0} /\ x.route \in Routes
  BY DEF EdgeRequest, RequestType
<1>2. \A k \in DOMAIN Checks(x.route) : k \in 1..(x.check - 1)
  BY <1>1, ChecksFacts DEF Checked
<1> QED BY <1>1, <1>2 DEF Unanswered

\* The outcomes of the use cases have a name and a category.
LEMMA OutcomeType ==
  ASSUME NEW route, NEW outcome \in Outcomes(route)
  PROVE  outcome \in Result
<1>1. \A error \in Errors : \A type \in ErrorTypes \cup {Untyped} :
        Outcome(error, type) \in Result
  BY DEF Outcome, Result
<1>2. /\ Validation \in ErrorTypes /\ Domain \in ErrorTypes
      /\ Infrastructure \in ErrorTypes
      /\ \A error \in {"nil", "input", "notFound", "alreadyExists", "inactive",
                       "approved", "other"} : error \in Errors
  BY DEF ErrorTypes, Errors
<1>3. /\ CreateCustomer \subseteq Result /\ UpdateCustomer \subseteq Result
      /\ DeactivateCustomer \subseteq Result /\ CreateInvoice \subseteq Result
      /\ ListCustomerInvoices \subseteq Result /\ ProcessPayment \subseteq Result
  BY <1>1, <1>2 DEF CreateCustomer, UpdateCustomer, DeactivateCustomer,
       CreateInvoice, ListCustomerInvoices, ProcessPayment
<1>4. Outcome("nil", Untyped) \in Result
  BY <1>1, <1>2
<1>5. \/ outcome = Outcome("nil", Untyped)
      \/ outcome \in CreateCustomer \cup UpdateCustomer \cup DeactivateCustomer
           \cup CreateInvoice \cup ListCustomerInvoices \cup ProcessPayment
  BY DEF Outcomes
<1> QED BY <1>3, <1>4, <1>5

\* The use case runs once and its result is the answer.
LEMMA ExecutedRequest ==
  ASSUME NEW x, EdgeRequest(x), x.phase = "handler", x.route \in UseCases,
         Checked(x), NEW outcome \in Result
  PROVE  Settled(x, [WriteResult(x, outcome.error) EXCEPT
                       !.phase = "after", !.executed = Append(@, outcome)])
<1>0. /\ x \in RequestType /\ x.wire = <<>> /\ x.errorType = Untyped
      /\ x.executed = <<>> /\ x.id \in Ids /\ outcome.error \in Errors
      /\ x.fails = {} /\ x.route # "unmatched"
  BY CheckedFailsNone DEF EdgeRequest, Unanswered, RequestType, Result, UseCases,
                          Creates
<1> DEFINE error == outcome.error
           y == WriteResult(x, error)
           ran == Append(y.executed, outcome)
           z == [y EXCEPT !.phase = "after", !.executed = ran]
<1>a. \A status \in Nat :
        /\ \A type \in ErrorTypes :
             Wrote(x, WriteWithType(x, status, type, x.id), status, type, x.id)
        /\ Wrote(x, WriteJSON(x, status), status, Untyped, "payload")
  <2> TAKE status \in Nat
  <2>1. \A type \in ErrorTypes :
          Wrote(x, WriteWithType(x, status, type, x.id), status, type, x.id)
    BY <1>0, Writing
  <2>2. Wrote(x, WriteJSON(x, status), status, Untyped, "payload")
    BY <1>0, Writing
  <2> QED BY <2>1, <2>2
<1>1. \E status \in Nat, body \in Ids \cup {"payload", "text"} :
        /\ Wrote(x, y, status, Category(status), body)
        /\ status \in {200, 201, 400, 404, 409, 500}
        /\ status < 300 <=> error = "nil"
        /\ status >= 400 => body = x.id
  <2>1. CASE error = "nil"
    <3>1. \E status \in {200, 201} : y = WriteJSON(x, status)
      BY <2>1 DEF WriteResult
    <3>2. PICK status \in {200, 201} : y = WriteJSON(x, status)
      BY <3>1
    <3> HIDE DEF y
    <3>3. Wrote(x, y, status, Untyped, "payload") /\ status \in Nat
      BY <1>a, <3>2
    <3>4. Category(status) = Untyped
      BY <3>2 DEF Category
    <3>5. status < 300 /\ ~(status >= 400)
      BY <3>2
    <3> QED BY <2>1, <3>3, <3>4, <3>5
  <2>2. CASE error = "input"
    <3>1. y = WriteWithType(x, 400, Validation, x.id)
      BY <2>2 DEF WriteResult, WriteError, WriteInputError
    <3> HIDE DEF y
    <3>2. Wrote(x, y, 400, Validation, x.id)
      BY <1>a, <3>1 DEF ErrorTypes
    <3>3. Category(400) = Validation
      BY DEF Category
    <3> QED BY <1>0, <2>2, <3>2, <3>3
  <2>3. CASE error = "notFound"
    <3>1. y = WriteWithType(x, 404, Domain, x.id)
      BY <2>3 DEF WriteResult, WriteError, WriteDomainError
    <3> HIDE DEF y
    <3>2. Wrote(x, y, 404, Domain, x.id)
      BY <1>a, <3>1 DEF ErrorTypes
    <3>3. Category(404) = Domain
      BY DEF Category
    <3> QED BY <1>0, <2>3, <3>2, <3>3
  <2>4. CASE error \in {"alreadyExists", "inactive", "approved"}
    <3>1. y = WriteWithType(x, 409, Domain, x.id)
      BY <2>4 DEF WriteResult, WriteError, WriteDomainError
    <3> HIDE DEF y
    <3>2. Wrote(x, y, 409, Domain, x.id)
      BY <1>a, <3>1 DEF ErrorTypes
    <3>3. Category(409) = Domain
      BY DEF Category
    <3> QED BY <1>0, <2>4, <3>2, <3>3
  <2>5. CASE error = "other"
    <3>1. y = WriteWithType(x, 500, Infrastructure, x.id)
      BY <2>5 DEF WriteResult, WriteError, WriteInternalError
    <3> HIDE DEF y
    <3>2. Wrote(x, y, 500, Infrastructure, x.id)
      BY <1>a, <3>1 DEF ErrorTypes
    <3>3. Category(500) = Infrastructure
      BY DEF Category
    <3> QED BY <1>0, <2>5, <3>2, <3>3
  <2> HIDE DEF y
  <2> QED BY <1>0, <2>1, <2>2, <2>3, <2>4, <2>5 DEF Errors
<1>2. PICK status \in Nat, body \in Ids \cup {"payload", "text"} :
        /\ Wrote(x, y, status, Category(status), body)
        /\ status \in {200, 201, 400, 404, 409, 500}
        /\ status < 300 <=> error = "nil"
        /\ status >= 400 => body = x.id
  BY <1>1
<1> HIDE DEF y
<1>3. y \in RequestType /\ y.executed = <<>>
  BY <1>0, <1>2 DEF Wrote
<1>4. ran = <<outcome>> /\ ran \in Seq(Result)
  BY <1>3
<1> HIDE DEF ran
<1>5. /\ z \in RequestType /\ z.phase = "after" /\ z.executed = ran
      /\ z.wire = y.wire /\ z.recorded = y.recorded /\ z.errorType = y.errorType
      /\ z.route = y.route /\ z.fails = y.fails /\ z.sent = y.sent /\ z.id = y.id
  BY <1>3, <1>4 DEF RequestType
<1> HIDE DEF z
<1>6. /\ z.wire = <<[status |-> status, header |-> x.id, body |-> body]>>
      /\ z.recorded = status /\ z.errorType = Category(status)
      /\ z.route = x.route /\ z.fails = {} /\ z.sent = x.sent /\ z.id = x.id
  BY <1>0, <1>2, <1>5 DEF Wrote
<1>7. /\ Len(z.wire) = 1 /\ z.wire[1].status = status
      /\ z.wire[1].header = x.id /\ z.wire[1].body = body
      /\ Len(z.executed) = 1 /\ z.executed[1].error = error
  BY <1>4, <1>5, <1>6
<1>8. TrueAnswer(z)
  BY <1>0, <1>2, <1>6, <1>7 DEF TrueAnswer, Codes
<1>9. Settled(x, z)
  BY <1>5, <1>6, <1>8, AnsweredRequest DEF Settled
<1> QED BY <1>9 DEF z, ran, y

-----------------------------------------------------------------------------
(* All requests                                                             *)

\* A step that changes one request, draws no id and counts nothing.
LEMMA HandlerStep ==
  ASSUME EdgeInv, NEW r \in Requests, NEW y,
         request' = [request EXCEPT ![r] = y], UNCHANGED <<generated, metrics>>,
         request[r].phase = "handler", y.phase \in {"handler", "after"},
         EdgeRequest(y), y.sent = request[r].sent, y.id = request[r].id
  PROVE  EdgeInv'
<1>1. request \in [Requests -> RequestType] /\ y \in RequestType
  BY DEF EdgeInv, EdgeRequest
<1>2. /\ request' \in [Requests -> RequestType]
      /\ request'[r] = y
      /\ \A q \in Requests \ {r} : request'[q] = request[q]
  BY <1>1
<1>3. \A q \in Requests : EdgeRequest(request'[q])
  BY <1>2 DEF EdgeInv
<1>4. Anonymous' = Anonymous
  BY <1>2 DEF Anonymous
<1>5. \A q \in Requests : request'[q].id = request[q].id
  BY <1>2
<1>6. Draws'
  <2>1. \A q \in Anonymous : request'[q].id = request[q].id
    BY <1>5 DEF Anonymous
  <2>2. generated' = generated
    OBVIOUS
  <2> QED BY <1>4, <2>1, <2>2 DEF EdgeInv, Draws
<1>7. Done' = Done /\ \A q \in Done : q # r
  BY <1>2 DEF Done
<1>8. \A q \in Done : request'[q] = request[q]
  BY <1>2, <1>7 DEF Done
<1>9. Counters'
  <2>1. \A type \in ErrorTypes :
          {q \in Done' : Status(q)' >= 400 /\ MetricType(request'[q].errorType) = type}
            = {q \in Done : Status(q) >= 400 /\ MetricType(request[q].errorType) = type}
    BY <1>7, <1>8 DEF Status
  <2>2. requestsTotal' = requestsTotal /\ errorsTotal' = errorsTotal
    BY DEF metrics
  <2> QED BY <1>7, <2>1, <2>2 DEF EdgeInv, Counters, CountersComplete, MetricType
<1> QED BY <1>2, <1>3, <1>6, <1>9 DEF EdgeInv

\* There is an id to draw as long as a request is still to arrive.
LEMMA DrawsLeft ==
  ASSUME EdgeInv, NEW r \in Requests, request[r].phase = "idle"
  PROVE  /\ IsFiniteSet(Anonymous) /\ r \notin Anonymous
         /\ generated + 1 \in DOMAIN Drawn
<1>1. IsFiniteSet(Requests) /\ Len(Drawn) >= Cardinality(Requests)
  BY EdgeAssumption
<1>2. r \notin Anonymous /\ Anonymous \cup {r} \in SUBSET Requests
        /\ Anonymous \in SUBSET Requests
  BY DEF Anonymous
<1>3. IsFiniteSet(Anonymous)
  BY <1>1, <1>2, FS_Subset
<1>4. Cardinality(Anonymous \cup {r}) = Cardinality(Anonymous) + 1
  BY <1>2, <1>3, FS_AddElement
<1>5. Cardinality(Anonymous \cup {r}) <= Cardinality(Requests)
  BY <1>1, <1>2, FS_Subset
<1>6. Cardinality(Requests) \in Nat
  BY <1>1, FS_CardinalityType
<1>7. generated \in Nat /\ generated = Cardinality(Anonymous)
  BY DEF EdgeInv, Draws
<1>8. DOMAIN Drawn = 1..Len(Drawn) /\ Len(Drawn) \in Nat
  BY EdgeAssumption, LenProperties
<1>9. generated + 1 \in 1..Len(Drawn)
  BY <1>1, <1>4, <1>5, <1>6, <1>7, <1>8
<1> QED BY <1>2, <1>3, <1>8, <1>9

\* A request arrives and is given its id.
LEMMA ReceiveStep ==
  ASSUME EdgeInv, NEW r \in Requests, Receive(r)
  PROVE  EdgeInv'
<1>0. request[r].phase = "idle" /\ UNCHANGED metrics
  BY DEF Receive
<1>a. PICK route \in Routes, fails \in SUBSET Inputs, sent \in ClientIds :
        /\ fails \subseteq {Checks(route)[k] : k \in DOMAIN Checks(route)}
        /\ \E id \in IF sent # Blank THEN {sent} ELSE {GenerateId, Unavailable} :
             request' = [request EXCEPT ![r] = Arrival(route, fails, sent, id)]
        /\ generated' = generated + (IF sent = Blank THEN 1 ELSE 0)
  BY DEF Receive, Inputs, Arrival
<1>1. PICK id \in IF sent # Blank THEN {sent} ELSE {GenerateId, Unavailable} :
        request' = [request EXCEPT ![r] = Arrival(route, fails, sent, id)]
  BY <1>a
<1>2. /\ IsFiniteSet(Anonymous) /\ r \notin Anonymous
      /\ generated + 1 \in DOMAIN Drawn
  BY <1>0, DrawsLeft
<1>3. id \in Ids /\ (sent # Blank => id = sent)
  BY <1>2 DEF Ids, DrawnIds, GenerateId
<1> DEFINE y == Arrival(route, fails, sent, id)
<1>4. EdgeRequest(y) /\ y.phase = "handler" /\ y.sent = sent /\ y.id = id
  BY <1>a, <1>3, ReceiveRequest
<1>5. request' = [request EXCEPT ![r] = y]
  BY <1>1
<1> HIDE DEF y
<1>6. request \in [Requests -> RequestType] /\ y \in RequestType
  BY <1>4 DEF EdgeInv, EdgeRequest
<1>7. /\ request' \in [Requests -> RequestType]
      /\ request'[r] = y
      /\ \A q \in Requests \ {r} : request'[q] = request[q]
  BY <1>5, <1>6
<1>8. \A q \in Requests : EdgeRequest(request'[q])
  BY <1>4, <1>7 DEF EdgeInv
<1>9. Draws'
  <2>0. /\ generated \in Nat /\ generated = Cardinality(Anonymous)
        /\ \A q \in Anonymous : q \in Requests /\ q # r
             /\ request'[q] = request[q]
    BY <1>2, <1>7 DEF EdgeInv, Draws, Anonymous
  <2>1. CASE sent # Blank
    <3>1. Anonymous' = Anonymous /\ generated' = generated
      BY <1>a, <1>2, <1>4, <1>7, <2>0, <2>1 DEF Anonymous
    <3> QED BY <2>0, <3>1 DEF EdgeInv, Draws
  <2>2. CASE sent = Blank
    <3>1. Anonymous' = Anonymous \cup {r} /\ generated' = generated + 1
      BY <1>0, <1>a, <1>4, <1>7, <2>2 DEF Anonymous
    <3>2. Cardinality(Anonymous') = generated'
      BY <1>2, <2>0, <3>1, FS_AddElement
    <3>3. request'[r].id \in {Drawn[generated + 1], Unavailable}
      BY <1>1, <1>4, <1>7, <2>2 DEF GenerateId
    <3>4. generated' \in Nat /\ \A k \in 1..generated : k \in 1..generated'
      BY <2>0, <3>1
    <3>5. \A q \in Anonymous' : \/ request'[q].id = Unavailable
                                \/ \E k \in 1..generated' : request'[q].id = Drawn[k]
      <4> SUFFICES ASSUME NEW q \in Anonymous'
                   PROVE  \/ request'[q].id = Unavailable
                          \/ \E k \in 1..generated' : request'[q].id = Drawn[k]
        OBVIOUS
      <4>1. CASE q = r
        <5>1. generated + 1 \in 1..generated'
          BY <2>0, <3>1
        <5> QED BY <3>3, <4>1, <5>1
      <4>2. CASE q # r
        BY <2>0, <3>1, <3>4, <4>2 DEF EdgeInv, Draws
      <4> QED BY <4>1, <4>2
    <3>6. \A q \in Anonymous : request[q].id # Unavailable =>
            request[q].id # Drawn[generated + 1]
      <4> SUFFICES ASSUME NEW q \in Anonymous, request[q].id # Unavailable
                   PROVE  request[q].id # Drawn[generated + 1]
        OBVIOUS
      <4>1. PICK k \in 1..generated : request[q].id = Drawn[k]
        BY DEF EdgeInv, Draws
      <4>2. k \in DOMAIN Drawn /\ k # generated + 1
        <5>1. DOMAIN Drawn = 1..Len(Drawn) /\ Len(Drawn) \in Nat
          BY EdgeAssumption, LenProperties
        <5> QED BY <1>2, <2>0, <5>1
      <4> QED BY <1>2, <4>1, <4>2, EdgeAssumption
    <3>7. \A p, q \in Anonymous' :
            request'[p].id = request'[q].id /\ request'[p].id # Unavailable => p = q
      <4> SUFFICES ASSUME NEW p \in Anonymous', NEW q \in Anonymous', p # q,
                          request'[p].id = request'[q].id,
                          request'[p].id # Unavailable
                   PROVE  FALSE
        OBVIOUS
      <4>1. CASE p # r /\ q # r
        BY <2>0, <3>1, <4>1 DEF EdgeInv, Draws
      <4>2. CASE p = r \/ q = r
        BY <2>0, <3>1, <3>3, <3>6, <4>2
      <4> QED BY <4>1, <4>2
    <3> QED BY <3>2, <3>4, <3>5, <3>7 DEF Draws
  <2> QED BY <2>1, <2>2
<1>10. Done' = Done /\ \A q \in Done : request'[q] = request[q]
  BY <1>0, <1>4, <1>7 DEF Done
<1>11. Counters'
  <2>1. \A type \in ErrorTypes :
          {q \in Done' : Status(q)' >= 400 /\ MetricType(request'[q].errorType) = type}
            = {q \in Done : Status(q) >= 400 /\ MetricType(request[q].errorType) = type}
    BY <1>10 DEF Status
  <2>2. requestsTotal' = requestsTotal /\ errorsTotal' = errorsTotal
    BY <1>0 DEF metrics
  <2> QED BY <1>10, <2>1, <2>2 DEF EdgeInv, Counters, CountersComplete, MetricType
<1> QED BY <1>7, <1>8, <1>9, <1>11 DEF EdgeInv

\* A request that no handler answers, a check, and a use case.
LEMMA AnswerStep ==
  ASSUME EdgeInv, NEW r \in Requests, Unhandled(r) \/ Check(r) \/ Execute(r)
  PROVE  EdgeInv'
<1> DEFINE x == request[r]
<1>0. EdgeRequest(x) /\ x.phase = "handler" /\ UNCHANGED <<generated, metrics>>
  BY DEF EdgeInv, Unhandled, Check, Execute
<1>1. ASSUME NEW y, request' = [request EXCEPT ![r] = y], Settled(x, y)
      PROVE  EdgeInv'
  BY <1>0, <1>1, HandlerStep DEF Settled
<1>2. CASE Unhandled(r)
  <2>1. x.route \in {"health", "unmatched"}
    BY <1>2 DEF Unhandled
  <2>2. PICK status \in Nat, body \in {"payload", "text"} :
          /\ x.route = "health" => status = 200 /\ body = "payload"
          /\ x.route = "unmatched" => status \in {404, 405} /\ body = "text"
          /\ request' = [request EXCEPT ![r] =
               [Answer(x, status, body) EXCEPT !.phase = "after"]]
    <3>1. CASE x.route = "health"
      <4>1. request' = [request EXCEPT ![r] =
              [WriteJSON(x, 200) EXCEPT !.phase = "after"]]
        BY <1>2, <3>1 DEF Unhandled
      <4>2. WriteJSON(x, 200) = Answer(x, 200, "payload")
        BY DEF WriteJSON
      <4>3. 200 \in Nat
        OBVIOUS
      <4> QED BY <3>1, <4>1, <4>2, <4>3
    <3>2. CASE x.route = "unmatched"
      <4>1. PICK y \in {Answer(x, 404, "text"), Answer(x, 405, "text")} :
              request' = [request EXCEPT ![r] = [y EXCEPT !.phase = "after"]]
        BY <1>2, <3>2 DEF Unhandled
      <4>2. PICK status \in {404, 405} : y = Answer(x, status, "text")
        BY <4>1
      <4>3. status \in Nat
        BY <4>2
      <4> QED BY <3>2, <4>1, <4>2, <4>3
    <3> QED BY <2>1, <3>1, <3>2
  <2> DEFINE y == [Answer(x, status, body) EXCEPT !.phase = "after"]
  <2>3. Settled(x, y)
    BY <1>0, <2>1, <2>2, UnhandledRequest
  <2>4. request' = [request EXCEPT ![r] = y]
    BY <2>2
  <2> HIDE DEF x, y
  <2> QED BY <1>1, <2>3, <2>4
<1>3. CASE Check(r)
  <2>0. ~Checked(x) /\ x.route \in UseCases
    BY <1>3 DEF Check
  <2>1. CASE Checks(x.route)[x.check] \in x.fails
    <3>1. request' = [request EXCEPT ![r] = Refuse(x)]
      BY <1>3, <2>1 DEF Check
    <3>2. Settled(x, Refuse(x))
      BY <1>0, <2>0, <2>1, RefusedRequest
    <3> HIDE DEF x
    <3> QED BY <1>1, <3>1, <3>2
  <2>2. CASE Checks(x.route)[x.check] \notin x.fails
    <3> DEFINE y == [x EXCEPT !.check = @ + 1]
    <3>1. request' = [request EXCEPT ![r] = y]
      BY <1>3, <2>2 DEF Check
    <3>2. EdgeRequest(y) /\ y.phase = "handler" /\ y.sent = x.sent /\ y.id = x.id
      BY <1>0, <2>0, <2>2, PassedRequest
    <3> HIDE DEF y
    <3> QED BY <1>0, <3>1, <3>2, HandlerStep
  <2> QED BY <2>1, <2>2
<1>4. CASE Execute(r)
  <2>1. PICK outcome \in Outcomes(x.route) :
          request' = [request EXCEPT ![r] =
            [WriteResult(x, outcome.error) EXCEPT
               !.phase = "after", !.executed = Append(@, outcome)]]
    BY <1>4 DEF Execute
  <2>2. Checked(x) /\ x.route \in UseCases /\ outcome \in Result
    BY <1>4, OutcomeType DEF Execute
  <2> DEFINE y == [WriteResult(x, outcome.error) EXCEPT
                     !.phase = "after", !.executed = Append(@, outcome)]
  <2>3. Settled(x, y)
    BY <1>0, <2>2, ExecutedRequest
  <2>4. request' = [request EXCEPT ![r] = y]
    BY <2>1
  <2> HIDE DEF x, y
  <2> QED BY <1>1, <2>3, <2>4
<1> QED BY <1>2, <1>3, <1>4

\* The requests with an error of a type that have been counted.
Failed(type) ==
  {r \in Done : Status(r) >= 400 /\ MetricType(request[r].errorType) = type}

\* The request is counted, and its error with it.
LEMMA RecordStep ==
  ASSUME EdgeInv, NEW r \in Requests, Record(r)
  PROVE  EdgeInv'
<1> DEFINE x == request[r]
           y == [x EXCEPT !.phase = "done"]
<1>0. /\ EdgeRequest(x) /\ x.phase = "after" /\ generated' = generated
      /\ x \in RequestType /\ TrueAnswer(x)
      /\ requestsTotal' = requestsTotal + 1
      /\ request \in [Requests -> RequestType]
  BY DEF EdgeInv, Record, EdgeRequest
<1>1. request' = [request EXCEPT ![r] = y]
  BY DEF Record
<1>2. /\ y \in RequestType /\ y.phase = "done" /\ y.route = x.route
      /\ y.fails = x.fails /\ y.sent = x.sent /\ y.id = x.id
      /\ y.executed = x.executed /\ y.recorded = x.recorded
      /\ y.errorType = x.errorType /\ y.wire = x.wire
  BY <1>0 DEF RequestType
<1> HIDE DEF y
<1>3. EdgeRequest(y)
  BY <1>0, <1>2 DEF EdgeRequest, TrueAnswer
<1>4. /\ request' \in [Requests -> RequestType]
      /\ request'[r] = y
      /\ \A q \in Requests \ {r} : request'[q] = request[q]
  BY <1>0, <1>1, <1>2
<1>5. \A q \in Requests : EdgeRequest(request'[q])
  BY <1>3, <1>4 DEF EdgeInv
<1>6. Draws'
  <2>1. Anonymous' = Anonymous
    BY <1>0, <1>2, <1>4 DEF Anonymous
  <2>2. \A q \in Anonymous : request'[q].id = request[q].id
    BY <1>2, <1>4 DEF Anonymous
  <2> QED BY <1>0, <2>1, <2>2 DEF EdgeInv, Draws
<1>7. /\ Done' = Done \cup {r} /\ r \notin Done
      /\ \A q \in Done : q \in Requests \ {r}
  BY <1>0, <1>2, <1>4 DEF Done
<1>8. IsFiniteSet(Done)
  BY EdgeAssumption, FS_Subset DEF Done
<1>9. requestsTotal' \in Nat /\ requestsTotal' = Cardinality(Done')
  BY <1>0, <1>7, <1>8, FS_AddElement DEF EdgeInv, Counters, CountersComplete
<1>10. /\ Status(r)' = x.recorded /\ x.recorded \in Nat
       /\ request'[r].errorType = x.errorType
  BY <1>0, <1>2, <1>4 DEF Status, TrueAnswer, RequestType
<1>11. \A type : Failed(type)' =
         IF IsError(x.recorded) /\ MetricType(x.errorType) = type
           THEN Failed(type) \cup {r} ELSE Failed(type)
  <2> TAKE type
  <2>1. \A q \in Done : Status(q)' = Status(q)
                          /\ request'[q].errorType = request[q].errorType
    BY <1>4, <1>7 DEF Status
  <2>2. Failed(type)' = {q \in Done' : Status(q)' >= 400
                           /\ MetricType(request'[q].errorType) = type}
    BY DEF Failed, MetricType
  <2> QED BY <1>7, <1>10, <2>1, <2>2 DEF Failed, IsError
<1>12. \A type : IsFiniteSet(Failed(type)) /\ r \notin Failed(type)
  <2> TAKE type
  <2>1. Failed(type) \subseteq Done
    BY DEF Failed
  <2> QED BY <1>7, <1>8, <2>1, FS_Subset
<1>13. /\ errorsTotal \in [ErrorTypes -> Nat]
       /\ \A type \in ErrorTypes : errorsTotal[type] = Cardinality(Failed(type))
  BY DEF EdgeInv, Counters, CountersComplete, Failed
<1>14. \A type : /\ Cardinality(Failed(type)) \in Nat
                 /\ Cardinality(Failed(type) \cup {r}) = Cardinality(Failed(type)) + 1
  BY <1>12, FS_AddElement, FS_CardinalityType
<1>15. MetricType(x.errorType) \in ErrorTypes
  BY <1>0 DEF MetricType, RequestType, ErrorTypes
<1>16. /\ errorsTotal' \in [ErrorTypes -> Nat]
       /\ \A type \in ErrorTypes : errorsTotal'[type] = Cardinality(Failed(type)')
  <2>1. CASE IsError(x.recorded)
    <3> DEFINE m == MetricType(x.errorType)
    <3>1. errorsTotal' = [errorsTotal EXCEPT ![m] = @ + 1]
      BY <2>1 DEF Record
    <3>2. m \in ErrorTypes
      BY <1>15
    <3>3. \A type : Failed(type)' = IF m = type THEN Failed(type) \cup {r}
                                               ELSE Failed(type)
      BY <1>11, <2>1
    <3> HIDE DEF m
    <3>4. errorsTotal' \in [ErrorTypes -> Nat]
      BY <1>13, <3>1, <3>2
    <3>5. ASSUME NEW type \in ErrorTypes
          PROVE  errorsTotal'[type] = Cardinality(Failed(type)')
      <4>1. CASE type = m
        <5>1. errorsTotal'[type] = errorsTotal[type] + 1
          BY <1>13, <3>1, <4>1
        <5>2. Failed(type)' = Failed(type) \cup {r}
          BY <3>3, <4>1
        <5> QED BY <1>13, <1>14, <5>1, <5>2
      <4>2. CASE type # m
        BY <1>13, <3>1, <3>3, <4>2
      <4> QED BY <4>1, <4>2
    <3> QED BY <3>4, <3>5
  <2>2. CASE ~IsError(x.recorded)
    <3>1. errorsTotal' = errorsTotal
      BY <2>2 DEF Record
    <3>2. \A type : Failed(type)' = Failed(type)
      BY <1>11, <2>2
    <3> QED BY <1>13, <3>1, <3>2
  <2> QED BY <2>1, <2>2
<1>17. Counters'
  <2>1. \A type \in ErrorTypes :
          errorsTotal'[type] = Cardinality({q \in Done' : Status(q)' >= 400
                                 /\ MetricType(request'[q].errorType) = type})
    BY <1>16 DEF Failed, MetricType
  <2> QED BY <1>9, <1>16, <2>1 DEF Counters, CountersComplete, MetricType
<1> QED BY <1>4, <1>5, <1>6, <1>17 DEF EdgeInv

-----------------------------------------------------------------------------
(* The theorems                                                             *)

\* No request has arrived and nothing has been counted.
LEMMA InitEdge == Init => EdgeInv
<1> SUFFICES ASSUME Init PROVE EdgeInv
  OBVIOUS
<1>1. Idle \in RequestType
  <2>1. <<>> \in Seq(Result) /\ <<>> \in Seq(Answers) /\ 1 \in Nat \ {0} /\ 200 \in Nat
    OBVIOUS
  <2>2. Blank \in Ids /\ Blank \in ClientIds /\ "unmatched" \in Routes
    BY EdgeAssumption DEF Ids, Routes
  <2> QED BY <2>1, <2>2 DEF Idle, RequestType
<1>2. Idle.phase = "idle"
  BY DEF Idle
<1>3. EdgeRequest(Idle)
  BY <1>1, <1>2 DEF EdgeRequest
<1>4. /\ request \in [Requests -> RequestType]
      /\ \A r \in Requests : request[r] = Idle
  BY <1>1 DEF Init
<1>5. Anonymous = {} /\ Done = {}
  BY <1>2, <1>4 DEF Anonymous, Done
<1>6. Draws
  BY <1>5, FS_EmptySet DEF Init, Draws
<1>7. Counters
  <2>1. \A type : {r \in Done : Status(r) >= 400
                     /\ MetricType(request[r].errorType) = type} = {}
    BY <1>5
  <2> QED BY <1>5, <2>1, FS_EmptySet DEF Init, Counters, CountersComplete
<1> QED BY <1>3, <1>4, <1>6, <1>7 DEF EdgeInv

\* Every step keeps the invariant.
LEMMA NextEdge == EdgeInv /\ [Next]_vars => EdgeInv'
<1> SUFFICES ASSUME EdgeInv, [Next]_vars PROVE EdgeInv'
  OBVIOUS
<1>1. CASE UNCHANGED vars
  <2>1. request' = request /\ generated' = generated
          /\ requestsTotal' = requestsTotal /\ errorsTotal' = errorsTotal
    BY <1>1 DEF vars, metrics
  <2>2. Draws' /\ Counters'
    BY <2>1 DEF EdgeInv, Draws, Anonymous, Counters, CountersComplete, Done, Status,
                MetricType
  <2> QED BY <2>1, <2>2 DEF EdgeInv
<1>2. ASSUME NEW r \in Requests,
             Receive(r) \/ Unhandled(r) \/ Check(r) \/ Execute(r) \/ Record(r)
      PROVE  EdgeInv'
  BY <1>2, ReceiveStep, AnswerStep, RecordStep
<1> QED BY <1>1, <1>2 DEF Next, Answered

\* The handlers, the middlewares and the counters keep EdgeInv.
THEOREM EdgeInvariant == Spec => []EdgeInv
<1>1. Init => EdgeInv
  BY InitEdge
<1>2. EdgeInv /\ [Next]_vars => EdgeInv'
  BY NextEdge
<1> QED BY <1>1, <1>2, PTL DEF Spec

\* Every request is answered once, and truly, whatever its handler met.
THEOREM OneTrueAnswerHolds == Spec => []OneTrueAnswer
<1>1. EdgeInv => OneTrueAnswer
  BY DEF EdgeInv, EdgeRequest, TrueAnswer, OneTrueAnswer, Done, Status
<1> QED BY <1>1, EdgeInvariant, PTL

\* The category requestLogger logs is the one of the status the client got, and
\* none for the answers of chi, which are counted as infrastructure errors.
THEOREM CategoryFitsStatusHolds == Spec => []CategoryFitsStatus
<1>1. ASSUME EdgeInv PROVE CategoryFitsStatus
  <2> SUFFICES ASSUME NEW r \in Done
               PROVE  LET x == request[r] IN
                 /\ x.errorType =
                      IF Status(r) < 400 \/ x.route = "unmatched" THEN Untyped
                      ELSE CASE Status(r) = 400 -> Validation
                             [] Status(r) \in {404, 409} -> Domain
                             [] OTHER -> Infrastructure
                 /\ Status(r) >= 400 =>
                      (MetricType(x.errorType) = Infrastructure <=>
                         Status(r) = 500 \/ x.route = "unmatched")
    BY DEF CategoryFitsStatus
  <2> DEFINE x == request[r]
             code == x.wire[1].status
  <2>1. TrueAnswer(x) /\ Status(r) = code
    BY <1>1 DEF EdgeInv, EdgeRequest, Done, Status
  <2>2. /\ code \in Codes(x.route)
        /\ x.errorType = IF x.route = "unmatched" THEN Untyped ELSE Category(code)
    BY <2>1 DEF TrueAnswer
  <2> HIDE DEF x, code
  <2>3. CASE x.route = "unmatched"
    <3>1. x.errorType = Untyped /\ MetricType(x.errorType) = Infrastructure
      BY <2>2, <2>3 DEF MetricType
    <3>2. request[r].route = "unmatched" /\ request[r].errorType = Untyped
            /\ MetricType(request[r].errorType) = Infrastructure
      BY <2>3, <3>1 DEF x
    <3>3. code \in {404, 405}
      BY <2>2, <2>3 DEF Codes
    <3> QED BY <2>1, <3>2, <3>3
  <2>4. CASE x.route # "unmatched"
    <3>1. code \in {200, 201, 400, 404, 409, 500} /\ x.errorType = Category(code)
      BY <2>2, <2>4 DEF Codes
    <3>2. x.errorType = CASE code < 400 -> Untyped
                          [] code = 400 -> Validation
                          [] code \in {404, 409} -> Domain
                          [] OTHER -> Infrastructure
      BY <3>1 DEF Category
    <3>3. code >= 400 => (MetricType(x.errorType) = Infrastructure <=> code = 500)
      <4>1. CASE code \in {200, 201}
        BY <4>1
      <4>2. CASE code = 400
        <5>1. MetricType(x.errorType) = Validation
          BY <3>2, <4>2 DEF MetricType, Untyped, Validation
        <5> QED BY <4>2, <5>1 DEF Validation, Infrastructure
      <4>3. CASE code \in {404, 409}
        <5>1. MetricType(x.errorType) = Domain
          BY <3>2, <4>3 DEF MetricType, Untyped, Domain
        <5> QED BY <4>3, <5>1 DEF Domain, Infrastructure
      <4>4. CASE code = 500
        <5>1. MetricType(x.errorType) = Infrastructure
          BY <3>2, <4>4 DEF MetricType
        <5> QED BY <4>4, <5>1
      <4> QED BY <3>1, <4>1, <4>2, <4>3, <4>4
    <3> QED BY <2>1, <2>4, <3>1, <3>2, <3>3 DEF x
  <2> QED BY <2>3, <2>4
<1> QED BY <1>1, EdgeInvariant, PTL

\* RecordHTTPRequest counts every answered request, and every error under its
\* category.
THEOREM CountersCompleteHolds == Spec => []CountersComplete
<1>1. EdgeInv => CountersComplete
  BY DEF EdgeInv, Counters
<1> QED BY <1>1, EdgeInvariant, PTL

\* correlationID puts the id of the client, or one of its own, into the header of
\* every answer, and the handlers into their error bodies; requests that share an
\* id were sent it, unless the source of random bytes failed.
THEOREM CorrelationKeptHolds == Spec => []CorrelationKept
<1>1. ASSUME EdgeInv PROVE CorrelationKept
  <2> SUFFICES ASSUME NEW r \in Requests
               PROVE  LET x == request[r] IN
                 /\ \A k \in DOMAIN x.wire :
                      /\ x.wire[k].header = x.id
                      /\ x.sent # Blank => x.wire[k].header = x.sent
                      /\ x.wire[k].status >= 400 =>
                           (x.wire[k].body = x.id <=> x.route # "unmatched")
                 /\ \A q \in Requests \ {r} :
                      x.phase # "idle" /\ request[q].phase # "idle"
                        /\ x.id = request[q].id =>
                          x.sent = request[q].sent /\ (x.sent = Blank => x.id = Unavailable)
    BY DEF CorrelationKept
  <2> DEFINE x == request[r]
  <2>0. Idle.sent = Blank /\ Idle.wire = <<>>
    BY DEF Idle
  <2>1. EdgeRequest(x) /\ x \in RequestType
    BY <1>1 DEF EdgeInv, EdgeRequest
  <2>2. x.sent # Blank => x.id = x.sent
    BY <2>0, <2>1 DEF EdgeRequest
  <2>3. ASSUME NEW k \in DOMAIN x.wire
        PROVE  /\ x.wire[k].header = x.id
               /\ x.wire[k].status >= 400 =>
                    (x.wire[k].body = x.id <=> x.route # "unmatched")
    <3>1. x.wire # <<>>
      BY <2>3
    <3>2. x.phase \in {"after", "done"}
      BY <2>0, <2>1, <3>1 DEF EdgeRequest, Unanswered, RequestType
    <3>3. TrueAnswer(x)
      BY <2>1, <3>2 DEF EdgeRequest
    <3>4. x.wire \in Seq(Answers)
      BY <2>1 DEF RequestType
    <3>5. k = 1
      BY <3>3, <3>4, LenProperties DEF TrueAnswer
    <3> QED BY <3>3, <3>5 DEF TrueAnswer
  <2>4. ASSUME NEW q \in Requests \ {r}, x.phase # "idle",
               request[q].phase # "idle", x.id = request[q].id
        PROVE  x.sent = request[q].sent /\ (x.sent = Blank => x.id = Unavailable)
    <3>1. /\ EdgeRequest(request[q]) /\ request[q].sent \in ClientIds
          /\ x.sent \in ClientIds
      BY <1>1, <2>1 DEF EdgeInv, EdgeRequest, RequestType
    <3>2. ASSUME NEW p \in Requests, p \in Anonymous
          PROVE  request[p].id \notin ClientIds
      <4>1. DOMAIN Drawn = 1..Len(Drawn) /\ Len(Drawn) \in Nat
        BY EdgeAssumption, LenProperties
      <4>2. generated \in Nat /\ generated <= Len(Drawn)
        <5>1. IsFiniteSet(Requests) /\ Anonymous \in SUBSET Requests
          BY EdgeAssumption DEF Anonymous
        <5>2. Cardinality(Anonymous) <= Cardinality(Requests)
          BY <5>1, FS_Subset
        <5>3. Cardinality(Requests) \in Nat
          BY <5>1, FS_CardinalityType
        <5> QED BY <1>1, <4>1, <5>2, <5>3, EdgeAssumption DEF EdgeInv, Draws
      <4>3. \A k \in 1..generated : k \in DOMAIN Drawn
        BY <4>1, <4>2
      <4>4. \/ request[p].id = Unavailable
            \/ \E k \in 1..generated : request[p].id = Drawn[k]
        BY <1>1, <3>2 DEF EdgeInv, Draws
      <4> QED BY <4>3, <4>4, EdgeAssumption
    <3>3. CASE x.sent # Blank
      <4>1. request[q].id \in ClientIds
        BY <2>2, <2>4, <3>1, <3>3
      <4>2. q \notin Anonymous
        BY <3>2, <4>1
      <4>3. request[q].sent # Blank
        BY <2>4, <4>2 DEF Anonymous
      <4> QED BY <2>2, <2>4, <3>1, <3>3, <4>3 DEF EdgeRequest
    <3>4. CASE x.sent = Blank
      <4>1. r \in Anonymous
        BY <2>4, <3>4 DEF Anonymous
      <4>2. x.id \notin ClientIds
        BY <3>2, <4>1
      <4>3. request[q].sent = Blank
        BY <2>4, <3>1, <4>2 DEF EdgeRequest
      <4>4. q \in Anonymous
        BY <2>4, <4>3 DEF Anonymous
      <4>5. x.id = Unavailable
        BY <1>1, <2>4, <4>1, <4>4 DEF EdgeInv, Draws
      <4> QED BY <3>4, <4>3, <4>5
    <3> QED BY <3>3, <3>4
  <2> HIDE DEF x
  <2>5. \A k \in DOMAIN x.wire :
          /\ x.wire[k].header = x.id
          /\ x.sent # Blank => x.wire[k].header = x.sent
          /\ x.wire[k].status >= 400 =>
               (x.wire[k].body = x.id <=> x.route # "unmatched")
    BY <2>2, <2>3
  <2>6. \A q \in Requests \ {r} :
          x.phase # "idle" /\ request[q].phase # "idle" /\ x.id = request[q].id =>
            x.sent = request[q].sent /\ (x.sent = Blank => x.id = Unavailable)
    BY <2>4
  <2> QED BY <2>5, <2>6 DEF x
<1> QED BY <1>1, EdgeInvariant, PTL
=============================================================================
