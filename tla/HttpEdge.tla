------------------------------ MODULE HttpEdge ------------------------------
(***************************************************************************)
(* The HTTP edge.  A request passes the middlewares (correlation id, trace *)
(* span, request logger) to the handler of its route, which decodes and    *)
(* checks the input, runs one use case and writes one answer; on the way   *)
(* back requestLogger names the span, counts the request and logs it from  *)
(* what its statusRecorder saw.                                            *)
(*                                                                         *)
(* What a use case does to the tables is the subject of the other modules: *)
(* here it yields an error and the category its own span is given.  The    *)
(* input is reduced to which of the checks it passes.                      *)
(***************************************************************************)
EXTENDS Naturals, Sequences, FiniteSets

CONSTANTS
  Requests,    \* requests, each in a goroutine of its own
  ClientIds,   \* correlation ids clients send, Blank among them
  Drawn        \* the ids generateID draws, in order

Blank == "blank"
Unavailable == "correlation-id-unavailable"

\* Sixteen random bytes are taken to be new.
ASSUME EdgeAssumption ==
  /\ IsFiniteSet(Requests)
  /\ Blank \in ClientIds /\ {Unavailable, "text"} \cap ClientIds = {}
  /\ Drawn \in Seq({Drawn[k] : k \in DOMAIN Drawn})
  /\ Len(Drawn) >= Cardinality(Requests)
  /\ \A k \in DOMAIN Drawn :
       /\ Drawn[k] \notin ClientIds \cup {Unavailable, "text"}
       /\ \A j \in DOMAIN Drawn : Drawn[j] = Drawn[k] => j = k

VARIABLES
  request,     \* the requests and how far each has got
  generated,   \* how many ids generateID drew
  requestsTotal, errorsTotal   \* the counters of RecordHTTPRequest

metrics == <<requestsTotal, errorsTotal>>
vars == <<request, generated, metrics>>

Validation == "validation_error"
Domain == "domain_error"
Infrastructure == "infrastructure_error"
Untyped == ""
ErrorTypes == {Validation, Domain, Infrastructure}

-----------------------------------------------------------------------------
(* Routes                                                                   *)

\* "health" stands for /metrics too, "unmatched" for an unknown path or method.
Creates == {"createCustomer", "createInvoice", "processPayment"}
UseCases == Creates \cup {"updateCustomer", "deactivateCustomer", "listInvoices"}
Routes == UseCases \cup {"health", "unmatched"}

\* The checks of each handler, in their order.
Checks(route) ==
  CASE route \in Creates -> <<"json", "fields">>
    [] route = "updateCustomer" -> <<"json", "id", "fields">>
    [] route \in {"deactivateCustomer", "listInvoices"} -> <<"id">>
    [] OTHER -> <<>>

\* What the Execute of each use case may return: the error and the category its
\* span gets.  "input" stands for the errors about a value, "other" for those
\* with no name in the handler, of statements and of nested publications.
Outcome(error, type) == [error |-> error, type |-> type]

CreateCustomer ==
  {Outcome("input", Validation), Outcome("alreadyExists", Domain),
   Outcome("alreadyExists", Infrastructure),   \* the unique index
   Outcome("other", Infrastructure)}

UpdateCustomer ==
  {Outcome("input", Validation), Outcome("notFound", Infrastructure),
   Outcome("other", Infrastructure)}

DeactivateCustomer ==
  {Outcome("input", Validation), Outcome("notFound", Infrastructure),
   Outcome("other", Infrastructure)}

\* Every error of the customer check counts as one of the domain.
CreateInvoice ==
  {Outcome("input", Validation), Outcome("notFound", Domain),
   Outcome("inactive", Domain), Outcome("other", Domain),
   Outcome("other", Infrastructure)}

ListCustomerInvoices ==
  {Outcome("input", Validation), Outcome("other", Infrastructure)}

ProcessPayment ==
  {Outcome("input", Validation), Outcome("notFound", Domain),
   Outcome("approved", Domain), Outcome("other", Domain),
   Outcome("alreadyExists", Untyped), Outcome("other", Untyped)}

Outcomes(route) ==
  {Outcome("nil", Untyped)} \cup
  CASE route = "createCustomer" -> CreateCustomer
    [] route = "updateCustomer" -> UpdateCustomer
    [] route = "deactivateCustomer" -> DeactivateCustomer
    [] route = "createInvoice" -> CreateInvoice
    [] route = "listInvoices" -> ListCustomerInvoices
    [] OTHER -> ProcessPayment

-----------------------------------------------------------------------------
(* Answers                                                                  *)

\* WriteHeader of the recorder.  The correlation middleware has put the id into
\* the header of the response before any handler runs.
Answer(x, status, body) ==
  [x EXCEPT !.recorded = status,
            !.wire = Append(@, [status |-> status, header |-> x.id, body |-> body])]

\* After SetErrorType of the recorder.
WriteWithType(x, status, type, body) ==
  [Answer(x, status, body) EXCEPT !.errorType = type]

WriteJSON(x, status) == Answer(x, status, "payload")

\* Wrong variant: the answer of a domain error carries no category.
WriteDomainErrorUntyped(x, status) == WriteWithType(x, status, Untyped, x.id)

WriteDomainError(x, status) == WriteWithType(x, status, Domain, x.id)
WriteInputError(x) == WriteWithType(x, 400, Validation, x.id)
WriteInternalError(x) == WriteWithType(x, 500, Infrastructure, x.id)

\* The writeError of the three handlers.
WriteError(x, error) ==
  CASE error = "input" -> WriteInputError(x)
    [] error = "notFound" -> WriteDomainError(x, 404)
    [] error \in {"alreadyExists", "inactive", "approved"} ->
         WriteDomainError(x, 409)
    [] OTHER -> WriteInternalError(x)

WriteResult(x, error) ==
  IF error # "nil" THEN WriteError(x, error)
  ELSE WriteJSON(x, IF x.route \in Creates THEN 201 ELSE 200)

-----------------------------------------------------------------------------
(* The middlewares                                                          *)

Idle ==
  [phase |-> "idle", route |-> "unmatched", fails |-> {}, sent |-> Blank,
   id |-> Blank, check |-> 1, executed |-> <<>>, recorded |-> 200,
   errorType |-> Untyped, wire |-> <<>>]

\* Wrong variant: the id is drawn when the router is built.
GenerateIdOnce == Drawn[1]

GenerateId == Drawn[generated + 1]

\* The route and the input arrive, the id is taken from the header or drawn, and
\* the recorder is put in front of the handler.
Receive(r) ==
  /\ request[r].phase = "idle"
  /\ \E route \in Routes, fails \in SUBSET {"json", "id", "fields"},
        sent \in ClientIds :
       /\ fails \subseteq {Checks(route)[k] : k \in DOMAIN Checks(route)}
       /\ \E id \in IF sent # Blank THEN {sent} ELSE {GenerateId, Unavailable} :
            request' = [request EXCEPT ![r] =
              [Idle EXCEPT !.phase = "handler", !.route = route, !.fails = fails,
                           !.sent = sent, !.id = id]]
       /\ generated' = generated + (IF sent = Blank THEN 1 ELSE 0)
  /\ UNCHANGED metrics

\* chi answers an unknown path with 404 and an unknown method of a path with 405,
\* without a category and without a JSON body; /health answers at once.
Unhandled(r) ==
  LET x == request[r] IN
    /\ x.phase = "handler"
    /\ x.route \in {"health", "unmatched"}
    /\ \E y \in IF x.route = "health" THEN {WriteJSON(x, 200)}
               ELSE {Answer(x, 404, "text"), Answer(x, 405, "text")} :
         request' = [request EXCEPT ![r] = [y EXCEPT !.phase = "after"]]
    /\ UNCHANGED <<generated, metrics>>

Checked(x) == x.check > Len(Checks(x.route))

\* Wrong variant: the handler writes the error and goes on.
RefuseContinues(x) == [WriteInputError(x) EXCEPT !.check = @ + 1]

\* WriteInputError and return.
Refuse(x) == [WriteInputError(x) EXCEPT !.phase = "after"]

\* DecodeJSON and the Require functions.
Check(r) ==
  LET x == request[r] IN
    /\ x.phase = "handler"
    /\ x.route \in UseCases
    /\ ~Checked(x)
    /\ request' = [request EXCEPT ![r] =
         IF Checks(x.route)[x.check] \in x.fails THEN Refuse(x)
                                                ELSE [x EXCEPT !.check = @ + 1]]
    /\ UNCHANGED <<generated, metrics>>

\* The use case and its answer.
Execute(r) ==
  LET x == request[r] IN
    /\ x.phase = "handler"
    /\ x.route \in UseCases
    /\ Checked(x)
    /\ \E outcome \in Outcomes(x.route) :
         request' = [request EXCEPT ![r] =
           [WriteResult(x, outcome.error) EXCEPT
              !.phase = "after", !.executed = Append(@, outcome)]]
    /\ UNCHANGED <<generated, metrics>>

\* normalizeMetricValue: an empty category counts as infrastructure.
MetricType(type) == IF type = Untyped THEN Infrastructure ELSE type

\* Wrong variant: the bound of the error range is off by one.
IsErrorAbove(status) == status > 400

IsError(status) == status >= 400

\* requestLogger and RecordHTTPRequest, after the handler returned.
Record(r) ==
  LET x == request[r] IN
    /\ x.phase = "after"
    /\ request' = [request EXCEPT ![r].phase = "done"]
    /\ requestsTotal' = requestsTotal + 1
    /\ errorsTotal' =
         IF IsError(x.recorded)
           THEN [errorsTotal EXCEPT ![MetricType(x.errorType)] = @ + 1]
           ELSE errorsTotal
    /\ UNCHANGED generated

-----------------------------------------------------------------------------
Init ==
  /\ request = [r \in Requests |-> Idle]
  /\ generated = 0
  /\ requestsTotal = 0
  /\ errorsTotal = [type \in ErrorTypes |-> 0]

Answered == (\A r \in Requests : request[r].phase = "done") /\ UNCHANGED vars

Next ==
  \/ \E r \in Requests :
       Receive(r) \/ Unhandled(r) \/ Check(r) \/ Execute(r) \/ Record(r)
  \/ Answered

Spec == Init /\ [][Next]_vars

-----------------------------------------------------------------------------
(* Properties                                                               *)

Done == {r \in Requests : request[r].phase = "done"}
Status(r) == request[r].wire[1].status

\* Whatever path the handler took, the client got one answer; the recorder saw
\* that one; and the work behind it fits: a refused input never reached its use
\* case, and a success is what the one use case that ran returned.
OneTrueAnswer ==
  \A r \in Done :
    LET x == request[r] IN
      /\ Len(x.wire) = 1
      /\ x.recorded = Status(r)
      /\ Len(x.executed) =
           IF x.route \in UseCases /\ x.fails = {} THEN 1 ELSE 0
      /\ x.fails # {} => Status(r) = 400
      /\ x.executed # <<>> =>
           (Status(r) < 300 <=> x.executed[1].error = "nil")

\* The category an answer is logged with is the one of its status: 400 for the
\* caller's input, 404 and 409 for the state of the domain, 500 for the rest.
\* The answers chi gives by itself have none, whatever their status; so among
\* the errors that are counted as infrastructure errors are exactly the 500s and
\* those 404s and 405s, which are nobody's failure.
CategoryFitsStatus ==
  \A r \in Done :
    LET x == request[r] IN
      /\ x.errorType =
           IF Status(r) < 400 \/ x.route = "unmatched" THEN Untyped
           ELSE CASE Status(r) = 400 -> Validation
                  [] Status(r) \in {404, 409} -> Domain
                  [] OTHER -> Infrastructure
      /\ Status(r) >= 400 =>
           (MetricType(x.errorType) = Infrastructure <=>
              Status(r) = 500 \/ x.route = "unmatched")

\* The counters lose no request and no error, however requests interleave.
CountersComplete ==
  /\ requestsTotal = Cardinality(Done)
  /\ \A type \in ErrorTypes :
       errorsTotal[type] =
         Cardinality({r \in Done :
           Status(r) >= 400 /\ MetricType(request[r].errorType) = type})

\* Every answer carries in its header the id the request is logged under, the
\* client's own where it sent one, chi's 404 and 405 included.  The error bodies
\* of the handlers repeat it; chi's bodies do not.  Two requests are logged under
\* one id only if the client sent it twice or the source of random bytes failed
\* for both (that sixteen random bytes do not repeat is EdgeAssumption).
CorrelationKept ==
  \A r \in Requests :
    LET x == request[r] IN
      /\ \A k \in DOMAIN x.wire :
           /\ x.wire[k].header = x.id
           /\ x.sent # Blank => x.wire[k].header = x.sent
           /\ x.wire[k].status >= 400 =>
                (x.wire[k].body = x.id <=> x.route # "unmatched")
      /\ \A q \in Requests \ {r} :
           x.phase # "idle" /\ request[q].phase # "idle" /\ x.id = request[q].id =>
             x.sent = request[q].sent /\ (x.sent = Blank => x.id = Unavailable)
=============================================================================
