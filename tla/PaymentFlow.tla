---------------------------- MODULE PaymentFlow ----------------------------
(***************************************************************************)
(* The path from an issued invoice to a settled one: POST /invoices, which *)
(* bills and charges the invoice inside the request through the            *)
(* synchronous event bus, and POST /payments, which retries the charge.    *)
(*                                                                         *)
(* A request is one HTTP request, served by one goroutine; a step is one   *)
(* SQL statement, one gateway call or one decision of the bus.  Requests   *)
(* interleave at those steps.  The statements of ProcessBillingRequest,    *)
(* and of every handler it reaches through the bus, run in one READ        *)
(* COMMITTED transaction, kept in tx[r] until it commits; all the others   *)
(* commit on their own.                                                    *)
(***************************************************************************)
EXTENDS Naturals

CONSTANTS
  Requests,         \* the HTTP requests of a behaviour, each served once
  Invoices,         \* the invoice ids (fresh UUIDs) requests may create
  Profiles,         \* the fault profiles the process may be started with
  GatewayOutcomes,  \* what the payment gateway may answer
  MaxFaults         \* how many statements, replies or processes may fail

FaultProfiles ==
  {"none", "payment_timeout", "payment_flaky_first",
   "duplicate_billing_requested", "event_consumer_failure",
   "outbox_append_failure"}

AllOutcomes == {"Approved", "Declined", "Timeout", "Error"}

ASSUME ConstantsAssumption ==
  /\ Profiles \subseteq FaultProfiles
  /\ GatewayOutcomes \subseteq AllOutcomes
  /\ MaxFaults \in Nat
  /\ Invoices # {}

-----------------------------------------------------------------------------
(* Rows of the tables.  A row's id is the request that inserted it: ids    *)
(* are fresh UUIDs and no request inserts two rows of one kind.            *)

Billing == [status : {"Requested", "Failed", "Approved"}, attempt : Nat \ {0}]
NoBilling == [status |-> "None", attempt |-> 0]

FailureCategory ==
  {"", "gateway_declined", "gateway_timeout", "gateway_error"}

Payment ==
  [id : Requests, inv : Invoices, att : Nat \ {0},
   status : {"Pending", "Approved", "Failed"}, category : FailureCategory]
NoPayment == [status |-> "None"]

EventNames ==
  {"InvoiceCreated", "BillingRequested", "PaymentApproved", "PaymentFailed",
   "InvoicePaid"}

EventRow ==
  [name : EventNames, by : Requests, inv : Invoices, att : Nat,
   status : {"pending", "processed", "failed"}]

\* What an open transaction has written or locked.
Transaction ==
  [payment : Payment \cup {NoPayment}, billing : Billing \cup {NoBilling},
   invoice : {"None", "Paid"}, outbox : SUBSET EventRow, locked : BOOLEAN]
EmptyTx ==
  [payment |-> NoPayment, billing |-> NoBilling, invoice |-> "None",
   outbox |-> {}, locked |-> FALSE]

VARIABLES
  invoices,      \* committed invoices: status, or "None"
  billings,      \* committed billings, one per invoice (billings_invoice_id_uq)
  payments,      \* committed payments
  outbox,        \* committed rows of outbox_events
  profile,       \* the fault profile of the process
  triggered,     \* the once-only fault of the profile has happened
  gatewayCalls,  \* calls that reached the gateway port: who, for what attempt
  faults,        \* faults so far, up to MaxFaults
  pc,            \* the next step of each request
  kind,          \* "create" (POST /invoices) or "pay" (POST /payments)
  inv,           \* the invoice of the request
  att,           \* the attempt number the request processes
  entity,        \* the Payment the request holds in memory
  loaded,        \* the Billing the request holds in memory
  tx,            \* the open transaction of the request
  reply          \* the HTTP status the request answers, or "lost"

tables == <<invoices, billings, payments, outbox>>
process == <<profile, triggered>>
locals == <<kind, inv, att, entity, loaded>>
vars == <<tables, process, gatewayCalls, faults, pc, locals, tx, reply>>

-----------------------------------------------------------------------------
CreateSteps ==
  {"appendInvoiceCreated", "findBilling", "saveBilling",
   "appendBillingRequested", "dispatchBillingRequested", "afterDispatch",
   "markBillingRequested", "markInvoiceCreated", "failBillingRequested",
   "failInvoiceCreated"}

\* The transaction of GetProcessableBillingByInvoiceID.
BillingTxSteps == {"lockBilling", "updateBilling", "commitBilling"}

\* The statements of ProcessBillingRequest before and after its INSERT.
LookupSteps == {"findPayment", "checkApproved", "insertPayment"}
ReservedStatements ==
  {"updatePayment", "appendResult", "getInvoice", "updateInvoice",
   "appendInvoicePaid", "markInvoicePaid", "getBilling", "markBilling",
   "markResult"}

TxStatements ==
  BillingTxSteps \cup LookupSteps \cup ReservedStatements \cup {"commit"}

Steps ==
  {"idle", "done", "rollback", "callGateway"} \cup CreateSteps \cup TxStatements

Goto(r, step) == pc' = [pc EXCEPT ![r] = step]
Answer(r, code) == reply' = [reply EXCEPT ![r] = code]

\* The handler of POST /invoices answers any failure of the flow with 500.
ErrorCode(r, code) == IF kind[r] = "create" THEN "500" ELSE code

\* The use case returns an error: WithinTransaction rolls back.
Abort(r, code) == Goto(r, "rollback") /\ Answer(r, ErrorCode(r, code))

-----------------------------------------------------------------------------
(* Row locks, as PostgreSQL takes them for the statements used.             *)

\* Wrong variant: no unique index on (billing_id, attempt_number).
ReservedWithoutIndex(r, i, a) == FALSE

\* An uncommitted INSERT makes another of the same (billing, attempt) wait.
Reserved(r, i, a) ==
  \E s \in Requests \ {r} :
    tx[s].payment # NoPayment /\ inv[s] = i /\ att[s] = a

\* Wrong variant: payments without a foreign key to billings.
KeySharedWithoutForeignKey(r, i) == FALSE

\* The foreign key of an inserted payment locks its billing FOR KEY SHARE.
KeyShared(r, i) ==
  \E s \in Requests \ {r} : tx[s].payment # NoPayment /\ inv[s] = i

\* Wrong variant: the billing is read without FOR UPDATE.
RowLockedWithoutForUpdate(r, i) == FALSE

\* SELECT ... FOR UPDATE of the billing row.
RowLocked(r, i) == \E s \in Requests \ {r} : tx[s].locked /\ inv[s] = i

\* Another open transaction holds the entry of payments_invoice_id_approved_uq.
ApprovedInFlight(r, i) ==
  \E s \in Requests \ {r} : tx[s].payment.status = "Approved" /\ inv[s] = i

-----------------------------------------------------------------------------
(* The outbox                                                               *)

Event(r, name, status) ==
  [name |-> name, by |-> r, inv |-> inv[r],
   att |-> IF name = "InvoiceCreated" THEN 0 ELSE att[r], status |-> status]

\* failFirstAppendRecorder fails the first Append of the process.
AppendFault == profile = "outbox_append_failure" /\ ~triggered

Marked(rows, r, name, status) ==
  (rows \ {Event(r, name, "pending")}) \cup {Event(r, name, status)}

\* Append outside a transaction, then the step after it.
AppendRecord(r, name, next, onError) ==
  /\ IF AppendFault
       THEN /\ triggered' = TRUE
            /\ Goto(r, onError)
            /\ Answer(r, "500")
            /\ UNCHANGED outbox
       ELSE /\ outbox' = outbox \cup {Event(r, name, "pending")}
            /\ Goto(r, next)
            /\ UNCHANGED <<triggered, reply>>
  /\ UNCHANGED <<invoices, billings, payments, profile, gatewayCalls, faults,
                 locals, tx>>

\* Append inside the transaction of the payment.
AppendInTx(r, name, next) ==
  /\ IF AppendFault
       THEN triggered' = TRUE /\ Abort(r, "500") /\ UNCHANGED tx
       ELSE /\ tx' = [tx EXCEPT ![r].outbox = @ \cup {Event(r, name, "pending")}]
            /\ Goto(r, next)
            /\ UNCHANGED <<triggered, reply>>
  /\ UNCHANGED <<tables, profile, gatewayCalls, faults, locals>>

\* MarkProcessed or MarkFailed outside a transaction.
MarkRecord(r, name, status, next) ==
  /\ outbox' = Marked(outbox, r, name, status)
  /\ Goto(r, next)
  /\ UNCHANGED <<invoices, billings, payments, process, gatewayCalls, faults,
                 locals, tx>>

MarkInTx(r, name, next) ==
  /\ tx' = [tx EXCEPT ![r].outbox = Marked(@, r, name, "processed")]
  /\ Goto(r, next)
  /\ UNCHANGED <<tables, process, gatewayCalls, faults, locals, reply>>

-----------------------------------------------------------------------------
(* POST /invoices up to the dispatch of BillingRequested                    *)

\* CreateInvoice saves the invoice under a fresh id; the customer was checked.
CreateInvoice(r, i) ==
  /\ pc[r] = "idle"
  /\ invoices[i] = "None"
  /\ invoices' = [invoices EXCEPT ![i] = "Pending"]
  /\ kind' = [kind EXCEPT ![r] = "create"]
  /\ inv' = [inv EXCEPT ![r] = i]
  /\ Goto(r, "appendInvoiceCreated")
  /\ UNCHANGED <<billings, payments, outbox, process, gatewayCalls, faults, att,
                 entity, loaded, tx, reply>>

AppendInvoiceCreated(r) ==
  /\ pc[r] = "appendInvoiceCreated"
  /\ AppendRecord(r, "InvoiceCreated", "findBilling", "done")

\* CreateBillingFromInvoice returns the billing it finds and publishes nothing.
FindBilling(r) ==
  /\ pc[r] = "findBilling"
  /\ Goto(r, IF billings[inv[r]] = NoBilling THEN "saveBilling"
                                             ELSE "markInvoiceCreated")
  /\ UNCHANGED <<tables, process, gatewayCalls, faults, locals, tx, reply>>

NewBilling == [status |-> "Requested", attempt |-> 1]

\* INSERT of the billing; on a unique violation the existing one is returned.
SaveBilling(r) ==
  /\ pc[r] = "saveBilling"
  /\ IF billings[inv[r]] = NoBilling
       THEN /\ billings' = [billings EXCEPT ![inv[r]] = NewBilling]
            /\ att' = [att EXCEPT ![r] = NewBilling.attempt]
            /\ Goto(r, "appendBillingRequested")
       ELSE /\ Goto(r, "markInvoiceCreated")
            /\ UNCHANGED <<billings, att>>
  /\ UNCHANGED <<invoices, payments, outbox, process, gatewayCalls, faults, kind,
                 inv, entity, loaded, tx, reply>>

AppendBillingRequested(r) ==
  /\ pc[r] = "appendBillingRequested"
  /\ AppendRecord(r, "BillingRequested", "dispatchBillingRequested",
                  "failInvoiceCreated")

\* Wrong variant: payments never subscribed to BillingRequested.
DispatchToNobody(r) ==
  /\ pc[r] = "dispatchBillingRequested"
  /\ Goto(r, "markBillingRequested")
  /\ UNCHANGED <<tables, process, gatewayCalls, faults, locals, tx, reply>>

\* The bus hands BillingRequested to payments, or injects the consumer failure.
DispatchBillingRequested(r) ==
  /\ pc[r] = "dispatchBillingRequested"
  /\ IF profile = "event_consumer_failure" /\ ~triggered
       THEN /\ triggered' = TRUE
            /\ Goto(r, "failBillingRequested")
            /\ Answer(r, "500")
       ELSE /\ Goto(r, "findPayment")
            /\ UNCHANGED <<triggered, reply>>
  /\ UNCHANGED <<tables, profile, gatewayCalls, faults, locals, tx>>

-----------------------------------------------------------------------------
(* POST /payments up to ProcessBillingRequest                               *)

ProcessPayment(r, i) ==
  /\ pc[r] = "idle"
  /\ kind' = [kind EXCEPT ![r] = "pay"]
  /\ inv' = [inv EXCEPT ![r] = i]
  /\ Goto(r, "lockBilling")
  /\ UNCHANGED <<tables, process, gatewayCalls, faults, att, entity, loaded, tx,
                 reply>>

\* Wrong variant: a billing that is still Requested starts another attempt.
MarkRequestedAlways(b) ==
  [status |-> "Requested", attempt |-> b.attempt + 1]

\* Billing.MarkRequested of a billing that is not Approved.
MarkRequested(b) ==
  IF b.status = "Failed"
    THEN [status |-> "Requested", attempt |-> b.attempt + 1]
    ELSE b

\* GetByInvoiceIDForUpdate, which waits for the row, and MarkRequested.
LockBilling(r) ==
  /\ pc[r] = "lockBilling"
  /\ ~RowLocked(r, inv[r])
  /\ ~KeyShared(r, inv[r])
  /\ LET b == billings[inv[r]] IN
       /\ tx' = [tx EXCEPT ![r].locked = (b # NoBilling)]
       /\ CASE b = NoBilling -> Abort(r, "404") /\ UNCHANGED loaded
            [] b.status = "Approved" -> Abort(r, "409") /\ UNCHANGED loaded
            [] OTHER -> /\ loaded' = [loaded EXCEPT ![r] = MarkRequested(b)]
                        /\ Goto(r, "updateBilling")
                        /\ UNCHANGED reply
  /\ UNCHANGED <<tables, process, gatewayCalls, faults, kind, inv, att, entity>>

UpdateBilling(r) ==
  /\ pc[r] = "updateBilling"
  /\ tx' = [tx EXCEPT ![r].billing = loaded[r]]
  /\ Goto(r, "commitBilling")
  /\ UNCHANGED <<tables, process, gatewayCalls, faults, locals, reply>>

-----------------------------------------------------------------------------
(* ProcessBillingRequest                                                    *)

\* GetByBillingIDAndAttempt: a committed attempt is returned as it is.
FindPayment(r) ==
  /\ pc[r] = "findPayment"
  /\ \/ \E p \in payments :
          /\ p.inv = inv[r] /\ p.att = att[r]
          /\ entity' = [entity EXCEPT ![r] = p]
          /\ Goto(r, "commit")
     \/ /\ \A p \in payments : ~(p.inv = inv[r] /\ p.att = att[r])
        /\ Goto(r, "checkApproved")
        /\ UNCHANGED entity
  /\ UNCHANGED <<tables, process, gatewayCalls, faults, kind, inv, att, loaded,
                 tx, reply>>

\* Wrong variant: the query forgets status = 'Approved'.
HasAnyPayment(i) == \E p \in payments : p.inv = i

HasApproved(i) == \E p \in payments : p.inv = i /\ p.status = "Approved"

CheckApproved(r) ==
  /\ pc[r] = "checkApproved"
  /\ IF HasApproved(inv[r])
       THEN Abort(r, "409")
       ELSE Goto(r, "insertPayment") /\ UNCHANGED reply
  /\ UNCHANGED <<tables, process, gatewayCalls, faults, locals, tx>>

NewPayment(r) ==
  [id |-> r, inv |-> inv[r], att |-> att[r], status |-> "Pending",
   category |-> ""]

\* INSERT of the Pending attempt.  It waits for an open INSERT of the same
\* attempt and for a FOR UPDATE lock of the billing.  A committed row of the
\* attempt is a unique violation: it aborts the transaction, so the reload of
\* the concurrent payment fails too.
InsertPayment(r) ==
  /\ pc[r] = "insertPayment"
  /\ ~Reserved(r, inv[r], att[r])
  /\ \/ /\ \E p \in payments : p.inv = inv[r] /\ p.att = att[r]
        /\ Abort(r, "500")
        /\ UNCHANGED <<entity, tx>>
     \/ /\ \A p \in payments : ~(p.inv = inv[r] /\ p.att = att[r])
        /\ ~RowLocked(r, inv[r])
        /\ entity' = [entity EXCEPT ![r] = NewPayment(r)]
        /\ tx' = [tx EXCEPT ![r].payment = NewPayment(r)]
        /\ Goto(r, "callGateway")
        /\ UNCHANGED reply
  /\ UNCHANGED <<tables, process, gatewayCalls, faults, kind, inv, att, loaded>>

\* Wrong variant: a category the payments table does not know.
MarkedAsUnclassified(p, outcome) ==
  IF outcome = "Approved"
    THEN [p EXCEPT !.status = "Approved"]
    ELSE [p EXCEPT !.status = "Failed", !.category = "gateway_failed"]

\* Payment.MarkApproved and MarkFailed with the category of the outcome.
MarkedAs(p, outcome) ==
  IF outcome = "Approved"
    THEN [p EXCEPT !.status = "Approved", !.category = ""]
    ELSE [p EXCEPT !.status = "Failed",
                   !.category = CASE outcome = "Declined" -> "gateway_declined"
                                  [] outcome = "Timeout" -> "gateway_timeout"
                                  [] OTHER -> "gateway_error"]

\* The gateway as decorated for the fault profile.
GatewayAnswers ==
  CASE profile = "payment_timeout" -> {"Timeout"}
    [] profile = "payment_flaky_first" /\ ~triggered -> {"Error"}
    [] OTHER -> GatewayOutcomes

CallGateway(r) ==
  /\ pc[r] = "callGateway"
  /\ \E outcome \in GatewayAnswers :
       entity' = [entity EXCEPT ![r] = MarkedAs(@, outcome)]
  /\ gatewayCalls' =
       gatewayCalls \cup {[by |-> r, inv |-> inv[r], att |-> att[r]]}
  /\ triggered' = (triggered \/ profile = "payment_flaky_first")
  /\ Goto(r, "updatePayment")
  /\ UNCHANGED <<tables, profile, faults, kind, inv, att, loaded, tx, reply>>

\* UPDATE of the payment; payments_invoice_id_approved_uq admits one Approved.
UpdatePayment(r) ==
  /\ pc[r] = "updatePayment"
  /\ IF entity[r].status = "Approved" /\ HasApproved(inv[r])
       THEN Abort(r, "409") /\ UNCHANGED tx
       ELSE /\ entity[r].status = "Approved" => ~ApprovedInFlight(r, inv[r])
            /\ tx' = [tx EXCEPT ![r].payment = entity[r]]
            /\ Goto(r, "appendResult")
            /\ UNCHANGED reply
  /\ UNCHANGED <<tables, process, gatewayCalls, faults, locals>>

ResultName(r) ==
  IF entity[r].status = "Approved" THEN "PaymentApproved" ELSE "PaymentFailed"

\* Publish of the result: invoices subscribed to PaymentApproved before billing.
AppendResult(r) ==
  /\ pc[r] = "appendResult"
  /\ AppendInTx(r, ResultName(r),
                IF entity[r].status = "Approved" THEN "getInvoice"
                                                 ELSE "getBilling")

\* Wrong variant: invoices does not consume PaymentApproved.
GetInvoiceUnsubscribed(r) ==
  /\ pc[r] = "getInvoice"
  /\ Goto(r, "getBilling")
  /\ UNCHANGED <<tables, process, gatewayCalls, faults, locals, tx, reply>>

\* ApplyPaymentApproved: Invoice.MarkPaid of a Paid invoice is swallowed.
GetInvoice(r) ==
  /\ pc[r] = "getInvoice"
  /\ Goto(r, IF invoices[inv[r]] = "Paid" THEN "getBilling" ELSE "updateInvoice")
  /\ UNCHANGED <<tables, process, gatewayCalls, faults, locals, tx, reply>>

UpdateInvoice(r) ==
  /\ pc[r] = "updateInvoice"
  /\ tx' = [tx EXCEPT ![r].invoice = "Paid"]
  /\ Goto(r, "appendInvoicePaid")
  /\ UNCHANGED <<tables, process, gatewayCalls, faults, locals, reply>>

AppendInvoicePaid(r) ==
  /\ pc[r] = "appendInvoicePaid"
  /\ AppendInTx(r, "InvoicePaid", "markInvoicePaid")

\* Nobody consumes InvoicePaid.
MarkInvoicePaid(r) ==
  /\ pc[r] = "markInvoicePaid"
  /\ MarkInTx(r, "InvoicePaid", "getBilling")

\* MarkBillingApproved and MarkBillingFailed read the row without locking it.
GetBilling(r) ==
  /\ pc[r] = "getBilling"
  /\ loaded' = [loaded EXCEPT ![r] = billings[inv[r]]]
  /\ Goto(r, "markBilling")
  /\ UNCHANGED <<tables, process, gatewayCalls, faults, kind, inv, att, entity,
                 tx, reply>>

\* Wrong variant: the attempt is written back as a new billing has it.
MarkBillingFresh(r) ==
  /\ pc[r] = "markBilling"
  /\ ~RowLocked(r, inv[r])
  /\ tx' = [tx EXCEPT ![r].billing =
                        [NewBilling EXCEPT !.status = entity[r].status]]
  /\ Goto(r, "markResult")
  /\ UNCHANGED <<tables, process, gatewayCalls, faults, locals, reply>>

\* UPDATE writes status and attempt as they were read.
MarkBilling(r) ==
  /\ pc[r] = "markBilling"
  /\ ~RowLocked(r, inv[r])
  /\ tx' = [tx EXCEPT ![r].billing =
                        [loaded[r] EXCEPT !.status = entity[r].status]]
  /\ Goto(r, "markResult")
  /\ UNCHANGED <<tables, process, gatewayCalls, faults, locals, reply>>

MarkResult(r) ==
  /\ pc[r] = "markResult"
  /\ MarkInTx(r, ResultName(r), "commit")

-----------------------------------------------------------------------------
(* WithinTransaction                                                        *)

\* What COMMIT makes visible.
Apply(r) ==
  /\ payments' = payments \cup ({tx[r].payment} \ {NoPayment})
  /\ billings' = IF tx[r].billing = NoBilling
                   THEN billings
                   ELSE [billings EXCEPT ![inv[r]] = tx[r].billing]
  /\ invoices' = IF tx[r].invoice = "None"
                   THEN invoices
                   ELSE [invoices EXCEPT ![inv[r]] = tx[r].invoice]
  /\ outbox' = outbox \cup tx[r].outbox
  /\ tx' = [tx EXCEPT ![r] = EmptyTx]

\* Wrong variant: the error of COMMIT is not returned.
CommitErrorIgnored(r) ==
  /\ pc[r] = "commit"
  /\ tx' = [tx EXCEPT ![r] = EmptyTx]
  /\ IF kind[r] = "create"
       THEN Goto(r, "afterDispatch") /\ UNCHANGED reply
       ELSE Goto(r, "done") /\ Answer(r, "201")
  /\ UNCHANGED <<tables, process, gatewayCalls, faults, locals>>

Commit(r) ==
  /\ pc[r] = "commit"
  /\ Apply(r)
  /\ IF kind[r] = "create"
       THEN Goto(r, "afterDispatch") /\ UNCHANGED reply
       ELSE Goto(r, "done") /\ Answer(r, "201")
  /\ UNCHANGED <<process, gatewayCalls, faults, locals>>

\* The snapshot of the committed billing carries the attempt to process.
CommitBilling(r) ==
  /\ pc[r] = "commitBilling"
  /\ Apply(r)
  /\ att' = [att EXCEPT ![r] = loaded[r].attempt]
  /\ Goto(r, "findPayment")
  /\ UNCHANGED <<process, gatewayCalls, faults, kind, inv, entity, loaded, reply>>

\* The step after a payment transaction that returned an error.  A MarkFailed
\* the bus issued inside the transaction was discarded with it.
AfterError(r) == IF kind[r] = "create" THEN "failBillingRequested" ELSE "done"

\* Wrong variant: the recorder writes outside the transaction.
RollbackKeepsEvents(r) ==
  /\ pc[r] = "rollback"
  /\ outbox' = outbox \cup tx[r].outbox
  /\ tx' = [tx EXCEPT ![r] = EmptyTx]
  /\ Goto(r, AfterError(r))
  /\ UNCHANGED <<invoices, billings, payments, process, gatewayCalls, faults,
                 locals, reply>>

Rollback(r) ==
  /\ pc[r] = "rollback"
  /\ tx' = [tx EXCEPT ![r] = EmptyTx]
  /\ Goto(r, AfterError(r))
  /\ UNCHANGED <<tables, process, gatewayCalls, faults, locals, reply>>

-----------------------------------------------------------------------------
(* The return through SyncBus.Publish of BillingRequested, InvoiceCreated   *)

\* shouldDuplicate delivers the first BillingRequested a second time.
AfterDispatch(r) ==
  /\ pc[r] = "afterDispatch"
  /\ IF profile = "duplicate_billing_requested" /\ ~triggered
       THEN triggered' = TRUE /\ Goto(r, "findPayment")
       ELSE Goto(r, "markBillingRequested") /\ UNCHANGED triggered
  /\ UNCHANGED <<tables, profile, gatewayCalls, faults, locals, tx, reply>>

MarkBillingRequested(r) ==
  /\ pc[r] = "markBillingRequested"
  /\ MarkRecord(r, "BillingRequested", "processed", "markInvoiceCreated")
  /\ UNCHANGED reply

MarkInvoiceCreated(r) ==
  /\ pc[r] = "markInvoiceCreated"
  /\ MarkRecord(r, "InvoiceCreated", "processed", "done")
  /\ Answer(r, "201")

FailBillingRequested(r) ==
  /\ pc[r] = "failBillingRequested"
  /\ MarkRecord(r, "BillingRequested", "failed", "failInvoiceCreated")
  /\ UNCHANGED reply

FailInvoiceCreated(r) ==
  /\ pc[r] = "failInvoiceCreated"
  /\ MarkRecord(r, "InvoiceCreated", "failed", "done")
  /\ UNCHANGED reply

-----------------------------------------------------------------------------
(* Faults of the environment                                                *)

CanFault == faults < MaxFaults /\ faults' = faults + 1

\* Where the error of a statement outside a transaction leads.
ErrorExit(step) ==
  IF step \in {"findBilling", "saveBilling", "appendBillingRequested",
               "markBillingRequested", "failBillingRequested"}
    THEN "failInvoiceCreated"
    ELSE "done"

\* A statement returns an error without effect.
StatementFails(r) ==
  /\ CanFault
  /\ \/ /\ pc[r] \in TxStatements
        /\ Goto(r, "rollback")
        /\ UNCHANGED tx
     \/ /\ pc[r] = "rollback"
        /\ tx' = [tx EXCEPT ![r] = EmptyTx]
        /\ Goto(r, AfterError(r))
     \/ /\ pc[r] \in CreateSteps \ {"dispatchBillingRequested", "afterDispatch"}
        /\ Goto(r, ErrorExit(pc[r]))
        /\ UNCHANGED tx
  /\ Answer(r, "500")
  /\ UNCHANGED <<tables, process, gatewayCalls, locals>>

\* COMMIT takes effect and its acknowledgement is lost.
CommitUnacknowledged(r) ==
  /\ CanFault
  /\ pc[r] \in {"commit", "commitBilling"}
  /\ Apply(r)
  /\ Goto(r, AfterError(r))
  /\ Answer(r, "500")
  /\ UNCHANGED <<process, gatewayCalls, locals>>

InFlight(r) == pc[r] \notin {"idle", "done"}

\* The client disconnects: the context is cancelled, so no later statement of
\* the request succeeds, the ones that record the failure included.
Disconnect(r) ==
  /\ CanFault
  /\ InFlight(r)
  /\ tx' = [tx EXCEPT ![r] = EmptyTx]
  /\ Goto(r, "done")
  /\ Answer(r, "lost")
  /\ UNCHANGED <<tables, process, gatewayCalls, locals>>

\* The process dies with its requests and starts again with fresh fault flags.
Restart ==
  /\ CanFault
  /\ tx' = [r \in Requests |-> EmptyTx]
  /\ pc' = [r \in Requests |-> IF InFlight(r) THEN "done" ELSE pc[r]]
  /\ reply' = [r \in Requests |-> IF InFlight(r) THEN "lost" ELSE reply[r]]
  /\ triggered' = FALSE
  /\ UNCHANGED <<tables, profile, gatewayCalls, locals>>

-----------------------------------------------------------------------------
Init ==
  /\ invoices = [i \in Invoices |-> "None"]
  /\ billings = [i \in Invoices |-> NoBilling]
  /\ payments = {}
  /\ outbox = {}
  /\ profile \in Profiles
  /\ triggered = FALSE
  /\ gatewayCalls = {}
  /\ faults = 0
  /\ pc = [r \in Requests |-> "idle"]
  /\ kind = [r \in Requests |-> "none"]
  /\ inv = [r \in Requests |-> CHOOSE i \in Invoices : TRUE]
  /\ att = [r \in Requests |-> 0]
  /\ entity = [r \in Requests |-> NoPayment]
  /\ loaded = [r \in Requests |-> NoBilling]
  /\ tx = [r \in Requests |-> EmptyTx]
  /\ reply = [r \in Requests |-> "none"]

\* A request receives the invoice id it is about.
Arrive(r) == \E i \in Invoices : CreateInvoice(r, i) \/ ProcessPayment(r, i)

\* The next step of a request the server is executing.
Step(r) ==
  \/ AppendInvoiceCreated(r)
  \/ FindBilling(r)
  \/ SaveBilling(r)
  \/ AppendBillingRequested(r)
  \/ DispatchBillingRequested(r)
  \/ LockBilling(r)
  \/ UpdateBilling(r)
  \/ CommitBilling(r)
  \/ FindPayment(r)
  \/ CheckApproved(r)
  \/ InsertPayment(r)
  \/ CallGateway(r)
  \/ UpdatePayment(r)
  \/ AppendResult(r)
  \/ GetInvoice(r)
  \/ UpdateInvoice(r)
  \/ AppendInvoicePaid(r)
  \/ MarkInvoicePaid(r)
  \/ GetBilling(r)
  \/ MarkBilling(r)
  \/ MarkResult(r)
  \/ Commit(r)
  \/ Rollback(r)
  \/ AfterDispatch(r)
  \/ MarkBillingRequested(r)
  \/ MarkInvoiceCreated(r)
  \/ FailBillingRequested(r)
  \/ FailInvoiceCreated(r)

Fault(r) == StatementFails(r) \/ CommitUnacknowledged(r) \/ Disconnect(r)

\* Every request was answered.
Quiescent == (\A r \in Requests : pc[r] = "done") /\ UNCHANGED vars

Next ==
  \/ \E r \in Requests : Arrive(r) \/ Step(r) \/ Fault(r)
  \/ Restart
  \/ Quiescent

Spec == Init /\ [][Next]_vars

\* The goroutine of an accepted request keeps running.
FairSpec == Spec /\ \A r \in Requests : WF_vars(Step(r))

-----------------------------------------------------------------------------
(* Properties                                                               *)

\* Every variable holds a value of its table, entity or step.
TypeOK ==
  /\ invoices \in [Invoices -> {"None", "Pending", "Paid"}]
  /\ billings \in [Invoices -> Billing \cup {NoBilling}]
  /\ payments \subseteq Payment
  /\ outbox \subseteq EventRow
  /\ profile \in FaultProfiles
  /\ triggered \in BOOLEAN
  /\ gatewayCalls \subseteq [by : Requests, inv : Invoices, att : Nat]
  /\ faults \in 0..MaxFaults
  /\ pc \in [Requests -> Steps]
  /\ kind \in [Requests -> {"none", "create", "pay"}]
  /\ inv \in [Requests -> Invoices]
  /\ att \in [Requests -> Nat]
  /\ entity \in [Requests -> Payment \cup {NoPayment}]
  /\ loaded \in [Requests -> Billing \cup {NoBilling}]
  /\ tx \in [Requests -> Transaction]
  /\ reply \in [Requests -> {"none", "201", "404", "409", "500", "lost"}]

\* However requests and retries interleave and wherever they fail, the committed
\* payments of a billing are its attempts 1..attempt without gap or duplicate:
\* every attempt before the current one Failed, the current one has the status
\* of the billing, and it has no row exactly while the billing is Requested.
AttemptLedger ==
  /\ \A p, q \in payments : p.inv = q.inv /\ p.att = q.att => p = q
  /\ \A p \in payments :
       LET b == billings[p.inv] IN
         \/ p.att < b.attempt /\ p.status = "Failed"
         \/ p.att = b.attempt /\ p.status = b.status
  /\ \A i \in Invoices : \A a \in 1..billings[i].attempt :
       a < billings[i].attempt \/ billings[i].status # "Requested"
         => \E p \in payments : p.inv = i /\ p.att = a

\* Settlement is all or nothing although three modules and the bus write it: the
\* payment is Approved, the billing Approved, the invoice Paid and both events
\* processed in the same committed states.
Settled(i) == billings[i].status = "Approved"
SettledTogether ==
  \A i \in Invoices :
    /\ Settled(i) <=> invoices[i] = "Paid"
    /\ Settled(i) <=> HasApproved(i)
    /\ \A name \in {"PaymentApproved", "InvoicePaid"} :
         Settled(i) <=>
           \E e \in outbox :
             e.inv = i /\ e.name = name /\ e.status = "processed"

\* At most one request at a time is between its reservation and its commit for
\* an invoice, and meanwhile nobody can advance the attempt of the billing: that
\* is what makes the unlocked read-modify-write of the billing handlers safe.
ReservationExclusive ==
  \A r \in Requests : tx[r].payment # NoPayment =>
    /\ billings[inv[r]] = [status |-> "Requested", attempt |-> att[r]]
    /\ \A s \in Requests \ {r} :
         inv[s] = inv[r] => tx[s].payment = NoPayment /\ ~tx[s].locked

\* The outbox tells the truth about committed work: no event is recorded twice;
\* a payment event is there only processed and only beside the payment it
\* reports; BillingRequested is processed only when attempt 1 is on record; a
\* row that is failed, or that a finished request left pending, belongs to a
\* request that answered 500 or was cut off.
OutboxTruthful ==
  /\ \A e, f \in outbox :
       e.name = f.name /\ e.inv = f.inv /\ e.att = f.att => e = f
  /\ \A e \in outbox :
       /\ e.name \in {"PaymentApproved", "PaymentFailed"} =>
            /\ e.status = "processed"
            /\ \E p \in payments :
                 /\ p.id = e.by /\ p.inv = e.inv /\ p.att = e.att
                 /\ p.status = "Approved" <=> e.name = "PaymentApproved"
       /\ e.name = "BillingRequested" /\ e.status = "processed" =>
            \E p \in payments : p.inv = e.inv /\ p.att = 1
       /\ e.status = "failed" => reply[e.by] \in {"500", "lost"}
       /\ e.status = "pending" /\ pc[e.by] = "done" =>
            reply[e.by] \in {"500", "lost"}

\* An answer is still true when the client reads it: 201 to POST /payments
\* carries a committed, final payment of that invoice, 201 to POST /invoices
\* means attempt 1 is on record, and 409 means the invoice is paid.
RepliesTruthful ==
  \A r \in Requests : pc[r] = "done" =>
    /\ reply[r] = "201" /\ kind[r] = "pay" =>
         /\ entity[r] \in payments
         /\ entity[r].inv = inv[r]
         /\ entity[r].status # "Pending"
    /\ reply[r] = "201" /\ kind[r] = "create" =>
         \E p \in payments : p.inv = inv[r] /\ p.att = 1
    /\ reply[r] = "409" => invoices[inv[r]] = "Paid"

\* A charge is never forgotten silently: the outcome of a gateway call is in the
\* caller's open transaction, committed under its id, or the caller failed.
GatewayOutcomeKept ==
  \A c \in gatewayCalls :
    \/ tx[c.by].payment # NoPayment
    \/ \E p \in payments : p.id = c.by /\ p.att = c.att
    \/ reply[c.by] \in {"500", "lost"}

\* Two gateway calls of one attempt.
DuplicateCall ==
  \E c, d \in gatewayCalls : c # d /\ c.inv = d.inv /\ c.att = d.att

\* As long as no statement, reply or process failed, the reservation keeps racing
\* requests, retries and the duplicated delivery from charging an attempt twice.
OneCallPerAttemptWithoutFaults == faults = 0 => ~DuplicateCall

\* Committed history is never rewritten: payments stay as they are, processed
\* and failed events keep their status, a Paid invoice stays Paid, and the
\* attempt of a billing moves only by one and only from Failed.
HistoryAppendOnly ==
  [][/\ payments \subseteq payments'
     /\ \A e \in outbox : e.status # "pending" => e \in outbox'
     /\ \A i \in Invoices :
          /\ invoices[i] = "Paid" => invoices'[i] = "Paid"
          /\ \/ billings'[i].attempt = billings[i].attempt
             \/ billings[i] = NoBilling
             \/ /\ billings[i].status = "Failed"
                /\ billings'[i].attempt = billings[i].attempt + 1]_vars

\* Every accepted request is answered: no cycle of waits among the reservation,
\* the foreign-key lock and FOR UPDATE keeps requests waiting for each other.
EveryRequestAnswered ==
  \A r \in Requests : InFlight(r) ~> pc[r] = "done"

\* A billing that was requested does not stay so: the request that put it there
\* concludes it, unless something failed on the way.
RequestedBillingConcludes ==
  \A i \in Invoices :
    billings[i].status = "Requested" ~>
      \/ billings[i].status # "Requested"
      \/ faults > 0
      \/ profile \in {"event_consumer_failure", "outbox_append_failure"}

\* The committed tables, whatever the requests, transactions and faults do to
\* reach them, change only the way the abstract Settlement changes: nobody ever
\* reads an invoice, a billing and a payment that disagree.
Ledger == INSTANCE Settlement WITH
  status <- invoices,
  billing <- billings,
  ledger <- {[inv |-> p.inv, att |-> p.att, status |-> p.status] : p \in payments}
ImplementsSettlement == Ledger!Spec

-----------------------------------------------------------------------------
(* Claims of the repository's documents and tests                           *)

\* The reservation prevents executing an attempt twice: no attempt of a billing
\* is ever handed to the gateway by two requests (CHANGELOG.md:100).
NoDuplicateGatewayCall == ~DuplicateCall

\* A dispatch that fails after its append succeeded leaves the event in the
\* outbox with status failed (CHANGELOG.md:60): so does every event that is
\* pending in a payment transaction that handlers made fail.
FailedDispatchAudited ==
  [][\A r \in Requests : pc[r] = "rollback" /\ pc'[r] # "rollback" =>
       \A e \in tx[r].outbox : e.status = "pending" =>
         [e EXCEPT !.status = "failed"] \in outbox']_vars

\* While nothing fails and no fault is injected, a request whose attempt another
\* one is processing is served the existing payment, not an internal error
\* (TestProcessBillingRequestReturnsExistingPaymentForDuplicateAttempt).
DuplicateAttemptServed ==
  faults = 0 /\ profile = "none" => \A r \in Requests : reply[r] # "500"
=============================================================================
