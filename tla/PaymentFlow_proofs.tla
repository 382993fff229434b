------------------------ MODULE PaymentFlow_proofs ------------------------
(* Proofs about PaymentFlow, for every set of requests and invoices, every  *)
(* fault profile and any number of faults.                                  *)
EXTENDS PaymentFlow, TLAPS

-----------------------------------------------------------------------------
(* The inductive invariant                                                  *)

\* Requests whose transaction may hold something.
TxOpen ==
  {"updateBilling", "commitBilling", "callGateway", "commit", "rollback"}
    \cup ReservedStatements

\* What the handlers of the result have written when the billing is read.
ResultInvoice(r) == IF entity[r].status = "Approved" THEN "Paid" ELSE "None"
ResultRows(r, status) ==
  IF entity[r].status = "Approved"
    THEN {Event(r, "PaymentApproved", status),
          Event(r, "InvoicePaid", "processed")}
    ELSE {Event(r, "PaymentFailed", status)}

\* The transaction of a charged attempt when it commits.
FullTx(r) ==
  [payment |-> entity[r],
   billing |-> [status |-> entity[r].status, attempt |-> att[r]],
   invoice |-> ResultInvoice(r),
   outbox |-> ResultRows(r, "processed"),
   locked |-> FALSE]

\* The payment in memory is the request's own attempt.
OwnEntity(r) ==
  entity[r] # NoPayment /\ entity[r].id = r
    /\ entity[r].inv = inv[r] /\ entity[r].att = att[r]
Concluded(r) == OwnEntity(r) /\ entity[r].status \in {"Approved", "Failed"}

\* What each step of a request finds in its transaction and its memory.
Shape(r) ==
  /\ pc[r] \notin TxOpen => tx[r] = EmptyTx
  /\ tx[r].locked =>
       /\ pc[r] \in {"updateBilling", "commitBilling", "rollback"}
       /\ tx[r].payment = NoPayment
  /\ pc[r] \in {"updateBilling", "commitBilling"} =>
       /\ tx[r].locked /\ tx[r].payment = NoPayment
       /\ tx[r].invoice = "None" /\ tx[r].outbox = {}
  /\ pc[r] = "commitBilling" => tx[r].billing = loaded[r]
  /\ pc[r] \in {"callGateway"} \cup ReservedStatements =>
       OwnEntity(r) /\ tx[r].payment # NoPayment
  /\ pc[r] \in ReservedStatements => Concluded(r)
  /\ pc[r] \in ReservedStatements \ {"updatePayment"} =>
       tx[r].payment = entity[r]
  /\ pc[r] \in {"callGateway", "updatePayment", "appendResult"} =>
       tx[r].invoice = "None" /\ tx[r].outbox = {}
  /\ pc[r] \in {"getInvoice", "updateInvoice", "appendInvoicePaid"} =>
       tx[r].outbox = {Event(r, "PaymentApproved", "pending")}
  /\ pc[r] = "markInvoicePaid" =>
       tx[r].outbox = {Event(r, "PaymentApproved", "pending"),
                       Event(r, "InvoicePaid", "pending")}
  /\ pc[r] \in {"getInvoice", "updateInvoice", "appendInvoicePaid",
                "markInvoicePaid"} => entity[r].status = "Approved"
  /\ pc[r] \in {"appendInvoicePaid", "markInvoicePaid"} =>
       tx[r].invoice = "Paid"
  /\ pc[r] \in {"getBilling", "markBilling", "markResult"} =>
       /\ tx[r].invoice = ResultInvoice(r)
       /\ tx[r].outbox = ResultRows(r, "pending")
  /\ pc[r] = "markResult" =>
       tx[r].billing = [status |-> entity[r].status, attempt |-> att[r]]
  /\ pc[r] = "commit" =>
       tx[r] = EmptyTx \/ (tx[r] = FullTx(r) /\ Concluded(r))

\* Requests that know an attempt of a billing.
HasAttempt ==
  {"appendBillingRequested", "dispatchBillingRequested", "afterDispatch",
   "callGateway", "commit"} \cup LookupSteps \cup ReservedStatements

\* How the memory of a request relates to the committed tables.
Link(r) ==
  /\ pc[r] \in {"updateBilling", "commitBilling"} =>
       /\ billings[inv[r]].status \in {"Requested", "Failed"}
       /\ loaded[r] = MarkRequested(billings[inv[r]])
  /\ pc[r] = "markBilling" => loaded[r] = billings[inv[r]]
  /\ pc[r] \in HasAttempt =>
       att[r] \in 1..billings[inv[r]].attempt
  /\ pc[r] \in {"appendInvoiceCreated", "findBilling", "saveBilling"} =>
       invoices[inv[r]] # "None"

\* FOR UPDATE is exclusive.
LockExclusive ==
  \A r \in Requests : \A s \in Requests \ {r} :
    tx[r].locked /\ inv[s] = inv[r] => ~tx[s].locked

\* The committed part of settlement, without the payments AttemptLedger covers.
SettlementTables ==
  /\ \A i \in Invoices : Settled(i) <=> invoices[i] = "Paid"
  /\ \A e \in outbox :
       e.name \in {"PaymentApproved", "InvoicePaid"} =>
         e.status = "processed" /\ Settled(e.inv)
  /\ \A i \in Invoices : \A name \in {"PaymentApproved", "InvoicePaid"} :
       Settled(i) => \E e \in outbox : e.inv = i /\ e.name = name

IInv ==
  /\ TypeOK
  /\ \A r \in Requests : Shape(r)
  /\ \A r \in Requests : Link(r)
  /\ LockExclusive
  /\ ReservationExclusive
  /\ AttemptLedger
  /\ SettlementTables

-----------------------------------------------------------------------------
(* Facts about the state                                                    *)

\* The row of a published event has the type of outbox_events.
LEMMA EventType ==
  ASSUME TypeOK, NEW r \in Requests, NEW name \in EventNames,
         NEW status \in {"pending", "processed", "failed"}
  PROVE  Event(r, name, status) \in EventRow
BY DEF TypeOK, Event, EventRow

\* Outside its transactions a request has written nothing.
LEMMA ClosedTx ==
  ASSUME IInv, NEW r \in Requests, pc[r] \notin TxOpen
  PROVE  tx[r] = EmptyTx
BY DEF IInv, Shape

\* A reserved attempt is the current attempt of an unsettled billing.
LEMMA ReservedBilling ==
  ASSUME IInv, NEW r \in Requests, tx[r].payment # NoPayment
  PROVE  /\ billings[inv[r]] = [status |-> "Requested", attempt |-> att[r]]
         /\ invoices[inv[r]] # "Paid"
<1>1. billings[inv[r]] = [status |-> "Requested", attempt |-> att[r]]
  BY DEF IInv, ReservationExclusive
<1>2. billings[inv[r]].status # "Approved"
  BY <1>1
<1> QED BY <1>1, <1>2 DEF IInv, SettlementTables, Settled, TypeOK

\* The fields of a typed transaction, one at a time.
LEMMA TxType ==
  ASSUME NEW t \in Transaction
  PROVE  /\ \A p \in Payment : [t EXCEPT !.payment = p] \in Transaction
         /\ \A b \in Billing \cup {NoBilling} :
              [t EXCEPT !.billing = b] \in Transaction
         /\ [t EXCEPT !.invoice = "Paid"] \in Transaction
         /\ \A rows \in SUBSET EventRow :
              [t EXCEPT !.outbox = rows] \in Transaction
         /\ \A b \in BOOLEAN : [t EXCEPT !.locked = b] \in Transaction
BY DEF Transaction

\* A transaction that was just begun, or just ended, has the type of one.
LEMMA EmptyTxType == EmptyTx \in Transaction
BY DEF EmptyTx, Transaction

-----------------------------------------------------------------------------
(* Facts about one step                                                     *)

\* Only request r takes a step.
OthersUnchanged(r) ==
  \A s \in Requests \ {r} :
    /\ pc'[s] = pc[s] /\ inv'[s] = inv[s] /\ att'[s] = att[s]
    /\ entity'[s] = entity[s] /\ loaded'[s] = loaded[s] /\ tx'[s] = tx[s]

\* The step leaves alone what settlement reads of the outbox.
ResultRowsUnchanged ==
  \A e : e.name \in {"PaymentApproved", "InvoicePaid"} =>
           (e \in outbox' <=> e \in outbox)

\* What a request has in memory determines its rows and its full transaction.
LEMMA SameMemory ==
  ASSUME NEW r \in Requests,
         inv'[r] = inv[r], att'[r] = att[r], entity'[r] = entity[r]
  PROVE  /\ \A name, status : Event(r, name, status)' = Event(r, name, status)
         /\ ResultInvoice(r)' = ResultInvoice(r)
         /\ ResultRows(r, "pending")' = ResultRows(r, "pending")
         /\ ResultRows(r, "processed")' = ResultRows(r, "processed")
         /\ FullTx(r)' = FullTx(r)
         /\ OwnEntity(r)' <=> OwnEntity(r)
         /\ Concluded(r)' <=> Concluded(r)
<1>1. \A name, status : Event(r, name, status)' = Event(r, name, status)
  BY DEF Event
<1>2. /\ ResultInvoice(r)' = ResultInvoice(r)
      /\ ResultRows(r, "pending")' = ResultRows(r, "pending")
      /\ ResultRows(r, "processed")' = ResultRows(r, "processed")
  BY <1>1 DEF ResultInvoice, ResultRows
<1>3. FullTx(r)' = FullTx(r)
  BY <1>2 DEF FullTx
<1>4. (OwnEntity(r)' <=> OwnEntity(r)) /\ (Concluded(r)' <=> Concluded(r))
  BY DEF OwnEntity, Concluded
<1> QED BY <1>1, <1>2, <1>3, <1>4

\* The invariant of a request that takes no step reads only its own state.
LEMMA OtherShape ==
  ASSUME NEW r \in Requests, OthersUnchanged(r), NEW s \in Requests \ {r},
         Shape(s)
  PROVE  Shape(s)'
<1>1. /\ pc'[s] = pc[s] /\ inv'[s] = inv[s] /\ att'[s] = att[s]
      /\ entity'[s] = entity[s] /\ loaded'[s] = loaded[s] /\ tx'[s] = tx[s]
  BY DEF OthersUnchanged
<1> QED BY <1>1, SameMemory DEF Shape

\* A request outside its transactions is in order.
LEMMA ClosedShape ==
  ASSUME NEW r \in Requests, pc'[r] \notin TxOpen, tx'[r] = EmptyTx
  PROVE  Shape(r)'
BY DEF Shape, EmptyTx, TxOpen, ReservedStatements

\* So is a request about to roll back.
LEMMA RollbackShape ==
  ASSUME NEW r \in Requests, pc'[r] = "rollback",
         tx'[r].locked => tx'[r].payment = NoPayment
  PROVE  Shape(r)'
BY DEF Shape, TxOpen, ReservedStatements

\* A step of r that writes no table and takes no lock preserves the invariant if
\* it leaves r itself in order.
LEMMA QuietStep ==
  ASSUME IInv, NEW r \in Requests,
         OthersUnchanged(r), ResultRowsUnchanged,
         UNCHANGED <<invoices, billings, payments>>,
         tx'[r].payment # NoPayment =>
           tx[r].payment # NoPayment /\ inv'[r] = inv[r] /\ att'[r] = att[r],
         tx'[r].locked => tx[r].locked /\ inv'[r] = inv[r],
         TypeOK', Shape(r)', Link(r)'
  PROVE  IInv'
<1>1. ASSUME NEW s \in Requests PROVE Shape(s)'
  BY OtherShape DEF IInv
<1>2. ASSUME NEW s \in Requests PROVE Link(s)'
  BY DEF IInv, OthersUnchanged, Link
<1>3. LockExclusive'
  BY DEF IInv, OthersUnchanged, LockExclusive
<1>4. ReservationExclusive'
  BY DEF IInv, OthersUnchanged, ReservationExclusive
<1>5. AttemptLedger'
  BY DEF IInv, AttemptLedger
<1>6. SettlementTables'
  BY DEF IInv, SettlementTables, Settled, ResultRowsUnchanged
<1> QED BY <1>1, <1>2, <1>3, <1>4, <1>5, <1>6 DEF IInv

-----------------------------------------------------------------------------
(* The operations of the bus on the outbox                                  *)

\* Append outside a transaction (recorder.go) keeps the types.
LEMMA AppendRecordType ==
  ASSUME TypeOK, NEW r \in Requests, NEW name \in EventNames,
         NEW next \in Steps, NEW onError \in Steps,
         AppendRecord(r, name, next, onError)
  PROVE  TypeOK'
<1>1. Event(r, name, "pending") \in EventRow
  BY EventType
<1> QED BY <1>1 DEF TypeOK, AppendRecord, Goto, Answer, locals

\* MarkProcessed and MarkFailed outside a transaction keep the types.
LEMMA MarkRecordType ==
  ASSUME TypeOK, NEW r \in Requests, NEW name \in EventNames,
         NEW status \in {"processed", "failed"}, NEW next \in Steps,
         MarkRecord(r, name, status, next),
         reply' \in [Requests -> {"none", "201", "404", "409", "500", "lost"}]
  PROVE  TypeOK'
<1>1. Event(r, name, status) \in EventRow
  BY EventType
<1> QED BY <1>1 DEF TypeOK, MarkRecord, Marked, Goto, process, locals

\* Append inside the payment transaction keeps the types.
LEMMA AppendInTxType ==
  ASSUME TypeOK, NEW r \in Requests, NEW name \in EventNames,
         NEW next \in Steps, AppendInTx(r, name, next)
  PROVE  TypeOK'
<1>1. Event(r, name, "pending") \in EventRow
  BY EventType
<1>2. tx[r] \in Transaction /\ tx[r].outbox \in SUBSET EventRow
  BY DEF TypeOK, Transaction
<1>3. [tx[r] EXCEPT !.outbox = @ \cup {Event(r, name, "pending")}] \in Transaction
  BY <1>1, <1>2, TxType
<1>4. "rollback" \in Steps
  BY DEF Steps
<1> QED BY <1>3, <1>4 DEF TypeOK, AppendInTx, Abort, ErrorCode, Goto, Answer,
                          tables, locals

\* MarkProcessed inside the payment transaction keeps the types.
LEMMA MarkInTxType ==
  ASSUME TypeOK, NEW r \in Requests, NEW name \in EventNames,
         NEW next \in Steps, MarkInTx(r, name, next)
  PROVE  TypeOK'
<1>1. Event(r, name, "processed") \in EventRow
  BY EventType
<1>2. tx[r] \in Transaction /\ tx[r].outbox \in SUBSET EventRow
  BY DEF TypeOK, Transaction
<1>3. Marked(tx[r].outbox, r, name, "processed") \in SUBSET EventRow
  BY <1>1, <1>2 DEF Marked
<1>4. [tx[r] EXCEPT !.outbox = Marked(@, r, name, "processed")] \in Transaction
  BY <1>2, <1>3, TxType
<1> QED BY <1>4 DEF TypeOK, MarkInTx, Goto, tables, process, locals

-----------------------------------------------------------------------------
(* Steps that write no table and take no lock                               *)

\* Publishing InvoiceCreated, its append failing or not, preserves the
\* invariant.
LEMMA AppendInvoiceCreatedInv ==
  ASSUME IInv, NEW r \in Requests, AppendInvoiceCreated(r)
  PROVE  IInv'
<1>1. TypeOK'
  BY AppendRecordType DEF IInv, AppendInvoiceCreated, EventNames, Steps,
       CreateSteps, TxStatements, BillingTxSteps, LookupSteps, ReservedStatements
<1>2. OthersUnchanged(r) /\ ResultRowsUnchanged
  BY DEF IInv, TypeOK, OthersUnchanged, ResultRowsUnchanged, Event,
       AppendInvoiceCreated, AppendRecord, Goto, Answer, locals
<1>3. Shape(r)' /\ tx'[r] \in {tx[r], EmptyTx}
  BY ClosedTx, ClosedShape DEF IInv, TypeOK, AppendInvoiceCreated,
       AppendRecord, Goto, Answer, locals, TxOpen, ReservedStatements
<1>4. Link(r)'
  BY DEF IInv, TypeOK, Link, HasAttempt, AppendInvoiceCreated, AppendRecord,
       Goto, Answer, locals, CreateSteps, TxStatements, BillingTxSteps,
       LookupSteps, ReservedStatements
<1> QED
  BY <1>1, <1>2, <1>3, <1>4, QuietStep DEF EmptyTx, AppendInvoiceCreated,
       AppendRecord, Goto, Answer, locals

\* Looking up the billing of the invoice preserves the invariant.
LEMMA FindBillingInv ==
  ASSUME IInv, NEW r \in Requests, FindBilling(r)
  PROVE  IInv'
<1>1. TypeOK'
  BY DEF IInv, TypeOK, FindBilling, Goto, tables, process, locals, Steps,
       CreateSteps, TxStatements, BillingTxSteps, LookupSteps, ReservedStatements
<1>2. OthersUnchanged(r) /\ ResultRowsUnchanged
  BY DEF IInv, TypeOK, OthersUnchanged, ResultRowsUnchanged, FindBilling,
       Goto, tables, process, locals
<1>3. Shape(r)' /\ tx'[r] \in {tx[r], EmptyTx}
  BY ClosedTx, ClosedShape DEF IInv, TypeOK, FindBilling, Goto, tables,
       process, locals, TxOpen, ReservedStatements
<1>4. Link(r)'
  BY DEF IInv, TypeOK, Link, HasAttempt, FindBilling, Goto, tables, process,
       locals, CreateSteps, TxStatements, BillingTxSteps, LookupSteps,
       ReservedStatements
<1> QED
  BY <1>1, <1>2, <1>3, <1>4, QuietStep DEF EmptyTx, FindBilling, Goto,
       tables, process, locals

\* Publishing BillingRequested, its append failing or not, preserves the
\* invariant.
LEMMA AppendBillingRequestedInv ==
  ASSUME IInv, NEW r \in Requests, AppendBillingRequested(r)
  PROVE  IInv'
<1>1. TypeOK'
  BY AppendRecordType DEF IInv, AppendBillingRequested, EventNames, Steps,
       CreateSteps, TxStatements, BillingTxSteps, LookupSteps, ReservedStatements
<1>2. OthersUnchanged(r) /\ ResultRowsUnchanged
  BY DEF IInv, TypeOK, OthersUnchanged, ResultRowsUnchanged, Event,
       AppendBillingRequested, AppendRecord, Goto, Answer, locals
<1>3. Shape(r)' /\ tx'[r] \in {tx[r], EmptyTx}
  BY ClosedTx, ClosedShape DEF IInv, TypeOK, AppendBillingRequested,
       AppendRecord, Goto, Answer, locals, TxOpen, ReservedStatements
<1>4. Link(r)'
  BY DEF IInv, TypeOK, Link, HasAttempt, AppendBillingRequested,
       AppendRecord, Goto, Answer, locals, CreateSteps, TxStatements,
       BillingTxSteps, LookupSteps, ReservedStatements
<1> QED
  BY <1>1, <1>2, <1>3, <1>4, QuietStep DEF EmptyTx, AppendBillingRequested,
       AppendRecord, Goto, Answer, locals

\* Handing BillingRequested to payments, or failing its consumer, preserves
\* the invariant.
LEMMA DispatchBillingRequestedInv ==
  ASSUME IInv, NEW r \in Requests, DispatchBillingRequested(r)
  PROVE  IInv'
<1>1. TypeOK'
  BY DEF IInv, TypeOK, DispatchBillingRequested, Goto, Answer, tables,
       locals, Steps, CreateSteps, TxStatements, BillingTxSteps, LookupSteps,
       ReservedStatements
<1>2. OthersUnchanged(r) /\ ResultRowsUnchanged
  BY DEF IInv, TypeOK, OthersUnchanged, ResultRowsUnchanged,
       DispatchBillingRequested, Goto, Answer, tables, locals
<1>3. Shape(r)' /\ tx'[r] \in {tx[r], EmptyTx}
  BY ClosedTx, ClosedShape DEF IInv, TypeOK, DispatchBillingRequested, Goto,
       Answer, tables, locals, TxOpen, ReservedStatements
<1>4. Link(r)'
  BY DEF IInv, TypeOK, Link, HasAttempt, DispatchBillingRequested, Goto,
       Answer, tables, locals, CreateSteps, TxStatements, BillingTxSteps,
       LookupSteps, ReservedStatements
<1> QED
  BY <1>1, <1>2, <1>3, <1>4, QuietStep DEF EmptyTx,
       DispatchBillingRequested, Goto, Answer, tables, locals

\* Returning the committed payment of the attempt, or finding none,
\* preserves the invariant.
LEMMA FindPaymentInv ==
  ASSUME IInv, NEW r \in Requests, FindPayment(r)
  PROVE  IInv'
<1>1. TypeOK'
  BY DEF IInv, TypeOK, FindPayment, Goto, tables, process, Steps,
       CreateSteps, TxStatements, BillingTxSteps, LookupSteps, ReservedStatements
<1>2. OthersUnchanged(r) /\ ResultRowsUnchanged
  BY DEF IInv, TypeOK, OthersUnchanged, ResultRowsUnchanged, FindPayment,
       Goto, tables, process
<1>3. Shape(r)' /\ tx'[r] \in {tx[r], EmptyTx}
  <2>1. tx[r] = EmptyTx /\ tx'[r] = EmptyTx
    BY ClosedTx DEF FindPayment, TxOpen, ReservedStatements
  <2>2. CASE pc'[r] = "commit"
    BY <2>1, <2>2 DEF Shape, TxOpen, EmptyTx, ReservedStatements
  <2>3. CASE pc'[r] = "checkApproved"
    BY <2>1, <2>3, ClosedShape DEF TxOpen, ReservedStatements
  <2> QED BY <2>1, <2>2, <2>3 DEF IInv, TypeOK, FindPayment, Goto
<1>4. Link(r)'
  BY DEF IInv, TypeOK, Link, HasAttempt, FindPayment, Goto, tables, process,
       CreateSteps, TxStatements, BillingTxSteps, LookupSteps, ReservedStatements
<1> QED
  BY <1>1, <1>2, <1>3, <1>4, QuietStep DEF EmptyTx, FindPayment, Goto,
       tables, process

\* Refusing an invoice that has an approved payment preserves the
\* invariant.
LEMMA CheckApprovedInv ==
  ASSUME IInv, NEW r \in Requests, CheckApproved(r)
  PROVE  IInv'
<1>1. TypeOK'
  BY DEF IInv, TypeOK, CheckApproved, Abort, ErrorCode, Goto, Answer,
       tables, process, locals, Steps, CreateSteps, TxStatements, BillingTxSteps,
       LookupSteps, ReservedStatements
<1>2. OthersUnchanged(r) /\ ResultRowsUnchanged
  BY DEF IInv, TypeOK, OthersUnchanged, ResultRowsUnchanged, CheckApproved,
       Abort, ErrorCode, Goto, Answer, tables, process, locals
<1>3. Shape(r)' /\ tx'[r] \in {tx[r], EmptyTx}
  <2>1. tx[r] = EmptyTx /\ tx'[r] = EmptyTx
    BY ClosedTx DEF CheckApproved, TxOpen, ReservedStatements
  <2>2. CASE pc'[r] = "rollback"
    BY <2>1, <2>2, RollbackShape DEF EmptyTx
  <2>3. CASE pc'[r] = "insertPayment"
    BY <2>1, <2>3, ClosedShape DEF TxOpen, ReservedStatements
  <2> QED BY <2>1, <2>2, <2>3 DEF IInv, TypeOK, CheckApproved, Abort, Goto
<1>4. Link(r)'
  BY DEF IInv, TypeOK, Link, HasAttempt, CheckApproved, Abort, ErrorCode,
       Goto, Answer, tables, process, locals, CreateSteps, TxStatements,
       BillingTxSteps, LookupSteps, ReservedStatements
<1> QED
  BY <1>1, <1>2, <1>3, <1>4, QuietStep DEF EmptyTx, CheckApproved, Abort,
       ErrorCode, Goto, Answer, tables, process, locals

\* Rolling the payment or billing transaction back preserves the invariant.
LEMMA RollbackInv ==
  ASSUME IInv, NEW r \in Requests, Rollback(r)
  PROVE  IInv'
<1>1. TypeOK'
  BY EmptyTxType DEF IInv, TypeOK, Rollback, AfterError, Goto, tables,
       process, locals, Steps, CreateSteps, TxStatements, BillingTxSteps,
       LookupSteps, ReservedStatements
<1>2. OthersUnchanged(r) /\ ResultRowsUnchanged
  BY DEF IInv, TypeOK, OthersUnchanged, ResultRowsUnchanged, Rollback,
       AfterError, Goto, tables, process, locals
<1>3. Shape(r)' /\ tx'[r] \in {tx[r], EmptyTx}
  <2>1. tx'[r] = EmptyTx /\ pc'[r] \notin TxOpen
    BY DEF IInv, TypeOK, Rollback, AfterError, Goto, TxOpen, ReservedStatements
  <2> QED BY <2>1, ClosedShape
<1>4. Link(r)'
  BY DEF IInv, TypeOK, Link, HasAttempt, Rollback, AfterError, Goto, tables,
       process, locals, CreateSteps, TxStatements, BillingTxSteps, LookupSteps,
       ReservedStatements
<1> QED
  BY <1>1, <1>2, <1>3, <1>4, QuietStep DEF EmptyTx, Rollback, AfterError,
       Goto, tables, process, locals

\* Delivering BillingRequested a second time, or not, preserves the
\* invariant.
LEMMA AfterDispatchInv ==
  ASSUME IInv, NEW r \in Requests, AfterDispatch(r)
  PROVE  IInv'
<1>1. TypeOK'
  BY DEF IInv, TypeOK, AfterDispatch, Goto, tables, locals, Steps,
       CreateSteps, TxStatements, BillingTxSteps, LookupSteps, ReservedStatements
<1>2. OthersUnchanged(r) /\ ResultRowsUnchanged
  BY DEF IInv, TypeOK, OthersUnchanged, ResultRowsUnchanged, AfterDispatch,
       Goto, tables, locals
<1>3. Shape(r)' /\ tx'[r] \in {tx[r], EmptyTx}
  BY ClosedTx, ClosedShape DEF IInv, TypeOK, AfterDispatch, Goto, tables,
       locals, TxOpen, ReservedStatements
<1>4. Link(r)'
  BY DEF IInv, TypeOK, Link, HasAttempt, AfterDispatch, Goto, tables,
       locals, CreateSteps, TxStatements, BillingTxSteps, LookupSteps,
       ReservedStatements
<1> QED
  BY <1>1, <1>2, <1>3, <1>4, QuietStep DEF EmptyTx, AfterDispatch, Goto,
       tables, locals

\* Marking BillingRequested processed preserves the invariant.
LEMMA MarkBillingRequestedInv ==
  ASSUME IInv, NEW r \in Requests, MarkBillingRequested(r)
  PROVE  IInv'
<1>1. TypeOK'
  <2>1. reply' \in [Requests -> {"none", "201", "404", "409", "500", "lost"}]
    BY DEF IInv, TypeOK, MarkBillingRequested
  <2> QED BY <2>1, MarkRecordType DEF IInv, MarkBillingRequested,
       EventNames, Steps, CreateSteps, TxStatements, BillingTxSteps, LookupSteps,
       ReservedStatements
<1>2. OthersUnchanged(r) /\ ResultRowsUnchanged
  BY DEF IInv, TypeOK, OthersUnchanged, ResultRowsUnchanged, Event,
       MarkBillingRequested, MarkRecord, Marked, Goto, process, locals
<1>3. Shape(r)' /\ tx'[r] \in {tx[r], EmptyTx}
  BY ClosedTx, ClosedShape DEF IInv, TypeOK, MarkBillingRequested,
       MarkRecord, Marked, Goto, process, locals, TxOpen, ReservedStatements
<1>4. Link(r)'
  BY DEF IInv, TypeOK, Link, HasAttempt, MarkBillingRequested, MarkRecord,
       Marked, Goto, process, locals, CreateSteps, TxStatements, BillingTxSteps,
       LookupSteps, ReservedStatements
<1> QED
  BY <1>1, <1>2, <1>3, <1>4, QuietStep DEF EmptyTx, MarkBillingRequested,
       MarkRecord, Marked, Goto, process, locals

\* Marking BillingRequested failed preserves the invariant.
LEMMA FailBillingRequestedInv ==
  ASSUME IInv, NEW r \in Requests, FailBillingRequested(r)
  PROVE  IInv'
<1>1. TypeOK'
  <2>1. reply' \in [Requests -> {"none", "201", "404", "409", "500", "lost"}]
    BY DEF IInv, TypeOK, FailBillingRequested
  <2> QED BY <2>1, MarkRecordType DEF IInv, FailBillingRequested,
       EventNames, Steps, CreateSteps, TxStatements, BillingTxSteps, LookupSteps,
       ReservedStatements
<1>2. OthersUnchanged(r) /\ ResultRowsUnchanged
  BY DEF IInv, TypeOK, OthersUnchanged, ResultRowsUnchanged, Event,
       FailBillingRequested, MarkRecord, Marked, Goto, process, locals
<1>3. Shape(r)' /\ tx'[r] \in {tx[r], EmptyTx}
  BY ClosedTx, ClosedShape DEF IInv, TypeOK, FailBillingRequested,
       MarkRecord, Marked, Goto, process, locals, TxOpen, ReservedStatements
<1>4. Link(r)'
  BY DEF IInv, TypeOK, Link, HasAttempt, FailBillingRequested, MarkRecord,
       Marked, Goto, process, locals, CreateSteps, TxStatements, BillingTxSteps,
       LookupSteps, ReservedStatements
<1> QED
  BY <1>1, <1>2, <1>3, <1>4, QuietStep DEF EmptyTx, FailBillingRequested,
       MarkRecord, Marked, Goto, process, locals

\* Marking InvoiceCreated failed preserves the invariant.
LEMMA FailInvoiceCreatedInv ==
  ASSUME IInv, NEW r \in Requests, FailInvoiceCreated(r)
  PROVE  IInv'
<1>1. TypeOK'
  <2>1. reply' \in [Requests -> {"none", "201", "404", "409", "500", "lost"}]
    BY DEF IInv, TypeOK, FailInvoiceCreated
  <2> QED BY <2>1, MarkRecordType DEF IInv, FailInvoiceCreated, EventNames,
       Steps, CreateSteps, TxStatements, BillingTxSteps, LookupSteps,
       ReservedStatements
<1>2. OthersUnchanged(r) /\ ResultRowsUnchanged
  BY DEF IInv, TypeOK, OthersUnchanged, ResultRowsUnchanged, Event,
       FailInvoiceCreated, MarkRecord, Marked, Goto, process, locals
<1>3. Shape(r)' /\ tx'[r] \in {tx[r], EmptyTx}
  BY ClosedTx, ClosedShape DEF IInv, TypeOK, FailInvoiceCreated, MarkRecord,
       Marked, Goto, process, locals, TxOpen, ReservedStatements
<1>4. Link(r)'
  BY DEF IInv, TypeOK, Link, HasAttempt, FailInvoiceCreated, MarkRecord,
       Marked, Goto, process, locals, CreateSteps, TxStatements, BillingTxSteps,
       LookupSteps, ReservedStatements
<1> QED
  BY <1>1, <1>2, <1>3, <1>4, QuietStep DEF EmptyTx, FailInvoiceCreated,
       MarkRecord, Marked, Goto, process, locals

\* Marking InvoiceCreated processed and answering 201 preserves the
\* invariant.
LEMMA MarkInvoiceCreatedInv ==
  ASSUME IInv, NEW r \in Requests, MarkInvoiceCreated(r)
  PROVE  IInv'
<1>1. TypeOK'
  <2>1. reply' \in [Requests -> {"none", "201", "404", "409", "500", "lost"}]
    BY DEF IInv, TypeOK, MarkInvoiceCreated, Answer
  <2> QED BY <2>1, MarkRecordType DEF IInv, MarkInvoiceCreated, EventNames,
       Steps, CreateSteps, TxStatements, BillingTxSteps, LookupSteps,
       ReservedStatements
<1>2. OthersUnchanged(r) /\ ResultRowsUnchanged
  BY DEF IInv, TypeOK, OthersUnchanged, ResultRowsUnchanged, Event,
       MarkInvoiceCreated, MarkRecord, Marked, Goto, Answer, process, locals
<1>3. Shape(r)' /\ tx'[r] \in {tx[r], EmptyTx}
  BY ClosedTx, ClosedShape DEF IInv, TypeOK, MarkInvoiceCreated, MarkRecord,
       Marked, Goto, Answer, process, locals, TxOpen, ReservedStatements
<1>4. Link(r)'
  BY DEF IInv, TypeOK, Link, HasAttempt, MarkInvoiceCreated, MarkRecord,
       Marked, Goto, Answer, process, locals, CreateSteps, TxStatements,
       BillingTxSteps, LookupSteps, ReservedStatements
<1> QED
  BY <1>1, <1>2, <1>3, <1>4, QuietStep DEF EmptyTx, MarkInvoiceCreated,
       MarkRecord, Marked, Goto, Answer, process, locals

\* A client that disconnects anywhere in its request preserves the
\* invariant.
LEMMA DisconnectInv ==
  ASSUME IInv, NEW r \in Requests, Disconnect(r)
  PROVE  IInv'
<1>1. TypeOK'
  BY EmptyTxType, ConstantsAssumption
     DEF ConstantsAssumption, IInv, TypeOK, Disconnect, CanFault, Goto, Answer,
         tables, process, locals, Steps
<1>2. OthersUnchanged(r) /\ ResultRowsUnchanged
  BY DEF IInv, TypeOK, OthersUnchanged, ResultRowsUnchanged, Disconnect,
       CanFault, InFlight, Goto, Answer, tables, process, locals
<1>3. Shape(r)' /\ tx'[r] \in {tx[r], EmptyTx}
  <2>1. tx'[r] = EmptyTx /\ pc'[r] \notin TxOpen
    BY DEF IInv, TypeOK, Disconnect, Goto, TxOpen, ReservedStatements
  <2> QED BY <2>1, ClosedShape
<1>4. Link(r)'
  BY DEF IInv, TypeOK, Link, HasAttempt, Disconnect, CanFault, InFlight,
       Goto, Answer, tables, process, locals, CreateSteps, TxStatements,
       BillingTxSteps, LookupSteps, ReservedStatements
<1> QED
  BY <1>1, <1>2, <1>3, <1>4, QuietStep DEF EmptyTx, Disconnect, CanFault,
       InFlight, Goto, Answer, tables, process, locals

\* A failing statement, in a transaction or outside one, preserves the
\* invariant.
LEMMA StatementFailsInv ==
  ASSUME IInv, NEW r \in Requests, StatementFails(r)
  PROVE  IInv'
<1>1. TypeOK'
  <2>1. faults' \in 0..MaxFaults
    BY ConstantsAssumption
       DEF ConstantsAssumption, IInv, TypeOK, StatementFails, CanFault
  <2>2. tx' \in [Requests -> Transaction]
    BY EmptyTxType DEF IInv, TypeOK, StatementFails
  <2>3. pc' \in [Requests -> Steps]
    BY DEF IInv, TypeOK, StatementFails, ErrorExit, AfterError, Goto, Steps,
           CreateSteps
  <2> QED BY <2>1, <2>2, <2>3
    DEF IInv, TypeOK, StatementFails, Answer, tables, process, locals
<1>2. OthersUnchanged(r) /\ ResultRowsUnchanged
  BY DEF IInv, TypeOK, OthersUnchanged, ResultRowsUnchanged, StatementFails,
       CanFault, ErrorExit, AfterError, Goto, Answer, tables, process, locals
<1>3. Shape(r)' /\ tx'[r] \in {tx[r], EmptyTx}
  <2>1. Shape(r)
    BY DEF IInv
  <2>2. CASE pc[r] \in TxStatements
    <3>1. pc'[r] = "rollback" /\ tx'[r] = tx[r]
      BY <2>2 DEF IInv, TypeOK, StatementFails, Goto, TxStatements,
                  BillingTxSteps, LookupSteps, ReservedStatements, CreateSteps
    <3> QED BY <2>1, <3>1, RollbackShape DEF Shape
  <2>3. CASE pc[r] = "rollback"
    <3>1. tx'[r] = EmptyTx /\ pc'[r] \notin TxOpen
      BY <2>3 DEF IInv, TypeOK, StatementFails, Goto, AfterError, TxStatements,
                  BillingTxSteps, LookupSteps, ReservedStatements, CreateSteps,
                  TxOpen
    <3> QED BY <3>1, ClosedShape
  <2>4. CASE pc[r] \in CreateSteps
    <3>1. pc[r] \notin TxOpen /\ pc'[r] \notin TxOpen /\ tx'[r] = tx[r]
      BY <2>4 DEF IInv, TypeOK, StatementFails, Goto, ErrorExit, TxStatements,
                  BillingTxSteps, LookupSteps, ReservedStatements, CreateSteps,
                  TxOpen
    <3> QED BY <3>1, ClosedTx, ClosedShape
  <2> QED BY <2>2, <2>3, <2>4 DEF StatementFails
<1>4. Link(r)'
  BY DEF IInv, TypeOK, Link, HasAttempt, StatementFails, CanFault,
       ErrorExit, AfterError, Goto, Answer, tables, process, locals, CreateSteps,
       TxStatements, BillingTxSteps, LookupSteps, ReservedStatements
<1> QED
  BY <1>1, <1>2, <1>3, <1>4, QuietStep DEF EmptyTx, StatementFails,
       CanFault, ErrorExit, AfterError, Goto, Answer, tables, process, locals

-----------------------------------------------------------------------------
(* Steps inside an open transaction                                         *)

\* Writing the locked billing in its transaction preserves the invariant.
LEMMA UpdateBillingInv ==
  ASSUME IInv, NEW r \in Requests, UpdateBilling(r)
  PROVE  IInv'
<1>1. TypeOK'
  <2>1. [tx[r] EXCEPT !.billing = loaded[r]] \in Transaction
    BY TxType DEF IInv, TypeOK
  <2> QED BY <2>1 DEF IInv, TypeOK, UpdateBilling, Goto, tables, process,
       locals, Steps, CreateSteps, TxStatements, BillingTxSteps, LookupSteps,
       ReservedStatements
<1>2. OthersUnchanged(r) /\ ResultRowsUnchanged
  BY DEF IInv, TypeOK, OthersUnchanged, ResultRowsUnchanged, UpdateBilling,
       Goto, tables, process, locals
<1>3. Shape(r)
  BY DEF IInv
<1>4. /\ pc[r] = "updateBilling" /\ pc'[r] = "commitBilling"
      /\ tx'[r] = [tx[r] EXCEPT !.billing = loaded[r]] /\ tx[r] \in Transaction
      /\ loaded'[r] = loaded[r]
  BY DEF IInv, TypeOK, UpdateBilling, Goto, locals
<1>5. Shape(r)'
  BY <1>3, <1>4 DEF Shape, Transaction, TxOpen, ReservedStatements
<1>6. Link(r)'
  BY DEF IInv, TypeOK, Link, HasAttempt, UpdateBilling, Goto, tables,
       process, locals, CreateSteps, TxStatements, BillingTxSteps, LookupSteps,
       ReservedStatements
<1> QED
  BY <1>1, <1>2, <1>3, <1>4, <1>5, <1>6, QuietStep DEF Shape, UpdateBilling,
       Goto, tables, process, locals, ReservedStatements

\* The gateway call and the outcome it leaves in memory preserves the
\* invariant.
LEMMA CallGatewayInv ==
  ASSUME IInv, NEW r \in Requests, CallGateway(r)
  PROVE  IInv'
<1>1. TypeOK'
  <2>1. entity[r] \in Payment
    BY DEF IInv, TypeOK, Shape, OwnEntity, CallGateway
  <2>2. \A outcome \in AllOutcomes : MarkedAs(entity[r], outcome) \in Payment
    BY <2>1 DEF MarkedAs, Payment, FailureCategory
  <2>3. GatewayAnswers \subseteq AllOutcomes
    BY ConstantsAssumption
       DEF ConstantsAssumption, GatewayAnswers, AllOutcomes
  <2>4. entity' \in [Requests -> Payment \cup {NoPayment}]
    BY <2>2, <2>3 DEF IInv, TypeOK, CallGateway
  <2> QED BY <2>4 DEF IInv, TypeOK, CallGateway, Goto, tables, Steps,
       CreateSteps, TxStatements, BillingTxSteps, LookupSteps, ReservedStatements
<1>2. OthersUnchanged(r) /\ ResultRowsUnchanged
  BY DEF IInv, TypeOK, OthersUnchanged, ResultRowsUnchanged, CallGateway,
       Goto, tables
<1>3. Shape(r)
  BY DEF IInv
<1>4. /\ pc[r] = "callGateway" /\ pc'[r] = "updatePayment"
      /\ tx'[r] = tx[r] /\ inv'[r] = inv[r] /\ att'[r] = att[r]
      /\ \E outcome \in GatewayAnswers :
           entity'[r] = MarkedAs(entity[r], outcome)
  BY DEF IInv, TypeOK, CallGateway, Goto
<1>5. Shape(r)'
  <2>1. entity[r] \in Payment /\ OwnEntity(r)
    BY <1>3, <1>4 DEF IInv, TypeOK, Shape, OwnEntity
  <2>2. Concluded(r)'
    BY <1>4, <2>1 DEF Concluded, OwnEntity, MarkedAs, Payment, NoPayment
  <2> QED BY <1>3, <1>4, <2>2 DEF Shape, Concluded, TxOpen, ReservedStatements
<1>6. Link(r)'
  BY DEF IInv, TypeOK, Link, HasAttempt, CallGateway, Goto, tables,
       CreateSteps, TxStatements, BillingTxSteps, LookupSteps, ReservedStatements
<1> QED
  BY <1>1, <1>2, <1>3, <1>4, <1>5, <1>6, QuietStep DEF Shape, CallGateway,
       Goto, tables, ReservedStatements

\* Writing the outcome of the charge in the transaction preserves the
\* invariant.
LEMMA UpdatePaymentInv ==
  ASSUME IInv, NEW r \in Requests, UpdatePayment(r)
  PROVE  IInv'
<1>1. TypeOK'
  <2>1. tx[r] \in Transaction /\ entity[r] \in Payment
    <3>1. /\ tx[r] \in Transaction /\ entity[r] \in Payment \cup {NoPayment}
          /\ Shape(r) /\ pc[r] = "updatePayment"
      BY DEF IInv, TypeOK, UpdatePayment
    <3>2. OwnEntity(r)
      BY <3>1 DEF Shape, ReservedStatements
    <3> QED BY <3>1, <3>2 DEF OwnEntity, NoPayment
  <2>2. [tx[r] EXCEPT !.payment = entity[r]] \in Transaction
    BY <2>1, TxType
  <2> QED BY <2>2 DEF IInv, TypeOK, UpdatePayment, Abort, ErrorCode, Goto,
       Answer, tables, process, locals, Steps, CreateSteps, TxStatements,
       BillingTxSteps, LookupSteps, ReservedStatements
<1>2. OthersUnchanged(r) /\ ResultRowsUnchanged
  BY DEF IInv, TypeOK, OthersUnchanged, ResultRowsUnchanged, UpdatePayment,
       Abort, ErrorCode, Goto, Answer, tables, process, locals
<1>3. Shape(r)
  BY DEF IInv
<1>4. /\ pc[r] = "updatePayment" /\ tx[r] \in Transaction
      /\ inv'[r] = inv[r] /\ att'[r] = att[r] /\ entity'[r] = entity[r]
      /\ \/ pc'[r] = "rollback" /\ tx'[r] = tx[r]
         \/ /\ pc'[r] = "appendResult"
            /\ tx'[r] = [tx[r] EXCEPT !.payment = entity[r]]
  BY DEF IInv, TypeOK, UpdatePayment, Abort, Goto, locals
<1>5. Shape(r)'
  <2>1. CASE pc'[r] = "rollback"
    BY <1>3, <1>4, <2>1, RollbackShape DEF Shape
  <2>2. CASE pc'[r] = "appendResult"
    <3>1. Concluded(r) /\ OwnEntity(r) /\ ~tx[r].locked
      BY <1>3, <1>4 DEF Shape, ReservedStatements
    <3> QED BY <1>3, <1>4, <2>2, <3>1, SameMemory
      DEF Shape, Concluded, OwnEntity, Transaction, TxOpen, ReservedStatements
  <2> QED BY <1>4, <2>1, <2>2
<1>6. Link(r)'
  BY DEF IInv, TypeOK, Link, HasAttempt, UpdatePayment, Abort, ErrorCode,
       Goto, Answer, tables, process, locals, CreateSteps, TxStatements,
       BillingTxSteps, LookupSteps, ReservedStatements
<1> QED
  BY <1>1, <1>2, <1>3, <1>4, <1>5, <1>6, QuietStep DEF Shape, UpdatePayment,
       Abort, ErrorCode, Goto, Answer, tables, process, locals,
       ReservedStatements

\* Publishing PaymentApproved or PaymentFailed in the transaction preserves
\* the invariant.
LEMMA AppendResultInv ==
  ASSUME IInv, NEW r \in Requests, AppendResult(r)
  PROVE  IInv'
<1>1. TypeOK'
  BY AppendInTxType DEF IInv, AppendResult, ResultName, EventNames, Steps,
       CreateSteps, TxStatements, BillingTxSteps, LookupSteps, ReservedStatements
<1>2. OthersUnchanged(r) /\ ResultRowsUnchanged
  BY DEF IInv, TypeOK, OthersUnchanged, ResultRowsUnchanged, AppendResult,
       AppendInTx, ResultName, Abort, ErrorCode, Goto, Answer, tables, locals
<1>3. Shape(r)
  BY DEF IInv
<1>4. /\ pc[r] = "appendResult" /\ tx[r] \in Transaction
      /\ inv'[r] = inv[r] /\ att'[r] = att[r] /\ entity'[r] = entity[r]
      /\ \/ pc'[r] = "rollback" /\ tx'[r] = tx[r]
         \/ /\ pc'[r] = IF entity[r].status = "Approved" THEN "getInvoice"
                                                       ELSE "getBilling"
            /\ tx'[r] = [tx[r] EXCEPT
                          !.outbox = @ \cup {Event(r, ResultName(r), "pending")}]
  BY DEF IInv, TypeOK, AppendResult, AppendInTx, Abort, Goto, locals
<1>5. Shape(r)'
  <2>1. CASE pc'[r] = "rollback"
    BY <1>3, <1>4, <2>1, RollbackShape DEF Shape
  <2>2. CASE pc'[r] # "rollback"
    <3>1. /\ Concluded(r) /\ OwnEntity(r) /\ ~tx[r].locked
          /\ tx[r].outbox = {} /\ tx[r].invoice = "None"
          /\ tx[r].payment = entity[r] /\ entity[r] # NoPayment
      BY <1>3, <1>4 DEF Shape, OwnEntity, ReservedStatements
    <3>2. /\ ~tx'[r].locked /\ tx'[r].invoice = "None"
          /\ tx'[r].payment = entity[r]
          /\ tx'[r].outbox = {Event(r, ResultName(r), "pending")}
      BY <1>4, <2>2, <3>1 DEF Transaction
    <3>3. CASE entity[r].status = "Approved"
      BY <1>4, <2>2, <3>1, <3>2, <3>3, SameMemory
         DEF Shape, ResultName, TxOpen, ReservedStatements
    <3>4. CASE entity[r].status # "Approved"
      BY <1>4, <2>2, <3>1, <3>2, <3>4, SameMemory
         DEF Shape, ResultName, ResultInvoice, ResultRows, TxOpen,
             ReservedStatements
    <3> QED BY <3>3, <3>4
  <2> QED BY <2>1, <2>2
<1>6. Link(r)'
  BY DEF IInv, TypeOK, Link, HasAttempt, AppendResult, AppendInTx,
       ResultName, Abort, ErrorCode, Goto, Answer, tables, locals, CreateSteps,
       TxStatements, BillingTxSteps, LookupSteps, ReservedStatements
<1> QED
  BY <1>1, <1>2, <1>3, <1>4, <1>5, <1>6, QuietStep DEF Shape, AppendResult,
       AppendInTx, ResultName, Abort, ErrorCode, Goto, Answer, tables, locals,
       ReservedStatements

\* Reading the invoice in the PaymentApproved handler of invoices preserves
\* the invariant.
LEMMA GetInvoiceInv ==
  ASSUME IInv, NEW r \in Requests, GetInvoice(r)
  PROVE  IInv'
<1>1. TypeOK'
  BY DEF IInv, TypeOK, GetInvoice, Goto, tables, process, locals, Steps,
       CreateSteps, TxStatements, BillingTxSteps, LookupSteps, ReservedStatements
<1>2. OthersUnchanged(r) /\ ResultRowsUnchanged
  BY DEF IInv, TypeOK, OthersUnchanged, ResultRowsUnchanged, GetInvoice,
       Goto, tables, process, locals
<1>3. Shape(r)
  BY DEF IInv
<1>4. /\ pc[r] = "getInvoice" /\ pc'[r] = "updateInvoice" /\ tx'[r] = tx[r]
      /\ inv'[r] = inv[r] /\ att'[r] = att[r] /\ entity'[r] = entity[r]
  <2>1. invoices[inv[r]] # "Paid"
    BY <1>3, ReservedBilling DEF Shape, GetInvoice, ReservedStatements
  <2> QED BY <2>1 DEF IInv, TypeOK, GetInvoice, Goto, locals
<1>5. Shape(r)'
  BY <1>3, <1>4, SameMemory DEF Shape, TxOpen, ReservedStatements
<1>6. Link(r)'
  BY DEF IInv, TypeOK, Link, HasAttempt, GetInvoice, Goto, tables, process,
       locals, CreateSteps, TxStatements, BillingTxSteps, LookupSteps,
       ReservedStatements
<1> QED
  BY <1>1, <1>2, <1>3, <1>4, <1>5, <1>6, QuietStep DEF Shape, GetInvoice,
       Goto, tables, process, locals, ReservedStatements

\* Writing Paid in the transaction preserves the invariant.
LEMMA UpdateInvoiceInv ==
  ASSUME IInv, NEW r \in Requests, UpdateInvoice(r)
  PROVE  IInv'
<1>1. TypeOK'
  <2>1. [tx[r] EXCEPT !.invoice = "Paid"] \in Transaction
    BY TxType DEF IInv, TypeOK
  <2> QED BY <2>1 DEF IInv, TypeOK, UpdateInvoice, Goto, tables, process,
       locals, Steps, CreateSteps, TxStatements, BillingTxSteps, LookupSteps,
       ReservedStatements
<1>2. OthersUnchanged(r) /\ ResultRowsUnchanged
  BY DEF IInv, TypeOK, OthersUnchanged, ResultRowsUnchanged, UpdateInvoice,
       Goto, tables, process, locals
<1>3. Shape(r)
  BY DEF IInv
<1>4. /\ pc[r] = "updateInvoice" /\ pc'[r] = "appendInvoicePaid"
      /\ tx'[r] = [tx[r] EXCEPT !.invoice = "Paid"] /\ tx[r] \in Transaction
      /\ inv'[r] = inv[r] /\ att'[r] = att[r] /\ entity'[r] = entity[r]
  BY DEF IInv, TypeOK, UpdateInvoice, Goto, locals
<1>5. Shape(r)'
  BY <1>3, <1>4, SameMemory DEF Shape, Transaction, TxOpen, ReservedStatements
<1>6. Link(r)'
  BY DEF IInv, TypeOK, Link, HasAttempt, UpdateInvoice, Goto, tables,
       process, locals, CreateSteps, TxStatements, BillingTxSteps, LookupSteps,
       ReservedStatements
<1> QED
  BY <1>1, <1>2, <1>3, <1>4, <1>5, <1>6, QuietStep DEF Shape, UpdateInvoice,
       Goto, tables, process, locals, ReservedStatements

\* Publishing the nested InvoicePaid in the transaction preserves the
\* invariant.
LEMMA AppendInvoicePaidInv ==
  ASSUME IInv, NEW r \in Requests, AppendInvoicePaid(r)
  PROVE  IInv'
<1>1. TypeOK'
  BY AppendInTxType DEF IInv, AppendInvoicePaid, EventNames, Steps,
       CreateSteps, TxStatements, BillingTxSteps, LookupSteps, ReservedStatements
<1>2. OthersUnchanged(r) /\ ResultRowsUnchanged
  BY DEF IInv, TypeOK, OthersUnchanged, ResultRowsUnchanged,
       AppendInvoicePaid, AppendInTx, Abort, ErrorCode, Goto, Answer, tables,
       locals
<1>3. Shape(r)
  BY DEF IInv
<1>4. /\ pc[r] = "appendInvoicePaid" /\ tx[r] \in Transaction
      /\ inv'[r] = inv[r] /\ att'[r] = att[r] /\ entity'[r] = entity[r]
      /\ \/ pc'[r] = "rollback" /\ tx'[r] = tx[r]
         \/ /\ pc'[r] = "markInvoicePaid"
            /\ tx'[r] = [tx[r] EXCEPT
                          !.outbox = @ \cup {Event(r, "InvoicePaid", "pending")}]
  BY DEF IInv, TypeOK, AppendInvoicePaid, AppendInTx, Abort, Goto, locals
<1>5. Shape(r)'
  <2>1. CASE pc'[r] = "rollback"
    BY <1>3, <1>4, <2>1, RollbackShape DEF Shape
  <2>2. CASE pc'[r] = "markInvoicePaid"
    <3>1. /\ Concluded(r) /\ OwnEntity(r) /\ ~tx[r].locked
          /\ tx[r].outbox = {Event(r, "PaymentApproved", "pending")}
          /\ tx[r].invoice = "Paid" /\ entity[r].status = "Approved"
          /\ tx[r].payment = entity[r] /\ entity[r] # NoPayment
      BY <1>3, <1>4 DEF Shape, OwnEntity, ReservedStatements
    <3>2. /\ ~tx'[r].locked /\ tx'[r].invoice = "Paid"
          /\ tx'[r].payment = entity[r]
          /\ tx'[r].outbox = {Event(r, "PaymentApproved", "pending"),
                              Event(r, "InvoicePaid", "pending")}
      BY <1>4, <2>2, <3>1 DEF Transaction
    <3> QED BY <1>4, <2>2, <3>1, <3>2, SameMemory
      DEF Shape, TxOpen, ReservedStatements
  <2> QED BY <1>4, <2>1, <2>2
<1>6. Link(r)'
  BY DEF IInv, TypeOK, Link, HasAttempt, AppendInvoicePaid, AppendInTx,
       Abort, ErrorCode, Goto, Answer, tables, locals, CreateSteps, TxStatements,
       BillingTxSteps, LookupSteps, ReservedStatements
<1> QED
  BY <1>1, <1>2, <1>3, <1>4, <1>5, <1>6, QuietStep DEF Shape,
       AppendInvoicePaid, AppendInTx, Abort, ErrorCode, Goto, Answer, tables,
       locals, ReservedStatements

\* Marking InvoicePaid processed in the transaction preserves the
\* invariant.
LEMMA MarkInvoicePaidInv ==
  ASSUME IInv, NEW r \in Requests, MarkInvoicePaid(r)
  PROVE  IInv'
<1>1. TypeOK'
  BY MarkInTxType DEF IInv, MarkInvoicePaid, EventNames, Steps, CreateSteps,
       TxStatements, BillingTxSteps, LookupSteps, ReservedStatements
<1>2. OthersUnchanged(r) /\ ResultRowsUnchanged
  BY DEF IInv, TypeOK, OthersUnchanged, ResultRowsUnchanged,
       MarkInvoicePaid, MarkInTx, Marked, Goto, tables, process, locals
<1>3. Shape(r)
  BY DEF IInv
<1>4. /\ pc[r] = "markInvoicePaid" /\ pc'[r] = "getBilling"
      /\ inv'[r] = inv[r] /\ att'[r] = att[r] /\ entity'[r] = entity[r]
      /\ tx[r] \in Transaction
      /\ tx'[r] = [tx[r] EXCEPT
                    !.outbox = Marked(@, r, "InvoicePaid", "processed")]
  BY DEF IInv, TypeOK, MarkInvoicePaid, MarkInTx, Goto, locals
<1>5. Shape(r)'
  <2>1. /\ Concluded(r) /\ OwnEntity(r) /\ ~tx[r].locked
        /\ tx[r].outbox = {Event(r, "PaymentApproved", "pending"),
                           Event(r, "InvoicePaid", "pending")}
        /\ tx[r].invoice = "Paid" /\ entity[r].status = "Approved"
        /\ tx[r].payment = entity[r] /\ entity[r] # NoPayment
    BY <1>3, <1>4 DEF Shape, OwnEntity, ReservedStatements
  <2>2. Event(r, "PaymentApproved", "pending") # Event(r, "InvoicePaid", "pending")
    BY DEF Event
  <2>3. Marked(tx[r].outbox, r, "InvoicePaid", "processed")
          = {Event(r, "PaymentApproved", "pending"),
             Event(r, "InvoicePaid", "processed")}
    BY <2>1, <2>2 DEF Marked
  <2>4. /\ ~tx'[r].locked /\ tx'[r].invoice = "Paid"
        /\ tx'[r].payment = entity[r]
        /\ tx'[r].outbox = {Event(r, "PaymentApproved", "pending"),
                            Event(r, "InvoicePaid", "processed")}
    BY <1>4, <2>1, <2>3 DEF Transaction
  <2> QED BY <1>4, <2>1, <2>4, SameMemory
    DEF Shape, ResultInvoice, ResultRows, TxOpen, ReservedStatements
<1>6. Link(r)'
  BY DEF IInv, TypeOK, Link, HasAttempt, MarkInvoicePaid, MarkInTx, Marked,
       Goto, tables, process, locals, CreateSteps, TxStatements, BillingTxSteps,
       LookupSteps, ReservedStatements
<1> QED
  BY <1>1, <1>2, <1>3, <1>4, <1>5, <1>6, QuietStep DEF Shape,
       MarkInvoicePaid, MarkInTx, Marked, Goto, tables, process, locals,
       ReservedStatements

\* The unlocked read of the billing in its handlers preserves the
\* invariant.
LEMMA GetBillingInv ==
  ASSUME IInv, NEW r \in Requests, GetBilling(r)
  PROVE  IInv'
<1>1. TypeOK'
  BY DEF IInv, TypeOK, GetBilling, Goto, tables, process, Steps,
       CreateSteps, TxStatements, BillingTxSteps, LookupSteps, ReservedStatements
<1>2. OthersUnchanged(r) /\ ResultRowsUnchanged
  BY DEF IInv, TypeOK, OthersUnchanged, ResultRowsUnchanged, GetBilling,
       Goto, tables, process
<1>3. Shape(r)
  BY DEF IInv
<1>4. /\ pc[r] = "getBilling" /\ pc'[r] = "markBilling" /\ tx'[r] = tx[r]
      /\ inv'[r] = inv[r] /\ att'[r] = att[r] /\ entity'[r] = entity[r]
  BY DEF IInv, TypeOK, GetBilling, Goto
<1>5. Shape(r)'
  BY <1>3, <1>4, SameMemory DEF Shape, TxOpen, ReservedStatements
<1>6. Link(r)'
  BY DEF IInv, TypeOK, Link, HasAttempt, GetBilling, Goto, tables, process,
       CreateSteps, TxStatements, BillingTxSteps, LookupSteps, ReservedStatements
<1> QED
  BY <1>1, <1>2, <1>3, <1>4, <1>5, <1>6, QuietStep DEF Shape, GetBilling,
       Goto, tables, process, ReservedStatements

\* Writing the billing back in the transaction preserves the invariant.
LEMMA MarkBillingInv ==
  ASSUME IInv, NEW r \in Requests, MarkBilling(r)
  PROVE  IInv'
<1>1. TypeOK'
  <2>1. tx[r].payment # NoPayment /\ Concluded(r) /\ entity[r] \in Payment
    BY DEF IInv, TypeOK, Shape, Concluded, OwnEntity, MarkBilling,
           ReservedStatements
  <2>2. loaded[r] = [status |-> "Requested", attempt |-> att[r]]
    BY <2>1, ReservedBilling DEF IInv, Link, MarkBilling
  <2>3. [loaded[r] EXCEPT !.status = entity[r].status] \in Billing
    BY <2>1, <2>2 DEF Billing, Payment, OwnEntity, Concluded
  <2>4. [tx[r] EXCEPT !.billing = [loaded[r] EXCEPT !.status = entity[r].status]]
          \in Transaction
    BY <2>3, TxType DEF IInv, TypeOK
  <2> QED BY <2>4 DEF IInv, TypeOK, MarkBilling, Goto, tables, process,
       locals, Steps, CreateSteps, TxStatements, BillingTxSteps, LookupSteps,
       ReservedStatements
<1>2. OthersUnchanged(r) /\ ResultRowsUnchanged
  BY DEF IInv, TypeOK, OthersUnchanged, ResultRowsUnchanged, MarkBilling,
       Goto, tables, process, locals
<1>3. Shape(r)
  BY DEF IInv
<1>4. /\ pc[r] = "markBilling" /\ pc'[r] = "markResult"
      /\ inv'[r] = inv[r] /\ att'[r] = att[r] /\ entity'[r] = entity[r]
      /\ tx[r] \in Transaction
      /\ tx'[r] = [tx[r] EXCEPT
                    !.billing = [loaded[r] EXCEPT !.status = entity[r].status]]
  BY DEF IInv, TypeOK, MarkBilling, Goto, locals
<1>5. Shape(r)'
  <2>1. /\ Concluded(r) /\ OwnEntity(r) /\ ~tx[r].locked
        /\ tx[r].outbox = ResultRows(r, "pending")
        /\ tx[r].invoice = ResultInvoice(r)
        /\ tx[r].payment = entity[r] /\ tx[r].payment # NoPayment
    BY <1>3, <1>4 DEF Shape, ReservedStatements
  <2>2. loaded[r] = [status |-> "Requested", attempt |-> att[r]]
    BY <1>4, <2>1, ReservedBilling DEF IInv, Link
  <2>3. /\ ~tx'[r].locked /\ tx'[r].outbox = ResultRows(r, "pending")
        /\ tx'[r].invoice = ResultInvoice(r) /\ tx'[r].payment = entity[r]
        /\ tx'[r].billing = [status |-> entity[r].status, attempt |-> att[r]]
    BY <1>4, <2>1, <2>2 DEF Transaction
  <2> QED BY <1>4, <2>1, <2>3, SameMemory DEF Shape, TxOpen, ReservedStatements
<1>6. Link(r)'
  BY DEF IInv, TypeOK, Link, HasAttempt, MarkBilling, Goto, tables, process,
       locals, CreateSteps, TxStatements, BillingTxSteps, LookupSteps,
       ReservedStatements
<1> QED
  BY <1>1, <1>2, <1>3, <1>4, <1>5, <1>6, QuietStep DEF Shape, MarkBilling,
       Goto, tables, process, locals, ReservedStatements

\* Marking the result event processed in the transaction preserves the
\* invariant.
LEMMA MarkResultInv ==
  ASSUME IInv, NEW r \in Requests, MarkResult(r)
  PROVE  IInv'
<1>1. TypeOK'
  BY MarkInTxType DEF IInv, MarkResult, ResultName, EventNames, Steps,
       CreateSteps, TxStatements, BillingTxSteps, LookupSteps, ReservedStatements
<1>2. OthersUnchanged(r) /\ ResultRowsUnchanged
  BY DEF IInv, TypeOK, OthersUnchanged, ResultRowsUnchanged, MarkResult,
       MarkInTx, Marked, ResultName, Goto, tables, process, locals
<1>3. Shape(r)
  BY DEF IInv
<1>4. /\ pc[r] = "markResult" /\ pc'[r] = "commit"
      /\ inv'[r] = inv[r] /\ att'[r] = att[r] /\ entity'[r] = entity[r]
      /\ tx[r] \in Transaction
      /\ tx'[r] = [tx[r] EXCEPT
                    !.outbox = Marked(@, r, ResultName(r), "processed")]
  BY DEF IInv, TypeOK, MarkResult, MarkInTx, Goto, locals
<1>5. Shape(r)'
  <2>1. /\ Concluded(r) /\ OwnEntity(r) /\ ~tx[r].locked
        /\ tx[r].outbox = ResultRows(r, "pending")
        /\ tx[r].invoice = ResultInvoice(r)
        /\ tx[r].payment = entity[r] /\ entity[r] # NoPayment
        /\ tx[r].billing = [status |-> entity[r].status, attempt |-> att[r]]
    BY <1>3, <1>4 DEF Shape, OwnEntity, ReservedStatements
  <2>2. Event(r, "PaymentApproved", "pending") # Event(r, "InvoicePaid", "processed")
    BY DEF Event
  <2>3. Marked(ResultRows(r, "pending"), r, ResultName(r), "processed")
          = ResultRows(r, "processed")
    BY <2>2 DEF Marked, ResultRows, ResultName
  <2>4. tx'[r] = FullTx(r)
    BY <1>4, <2>1, <2>3 DEF FullTx, Transaction
  <2>5. tx'[r] = FullTx(r)' /\ Concluded(r)'
    BY <1>4, <2>1, <2>4, SameMemory
  <2>6. ~tx'[r].locked
    BY <2>4 DEF FullTx
  <2> QED BY <1>4, <2>5, <2>6 DEF Shape, TxOpen, ReservedStatements
<1>6. Link(r)'
  BY DEF IInv, TypeOK, Link, HasAttempt, MarkResult, MarkInTx, Marked,
       ResultName, Goto, tables, process, locals, CreateSteps, TxStatements,
       BillingTxSteps, LookupSteps, ReservedStatements
<1> QED
  BY <1>1, <1>2, <1>3, <1>4, <1>5, <1>6, QuietStep DEF Shape, MarkResult,
       MarkInTx, Marked, ResultName, Goto, tables, process, locals,
       ReservedStatements

-----------------------------------------------------------------------------
(* Steps that take a lock                                                   *)

\* The arrival of POST /payments preserves the invariant.
LEMMA ProcessPaymentInv ==
  ASSUME IInv, NEW r \in Requests, NEW i \in Invoices, ProcessPayment(r, i)
  PROVE  IInv'
<1>1. TypeOK'
  BY DEF IInv, TypeOK, ProcessPayment, Goto, tables, process, Steps,
         TxStatements, BillingTxSteps
<1>2. OthersUnchanged(r) /\ ResultRowsUnchanged
  BY DEF IInv, TypeOK, OthersUnchanged, ResultRowsUnchanged, ProcessPayment,
         Goto, tables
<1>3. tx[r] = EmptyTx /\ tx'[r] = EmptyTx
  BY ClosedTx DEF ProcessPayment, TxOpen, ReservedStatements
<1>4. pc'[r] = "lockBilling"
  BY DEF IInv, TypeOK, ProcessPayment, Goto
<1>5. Shape(r)'
  BY <1>3, <1>4, ClosedShape DEF TxOpen, ReservedStatements
<1>6. Link(r)'
  BY <1>4 DEF Link, HasAttempt, LookupSteps, ReservedStatements
<1> QED
  BY <1>1, <1>2, <1>3, <1>5, <1>6, QuietStep DEF EmptyTx, ProcessPayment, tables

\* FOR UPDATE of the billing, granted only without a reservation, preserves
\* the invariant.
LEMMA LockBillingInv ==
  ASSUME IInv, NEW r \in Requests, LockBilling(r)
  PROVE  IInv'
<1> DEFINE i == inv[r]
           b == billings[i]
<1>1. /\ pc[r] = "lockBilling" /\ tx[r] = EmptyTx /\ i \in Invoices
      /\ b \in Billing \cup {NoBilling}
      /\ UNCHANGED <<tables, process, gatewayCalls, faults, kind, inv, att,
                     entity>>
      /\ tx' = [tx EXCEPT ![r].locked = (b # NoBilling)]
  BY ClosedTx DEF IInv, TypeOK, LockBilling, TxOpen, ReservedStatements
<1>2. /\ \A s \in Requests \ {r} :
           inv[s] = i => tx[s].payment = NoPayment /\ ~tx[s].locked
  BY DEF LockBilling, RowLocked, KeyShared
<1>3. \/ /\ pc' = [pc EXCEPT ![r] = "rollback"] /\ loaded' = loaded
         /\ reply' \in [Requests ->
                          {"none", "201", "404", "409", "500", "lost"}]
      \/ /\ pc' = [pc EXCEPT ![r] = "updateBilling"] /\ reply' = reply
         /\ loaded' = [loaded EXCEPT ![r] = MarkRequested(b)]
         /\ b # NoBilling /\ b.status \in {"Requested", "Failed"}
  BY <1>1 DEF IInv, TypeOK, LockBilling, Abort, ErrorCode, Goto, Answer, Billing
<1>4. tx'[r] = [EmptyTx EXCEPT !.locked = (b # NoBilling)]
  BY <1>1 DEF IInv, TypeOK
<1>5. TypeOK'
  <2>1. [EmptyTx EXCEPT !.locked = (b # NoBilling)] \in Transaction
    BY EmptyTxType, TxType
  <2>2. tx' \in [Requests -> Transaction]
    BY <1>1, <2>1 DEF IInv, TypeOK
  <2>3. b # NoBilling => MarkRequested(b) \in Billing
    BY <1>1 DEF MarkRequested, Billing
  <2>4. loaded' \in [Requests -> Billing \cup {NoBilling}]
    BY <1>3, <2>3 DEF IInv, TypeOK
  <2>5. pc' \in [Requests -> Steps] /\ reply' \in [Requests ->
                          {"none", "201", "404", "409", "500", "lost"}]
    BY <1>3 DEF IInv, TypeOK, Steps, TxStatements, BillingTxSteps
  <2> QED BY <1>1, <2>2, <2>4, <2>5 DEF IInv, TypeOK, tables, process
<1>6. OthersUnchanged(r)
  BY <1>1, <1>3 DEF IInv, TypeOK, OthersUnchanged
<1>7. Shape(r)'
  <2>1. CASE pc'[r] = "rollback"
    BY <1>4, <2>1, RollbackShape DEF EmptyTx
  <2>2. CASE pc'[r] = "updateBilling" /\ b # NoBilling
    BY <1>4, <2>2 DEF EmptyTx, Shape, TxOpen, ReservedStatements
  <2> QED BY <1>3, <2>1, <2>2 DEF IInv, TypeOK
<1>8. Link(r)'
  BY <1>1, <1>3 DEF IInv, TypeOK, Link, HasAttempt, LookupSteps,
                    ReservedStatements, tables
<1>9. ASSUME NEW s \in Requests PROVE Shape(s)'
  BY <1>6, <1>7, OtherShape DEF IInv
<1>10. ASSUME NEW s \in Requests PROVE Link(s)'
  BY <1>1, <1>6, <1>8 DEF IInv, OthersUnchanged, Link, tables
<1>11. LockExclusive'
  BY <1>1, <1>2, <1>6 DEF IInv, OthersUnchanged, LockExclusive
<1>12. ReservationExclusive'
  <2>1. tx'[r].payment = NoPayment
    BY <1>4 DEF EmptyTx
  <2> QED BY <1>1, <1>2, <1>6, <2>1
    DEF IInv, OthersUnchanged, ReservationExclusive, tables
<1>13. AttemptLedger' /\ SettlementTables'
  BY <1>1 DEF IInv, AttemptLedger, SettlementTables, Settled, tables
<1> QED BY <1>5, <1>9, <1>10, <1>11, <1>12, <1>13 DEF IInv

\* The wait for the row lock, with the ledger, makes the inserted attempt the
\* current one of a billing that nobody else is charging or reactivating.
LEMMA InsertPaymentInv ==
  ASSUME IInv, NEW r \in Requests, InsertPayment(r)
  PROVE  IInv'
<1> DEFINE i == inv[r]
           a == att[r]
<1>1. /\ pc[r] = "insertPayment" /\ tx[r] = EmptyTx /\ i \in Invoices
      /\ a \in 1..billings[i].attempt
      /\ billings[i] \in Billing \cup {NoBilling}
      /\ UNCHANGED <<tables, process, gatewayCalls, faults, kind, inv, att,
                     loaded>>
  BY ClosedTx DEF IInv, TypeOK, Link, HasAttempt, InsertPayment, LookupSteps,
                  TxOpen, ReservedStatements
<1>2. billings[i] \in Billing /\ a \in Nat \ {0}
  BY <1>1 DEF NoBilling, Billing
<1>3. CASE pc' = [pc EXCEPT ![r] = "rollback"] /\ UNCHANGED <<entity, tx>>
           /\ reply' \in [Requests ->
                            {"none", "201", "404", "409", "500", "lost"}]
  <2>1. TypeOK'
    BY <1>1, <1>3 DEF IInv, TypeOK, Steps, tables, process
  <2>2. OthersUnchanged(r) /\ ResultRowsUnchanged
    BY <1>1, <1>3 DEF IInv, TypeOK, OthersUnchanged, ResultRowsUnchanged, tables
  <2>3. Shape(r)'
    BY <1>1, <1>3, RollbackShape DEF IInv, TypeOK, EmptyTx
  <2>4. Link(r)'
    BY <1>3 DEF IInv, TypeOK, Link, HasAttempt, LookupSteps, ReservedStatements
  <2> QED BY <1>1, <1>3, <2>1, <2>2, <2>3, <2>4, QuietStep DEF tables
<1>4. CASE /\ \A p \in payments : ~(p.inv = i /\ p.att = a)
           /\ ~RowLocked(r, i) /\ ~Reserved(r, i, a)
           /\ entity' = [entity EXCEPT ![r] = NewPayment(r)]
           /\ tx' = [tx EXCEPT ![r].payment = NewPayment(r)]
           /\ pc' = [pc EXCEPT ![r] = "callGateway"]
           /\ UNCHANGED reply
  <2>1. NewPayment(r) \in Payment
    BY <1>1, <1>2 DEF NewPayment, Payment, FailureCategory
  <2>2. billings[i] = [status |-> "Requested", attempt |-> a]
    <3>1. ~(a < billings[i].attempt \/ billings[i].status # "Requested")
      BY <1>1, <1>4 DEF IInv, AttemptLedger
    <3> QED BY <1>1, <1>2, <3>1 DEF Billing
  <2>3. \A s \in Requests \ {r} :
          inv[s] = i => tx[s].payment = NoPayment /\ ~tx[s].locked
    <3> SUFFICES ASSUME NEW s \in Requests \ {r}, inv[s] = i
                 PROVE  tx[s].payment = NoPayment /\ ~tx[s].locked
      OBVIOUS
    <3>1. ASSUME tx[s].payment # NoPayment PROVE FALSE
      <4>1. billings[i] = [status |-> "Requested", attempt |-> att[s]]
        BY <3>1, ReservedBilling
      <4>2. att[s] = a
        BY <2>2, <4>1
      <4> QED BY <1>4, <3>1, <4>2 DEF Reserved
    <3> QED BY <1>4, <3>1 DEF RowLocked
  <2>4. tx'[r] = [EmptyTx EXCEPT !.payment = NewPayment(r)]
    BY <1>1, <1>4 DEF IInv, TypeOK
  <2>5. /\ tx'[r].payment = NewPayment(r) /\ ~tx'[r].locked
        /\ tx'[r].invoice = "None" /\ tx'[r].outbox = {}
        /\ NewPayment(r) # NoPayment
    BY <2>1, <2>4 DEF EmptyTx, Payment, NoPayment
  <2>6. pc'[r] = "callGateway" /\ entity'[r] = NewPayment(r)
    BY <1>4 DEF IInv, TypeOK
  <2>7. TypeOK'
    <3>1. [EmptyTx EXCEPT !.payment = NewPayment(r)] \in Transaction
      BY <2>1, EmptyTxType, TxType
    <3>2. tx' \in [Requests -> Transaction]
      BY <1>1, <1>4, <3>1 DEF IInv, TypeOK
    <3> QED BY <1>1, <1>4, <2>1, <3>2 DEF IInv, TypeOK, tables, process, Steps
  <2>8. OthersUnchanged(r)
    BY <1>1, <1>4 DEF IInv, TypeOK, OthersUnchanged
  <2>9. OwnEntity(r)'
    <3>1. /\ NewPayment(r).id = r /\ NewPayment(r).inv = inv[r]
          /\ NewPayment(r).att = att[r]
      BY DEF NewPayment
    <3> QED BY <1>1, <2>5, <2>6, <3>1 DEF OwnEntity
  <2>10. Shape(r)'
    BY <2>5, <2>6, <2>9 DEF Shape, TxOpen, ReservedStatements
  <2>11. Link(r)'
    BY <1>1, <2>6 DEF Link, HasAttempt, ReservedStatements, tables
  <2>12. ASSUME NEW s \in Requests PROVE Shape(s)'
    BY <2>8, <2>10, OtherShape DEF IInv
  <2>13. ASSUME NEW s \in Requests PROVE Link(s)'
    BY <1>1, <2>8, <2>11 DEF IInv, OthersUnchanged, Link, tables
  <2>14. LockExclusive'
    BY <1>1, <2>5, <2>8 DEF IInv, OthersUnchanged, LockExclusive
  <2>15. ReservationExclusive'
    BY <1>1, <2>2, <2>3, <2>5, <2>8
       DEF IInv, OthersUnchanged, ReservationExclusive, tables
  <2>16. AttemptLedger' /\ SettlementTables'
    BY <1>1 DEF IInv, AttemptLedger, SettlementTables, Settled, tables
  <2> QED BY <2>7, <2>12, <2>13, <2>14, <2>15, <2>16 DEF IInv
<1> QED
  BY <1>3, <1>4 DEF IInv, TypeOK, InsertPayment, Abort, ErrorCode, Goto, Answer

-----------------------------------------------------------------------------
(* Steps that write the tables                                              *)

\* Saving a new invoice preserves the invariant.
LEMMA CreateInvoiceInv ==
  ASSUME IInv, NEW r \in Requests, NEW i \in Invoices, CreateInvoice(r, i)
  PROVE  IInv'
<1>1. /\ invoices[i] = "None" /\ tx[r] = EmptyTx
      /\ invoices' = [invoices EXCEPT ![i] = "Pending"]
      /\ inv' = [inv EXCEPT ![r] = i]
      /\ pc' = [pc EXCEPT ![r] = "appendInvoiceCreated"]
      /\ UNCHANGED <<billings, payments, outbox, process, gatewayCalls, faults,
                     att, entity, loaded, tx, reply>>
  BY ClosedTx DEF CreateInvoice, Goto, TxOpen, ReservedStatements
<1>2. TypeOK'
  BY <1>1 DEF IInv, TypeOK, CreateInvoice, process, Steps, CreateSteps
<1>3. OthersUnchanged(r)
  BY <1>1 DEF IInv, TypeOK, OthersUnchanged
<1>4. /\ pc'[r] = "appendInvoiceCreated" /\ inv'[r] = i
      /\ invoices'[i] = "Pending" /\ tx'[r] = EmptyTx
  BY <1>1 DEF IInv, TypeOK
<1>5. Shape(r)'
  BY <1>4, ClosedShape DEF TxOpen, ReservedStatements
<1>6. Link(r)'
  BY <1>4 DEF Link, HasAttempt, LookupSteps, ReservedStatements
<1>7. ASSUME NEW s \in Requests PROVE Shape(s)'
  BY <1>3, <1>5, OtherShape DEF IInv
<1>8. ASSUME NEW s \in Requests PROVE Link(s)'
  <2>1. \A j \in Invoices : invoices[j] # "None" => invoices'[j] # "None"
    BY <1>1 DEF IInv, TypeOK
  <2> QED BY <1>1, <1>3, <1>6, <2>1 DEF IInv, TypeOK, OthersUnchanged, Link
<1>9. LockExclusive' /\ ReservationExclusive'
  BY <1>1, <1>3, <1>4
     DEF IInv, OthersUnchanged, LockExclusive, ReservationExclusive, EmptyTx
<1>10. AttemptLedger'
  BY <1>1 DEF IInv, AttemptLedger
<1>11. SettlementTables'
  <2>1. \A j \in Invoices : invoices'[j] = "Paid" <=> invoices[j] = "Paid"
    BY <1>1 DEF IInv, TypeOK
  <2> QED BY <1>1, <2>1 DEF IInv, SettlementTables, Settled
<1> QED BY <1>2, <1>7, <1>8, <1>9, <1>10, <1>11 DEF IInv

\* Inserting the first billing of an invoice preserves the invariant.
LEMMA SaveBillingInv ==
  ASSUME IInv, NEW r \in Requests, SaveBilling(r)
  PROVE  IInv'
<1> DEFINE i == inv[r]
<1>1. /\ pc[r] = "saveBilling" /\ tx[r] = EmptyTx /\ i \in Invoices
      /\ UNCHANGED <<invoices, payments, outbox, process, gatewayCalls, faults,
                     kind, inv, entity, loaded, tx, reply>>
  BY ClosedTx DEF IInv, TypeOK, SaveBilling, TxOpen, ReservedStatements
<1>2. CASE pc' = [pc EXCEPT ![r] = "markInvoiceCreated"]
           /\ UNCHANGED <<billings, att>>
  <2>1. TypeOK'
    BY <1>1, <1>2 DEF IInv, TypeOK, Steps, CreateSteps, process
  <2>2. OthersUnchanged(r) /\ ResultRowsUnchanged
    BY <1>1, <1>2 DEF IInv, TypeOK, OthersUnchanged, ResultRowsUnchanged
  <2>3. Shape(r)' /\ Link(r)'
    BY <1>1, <1>2, ClosedShape DEF IInv, TypeOK, Link, HasAttempt, LookupSteps,
                                   TxOpen, ReservedStatements
  <2> QED BY <1>1, <1>2, <2>1, <2>2, <2>3, QuietStep
<1>3. CASE /\ billings[i] = NoBilling
           /\ billings' = [billings EXCEPT ![i] = NewBilling]
           /\ att' = [att EXCEPT ![r] = NewBilling.attempt]
           /\ pc' = [pc EXCEPT ![r] = "appendBillingRequested"]
  <2>1. /\ billings'[i] = NewBilling /\ att'[r] = 1
        /\ pc'[r] = "appendBillingRequested"
        /\ \A j \in Invoices \ {i} : billings'[j] = billings[j]
        /\ billings[i].status = "None" /\ billings[i].attempt = 0
        /\ billings'[i].status = "Requested" /\ billings'[i].attempt = 1
    BY <1>1, <1>3 DEF IInv, TypeOK, NewBilling, NoBilling
  <2>2. TypeOK'
    BY <1>1, <1>3 DEF IInv, TypeOK, NewBilling, Billing, Steps, CreateSteps,
                      process
  <2>3. OthersUnchanged(r)
    BY <1>1, <1>3 DEF IInv, TypeOK, OthersUnchanged
  <2>4. Shape(r)'
    BY <1>1, <2>1, ClosedShape DEF TxOpen, ReservedStatements
  <2>5. Link(r)'
    BY <1>1, <2>1 DEF Link, HasAttempt, LookupSteps, ReservedStatements
  <2>6. \A s \in Requests : tx[s].payment # NoPayment => inv[s] # i
    <3> SUFFICES ASSUME NEW s \in Requests, tx[s].payment # NoPayment,
                        inv[s] = i
                 PROVE  FALSE
      OBVIOUS
    <3>1. billings[inv[s]] = [status |-> "Requested", attempt |-> att[s]]
      BY ReservedBilling
    <3>2. billings[i].status = "Requested"
      BY <3>1
    <3> QED BY <2>1, <3>2
  <2>7. ASSUME NEW s \in Requests PROVE Shape(s)'
    BY <2>3, <2>4, OtherShape DEF IInv
  <2>8. ASSUME NEW s \in Requests PROVE Link(s)'
    <3>1. CASE s = r
      BY <2>5, <3>1
    <3>2. CASE s # r
      <4>1. /\ Link(s) /\ inv[s] \in Invoices /\ pc'[s] = pc[s]
            /\ loaded'[s] = loaded[s] /\ att'[s] = att[s] /\ inv'[s] = inv[s]
        BY <2>3, <3>2 DEF IInv, TypeOK, OthersUnchanged
      <4>2. pc[s] \in {"updateBilling", "commitBilling"} \cup HasAttempt
              => inv[s] # i
        BY <2>1, <4>1 DEF Link
      <4>3. "markBilling" \in HasAttempt
        BY DEF HasAttempt, ReservedStatements
      <4> QED BY <1>1, <2>1, <4>1, <4>2, <4>3 DEF Link
    <3> QED BY <3>1, <3>2
  <2>9. LockExclusive'
    BY <1>1 DEF IInv, LockExclusive
  <2>10. ReservationExclusive'
    BY <1>1, <2>1, <2>3, <2>6
       DEF IInv, TypeOK, ReservationExclusive, OthersUnchanged, EmptyTx
  <2>11. \A p \in payments : p.inv # i
    BY <2>1 DEF IInv, TypeOK, AttemptLedger, Payment
  <2>12. AttemptLedger'
    <3>1. \A p \in payments : billings'[p.inv] = billings[p.inv]
      BY <2>1, <2>11 DEF IInv, TypeOK, Payment
    <3>2. \A j \in Invoices : \A a \in 1..billings'[j].attempt :
            a < billings'[j].attempt \/ billings'[j].status # "Requested"
              => \E p \in payments : p.inv = j /\ p.att = a
      <4> SUFFICES ASSUME NEW j \in Invoices, NEW a \in 1..billings'[j].attempt,
                          a < billings'[j].attempt
                            \/ billings'[j].status # "Requested"
                   PROVE  \E p \in payments : p.inv = j /\ p.att = a
        OBVIOUS
      <4>1. j # i
        BY <2>1
      <4> QED BY <2>1, <4>1 DEF IInv, AttemptLedger
    <3> QED BY <1>1, <3>1, <3>2 DEF IInv, AttemptLedger
  <2>13. SettlementTables'
    <3>1. \A j \in Invoices : Settled(j)' <=> Settled(j)
      BY <2>1 DEF Settled
    <3> QED BY <1>1, <3>1 DEF IInv, TypeOK, SettlementTables, EventRow
  <2> QED BY <2>2, <2>7, <2>8, <2>9, <2>10, <2>12, <2>13 DEF IInv
<1> QED BY <1>2, <1>3 DEF SaveBilling, Goto

-----------------------------------------------------------------------------
(* COMMIT                                                                   *)

\* COMMIT of a payment transaction, acknowledged or not: a lookup that found its
\* attempt wrote nothing; a charged attempt concludes the current attempt of a
\* billing nobody else can touch, and writes the three tables and the events.
LEMMA CommitPaymentInv ==
  ASSUME IInv, NEW r \in Requests, pc[r] = "commit", Apply(r),
         NEW next \in {"afterDispatch", "failBillingRequested", "done"},
         pc' = [pc EXCEPT ![r] = next],
         UNCHANGED <<process, gatewayCalls, locals>>,
         faults' \in 0..MaxFaults,
         reply' \in [Requests -> {"none", "201", "404", "409", "500", "lost"}]
  PROVE  IInv'
<1> DEFINE i == inv[r]
<1>1. /\ tx'[r] = EmptyTx /\ pc'[r] = next /\ i \in Invoices
      /\ inv' = inv /\ att' = att /\ entity' = entity /\ loaded' = loaded
      /\ kind' = kind
  BY DEF IInv, TypeOK, Apply, locals
<1>2. OthersUnchanged(r)
  BY <1>1 DEF IInv, TypeOK, Apply, OthersUnchanged
<1>3. Shape(r)'
  BY <1>1, ClosedShape DEF TxOpen, ReservedStatements
<1>4. ASSUME NEW s \in Requests PROVE Shape(s)'
  BY <1>2, <1>3, OtherShape DEF IInv
<1>5. pc' \in [Requests -> Steps] /\ tx' \in [Requests -> Transaction]
  BY EmptyTxType DEF IInv, TypeOK, Apply, Steps, CreateSteps
<1>6. LockExclusive'
  BY <1>1, <1>2 DEF IInv, OthersUnchanged, LockExclusive, EmptyTx
<1>7. att[r] \in 1..billings[i].attempt
  BY DEF IInv, Link, HasAttempt
<1>8. CASE tx[r] = EmptyTx
  <2>1. UNCHANGED <<invoices, billings, payments, outbox>>
    BY <1>8 DEF Apply, EmptyTx
  <2>2. TypeOK'
    BY <1>1, <1>5, <2>1 DEF IInv, TypeOK, process
  <2>3. Link(r)'
    BY <1>1, <1>7, <2>1 DEF Link, HasAttempt, LookupSteps, ReservedStatements
  <2>4. ResultRowsUnchanged
    BY <2>1 DEF ResultRowsUnchanged
  <2> QED BY <1>1, <1>2, <1>3, <2>1, <2>2, <2>3, <2>4, QuietStep DEF EmptyTx
<1>9. CASE tx[r] = FullTx(r) /\ Concluded(r)
  <2> DEFINE b == [status |-> entity[r].status, attempt |-> att[r]]
  <2>1. /\ entity[r] \in Payment /\ entity[r] # NoPayment
        /\ entity[r].inv = i /\ entity[r].att = att[r]
        /\ entity[r].status \in {"Approved", "Failed"}
    BY <1>9 DEF IInv, TypeOK, Concluded, OwnEntity
  <2>2. /\ tx[r].payment = entity[r] /\ tx[r].billing = b
        /\ tx[r].invoice = ResultInvoice(r)
        /\ tx[r].outbox = ResultRows(r, "processed")
    BY <1>9 DEF FullTx
  <2>3. /\ billings[i] = [status |-> "Requested", attempt |-> att[r]]
        /\ invoices[i] # "Paid"
    BY <2>1, <2>2, ReservedBilling
  <2>4. \A s \in Requests \ {r} :
          inv[s] = i => tx[s].payment = NoPayment /\ ~tx[s].locked
    BY <2>1, <2>2 DEF IInv, ReservationExclusive
  <2>5. att[r] \in Nat \ {0} /\ b \in Billing /\ b # NoBilling
    BY <1>7, <2>1, <2>3 DEF IInv, TypeOK, Billing, NoBilling
  <2>6. /\ payments' = payments \cup {entity[r]}
        /\ billings' = [billings EXCEPT ![i] = b]
    BY <2>1, <2>2, <2>5 DEF Apply
  <2>7. invoices' = IF entity[r].status = "Approved"
                      THEN [invoices EXCEPT ![i] = "Paid"] ELSE invoices
    BY <2>2 DEF Apply, ResultInvoice
  <2>8. outbox' = outbox \cup ResultRows(r, "processed")
    BY <2>2 DEF Apply
  <2>9. ResultRows(r, "processed") \subseteq EventRow
    BY EventType DEF IInv, ResultRows, EventNames
  <2>10. TypeOK'
    BY <1>1, <1>5, <2>1, <2>5, <2>6, <2>7, <2>8, <2>9 DEF IInv, TypeOK, process
  <2>11. /\ billings'[i] = b /\ b.status = entity[r].status
         /\ b.attempt = att[r]
         /\ \A j \in Invoices \ {i} : billings'[j] = billings[j]
         /\ \A j \in Invoices : billings'[j].attempt = billings[j].attempt
    BY <1>1, <2>3, <2>6 DEF IInv, TypeOK
  <2>12. \A j \in Invoices : invoices[j] # "None" => invoices'[j] # "None"
    BY <2>7 DEF IInv, TypeOK
  <2>13. ASSUME NEW s \in Requests PROVE Link(s)'
    <3>1. CASE s = r
      BY <1>1, <1>7, <2>11, <3>1
         DEF Link, HasAttempt, LookupSteps, ReservedStatements
    <3>2. CASE s # r
      <4>1. /\ Link(s) /\ Shape(s) /\ inv[s] \in Invoices /\ pc'[s] = pc[s]
            /\ loaded'[s] = loaded[s] /\ att'[s] = att[s] /\ inv'[s] = inv[s]
        BY <1>2, <3>2 DEF IInv, TypeOK, OthersUnchanged
      <4>2. pc[s] \in {"updateBilling", "commitBilling", "markBilling"}
              => inv[s] # i
        BY <2>4, <3>2, <4>1 DEF Shape, ReservedStatements
      <4> QED BY <2>11, <2>12, <4>1, <4>2 DEF Link
    <3> QED BY <3>1, <3>2
  <2>14. ReservationExclusive'
    <3>1. \A s \in Requests : tx'[s].payment # NoPayment =>
            s # r /\ inv[s] # i /\ tx'[s] = tx[s]
      BY <1>1, <1>2, <2>4 DEF OthersUnchanged, EmptyTx
    <3> QED BY <1>1, <1>2, <2>11, <3>1
          DEF IInv, TypeOK, ReservationExclusive, OthersUnchanged, EmptyTx
  <2>15. AttemptLedger'
    <3>1. \A p \in payments : p.inv = i => p.att < att[r] /\ p.status = "Failed"
      <4> SUFFICES ASSUME NEW p \in payments, p.inv = i
                   PROVE  p.att < att[r] /\ p.status = "Failed"
        OBVIOUS
      <4>1. p \in Payment /\ p.status # "Requested"
        BY DEF IInv, TypeOK, Payment
      <4>2. /\ billings[p.inv].status = "Requested"
            /\ billings[p.inv].attempt = att[r]
        BY <2>3
      <4> QED BY <4>1, <4>2 DEF IInv, AttemptLedger
    <3>2. \A p, q \in payments' :
            p.inv = q.inv /\ p.att = q.att => p = q
      <4>1. \A p \in payments : ~(p.inv = i /\ p.att = att[r])
        BY <2>5, <3>1
      <4> QED BY <2>1, <2>6, <4>1 DEF IInv, AttemptLedger
    <3>3. \A p \in payments' :
            \/ p.att < billings'[p.inv].attempt /\ p.status = "Failed"
            \/ /\ p.att = billings'[p.inv].attempt
               /\ p.status = billings'[p.inv].status
      <4> SUFFICES ASSUME NEW p \in payments'
                   PROVE \/ p.att < billings'[p.inv].attempt /\ p.status = "Failed"
                         \/ /\ p.att = billings'[p.inv].attempt
                            /\ p.status = billings'[p.inv].status
        OBVIOUS
      <4>1. CASE p = entity[r]
        BY <2>1, <2>11, <4>1
      <4>2. CASE p \in payments /\ p.inv = i
        BY <2>11, <3>1, <4>2
      <4>3. CASE p \in payments /\ p.inv # i
        <5>1. p.inv \in Invoices
          BY <4>3 DEF IInv, TypeOK, Payment
        <5> QED BY <2>11, <4>3, <5>1 DEF IInv, AttemptLedger
      <4> QED BY <2>6, <4>1, <4>2, <4>3
    <3>4. \A j \in Invoices : \A a \in 1..billings'[j].attempt :
            a < billings'[j].attempt \/ billings'[j].status # "Requested"
              => \E p \in payments' : p.inv = j /\ p.att = a
      <4> SUFFICES ASSUME NEW j \in Invoices, NEW a \in 1..billings'[j].attempt,
                          a < billings'[j].attempt
                            \/ billings'[j].status # "Requested"
                   PROVE  \E p \in payments' : p.inv = j /\ p.att = a
        OBVIOUS
      <4>1. CASE j = i /\ a = att[r]
        BY <2>1, <2>6, <4>1
      <4>2. CASE j # i \/ a # att[r]
        <5>1. a \in 1..billings[j].attempt
              /\ (a < billings[j].attempt \/ billings[j].status # "Requested")
          BY <2>5, <2>11, <4>2
        <5>2. \E p \in payments : p.inv = j /\ p.att = a
          BY <5>1 DEF IInv, AttemptLedger
        <5> QED BY <2>6, <5>2
      <4> QED BY <4>1, <4>2
    <3> QED BY <3>2, <3>3, <3>4 DEF AttemptLedger
  <2>16. SettlementTables'
    <3>1. \A j \in Invoices :
            Settled(j)' <=> IF j = i THEN entity[r].status = "Approved"
                                     ELSE Settled(j)
      BY <2>11 DEF Settled
    <3>2. \A j \in Invoices : Settled(j)' <=> invoices'[j] = "Paid"
      BY <1>1, <2>3, <2>7, <3>1 DEF IInv, TypeOK, SettlementTables
    <3>3. \A e \in ResultRows(r, "processed") :
            /\ e.inv = i /\ e.status = "processed"
            /\ e.name \in {"PaymentApproved", "InvoicePaid"}
                 => entity[r].status = "Approved"
      BY DEF ResultRows, Event
    <3>4. \A e \in outbox' :
            e.name \in {"PaymentApproved", "InvoicePaid"} =>
              e.status = "processed" /\ Settled(e.inv)'
      <4> SUFFICES ASSUME NEW e \in outbox',
                          e.name \in {"PaymentApproved", "InvoicePaid"}
                   PROVE  e.status = "processed" /\ Settled(e.inv)'
        OBVIOUS
      <4>1. CASE e \in ResultRows(r, "processed")
        BY <1>1, <3>1, <3>3, <4>1
      <4>2. CASE e \in outbox
        <5>1. e.inv \in Invoices /\ e.status = "processed" /\ Settled(e.inv)
          BY <4>2 DEF IInv, TypeOK, EventRow, SettlementTables
        <5>2. e.inv # i
          BY <2>3, <5>1 DEF Settled
        <5> QED BY <3>1, <5>1, <5>2
      <4> QED BY <2>8, <4>1, <4>2
    <3>5. \A j \in Invoices : \A name \in {"PaymentApproved", "InvoicePaid"} :
            Settled(j)' => \E e \in outbox' : e.inv = j /\ e.name = name
      <4> SUFFICES ASSUME NEW j \in Invoices,
                          NEW name \in {"PaymentApproved", "InvoicePaid"},
                          Settled(j)'
                   PROVE  \E e \in outbox' : e.inv = j /\ e.name = name
        OBVIOUS
      <4>1. CASE j = i
        <5>1. Event(r, name, "processed") \in ResultRows(r, "processed")
          BY <3>1, <4>1 DEF ResultRows
        <5>2. /\ Event(r, name, "processed").inv = i
              /\ Event(r, name, "processed").name = name
          BY DEF Event
        <5> QED BY <2>8, <4>1, <5>1, <5>2
      <4>2. CASE j # i
        <5>1. \E e \in outbox : e.inv = j /\ e.name = name
          BY <3>1, <4>2 DEF IInv, SettlementTables
        <5> QED BY <2>8, <5>1
      <4> QED BY <4>1, <4>2
    <3> QED BY <3>2, <3>4, <3>5 DEF SettlementTables
  <2> QED BY <1>4, <1>6, <2>10, <2>13, <2>14, <2>15, <2>16 DEF IInv
<1> QED BY <1>8, <1>9 DEF IInv, Shape

\* COMMIT of the transaction that reactivates a billing, acknowledged or not:
\* while the row was locked nobody could charge or reactivate it.
LEMMA CommitBillingTxInv ==
  ASSUME IInv, NEW r \in Requests, pc[r] = "commitBilling", Apply(r),
         NEW next \in {"findPayment", "failBillingRequested", "done"},
         pc' = [pc EXCEPT ![r] = next],
         att' = IF next = "findPayment"
                  THEN [att EXCEPT ![r] = loaded[r].attempt] ELSE att,
         UNCHANGED <<process, gatewayCalls, kind, inv, entity, loaded>>,
         faults' \in 0..MaxFaults,
         reply' \in [Requests -> {"none", "201", "404", "409", "500", "lost"}]
  PROVE  IInv'
<1> DEFINE i == inv[r]
           b == billings[i]
<1>1. tx'[r] = EmptyTx /\ pc'[r] = next /\ i \in Invoices
  BY DEF IInv, TypeOK, Apply
<1>2. OthersUnchanged(r)
  BY DEF IInv, TypeOK, Apply, OthersUnchanged
<1>3. Shape(r)'
  BY <1>1, ClosedShape DEF TxOpen, ReservedStatements, LookupSteps
<1>4. ASSUME NEW s \in Requests PROVE Shape(s)'
  BY <1>2, <1>3, OtherShape DEF IInv
<1>5. LockExclusive'
  BY <1>1, <1>2 DEF IInv, OthersUnchanged, LockExclusive, EmptyTx
<1>6. /\ tx[r].locked /\ tx[r].payment = NoPayment
      /\ tx[r].invoice = "None" /\ tx[r].outbox = {}
      /\ tx[r].billing = loaded[r] /\ loaded[r] = MarkRequested(b)
      /\ b.status \in {"Requested", "Failed"}
  BY DEF IInv, Shape, Link
<1>7. b \in Billing
  BY <1>1, <1>6 DEF IInv, TypeOK, NoBilling
<1>8. /\ MarkRequested(b) \in Billing /\ MarkRequested(b) # NoBilling
      /\ MarkRequested(b).status = "Requested"
      /\ \/ b.status = "Requested" /\ MarkRequested(b) = b
         \/ b.status = "Failed" /\ MarkRequested(b).attempt = b.attempt + 1
  BY <1>6, <1>7 DEF MarkRequested, Billing, NoBilling
<1>9. /\ billings' = [billings EXCEPT ![i] = MarkRequested(b)]
      /\ UNCHANGED <<invoices, payments, outbox>>
  BY <1>6, <1>8 DEF Apply
<1>10. TypeOK'
  <2>1. pc' \in [Requests -> Steps] /\ tx' \in [Requests -> Transaction]
    BY EmptyTxType DEF IInv, TypeOK, Apply, Steps, CreateSteps, TxStatements,
                       LookupSteps
  <2>2. att' \in [Requests -> Nat]
    BY <1>6, <1>8 DEF IInv, TypeOK, Billing
  <2> QED BY <1>8, <1>9, <2>1, <2>2 DEF IInv, TypeOK, process
<1>11. /\ billings'[i] = MarkRequested(b)
       /\ \A j \in Invoices \ {i} : billings'[j] = billings[j]
       /\ billings'[i].attempt \in Nat /\ b.attempt \in Nat \ {0}
       /\ b.attempt <= billings'[i].attempt
  BY <1>1, <1>7, <1>8, <1>9 DEF IInv, TypeOK, Billing
<1>12. \A s \in Requests \ {r} :
         inv[s] = i => tx[s].payment = NoPayment /\ ~tx[s].locked
  BY <1>6 DEF IInv, ReservationExclusive, LockExclusive
<1>13. ASSUME NEW s \in Requests PROVE Link(s)'
  <2>1. CASE s = r
    <3>1. next = "findPayment" => att'[r] = billings'[i].attempt
      BY <1>6, <1>11 DEF IInv, TypeOK
    <3>2. billings'[i].attempt \in 1..billings'[i].attempt
      BY <1>11
    <3> QED BY <1>1, <2>1, <3>1, <3>2
      DEF Link, HasAttempt, LookupSteps, ReservedStatements
  <2>2. CASE s # r
    <3>1. /\ Link(s) /\ Shape(s) /\ inv[s] \in Invoices /\ pc'[s] = pc[s]
          /\ loaded'[s] = loaded[s] /\ att'[s] = att[s] /\ inv'[s] = inv[s]
          /\ att[s] \in Nat
      BY <1>2, <2>2 DEF IInv, TypeOK, OthersUnchanged
    <3>2. pc[s] \in {"updateBilling", "commitBilling", "markBilling"}
            => inv[s] # i
      BY <1>12, <2>2, <3>1 DEF Shape, ReservedStatements
    <3>3. pc[s] \in HasAttempt => att[s] \in 1..billings'[inv[s]].attempt
      <4>1. CASE inv[s] = i
        BY <1>11, <3>1, <4>1 DEF Link
      <4>2. CASE inv[s] # i
        BY <1>11, <3>1, <4>2 DEF Link
      <4> QED BY <4>1, <4>2
    <3> QED BY <1>9, <1>11, <3>1, <3>2, <3>3 DEF Link
  <2> QED BY <2>1, <2>2
<1>14. ReservationExclusive'
  <2>1. \A s \in Requests : tx'[s].payment # NoPayment =>
          s # r /\ inv[s] # i /\ tx'[s] = tx[s]
    BY <1>1, <1>2, <1>12 DEF OthersUnchanged, EmptyTx
  <2> QED BY <1>1, <1>2, <1>11, <2>1
        DEF IInv, TypeOK, ReservationExclusive, OthersUnchanged, EmptyTx
<1>15. AttemptLedger'
  <2>1. ASSUME NEW p \in payments
        PROVE \/ p.att < billings'[p.inv].attempt /\ p.status = "Failed"
              \/ /\ p.att = billings'[p.inv].attempt
                 /\ p.status = billings'[p.inv].status
    <3>1. /\ p.inv \in Invoices /\ p.att \in Nat
          /\ \/ p.att < billings[p.inv].attempt /\ p.status = "Failed"
             \/ /\ p.att = billings[p.inv].attempt
                /\ p.status = billings[p.inv].status
      BY DEF IInv, TypeOK, Payment, AttemptLedger
    <3>2. CASE p.inv # i
      BY <1>11, <3>1, <3>2
    <3>3. CASE p.inv = i
      BY <1>8, <1>11, <3>1, <3>3
    <3> QED BY <3>2, <3>3
  <2>2. ASSUME NEW j \in Invoices, NEW a \in 1..billings'[j].attempt,
               a < billings'[j].attempt \/ billings'[j].status # "Requested"
        PROVE  \E p \in payments : p.inv = j /\ p.att = a
    <3>1. /\ a \in 1..billings[j].attempt
          /\ a < billings[j].attempt \/ billings[j].status # "Requested"
      <4>1. CASE j # i
        BY <1>11, <2>2, <4>1
      <4>2. CASE j = i
        BY <1>8, <1>11, <2>2, <4>2
      <4> QED BY <4>1, <4>2
    <3> QED BY <3>1 DEF IInv, AttemptLedger
  <2> QED BY <1>9, <2>1, <2>2 DEF IInv, AttemptLedger
<1>16. SettlementTables'
  <2>1. \A j \in Invoices : Settled(j)' <=> Settled(j)
    BY <1>6, <1>8, <1>11 DEF Settled
  <2> QED BY <1>9, <2>1 DEF IInv, TypeOK, SettlementTables, EventRow
<1> QED BY <1>4, <1>5, <1>10, <1>13, <1>14, <1>15, <1>16 DEF IInv

\* Commit, CommitBilling and CommitUnacknowledged are instances of the two.
LEMMA CommitInv ==
  ASSUME IInv, NEW r \in Requests, Commit(r)
  PROVE  IInv'
<1> DEFINE next == IF kind[r] = "create" THEN "afterDispatch" ELSE "done"
<1>1. /\ pc[r] = "commit" /\ Apply(r) /\ pc' = [pc EXCEPT ![r] = next]
      /\ UNCHANGED <<process, gatewayCalls, locals>>
  BY DEF Commit, Goto
<1>2. /\ faults' \in 0..MaxFaults
      /\ reply' \in [Requests -> {"none", "201", "404", "409", "500", "lost"}]
  BY DEF IInv, TypeOK, Commit, Answer
<1>3. next \in {"afterDispatch", "failBillingRequested", "done"}
  OBVIOUS
<1> HIDE DEF next
<1> QED BY <1>1, <1>2, <1>3, CommitPaymentInv

\* The snapshot of CommitBilling takes the attempt into the request.
LEMMA CommitBillingInv ==
  ASSUME IInv, NEW r \in Requests, CommitBilling(r)
  PROVE  IInv'
<1>1. /\ pc[r] = "commitBilling" /\ Apply(r)
      /\ pc' = [pc EXCEPT ![r] = "findPayment"]
      /\ att' = [att EXCEPT ![r] = loaded[r].attempt]
      /\ UNCHANGED <<process, gatewayCalls, kind, inv, entity, loaded>>
  BY DEF CommitBilling, Goto
<1>2. /\ faults' \in 0..MaxFaults
      /\ reply' \in [Requests -> {"none", "201", "404", "409", "500", "lost"}]
  BY DEF IInv, TypeOK, CommitBilling
<1> QED BY <1>1, <1>2, CommitBillingTxInv

\* A COMMIT whose acknowledgement is lost writes the same.
LEMMA CommitUnacknowledgedInv ==
  ASSUME IInv, NEW r \in Requests, CommitUnacknowledged(r)
  PROVE  IInv'
<1> DEFINE next == AfterError(r)
<1>1. /\ pc[r] \in {"commit", "commitBilling"} /\ Apply(r)
      /\ pc' = [pc EXCEPT ![r] = next]
      /\ UNCHANGED <<process, gatewayCalls, locals>>
  BY DEF CommitUnacknowledged, Goto
<1>2. /\ faults' \in 0..MaxFaults
      /\ reply' \in [Requests -> {"none", "201", "404", "409", "500", "lost"}]
  BY ConstantsAssumption
     DEF ConstantsAssumption, IInv, TypeOK, CommitUnacknowledged, CanFault, Answer
<1>3. next \in {"failBillingRequested", "done"}
  BY DEF AfterError
<1> HIDE DEF next
<1>4. CASE pc[r] = "commit"
  BY <1>1, <1>2, <1>3, <1>4, CommitPaymentInv
<1>5. CASE pc[r] = "commitBilling"
  <2>1. att' = att /\ UNCHANGED <<kind, inv, entity, loaded>>
    BY <1>1 DEF locals
  <2>2. next # "findPayment"
    BY <1>3
  <2> QED BY <1>1, <1>2, <1>3, <1>5, <2>1, <2>2, CommitBillingTxInv
<1> QED BY <1>1, <1>4, <1>5

-----------------------------------------------------------------------------
(* The process                                                              *)

\* A restart drops every open transaction and leaves the tables alone.
LEMMA RestartInv ==
  ASSUME IInv, Restart
  PROVE  IInv'
<1>1. /\ \A r \in Requests :
           pc'[r] \in {"idle", "done"} /\ tx'[r] = EmptyTx
      /\ UNCHANGED <<invoices, billings, payments, outbox>>
  BY DEF IInv, TypeOK, Restart, InFlight, tables
<1>2. TypeOK'
  <2>1. faults' \in 0..MaxFaults
    BY ConstantsAssumption
       DEF ConstantsAssumption, IInv, TypeOK, Restart, CanFault
  <2>2. pc' \in [Requests -> Steps] /\ tx' \in [Requests -> Transaction]
    BY EmptyTxType DEF IInv, TypeOK, Restart, Steps
  <2>3. reply' \in [Requests -> {"none", "201", "404", "409", "500", "lost"}]
    BY DEF IInv, TypeOK, Restart
  <2> QED BY <2>1, <2>2, <2>3 DEF IInv, TypeOK, Restart, tables, locals
<1>3. ASSUME NEW r \in Requests PROVE Shape(r)'
  BY <1>1, ClosedShape DEF TxOpen, ReservedStatements
<1>4. ASSUME NEW r \in Requests PROVE Link(r)'
  BY <1>1 DEF Link, HasAttempt, LookupSteps, ReservedStatements
<1>5. LockExclusive' /\ ReservationExclusive'
  BY <1>1 DEF LockExclusive, ReservationExclusive, EmptyTx
<1>6. AttemptLedger' /\ SettlementTables'
  BY <1>1 DEF IInv, AttemptLedger, SettlementTables, Settled
<1> QED BY <1>2, <1>3, <1>4, <1>5, <1>6 DEF IInv

\* A step that changes nothing.
LEMMA StutterInv ==
  ASSUME IInv, UNCHANGED vars
  PROVE  IInv'
<1>1. /\ UNCHANGED <<invoices, billings, payments, outbox, profile, triggered>>
      /\ UNCHANGED <<gatewayCalls, faults, pc, kind, inv, att, entity, loaded>>
      /\ UNCHANGED <<tx, reply>>
  BY DEF vars, tables, process, locals
<1>2. TypeOK'
  BY <1>1 DEF IInv, TypeOK
<1>3. ASSUME NEW r \in Requests PROVE Shape(r)'
  BY <1>1, SameMemory DEF IInv, Shape
<1>4. ASSUME NEW r \in Requests PROVE Link(r)'
  BY <1>1 DEF IInv, Link
<1>5. LockExclusive' /\ ReservationExclusive'
  BY <1>1 DEF IInv, LockExclusive, ReservationExclusive
<1>6. AttemptLedger' /\ SettlementTables'
  BY <1>1 DEF IInv, AttemptLedger, SettlementTables, Settled
<1> QED BY <1>2, <1>3, <1>4, <1>5, <1>6 DEF IInv

\* The process starts with empty tables and no request in flight.
LEMMA InitIInv == Init => IInv
<1> SUFFICES ASSUME Init PROVE IInv
  OBVIOUS
<1>1. TypeOK
  <2>1. (CHOOSE i \in Invoices : TRUE) \in Invoices
    BY ConstantsAssumption DEF ConstantsAssumption
  <2>2. profile \in FaultProfiles /\ faults \in 0..MaxFaults
    BY ConstantsAssumption DEF ConstantsAssumption, Init
  <2> QED BY <2>1, <2>2, EmptyTxType DEF Init, TypeOK, Steps
<1>2. \A r \in Requests : pc[r] = "idle" /\ tx[r] = EmptyTx
  BY DEF Init
<1>3. ASSUME NEW r \in Requests PROVE Shape(r) /\ Link(r)
  <2>1. pc[r] = "idle" /\ tx[r] = EmptyTx
    BY <1>2
  <2>2. Shape(r)
    BY <2>1 DEF Shape, TxOpen, ReservedStatements, EmptyTx
  <2>3. Link(r)
    BY <2>1 DEF Link, HasAttempt, LookupSteps, ReservedStatements
  <2> QED BY <2>2, <2>3
<1>4. LockExclusive /\ ReservationExclusive
  BY <1>2 DEF LockExclusive, ReservationExclusive, EmptyTx
<1>5. AttemptLedger /\ SettlementTables
  BY DEF Init, AttemptLedger, SettlementTables, Settled, NoBilling
<1> QED BY <1>1, <1>3, <1>4, <1>5 DEF IInv

\* Every step of a request the server executes preserves the invariant.
LEMMA StepInv ==
  ASSUME IInv, NEW r \in Requests, Step(r)
  PROVE  IInv'
<1>1. CASE AppendInvoiceCreated(r) BY <1>1, AppendInvoiceCreatedInv
<1>2. CASE FindBilling(r) BY <1>2, FindBillingInv
<1>3. CASE SaveBilling(r) BY <1>3, SaveBillingInv
<1>4. CASE AppendBillingRequested(r) BY <1>4, AppendBillingRequestedInv
<1>5. CASE DispatchBillingRequested(r) BY <1>5, DispatchBillingRequestedInv
<1>6. CASE LockBilling(r) BY <1>6, LockBillingInv
<1>7. CASE UpdateBilling(r) BY <1>7, UpdateBillingInv
<1>8. CASE CommitBilling(r) BY <1>8, CommitBillingInv
<1>9. CASE FindPayment(r) BY <1>9, FindPaymentInv
<1>10. CASE CheckApproved(r) BY <1>10, CheckApprovedInv
<1>11. CASE InsertPayment(r) BY <1>11, InsertPaymentInv
<1>12. CASE CallGateway(r) BY <1>12, CallGatewayInv
<1>13. CASE UpdatePayment(r) BY <1>13, UpdatePaymentInv
<1>14. CASE AppendResult(r) BY <1>14, AppendResultInv
<1>15. CASE GetInvoice(r) BY <1>15, GetInvoiceInv
<1>16. CASE UpdateInvoice(r) BY <1>16, UpdateInvoiceInv
<1>17. CASE AppendInvoicePaid(r) BY <1>17, AppendInvoicePaidInv
<1>18. CASE MarkInvoicePaid(r) BY <1>18, MarkInvoicePaidInv
<1>19. CASE GetBilling(r) BY <1>19, GetBillingInv
<1>20. CASE MarkBilling(r) BY <1>20, MarkBillingInv
<1>21. CASE MarkResult(r) BY <1>21, MarkResultInv
<1>22. CASE Commit(r) BY <1>22, CommitInv
<1>23. CASE Rollback(r) BY <1>23, RollbackInv
<1>24. CASE AfterDispatch(r) BY <1>24, AfterDispatchInv
<1>25. CASE MarkBillingRequested(r) BY <1>25, MarkBillingRequestedInv
<1>26. CASE MarkInvoiceCreated(r) BY <1>26, MarkInvoiceCreatedInv
<1>27. CASE FailBillingRequested(r) BY <1>27, FailBillingRequestedInv
<1>28. CASE FailInvoiceCreated(r) BY <1>28, FailInvoiceCreatedInv
<1> QED
  BY <1>1, <1>2, <1>3, <1>4, <1>5, <1>6, <1>7, <1>8, <1>9, <1>10, <1>11, <1>12,
     <1>13, <1>14, <1>15, <1>16, <1>17, <1>18, <1>19, <1>20, <1>21, <1>22,
     <1>23, <1>24, <1>25, <1>26, <1>27, <1>28 DEF Step

\* So does every step of the system.
LEMMA NextIInv == IInv /\ [Next]_vars => IInv'
<1> SUFFICES ASSUME IInv, [Next]_vars PROVE IInv'
  OBVIOUS
<1>1. ASSUME NEW r \in Requests, Arrive(r) PROVE IInv'
  BY <1>1, CreateInvoiceInv, ProcessPaymentInv DEF Arrive
<1>2. ASSUME NEW r \in Requests, Step(r) PROVE IInv'
  BY <1>2, StepInv
<1>3. ASSUME NEW r \in Requests, Fault(r) PROVE IInv'
  BY <1>3, StatementFailsInv, CommitUnacknowledgedInv, DisconnectInv DEF Fault
<1>4. CASE Restart
  BY <1>4, RestartInv
<1>5. CASE Quiescent
  BY <1>5, StutterInv DEF Quiescent
<1>6. CASE UNCHANGED vars
  BY <1>6, StutterInv
<1> QED BY <1>1, <1>2, <1>3, <1>4, <1>5, <1>6 DEF Next

-----------------------------------------------------------------------------
(* The theorems                                                             *)

\* The inductive invariant holds in every reachable state.
THEOREM InductiveInvariant == Spec => []IInv
<1>1. Init => IInv
  BY InitIInv
<1>2. IInv /\ [Next]_vars => IInv'
  BY NextIInv
<1> QED BY <1>1, <1>2, PTL DEF Spec

\* Every variable keeps its type, whatever the requests and the faults do.
THEOREM TypeCorrect == Spec => []TypeOK
<1>1. IInv => TypeOK
  BY DEF IInv
<1> QED BY <1>1, InductiveInvariant, PTL

\* The committed payments of a billing are its attempts, each concluded once,
\* without gap or duplicate, under every interleaving of automatic charges and
\* retries and whatever statement, acknowledgement, client or process fails.
THEOREM AttemptLedgerHolds == Spec => []AttemptLedger
<1>1. IInv => AttemptLedger
  BY DEF IInv
<1> QED BY <1>1, InductiveInvariant, PTL

\* At most one request is between its reservation and its COMMIT for an invoice,
\* and the billing is meanwhile Requested at that attempt: the unlocked reads of
\* MarkBillingApproved and MarkBillingFailed are never stale when written back.
THEOREM ReservationExclusiveHolds == Spec => []ReservationExclusive
<1>1. IInv => ReservationExclusive
  BY DEF IInv
<1> QED BY <1>1, InductiveInvariant, PTL

\* Payment, billing, invoice and events settle in the same COMMIT.
THEOREM SettledTogetherHolds == Spec => []SettledTogether
<1>1. IInv => SettledTogether
  <2> SUFFICES ASSUME IInv, NEW i \in Invoices
               PROVE  /\ Settled(i) <=> invoices[i] = "Paid"
                      /\ Settled(i) <=> HasApproved(i)
                      /\ \A name \in {"PaymentApproved", "InvoicePaid"} :
                           Settled(i) <=>
                             \E e \in outbox : /\ e.inv = i /\ e.name = name
                                               /\ e.status = "processed"
    BY DEF SettledTogether
  <2>1. Settled(i) <=> invoices[i] = "Paid"
    BY DEF IInv, SettlementTables
  <2>2. HasApproved(i) => Settled(i)
    BY DEF IInv, AttemptLedger, HasApproved, Settled
  <2>3. Settled(i) => HasApproved(i)
    <3> SUFFICES ASSUME Settled(i) PROVE HasApproved(i)
      OBVIOUS
    <3>1. /\ billings[i].attempt \in 1..billings[i].attempt
          /\ billings[i].attempt \in Nat
          /\ billings[i].status = "Approved"
      BY DEF IInv, TypeOK, Billing, NoBilling, Settled
    <3>2. PICK p \in payments : p.inv = i /\ p.att = billings[i].attempt
      BY <3>1 DEF IInv, AttemptLedger
    <3>3. p.status = "Approved"
      BY <3>1, <3>2 DEF IInv, AttemptLedger
    <3> QED BY <3>2, <3>3 DEF HasApproved
  <2>4. ASSUME NEW name \in {"PaymentApproved", "InvoicePaid"}
        PROVE  Settled(i) <=> \E e \in outbox : /\ e.inv = i /\ e.name = name
                                                /\ e.status = "processed"
    BY DEF IInv, SettlementTables
  <2> QED BY <2>1, <2>2, <2>3, <2>4
<1> QED BY <1>1, InductiveInvariant, PTL

-----------------------------------------------------------------------------
(* The five things a step can do to invoices, billings and payments         *)

TablesUnchanged == UNCHANGED <<invoices, billings, payments>>

InvoiceIssued(i) ==
  /\ invoices[i] = "None"
  /\ invoices' = [invoices EXCEPT ![i] = "Pending"]
  /\ UNCHANGED <<billings, payments>>

BillingSaved(i) ==
  /\ invoices[i] = "Pending"
  /\ billings[i] = NoBilling
  /\ billings' = [billings EXCEPT ![i] = NewBilling]
  /\ UNCHANGED <<invoices, payments>>

AttemptConcluded(i, p) ==
  /\ billings[i] = [status |-> "Requested", attempt |-> p.att]
  /\ p \in Payment /\ p.inv = i /\ p.status \in {"Approved", "Failed"}
  /\ payments' = payments \cup {p}
  /\ billings' = [billings EXCEPT ![i] = [status |-> p.status, attempt |-> p.att]]
  /\ invoices' = IF p.status = "Approved"
                   THEN [invoices EXCEPT ![i] = "Paid"]
                   ELSE invoices

BillingReactivated(i) ==
  /\ billings[i] \in Billing
  /\ billings[i].status = "Failed"
  /\ billings' = [billings EXCEPT ![i] = MarkRequested(billings[i])]
  /\ UNCHANGED <<invoices, payments>>

TableStep ==
  \/ TablesUnchanged
  \/ \E i \in Invoices :
       \/ InvoiceIssued(i)
       \/ BillingSaved(i)
       \/ \E p \in Payment : AttemptConcluded(i, p)
       \/ BillingReactivated(i)

\* COMMIT of the payment transaction concludes the attempt, or writes nothing
\* when the attempt was found concluded.
LEMMA CommitWrites ==
  ASSUME IInv, NEW r \in Requests, pc[r] = "commit", Apply(r)
  PROVE  TableStep
<1>1. CASE tx[r] = EmptyTx
  BY <1>1 DEF Apply, EmptyTx, TableStep, TablesUnchanged
<1>2. CASE tx[r] # EmptyTx
  <2>1. tx[r] = FullTx(r) /\ Concluded(r)
    BY <1>2 DEF IInv, Shape
  <2>2. /\ entity[r] \in Payment /\ entity[r] # NoPayment
        /\ entity[r].inv = inv[r] /\ entity[r].att = att[r]
        /\ entity[r].status \in {"Approved", "Failed"}
        /\ inv[r] \in Invoices
    BY <2>1 DEF Concluded, OwnEntity, IInv, TypeOK
  <2>3. /\ tx[r].payment = entity[r]
        /\ tx[r].billing = [status |-> entity[r].status, attempt |-> att[r]]
        /\ tx[r].billing # NoBilling
        /\ tx[r].invoice = ResultInvoice(r)
    BY <2>1, <2>2 DEF FullTx, NoBilling
  <2>4. billings[inv[r]] = [status |-> "Requested", attempt |-> entity[r].att]
    BY <2>2, <2>3, ReservedBilling
  <2>5. invoices' = IF entity[r].status = "Approved"
                      THEN [invoices EXCEPT ![inv[r]] = "Paid"]
                      ELSE invoices
    BY <2>3 DEF Apply, ResultInvoice
  <2>6. /\ payments' = payments \cup {entity[r]}
        /\ billings' = [billings EXCEPT ![inv[r]] =
                          [status |-> entity[r].status, attempt |-> entity[r].att]]
    BY <2>2, <2>3 DEF Apply
  <2> QED BY <2>2, <2>4, <2>5, <2>6 DEF TableStep, AttemptConcluded
<1> QED BY <1>1, <1>2

\* COMMIT of the billing's transaction writes the next attempt of a failed
\* billing and leaves one that is still Requested as it is.
LEMMA CommitBillingWrites ==
  ASSUME IInv, NEW r \in Requests, pc[r] = "commitBilling", Apply(r)
  PROVE  TableStep
<1>1. /\ tx[r].payment = NoPayment /\ tx[r].invoice = "None"
      /\ tx[r].billing = loaded[r]
      /\ loaded[r] = MarkRequested(billings[inv[r]])
      /\ billings[inv[r]].status \in {"Requested", "Failed"}
      /\ inv[r] \in Invoices
      /\ billings \in [Invoices -> Billing \cup {NoBilling}]
  <2>1. TypeOK /\ Shape(r) /\ Link(r)
    BY DEF IInv
  <2>2. inv[r] \in Invoices /\ billings \in [Invoices -> Billing \cup {NoBilling}]
    BY <2>1 DEF TypeOK
  <2>3. /\ tx[r].payment = NoPayment /\ tx[r].invoice = "None"
        /\ tx[r].billing = loaded[r]
    BY <2>1 DEF Shape
  <2>4. /\ loaded[r] = MarkRequested(billings[inv[r]])
        /\ billings[inv[r]].status \in {"Requested", "Failed"}
    BY <2>1 DEF Link
  <2> QED BY <2>2, <2>3, <2>4
<1>2. billings[inv[r]] \in Billing /\ loaded[r] # NoBilling
  BY <1>1 DEF NoBilling, Billing, MarkRequested
<1>3. /\ UNCHANGED <<invoices, payments>>
      /\ billings' = [billings EXCEPT ![inv[r]] = MarkRequested(billings[inv[r]])]
  BY <1>1, <1>2 DEF Apply
<1>4. CASE billings[inv[r]].status = "Failed"
  BY <1>1, <1>2, <1>3, <1>4 DEF TableStep, BillingReactivated
<1>5. CASE billings[inv[r]].status = "Requested"
  <2>1. billings' = billings
    BY <1>1, <1>3, <1>5 DEF MarkRequested
  <2> QED BY <1>3, <2>1 DEF TableStep, TablesUnchanged
<1> QED BY <1>1, <1>4, <1>5

\* A fresh invoice is inserted as Pending.
LEMMA CreateInvoiceWrites ==
  ASSUME IInv, NEW r \in Requests, NEW i \in Invoices, CreateInvoice(r, i)
  PROVE  TableStep
BY DEF CreateInvoice, TableStep, InvoiceIssued

\* The billing of a pending invoice is inserted once.
LEMMA SaveBillingWrites ==
  ASSUME IInv, NEW r \in Requests, SaveBilling(r)
  PROVE  TableStep
<1>1. inv[r] \in Invoices /\ invoices[inv[r]] \in {"Pending", "Paid"}
  BY DEF IInv, TypeOK, Link, SaveBilling
<1>2. CASE billings[inv[r]] = NoBilling
  <2>1. invoices[inv[r]] = "Pending"
    BY <1>1, <1>2 DEF IInv, SettlementTables, Settled, NoBilling
  <2> QED BY <1>1, <1>2, <2>1 DEF SaveBilling, TableStep, BillingSaved
<1>3. CASE billings[inv[r]] # NoBilling
  BY <1>3 DEF SaveBilling, TableStep, TablesUnchanged
<1> QED BY <1>2, <1>3

\* Every step of a request does one of the five.
LEMMA StepWrites ==
  ASSUME IInv, NEW r \in Requests, Step(r)
  PROVE  TableStep
<1>1. CASE AppendInvoiceCreated(r) \/ AppendBillingRequested(r)
  BY <1>1 DEF AppendInvoiceCreated, AppendBillingRequested, AppendRecord,
              TableStep, TablesUnchanged
<1>2. CASE \/ MarkBillingRequested(r) \/ MarkInvoiceCreated(r)
           \/ FailBillingRequested(r) \/ FailInvoiceCreated(r)
  BY <1>2 DEF MarkBillingRequested, MarkInvoiceCreated, FailBillingRequested,
              FailInvoiceCreated, MarkRecord, TableStep, TablesUnchanged
<1>3. CASE \/ FindBilling(r) \/ DispatchBillingRequested(r) \/ LockBilling(r)
           \/ UpdateBilling(r) \/ FindPayment(r) \/ CheckApproved(r)
           \/ InsertPayment(r) \/ CallGateway(r) \/ UpdatePayment(r)
  BY <1>3 DEF FindBilling, DispatchBillingRequested, LockBilling, UpdateBilling,
              FindPayment, CheckApproved, InsertPayment, CallGateway,
              UpdatePayment, tables, TableStep, TablesUnchanged
<1>4. CASE \/ AppendResult(r) \/ GetInvoice(r) \/ UpdateInvoice(r)
           \/ AppendInvoicePaid(r) \/ MarkInvoicePaid(r) \/ GetBilling(r)
           \/ MarkBilling(r) \/ MarkResult(r) \/ Rollback(r) \/ AfterDispatch(r)
  BY <1>4 DEF AppendResult, GetInvoice, UpdateInvoice, AppendInvoicePaid,
              MarkInvoicePaid, GetBilling, MarkBilling, MarkResult, Rollback,
              AfterDispatch, AppendInTx, MarkInTx, tables, TableStep,
              TablesUnchanged
<1>5. CASE Commit(r)
  BY <1>5, CommitWrites DEF Commit
<1>6. CASE CommitBilling(r)
  BY <1>6, CommitBillingWrites DEF CommitBilling
<1>7. CASE SaveBilling(r)
  BY <1>7, SaveBillingWrites
<1> QED BY <1>1, <1>2, <1>3, <1>4, <1>5, <1>6, <1>7 DEF Step

\* So does every step of the system.
LEMMA NextWrites ==
  ASSUME IInv, [Next]_vars
  PROVE  TableStep
<1>1. ASSUME NEW r \in Requests, Arrive(r) PROVE TableStep
  BY <1>1, CreateInvoiceWrites
     DEF Arrive, ProcessPayment, tables, TableStep, TablesUnchanged
<1>2. ASSUME NEW r \in Requests, Step(r) PROVE TableStep
  BY <1>2, StepWrites
<1>3. ASSUME NEW r \in Requests, Fault(r) PROVE TableStep
  <2>1. CASE CommitUnacknowledged(r)
    BY <2>1, CommitWrites, CommitBillingWrites DEF CommitUnacknowledged
  <2>2. CASE StatementFails(r) \/ Disconnect(r)
    BY <2>2 DEF StatementFails, Disconnect, tables, TableStep, TablesUnchanged
  <2> QED BY <1>3, <2>1, <2>2 DEF Fault
<1>4. CASE Restart
  BY <1>4 DEF Restart, tables, TableStep, TablesUnchanged
<1>5. CASE Quiescent \/ UNCHANGED vars
  BY <1>5 DEF Quiescent, vars, tables, TableStep, TablesUnchanged
<1> QED BY <1>1, <1>2, <1>3, <1>4, <1>5 DEF Next

-----------------------------------------------------------------------------
(* History                                                                  *)

\* Rows of the outbox that are no longer pending stay.
OutboxKept == \A e \in outbox : e.status # "pending" => e \in outbox'

\* An append adds a row, a mark replaces a pending one, a COMMIT adds rows.
LEMMA NextKeepsOutbox ==
  ASSUME [Next]_vars
  PROVE  OutboxKept
<1>1. ASSUME NEW r \in Requests, Arrive(r) PROVE OutboxKept
  BY <1>1 DEF Arrive, CreateInvoice, ProcessPayment, tables, OutboxKept
<1>2. ASSUME NEW r \in Requests, Fault(r) PROVE OutboxKept
  BY <1>2 DEF Fault, StatementFails, CommitUnacknowledged, Apply, Disconnect,
              tables, OutboxKept
<1>3. ASSUME NEW r \in Requests, Step(r) PROVE OutboxKept
  <2>1. CASE AppendInvoiceCreated(r) \/ AppendBillingRequested(r)
    BY <2>1 DEF AppendInvoiceCreated, AppendBillingRequested, AppendRecord,
                OutboxKept
  <2>2. CASE \/ MarkBillingRequested(r) \/ MarkInvoiceCreated(r)
             \/ FailBillingRequested(r) \/ FailInvoiceCreated(r)
    BY <2>2 DEF MarkBillingRequested, MarkInvoiceCreated, FailBillingRequested,
                FailInvoiceCreated, MarkRecord, Marked, Event, OutboxKept
  <2>3. CASE \/ FindBilling(r) \/ DispatchBillingRequested(r) \/ LockBilling(r)
             \/ UpdateBilling(r) \/ FindPayment(r) \/ CheckApproved(r)
             \/ InsertPayment(r) \/ CallGateway(r) \/ UpdatePayment(r)
             \/ SaveBilling(r)
    BY <2>3 DEF FindBilling, DispatchBillingRequested, LockBilling, UpdateBilling,
                FindPayment, CheckApproved, InsertPayment, CallGateway,
                UpdatePayment, SaveBilling, tables, OutboxKept
  <2>4. CASE \/ AppendResult(r) \/ GetInvoice(r) \/ UpdateInvoice(r)
             \/ AppendInvoicePaid(r) \/ MarkInvoicePaid(r) \/ GetBilling(r)
             \/ MarkBilling(r) \/ MarkResult(r) \/ Rollback(r)
             \/ AfterDispatch(r)
    BY <2>4 DEF AppendResult, GetInvoice, UpdateInvoice, AppendInvoicePaid,
                MarkInvoicePaid, GetBilling, MarkBilling, MarkResult, Rollback,
                AfterDispatch, AppendInTx, MarkInTx, tables, OutboxKept
  <2>5. CASE Commit(r) \/ CommitBilling(r)
    BY <2>5 DEF Commit, CommitBilling, Apply, OutboxKept
  <2> QED BY <1>3, <2>1, <2>2, <2>3, <2>4, <2>5 DEF Step
<1>4. CASE Restart \/ Quiescent \/ UNCHANGED vars
  BY <1>4 DEF Restart, Quiescent, vars, tables, OutboxKept
<1> QED BY <1>1, <1>2, <1>3, <1>4 DEF Next

\* Committed history is never rewritten: no step of a request, a fault or a
\* restart changes a payment, an event that is no longer pending or a Paid
\* invoice, and a billing only ever moves from a Failed attempt to the next.
THEOREM HistoryAppendOnlyHolds == Spec => HistoryAppendOnly
<1> DEFINE Kept ==
      /\ payments \subseteq payments'
      /\ \A e \in outbox : e.status # "pending" => e \in outbox'
      /\ \A i \in Invoices :
           /\ invoices[i] = "Paid" => invoices'[i] = "Paid"
           /\ \/ billings'[i].attempt = billings[i].attempt
              \/ billings[i] = NoBilling
              \/ /\ billings[i].status = "Failed"
                 /\ billings'[i].attempt = billings[i].attempt + 1
<1>1. ASSUME IInv, [Next]_vars PROVE Kept
  <2>1. \A e \in outbox : e.status # "pending" => e \in outbox'
    BY <1>1, NextKeepsOutbox DEF OutboxKept
  <2>2. /\ payments \subseteq payments'
        /\ \A i \in Invoices :
             /\ invoices[i] = "Paid" => invoices'[i] = "Paid"
             /\ \/ billings'[i].attempt = billings[i].attempt
                \/ billings[i] = NoBilling
                \/ /\ billings[i].status = "Failed"
                   /\ billings'[i].attempt = billings[i].attempt + 1
    <3>1. /\ TableStep
          /\ invoices \in [Invoices -> {"None", "Pending", "Paid"}]
          /\ billings \in [Invoices -> Billing \cup {NoBilling}]
      BY <1>1, NextWrites DEF IInv, TypeOK
    <3>2. CASE TablesUnchanged
      BY <3>2 DEF TablesUnchanged
    <3>3. ASSUME NEW i \in Invoices, InvoiceIssued(i) \/ BillingSaved(i)
          PROVE  <2>2!1 /\ <2>2!2
      BY <3>1, <3>3 DEF InvoiceIssued, BillingSaved
    <3>4. ASSUME NEW i \in Invoices, NEW p \in Payment, AttemptConcluded(i, p)
          PROVE  <2>2!1 /\ <2>2!2
      BY <3>1, <3>4 DEF AttemptConcluded
    <3>5. ASSUME NEW i \in Invoices, BillingReactivated(i)
          PROVE  <2>2!1 /\ <2>2!2
      BY <3>1, <3>5 DEF BillingReactivated, MarkRequested
    <3> QED BY <3>1, <3>2, <3>3, <3>4, <3>5 DEF TableStep
  <2> QED BY <2>1, <2>2
<1>2. IInv /\ [Next]_vars => [Kept]_vars
  BY <1>1
<1> QED BY <1>2, InductiveInvariant, PTL DEF Spec, HistoryAppendOnly

-----------------------------------------------------------------------------
(* Refinement                                                               *)

\* The concluded attempts as Settlement sees them.
Entry(p) == [inv |-> p.inv, att |-> p.att, status |-> p.status]
Entries == {Entry(p) : p \in payments}

\* A step of the system is a step of Settlement, or changes none of its tables.
LEMMA NextRefines ==
  ASSUME IInv, [Next]_vars
  PROVE  [Ledger!Next]_(Ledger!ledgerVars)
<1>1. /\ TableStep
      /\ invoices \in [Invoices -> {"None", "Pending", "Paid"}]
      /\ billings \in [Invoices -> Billing \cup {NoBilling}]
  BY NextWrites DEF IInv, TypeOK
<1>2. CASE TablesUnchanged
  BY <1>2 DEF TablesUnchanged, Ledger!ledgerVars
<1>3. ASSUME NEW i \in Invoices, InvoiceIssued(i) PROVE Ledger!Next
  BY <1>3 DEF InvoiceIssued, Ledger!Issue, Ledger!Next
<1>4. ASSUME NEW i \in Invoices, BillingSaved(i) PROVE Ledger!Next
  BY <1>4 DEF BillingSaved, NoBilling, NewBilling, Ledger!Bill,
              Ledger!Unbilled, Ledger!RequestedAt, Ledger!Next
<1>5. ASSUME NEW i \in Invoices, NEW p \in Payment, AttemptConcluded(i, p)
      PROVE  Ledger!Next
  <2>1. /\ billings[i].status = "Requested" /\ billings[i].attempt = p.att
        /\ billings[i] = [status |-> "Requested", attempt |-> p.att]
        /\ p.status \in {"Approved", "Failed"}
    BY <1>5 DEF AttemptConcluded
  <2>2. billings' = [billings EXCEPT ![i].status = p.status]
    BY <1>1, <1>5, <2>1 DEF AttemptConcluded
  <2>3. Entries' = Entries \cup
          {[inv |-> i, att |-> billings[i].attempt, status |-> p.status]}
    BY <1>5, <2>1 DEF AttemptConcluded, Entries, Entry
  <2>4. Ledger!Conclude(i, p.status)
    BY <1>5, <2>1, <2>2, <2>3 DEF AttemptConcluded, Ledger!Conclude, Entries,
                                  Entry
  <2> QED BY <2>1, <2>4 DEF Ledger!Next
<1>6. ASSUME NEW i \in Invoices, BillingReactivated(i) PROVE Ledger!Next
  BY <1>6 DEF BillingReactivated, MarkRequested, Ledger!Retry,
              Ledger!RequestedAt, Ledger!Next
<1> QED BY <1>1, <1>2, <1>3, <1>4, <1>5, <1>6 DEF TableStep

\* The code implements Settlement: seen through their committed rows, requests,
\* transactions, duplicated deliveries, faults and restarts only ever issue an
\* invoice, bill it, conclude its current attempt in all three tables at once,
\* or start the next attempt after a failed one.
THEOREM RefinesSettlement == Spec => ImplementsSettlement
<1>1. Init => Ledger!Init
  BY DEF Init, NoBilling, Ledger!Init, Ledger!Unbilled
<1>2. IInv /\ [Next]_vars => [Ledger!Next]_(Ledger!ledgerVars)
  BY NextRefines
<1> QED BY <1>1, <1>2, InductiveInvariant, PTL
           DEF Spec, ImplementsSettlement, Ledger!Spec

-----------------------------------------------------------------------------
(* The second inductive invariant, on top of IInv: PaymentFlow tells the     *)
(* truth to its clients, in its outbox, and about its calls to the gateway.  *)

\* Where the flow of POST /invoices goes after an error.
FailSteps == {"failBillingRequested", "failInvoiceCreated"}

\* What the step of a request says of its kind, its attempt and its answer.
Control(r) ==
  /\ pc[r] = "idle" => kind[r] = "none" /\ reply[r] = "none"
  /\ pc[r] \in CreateSteps => kind[r] = "create"
  /\ pc[r] \in BillingTxSteps => kind[r] = "pay"
  /\ kind[r] = "create" /\
     pc[r] \in HasAttempt \cup {"markBillingRequested", "rollback",
                                "failBillingRequested"} => att[r] = 1
  /\ kind[r] = "create" /\ pc[r] \in FailSteps \cup {"rollback"} =>
       reply[r] = "500"
  /\ reply[r] = "201" => pc[r] = "done"

FirstAttemptOnRecord(i) == \E p \in payments : p.inv = i /\ p.att = 1

\* What a request has established when it is about to answer, and what its
\* answer then says.
Answers(r) ==
  /\ pc[r] = "commit" /\ tx[r] = EmptyTx =>
       entity[r] \in payments /\ entity[r].inv = inv[r] /\ entity[r].att = att[r]
  /\ pc[r] \in {"afterDispatch", "markBillingRequested", "markInvoiceCreated"} =>
       FirstAttemptOnRecord(inv[r])
  /\ reply[r] = "201" /\ kind[r] = "pay" =>
       entity[r] \in payments /\ entity[r].inv = inv[r]
  /\ reply[r] = "201" /\ kind[r] = "create" => FirstAttemptOnRecord(inv[r])
  /\ reply[r] = "409" => invoices[inv[r]] = "Paid"

\* A fresh invoice id belongs to one POST /invoices, and nobody else bills it.
UnbilledSteps == {"appendInvoiceCreated", "findBilling", "saveBilling"}
Creators ==
  /\ \A r \in Requests : kind[r] = "create" => invoices[inv[r]] # "None"
  /\ \A r, s \in Requests :
       kind[r] = "create" /\ kind[s] = "create" /\ inv[r] = inv[s] => r = s
  /\ \A r \in Requests :
       pc[r] \in UnbilledSteps => billings[inv[r]] = NoBilling
  /\ \A i \in Invoices : billings[i] # NoBilling => invoices[i] # "None"

\* The failing append of the profile hits InvoiceCreated: before it happens
\* nothing is billed, unless a restart armed it again.
AppendFaultFirst ==
  AppendFault /\ faults = 0 =>
    /\ \A i \in Invoices : billings[i] = NoBilling
    /\ \A r \in Requests : pc[r] \notin {"findBilling", "saveBilling"}

\* The steps of a request before it can have called the gateway.
Uncharged ==
  UnbilledSteps \cup BillingTxSteps \cup
    {"idle", "appendBillingRequested", "dispatchBillingRequested"}

\* Where the outcome of a call went.
Pursued(r) ==
  \/ pc[r] \in ReservedStatements
  \/ pc[r] = "commit" /\ tx[r] # EmptyTx
OnRecord(r) ==
  \E p \in payments : p.id = r /\ p.inv = inv[r] /\ p.att = att[r]
GaveUp(r) ==
  /\ pc[r] \in FailSteps \cup {"rollback", "done"}
  /\ reply[r] \in {"500", "lost"}
  /\ faults > 0

Charges ==
  \A c \in gatewayCalls :
    /\ c.inv = inv[c.by] /\ c.att = att[c.by]
    /\ pc[c.by] \notin Uncharged
    /\ Pursued(c.by) \/ OnRecord(c.by) \/ GaveUp(c.by)

\* The rows of the events a request publishes outside a transaction.
OwnRows == {"InvoiceCreated", "BillingRequested"}
PublishedRow(e) ==
  e.name \in OwnRows =>
    /\ kind[e.by] = "create" /\ e.inv = inv[e.by]
    /\ pc[e.by] \notin {"idle", "appendInvoiceCreated"}
    /\ e.status = "failed" => pc[e.by] \in {"failInvoiceCreated", "done"}
    /\ e.status \in {"failed", "pending"} /\ pc[e.by] = "done" =>
         reply[e.by] \in {"500", "lost"}
    /\ e.status = "failed" => reply[e.by] \in {"500", "lost"}
InvoiceCreatedRow(e) ==
  e.name = "InvoiceCreated" =>
    /\ e.att = 0
    /\ pc[e.by] # "done" => e.status = "pending"
BillingRequestedRow(e) ==
  e.name = "BillingRequested" =>
    /\ e.att = 1
    /\ pc[e.by] \notin UnbilledSteps \cup {"appendBillingRequested"}
    /\ pc[e.by] \notin {"markInvoiceCreated", "failInvoiceCreated", "done"} =>
         e.status = "pending"
    /\ pc[e.by] = "markInvoiceCreated" => e.status = "processed"
    /\ e.status = "processed" => FirstAttemptOnRecord(e.inv)

\* The rows of the events published in the payment transaction.
ResultRow(e) ==
  e.name \notin OwnRows =>
    /\ e.status = "processed"
    /\ \E p \in payments :
         /\ p.id = e.by /\ p.inv = e.inv /\ p.att = e.att
         /\ p.status = "Failed" <=> e.name = "PaymentFailed"

Rows ==
  /\ \A e \in outbox :
       PublishedRow(e) /\ InvoiceCreatedRow(e) /\ BillingRequestedRow(e)
         /\ ResultRow(e)
  /\ \A e, f \in outbox :
       e.name \in OwnRows /\ e.name = f.name /\ e.by = f.by => e = f

AInv ==
  /\ \A r \in Requests : Control(r)
  /\ \A r \in Requests : Answers(r)
  /\ Creators
  /\ AppendFaultFirst
  /\ Charges
  /\ Rows

-----------------------------------------------------------------------------
(* Facts about one step                                                     *)

Act(r) == Arrive(r) \/ Step(r) \/ Fault(r)

\* The step is r's own: what the other requests hold stays.
OwnStep(r) ==
  /\ OthersUnchanged(r)
  /\ \A s \in Requests \ {r} : kind'[s] = kind[s] /\ reply'[s] = reply[s]

\* What only ever grows.
Growth ==
  /\ payments \subseteq payments'
  /\ \A i \in Invoices :
       /\ invoices[i] = "Paid" => invoices'[i] = "Paid"
       /\ invoices[i] # "None" => invoices'[i] # "None"
  /\ faults' \in {faults, faults + 1}
  /\ profile' = profile

\* A step of a request touches the state of no other one.
LEMMA ActIsOwn ==
  ASSUME IInv, NEW r \in Requests, Act(r)
  PROVE  OwnStep(r)
<1>1. CASE Arrive(r)
  BY <1>1 DEF IInv, TypeOK, Arrive, CreateInvoice, ProcessPayment, Goto,
              OwnStep, OthersUnchanged
<1>2. CASE Fault(r)
  BY <1>2 DEF IInv, TypeOK, Fault, StatementFails, CommitUnacknowledged,
              Disconnect, Apply, Goto, Answer, locals, OwnStep, OthersUnchanged
<1>3. CASE \/ AppendInvoiceCreated(r) \/ AppendBillingRequested(r)
           \/ MarkBillingRequested(r) \/ MarkInvoiceCreated(r)
           \/ FailBillingRequested(r) \/ FailInvoiceCreated(r)
  BY <1>3 DEF IInv, TypeOK, AppendInvoiceCreated, AppendBillingRequested,
              MarkBillingRequested, MarkInvoiceCreated, FailBillingRequested,
              FailInvoiceCreated, AppendRecord, MarkRecord, Goto, Answer, locals,
              OwnStep, OthersUnchanged
<1>4. CASE \/ FindBilling(r) \/ SaveBilling(r) \/ DispatchBillingRequested(r)
           \/ LockBilling(r) \/ UpdateBilling(r) \/ CommitBilling(r)
           \/ FindPayment(r) \/ CheckApproved(r) \/ InsertPayment(r)
  BY <1>4 DEF IInv, TypeOK, FindBilling, SaveBilling, DispatchBillingRequested,
              LockBilling, UpdateBilling, CommitBilling, Apply, FindPayment,
              CheckApproved, InsertPayment, Abort, Goto, Answer, locals,
              OwnStep, OthersUnchanged
<1>5. CASE \/ CallGateway(r) \/ UpdatePayment(r) \/ AppendResult(r)
           \/ GetInvoice(r) \/ UpdateInvoice(r) \/ AppendInvoicePaid(r)
           \/ MarkInvoicePaid(r) \/ GetBilling(r) \/ MarkBilling(r)
           \/ MarkResult(r) \/ Commit(r) \/ Rollback(r) \/ AfterDispatch(r)
  BY <1>5 DEF IInv, TypeOK, CallGateway, UpdatePayment, AppendResult,
              GetInvoice, UpdateInvoice, AppendInvoicePaid, MarkInvoicePaid,
              GetBilling, MarkBilling, MarkResult, Commit, Apply, Rollback,
              AfterDispatch, AppendInTx, MarkInTx, Abort, Goto, Answer, locals,
              OwnStep, OthersUnchanged
<1> QED BY <1>1, <1>2, <1>3, <1>4, <1>5 DEF Act, Step

\* Payments stay, invoices are neither unpaid nor deleted, faults add up.
LEMMA NextGrows ==
  ASSUME IInv, [Next]_vars
  PROVE  Growth
<1>1. /\ TableStep
      /\ invoices \in [Invoices -> {"None", "Pending", "Paid"}]
      /\ billings \in [Invoices -> Billing \cup {NoBilling}]
  BY NextWrites DEF IInv, TypeOK
<1>2. /\ payments \subseteq payments'
      /\ \A i \in Invoices :
           /\ invoices[i] = "Paid" => invoices'[i] = "Paid"
           /\ invoices[i] # "None" => invoices'[i] # "None"
  BY <1>1 DEF TableStep, TablesUnchanged, InvoiceIssued, BillingSaved,
              AttemptConcluded, BillingReactivated
<1>3. faults' \in {faults, faults + 1} /\ profile' = profile
  <2>1. ASSUME NEW r \in Requests, Arrive(r) PROVE <1>3
    BY <2>1 DEF Arrive, CreateInvoice, ProcessPayment, process
  <2>2. ASSUME NEW r \in Requests, Fault(r) PROVE <1>3
    BY <2>2 DEF Fault, StatementFails, CommitUnacknowledged, Disconnect,
                CanFault, process
  <2>3. ASSUME NEW r \in Requests, Step(r) PROVE <1>3
    BY <2>3 DEF Step, AppendInvoiceCreated, AppendBillingRequested,
         MarkBillingRequested, MarkInvoiceCreated, FailBillingRequested,
         FailInvoiceCreated, AppendRecord, MarkRecord, FindBilling, SaveBilling,
         DispatchBillingRequested, LockBilling, UpdateBilling, CommitBilling,
         FindPayment, CheckApproved, InsertPayment, CallGateway, UpdatePayment,
         AppendResult, GetInvoice, UpdateInvoice, AppendInvoicePaid,
         MarkInvoicePaid, GetBilling, MarkBilling, MarkResult, Commit, Rollback,
         AfterDispatch, AppendInTx, MarkInTx, process
  <2>4. CASE Restart \/ Quiescent \/ UNCHANGED vars
    BY <2>4 DEF Restart, Quiescent, CanFault, vars, process
  <2> QED BY <2>1, <2>2, <2>3, <2>4 DEF Next
<1> QED BY <1>2, <1>3 DEF Growth

-----------------------------------------------------------------------------
(* Control and answers                                                      *)

\* A request keeps its kind, its attempt and its answer consistent with its step.
LEMMA ControlStep ==
  ASSUME IInv, AInv, NEW r \in Requests, Act(r)
  PROVE  Control(r)'
<1>1. Control(r) /\ kind[r] \in {"none", "create", "pay"} /\ att[r] \in Nat
  BY DEF AInv, IInv, TypeOK
<1>2. CASE Arrive(r)
  BY <1>1, <1>2 DEF IInv, TypeOK, Control, Arrive, CreateInvoice, ProcessPayment,
       Goto, FailSteps, HasAttempt, CreateSteps, BillingTxSteps, LookupSteps,
       ReservedStatements
<1>3. CASE Fault(r)
  BY <1>1, <1>3 DEF IInv, TypeOK, Control, Fault, StatementFails,
       CommitUnacknowledged, Disconnect, Apply, InFlight, AfterError, ErrorExit,
       Goto, Answer, locals, FailSteps, HasAttempt, CreateSteps, TxStatements,
       BillingTxSteps, LookupSteps, ReservedStatements
<1>4. CASE \/ AppendInvoiceCreated(r) \/ AppendBillingRequested(r)
           \/ MarkBillingRequested(r) \/ MarkInvoiceCreated(r)
           \/ FailBillingRequested(r) \/ FailInvoiceCreated(r)
  BY <1>1, <1>4 DEF IInv, TypeOK, Control, AppendInvoiceCreated,
       AppendBillingRequested, MarkBillingRequested, MarkInvoiceCreated,
       FailBillingRequested, FailInvoiceCreated, AppendRecord, MarkRecord, Goto,
       Answer, locals, FailSteps, HasAttempt, CreateSteps, BillingTxSteps,
       LookupSteps, ReservedStatements
<1>5. CASE \/ FindBilling(r) \/ SaveBilling(r) \/ DispatchBillingRequested(r)
           \/ LockBilling(r) \/ UpdateBilling(r) \/ CommitBilling(r)
           \/ FindPayment(r) \/ CheckApproved(r) \/ InsertPayment(r)
  BY <1>1, <1>5 DEF IInv, TypeOK, Control, FindBilling, SaveBilling, NewBilling,
       DispatchBillingRequested, LockBilling, UpdateBilling, CommitBilling,
       Apply, FindPayment, CheckApproved, InsertPayment, Abort, ErrorCode, Goto,
       Answer, locals, FailSteps, HasAttempt, CreateSteps, BillingTxSteps,
       LookupSteps, ReservedStatements
<1>6. CASE \/ CallGateway(r) \/ UpdatePayment(r) \/ AppendResult(r)
           \/ GetInvoice(r) \/ UpdateInvoice(r) \/ AppendInvoicePaid(r)
           \/ MarkInvoicePaid(r) \/ GetBilling(r) \/ MarkBilling(r)
           \/ MarkResult(r)
  BY <1>1, <1>6 DEF IInv, TypeOK, Control, CallGateway, UpdatePayment,
       AppendResult, GetInvoice, UpdateInvoice, AppendInvoicePaid,
       MarkInvoicePaid, GetBilling, MarkBilling, MarkResult, AppendInTx,
       MarkInTx, Abort, ErrorCode, Goto, Answer, locals, FailSteps, HasAttempt,
       CreateSteps, BillingTxSteps, LookupSteps, ReservedStatements
<1>7. CASE Commit(r) \/ Rollback(r) \/ AfterDispatch(r)
  BY <1>1, <1>7 DEF IInv, TypeOK, Control, Commit, Apply, Rollback,
       AfterDispatch, AfterError, Goto, Answer, locals, FailSteps, HasAttempt,
       CreateSteps, BillingTxSteps, LookupSteps, ReservedStatements
<1> QED BY <1>2, <1>3, <1>4, <1>5, <1>6, <1>7 DEF Act, Step

\* An approved billing belongs to a paid invoice.
LEMMA ApprovedIsPaid ==
  ASSUME IInv, NEW i \in Invoices
  PROVE  /\ billings[i].status = "Approved" => invoices[i] = "Paid"
         /\ HasApproved(i) => invoices[i] = "Paid"
<1>1. HasApproved(i) => billings[i].status = "Approved"
  BY DEF HasApproved, IInv, AttemptLedger
<1> QED BY <1>1 DEF IInv, SettlementTables, Settled

\* COMMIT leaves the payment the request answers with on record.
LEMMA CommitAnswers ==
  ASSUME IInv, AInv, NEW r \in Requests, pc[r] = "commit", Apply(r)
  PROVE  /\ entity[r] \in payments'
         /\ entity[r].inv = inv[r] /\ entity[r].att = att[r]
<1>1. CASE tx[r] = EmptyTx
  BY <1>1 DEF AInv, Answers, Apply
<1>2. CASE tx[r] # EmptyTx
  <2>1. tx[r] = FullTx(r) /\ Concluded(r)
    BY <1>2 DEF IInv, Shape
  <2>2. /\ tx[r].payment = entity[r] /\ entity[r] # NoPayment
        /\ entity[r].inv = inv[r] /\ entity[r].att = att[r]
    BY <2>1 DEF FullTx, Concluded, OwnEntity
  <2> QED BY <2>2 DEF Apply
<1> QED BY <1>1, <1>2

\* What a request established stays established until it answers.
LEMMA AnswersStep ==
  ASSUME IInv, AInv, NEW r \in Requests, Act(r), Growth
  PROVE  Answers(r)'
<1>1. /\ Answers(r) /\ Control(r) /\ inv[r] \in Invoices
      /\ pc \in [Requests -> Steps]
      /\ inv \in [Requests -> Invoices]
      /\ kind \in [Requests -> {"none", "create", "pay"}]
      /\ entity \in [Requests -> Payment \cup {NoPayment}]
      /\ reply \in [Requests -> {"none", "201", "404", "409", "500", "lost"}]
      /\ tx \in [Requests -> Transaction]
  BY DEF AInv, IInv, TypeOK
<1>2. FirstAttemptOnRecord(inv[r]) =>
        \E p \in payments' : p.inv = inv[r] /\ p.att = 1
  BY DEF Growth, FirstAttemptOnRecord
<1>3. CASE Arrive(r)
  BY <1>1, <1>3 DEF Control, Answers, Arrive, CreateInvoice, ProcessPayment, Goto
<1>4. CASE StatementFails(r) \/ Disconnect(r)
  <2>1. /\ inv' = inv /\ reply'[r] \in {"500", "lost"}
        /\ pc'[r] \notin {"commit", "afterDispatch", "markBillingRequested",
                         "markInvoiceCreated"}
    BY <1>1, <1>4 DEF StatementFails, Disconnect, AfterError, ErrorExit, Goto,
         Answer, locals
  <2> QED BY <2>1 DEF Answers
<1>5. CASE CommitUnacknowledged(r)
  <2>1. /\ inv' = inv /\ reply'[r] = "500"
        /\ pc'[r] \in {"failBillingRequested", "done"}
    BY <1>1, <1>5 DEF CommitUnacknowledged, AfterError, Goto, Answer, locals
  <2> QED BY <2>1 DEF Answers
<1>6. CASE \/ AppendInvoiceCreated(r) \/ AppendBillingRequested(r)
           \/ MarkBillingRequested(r) \/ MarkInvoiceCreated(r)
           \/ FailBillingRequested(r) \/ FailInvoiceCreated(r)
  BY <1>1, <1>2, <1>6 DEF Control, Answers, FirstAttemptOnRecord, CreateSteps,
       AppendInvoiceCreated, AppendBillingRequested, MarkBillingRequested,
       MarkInvoiceCreated, FailBillingRequested, FailInvoiceCreated,
       AppendRecord, MarkRecord, Goto, Answer, locals
<1>7. CASE FindBilling(r) \/ SaveBilling(r)
  <2>1. billings[inv[r]] = NoBilling
    BY <1>7 DEF AInv, Creators, UnbilledSteps, FindBilling, SaveBilling
  <2> QED BY <1>1, <1>7, <2>1 DEF Control, Answers, FindBilling, SaveBilling,
            Goto, tables, locals
<1>8. CASE \/ DispatchBillingRequested(r) \/ UpdateBilling(r)
           \/ CommitBilling(r) \/ InsertPayment(r)
  BY <1>1, <1>8 DEF Growth, Control, Answers, DispatchBillingRequested,
       UpdateBilling, CommitBilling, InsertPayment, Abort, ErrorCode, Goto,
       Answer, locals
<1>9. CASE LockBilling(r) \/ CheckApproved(r)
  BY <1>1, <1>9, ApprovedIsPaid DEF Control, Answers, LockBilling,
       CheckApproved, Abort, ErrorCode, Goto, Answer, locals, tables
<1>10. CASE FindPayment(r)
  BY <1>1, <1>10 DEF Control, Answers, FindPayment, Goto, tables
<1>11. CASE \/ CallGateway(r) \/ UpdatePayment(r) \/ AppendResult(r)
            \/ GetInvoice(r) \/ UpdateInvoice(r) \/ AppendInvoicePaid(r)
            \/ MarkInvoicePaid(r) \/ GetBilling(r) \/ MarkBilling(r)
  BY <1>1, <1>11, ApprovedIsPaid DEF Control, Answers, CallGateway,
       UpdatePayment, AppendResult, GetInvoice, UpdateInvoice,
       AppendInvoicePaid, MarkInvoicePaid, GetBilling, MarkBilling, AppendInTx,
       MarkInTx, Abort, ErrorCode, Goto, Answer, locals, tables
<1>12. CASE MarkResult(r)
  <2>1. tx[r].payment # NoPayment
    BY <1>12 DEF IInv, Shape, MarkResult, ReservedStatements
  <2>2. tx'[r].payment = tx[r].payment
    BY <1>1, <1>12 DEF MarkResult, MarkInTx, Transaction
  <2> QED BY <1>1, <1>12, <2>1, <2>2 DEF Control, Answers, EmptyTx, MarkResult,
            MarkInTx, Goto, locals, tables
<1>13. CASE Commit(r)
  <2>1. /\ entity[r] \in payments'
        /\ entity[r].inv = inv[r] /\ entity[r].att = att[r]
    BY <1>13, CommitAnswers DEF Commit
  <2>2. kind[r] = "create" => att[r] = 1
    BY <1>1, <1>13 DEF Control, Commit, HasAttempt
  <2> QED BY <1>1, <1>13, <2>1, <2>2 DEF Growth, Control, Answers,
            FirstAttemptOnRecord, Commit, Goto, Answer, locals
<1>14. CASE Rollback(r) \/ AfterDispatch(r)
  BY <1>1, <1>2, <1>14 DEF Control, Answers, FirstAttemptOnRecord, Rollback,
       AfterDispatch, AfterError, Goto, locals, tables
<1> QED BY <1>3, <1>4, <1>5, <1>6, <1>7, <1>8, <1>9, <1>10, <1>11, <1>12, <1>13,
           <1>14 DEF Act, Step, Fault

-----------------------------------------------------------------------------
(* Who bills an invoice                                                     *)

\* A request learns its kind and its invoice when it arrives.
LEMMA KeepsInvoice ==
  ASSUME NEW r \in Requests, Step(r) \/ Fault(r)
  PROVE  UNCHANGED <<kind, inv>>
BY DEF Step, Fault, StatementFails, CommitUnacknowledged, Disconnect,
     AppendInvoiceCreated, AppendBillingRequested,
     MarkBillingRequested, MarkInvoiceCreated, FailBillingRequested,
     FailInvoiceCreated, AppendRecord, MarkRecord, FindBilling, SaveBilling,
     DispatchBillingRequested, LockBilling, UpdateBilling, CommitBilling,
     FindPayment, CheckApproved, InsertPayment, CallGateway, UpdatePayment,
     AppendResult, GetInvoice, UpdateInvoice, AppendInvoicePaid,
     MarkInvoicePaid, GetBilling, MarkBilling, MarkResult, Commit, Rollback,
     AfterDispatch, AppendInTx, MarkInTx, locals

\* A COMMIT updates a billing that exists.
LEMMA CommitBillsNothing ==
  ASSUME IInv, NEW r \in Requests, pc[r] \in {"commit", "commitBilling"}, Apply(r),
         NEW i \in Invoices, billings[i] = NoBilling
  PROVE  billings'[i] = NoBilling
<1>1. CASE tx[r].billing = NoBilling
  BY <1>1 DEF Apply
<1>2. CASE tx[r].billing # NoBilling
  <2>1. inv[r] # i
    <3>1. CASE pc[r] = "commit"
      <4>0. tx[r] # EmptyTx
        BY <1>2 DEF EmptyTx
      <4>1. tx[r] = FullTx(r) /\ Concluded(r)
        BY <3>1, <4>0 DEF IInv, Shape
      <4>2. tx[r].payment # NoPayment
        BY <4>1 DEF FullTx, Concluded, OwnEntity
      <4>3. billings[inv[r]] = [status |-> "Requested", attempt |-> att[r]]
        BY <4>2, ReservedBilling
      <4>4. billings[inv[r]].status = "Requested"
        BY <4>3
      <4> QED BY <4>4 DEF NoBilling
    <3>2. CASE pc[r] = "commitBilling"
      BY <3>2 DEF IInv, Link, NoBilling
    <3> QED BY <3>1, <3>2
  <2> QED BY <1>2, <2>1 DEF Apply, IInv, TypeOK
<1> QED BY <1>1, <1>2

\* Only CreateBillingFromInvoice inserts a billing.
LEMMA OnlySaveBills ==
  ASSUME IInv, NEW r \in Requests, Act(r), NEW i \in Invoices,
         billings[i] = NoBilling, billings'[i] # NoBilling
  PROVE  pc[r] = "saveBilling" /\ inv[r] = i
<1>1. CASE Arrive(r)
  BY <1>1 DEF Arrive, CreateInvoice, ProcessPayment, tables
<1>2. CASE Fault(r)
  BY <1>2, CommitBillsNothing DEF Fault, StatementFails, CommitUnacknowledged,
       Disconnect, tables
<1>3. CASE \/ AppendInvoiceCreated(r) \/ AppendBillingRequested(r)
           \/ MarkBillingRequested(r) \/ MarkInvoiceCreated(r)
           \/ FailBillingRequested(r) \/ FailInvoiceCreated(r)
  BY <1>3 DEF AppendInvoiceCreated, AppendBillingRequested,
       MarkBillingRequested, MarkInvoiceCreated, FailBillingRequested,
       FailInvoiceCreated, AppendRecord, MarkRecord
<1>4. CASE \/ FindBilling(r) \/ DispatchBillingRequested(r) \/ LockBilling(r)
           \/ UpdateBilling(r) \/ FindPayment(r) \/ CheckApproved(r)
           \/ InsertPayment(r) \/ CallGateway(r) \/ UpdatePayment(r)
  BY <1>4 DEF FindBilling, DispatchBillingRequested, LockBilling,
       UpdateBilling, FindPayment, CheckApproved, InsertPayment, CallGateway,
       UpdatePayment, tables
<1>5. CASE \/ AppendResult(r) \/ GetInvoice(r) \/ UpdateInvoice(r)
           \/ AppendInvoicePaid(r) \/ MarkInvoicePaid(r) \/ GetBilling(r)
           \/ MarkBilling(r) \/ MarkResult(r) \/ Rollback(r) \/ AfterDispatch(r)
  BY <1>5 DEF AppendResult, GetInvoice, UpdateInvoice, AppendInvoicePaid,
       MarkInvoicePaid, GetBilling, MarkBilling, MarkResult, Rollback,
       AfterDispatch, AppendInTx, MarkInTx, tables
<1>6. CASE Commit(r) \/ CommitBilling(r)
  BY <1>6, CommitBillsNothing DEF Commit, CommitBilling
<1>7. CASE SaveBilling(r)
  BY <1>7 DEF SaveBilling, IInv, TypeOK
<1> QED BY <1>1, <1>2, <1>3, <1>4, <1>5, <1>6, <1>7 DEF Act, Step

\* The steps before the billing is saved follow each other.
LEMMA UnbilledFlow ==
  ASSUME IInv, NEW r \in Requests, Step(r) \/ Fault(r), pc'[r] \in UnbilledSteps
  PROVE  /\ pc[r] \in UnbilledSteps \ {"saveBilling"}
         /\ pc[r] = "appendInvoiceCreated" => ~AppendFault /\ ~AppendFault'
<1>1. pc \in [Requests -> Steps]
  BY DEF IInv, TypeOK
<1>2. CASE Fault(r)
  BY <1>1, <1>2 DEF Fault, StatementFails, CommitUnacknowledged, Disconnect,
       AfterError, ErrorExit, Goto, UnbilledSteps
<1>3. CASE AppendInvoiceCreated(r)
  BY <1>1, <1>3 DEF AppendInvoiceCreated, AppendRecord, AppendFault, Goto,
       UnbilledSteps
<1>4. CASE \/ AppendBillingRequested(r)
           \/ MarkBillingRequested(r) \/ MarkInvoiceCreated(r)
           \/ FailBillingRequested(r) \/ FailInvoiceCreated(r)
  BY <1>1, <1>4 DEF AppendBillingRequested,
       MarkBillingRequested, MarkInvoiceCreated, FailBillingRequested,
       FailInvoiceCreated, AppendRecord, MarkRecord, Goto, UnbilledSteps
<1>5. CASE \/ FindBilling(r) \/ SaveBilling(r) \/ DispatchBillingRequested(r)
           \/ LockBilling(r) \/ UpdateBilling(r) \/ CommitBilling(r)
           \/ FindPayment(r) \/ CheckApproved(r) \/ InsertPayment(r)
  BY <1>1, <1>5 DEF FindBilling, SaveBilling, DispatchBillingRequested,
       LockBilling, UpdateBilling, CommitBilling, FindPayment, CheckApproved,
       InsertPayment, Abort, Goto, UnbilledSteps
<1>6. CASE \/ CallGateway(r) \/ UpdatePayment(r) \/ AppendResult(r)
           \/ GetInvoice(r) \/ UpdateInvoice(r) \/ AppendInvoicePaid(r)
           \/ MarkInvoicePaid(r) \/ GetBilling(r) \/ MarkBilling(r)
           \/ MarkResult(r) \/ Commit(r) \/ Rollback(r) \/ AfterDispatch(r)
  BY <1>1, <1>6 DEF CallGateway, UpdatePayment, AppendResult, GetInvoice,
       UpdateInvoice, AppendInvoicePaid, MarkInvoicePaid, GetBilling,
       MarkBilling, MarkResult, Commit, Rollback, AfterDispatch, AfterError,
       AppendInTx, MarkInTx, Abort, Goto, UnbilledSteps
<1> QED BY <1>2, <1>3, <1>4, <1>5, <1>6 DEF Step

\* A fresh invoice id keeps its one creator and its one billing.
LEMMA CreatorsStep ==
  ASSUME IInv, AInv, NEW r \in Requests, Act(r), OwnStep(r), Growth,
         \A s \in Requests : Control(s)'
  PROVE  Creators'
<1>1. /\ invoices \in [Invoices -> {"None", "Pending", "Paid"}]
      /\ inv \in [Requests -> Invoices]
      /\ kind \in [Requests -> {"none", "create", "pay"}]
      /\ pc \in [Requests -> Steps]
      /\ Creators /\ \A s \in Requests : Control(s)
  BY DEF IInv, TypeOK, AInv
<1>2. CASE Arrive(r)
  <2>1. ASSUME NEW i \in Invoices, CreateInvoice(r, i) PROVE Creators'
    BY <1>1, <2>1 DEF CreateInvoice, Creators, Goto
  <2>2. ASSUME NEW i \in Invoices, ProcessPayment(r, i) PROVE Creators'
    BY <1>1, <2>2 DEF ProcessPayment, Creators, Goto, tables, UnbilledSteps
  <2> QED BY <1>2, <2>1, <2>2 DEF Arrive
<1>3. CASE Step(r) \/ Fault(r)
  <2>1. kind' = kind /\ inv' = inv
    BY <1>3, KeepsInvoice
  <2>2. \A s \in Requests : kind'[s] = "create" => invoices'[inv'[s]] # "None"
    BY <1>1, <2>1 DEF Growth, Creators
  <2>3. \A s, t \in Requests :
          kind'[s] = "create" /\ kind'[t] = "create" /\ inv'[s] = inv'[t] => s = t
    BY <1>1, <2>1 DEF Creators
  <2>4. ASSUME NEW s \in Requests, pc'[s] \in UnbilledSteps
        PROVE  billings'[inv'[s]] = NoBilling
    <3>1. pc[s] \in UnbilledSteps /\ (s = r => pc[s] # "saveBilling")
      BY <1>3, <2>4, UnbilledFlow DEF OwnStep, OthersUnchanged
    <3>2. billings[inv[s]] = NoBilling /\ kind[s] = "create"
      BY <1>1, <3>1 DEF Creators, Control, UnbilledSteps, CreateSteps
    <3>3. ASSUME billings'[inv[s]] # NoBilling PROVE FALSE
      <4>1. pc[r] = "saveBilling" /\ inv[r] = inv[s]
        BY <1>1, <3>2, <3>3, OnlySaveBills
      <4>2. kind[r] = "create"
        BY <1>1, <4>1 DEF Control, CreateSteps
      <4> QED BY <1>1, <3>1, <3>2, <4>1, <4>2 DEF Creators
    <3> QED BY <2>1, <3>3
  <2>5. ASSUME NEW i \in Invoices, billings'[i] # NoBilling
        PROVE  invoices'[i] # "None"
    <3>1. CASE billings[i] # NoBilling
      BY <1>1, <3>1 DEF Growth, Creators
    <3>2. CASE billings[i] = NoBilling
      <4>1. pc[r] = "saveBilling" /\ inv[r] = i
        BY <2>5, <3>2, OnlySaveBills
      <4> QED BY <1>1, <4>1 DEF Growth, Creators, Control, CreateSteps
    <3> QED BY <3>1, <3>2
  <2> QED BY <2>2, <2>3, <2>4, <2>5 DEF Creators
<1> QED BY <1>2, <1>3 DEF Act

-----------------------------------------------------------------------------
(* The failing append                                                       *)

\* A once-only fault that happened stays behind until the process restarts.
LEMMA TriggerKept ==
  ASSUME NEW r \in Requests, Act(r), triggered \in BOOLEAN, triggered
  PROVE  triggered'
BY DEF Act, Arrive, CreateInvoice, ProcessPayment, Fault, StatementFails,
     CommitUnacknowledged, Disconnect, Step, AppendInvoiceCreated,
     AppendBillingRequested, MarkBillingRequested, MarkInvoiceCreated,
     FailBillingRequested, FailInvoiceCreated, AppendRecord, MarkRecord,
     FindBilling, SaveBilling, DispatchBillingRequested, LockBilling,
     UpdateBilling, CommitBilling, FindPayment, CheckApproved, InsertPayment,
     CallGateway, UpdatePayment, AppendResult, GetInvoice, UpdateInvoice,
     AppendInvoicePaid, MarkInvoicePaid, GetBilling, MarkBilling, MarkResult,
     Commit, Rollback, AfterDispatch, AppendInTx, MarkInTx, process

\* Nothing is billed before the failing append hit InvoiceCreated.
LEMMA AppendFaultStep ==
  ASSUME IInv, AInv, NEW r \in Requests, Act(r), OwnStep(r), Growth
  PROVE  AppendFaultFirst'
<1> SUFFICES ASSUME AppendFault', faults' = 0
             PROVE  /\ \A i \in Invoices : billings'[i] = NoBilling
                    /\ \A s \in Requests :
                         pc'[s] \notin {"findBilling", "saveBilling"}
  BY DEF AppendFaultFirst
<1>1. AppendFault /\ faults = 0
  BY TriggerKept DEF IInv, TypeOK, Growth, AppendFault
<1>2. /\ \A i \in Invoices : billings[i] = NoBilling
      /\ \A s \in Requests : pc[s] \notin {"findBilling", "saveBilling"}
  BY <1>1 DEF AInv, AppendFaultFirst
<1>3. \A i \in Invoices : billings'[i] = NoBilling
  BY <1>2, OnlySaveBills
<1>4. ASSUME NEW s \in Requests, pc'[s] \in {"findBilling", "saveBilling"}
      PROVE  FALSE
  <2>1. CASE s # r
    BY <1>2, <1>4, <2>1 DEF OwnStep, OthersUnchanged
  <2>2. CASE s = r /\ Arrive(r)
    BY <1>4, <2>2 DEF IInv, TypeOK, Arrive, CreateInvoice, ProcessPayment, Goto
  <2>3. CASE s = r /\ (Step(r) \/ Fault(r))
    BY <1>1, <1>2, <1>4, <2>3, UnbilledFlow DEF UnbilledSteps
  <2> QED BY <2>1, <2>2, <2>3 DEF Act
<1> QED BY <1>3, <1>4

-----------------------------------------------------------------------------
(* The calls to the gateway                                                 *)

\* The attempt of a request is fixed once it may have called the gateway.
LEMMA ChargedAttempt ==
  ASSUME IInv, NEW r \in Requests, Act(r), pc[r] \notin Uncharged
  PROVE  /\ UNCHANGED <<kind, inv, att>>
         /\ pc'[r] \notin Uncharged
<1>1. pc \in [Requests -> Steps]
  BY DEF IInv, TypeOK
<1>2. CASE Arrive(r)
  BY <1>2 DEF Arrive, CreateInvoice, ProcessPayment, Uncharged
<1>3. CASE Fault(r)
  BY <1>1, <1>3 DEF Fault, StatementFails, CommitUnacknowledged, Disconnect,
       AfterError, ErrorExit, Goto, Uncharged, UnbilledSteps, BillingTxSteps,
       locals
<1>4. CASE \/ AppendInvoiceCreated(r) \/ AppendBillingRequested(r)
           \/ FindBilling(r) \/ SaveBilling(r) \/ DispatchBillingRequested(r)
           \/ LockBilling(r) \/ UpdateBilling(r) \/ CommitBilling(r)
  BY <1>4 DEF AppendInvoiceCreated, AppendBillingRequested, FindBilling,
       SaveBilling, DispatchBillingRequested, LockBilling, UpdateBilling,
       CommitBilling, Uncharged, UnbilledSteps, BillingTxSteps
<1>5. CASE \/ MarkBillingRequested(r) \/ MarkInvoiceCreated(r)
           \/ FailBillingRequested(r) \/ FailInvoiceCreated(r)
           \/ FindPayment(r) \/ CheckApproved(r) \/ InsertPayment(r)
  BY <1>1, <1>5 DEF MarkBillingRequested, MarkInvoiceCreated,
       FailBillingRequested, FailInvoiceCreated, MarkRecord, FindPayment,
       CheckApproved, InsertPayment, Abort, Goto, locals, Uncharged,
       UnbilledSteps, BillingTxSteps
<1>6. CASE \/ CallGateway(r) \/ UpdatePayment(r) \/ AppendResult(r)
           \/ GetInvoice(r) \/ UpdateInvoice(r) \/ AppendInvoicePaid(r)
           \/ MarkInvoicePaid(r) \/ GetBilling(r) \/ MarkBilling(r)
           \/ MarkResult(r) \/ Commit(r) \/ Rollback(r) \/ AfterDispatch(r)
  BY <1>1, <1>6 DEF CallGateway, UpdatePayment, AppendResult, GetInvoice,
       UpdateInvoice, AppendInvoicePaid, MarkInvoicePaid, GetBilling,
       MarkBilling, MarkResult, Commit, Rollback, AfterDispatch, AfterError,
       AppendInTx, MarkInTx, Abort, Goto, locals, Uncharged, UnbilledSteps,
       BillingTxSteps
<1> QED BY <1>2, <1>3, <1>4, <1>5, <1>6 DEF Act, Step

\* Only CallGateway calls the gateway.
LEMMA OnlyCallGatewayCalls ==
  ASSUME NEW r \in Requests, Act(r)
  PROVE  CallGateway(r) \/ gatewayCalls' = gatewayCalls
BY DEF Act, Arrive, CreateInvoice, ProcessPayment, Fault, StatementFails,
     CommitUnacknowledged, Disconnect, Step, AppendInvoiceCreated,
     AppendBillingRequested, MarkBillingRequested, MarkInvoiceCreated,
     FailBillingRequested, FailInvoiceCreated, AppendRecord, MarkRecord,
     FindBilling, SaveBilling, DispatchBillingRequested, LockBilling,
     UpdateBilling, CommitBilling, FindPayment, CheckApproved, InsertPayment,
     UpdatePayment, AppendResult, GetInvoice, UpdateInvoice,
     AppendInvoicePaid, MarkInvoicePaid, GetBilling, MarkBilling, MarkResult,
     Commit, Rollback, AfterDispatch, AppendInTx, MarkInTx

\* The append in a payment transaction fails only after a restart: the first
\* append of a process that never restarted was that of InvoiceCreated.
LEMMA NoAppendFaultInTx ==
  ASSUME IInv, AInv, NEW r \in Requests, pc[r] \in ReservedStatements, AppendFault
  PROVE  faults > 0
<1>1. tx[r].payment # NoPayment
  BY DEF IInv, Shape
<1>2. billings[inv[r]] = [status |-> "Requested", attempt |-> att[r]]
  BY <1>1, ReservedBilling
<1>3. billings[inv[r]].status = "Requested"
  BY <1>2
<1>4. billings[inv[r]] # NoBilling /\ inv[r] \in Invoices /\ faults \in Nat
  BY <1>3 DEF NoBilling, IInv, TypeOK
<1> QED BY <1>4 DEF AInv, AppendFaultFirst

\* A request that has an outcome to keep holds the reservation of its attempt.
LEMMA PursuedReserves ==
  ASSUME IInv, NEW r \in Requests, Pursued(r)
  PROVE  tx[r].payment # NoPayment
<1>1. CASE pc[r] \in ReservedStatements
  BY <1>1 DEF IInv, Shape
<1>2. CASE pc[r] = "commit" /\ tx[r] # EmptyTx
  <2>1. tx[r] = FullTx(r) /\ Concluded(r)
    BY <1>2 DEF IInv, Shape
  <2> QED BY <2>1 DEF FullTx, Concluded, OwnEntity
<1> QED BY <1>1, <1>2 DEF Pursued

\* A request that has an outcome to keep carries on, records it, or fails.
LEMMA PursuedStep ==
  ASSUME IInv, AInv, NEW r \in Requests, Act(r), Pursued(r)
  PROVE  Pursued(r)' \/ OnRecord(r)' \/ GaveUp(r)'
<1>1. /\ pc \in [Requests -> Steps]
      /\ reply \in [Requests -> {"none", "201", "404", "409", "500", "lost"}]
      /\ tx \in [Requests -> Transaction]
      /\ faults \in Nat
  BY DEF IInv, TypeOK
<1>2. tx[r].payment # NoPayment
  BY PursuedReserves
<1>3. CASE pc[r] = "commit" /\ Apply(r) /\ UNCHANGED <<inv, att>>
  <2>1. tx[r] = FullTx(r) /\ Concluded(r)
    BY <1>3 DEF Pursued, ReservedStatements, IInv, Shape
  <2>2. /\ tx[r].payment = entity[r] /\ entity[r] # NoPayment
        /\ entity[r].id = r /\ entity[r].inv = inv[r] /\ entity[r].att = att[r]
    BY <2>1 DEF FullTx, Concluded, OwnEntity
  <2> QED BY <1>3, <2>2 DEF Apply, OnRecord
<1>4. CASE Arrive(r)
  BY <1>4 DEF Arrive, CreateInvoice, ProcessPayment, Pursued, ReservedStatements
<1>5. CASE StatementFails(r) \/ Disconnect(r)
  BY <1>1, <1>5 DEF StatementFails, Disconnect, CanFault, AfterError, ErrorExit,
       Goto, Answer, Pursued, GaveUp, FailSteps, ReservedStatements, CreateSteps
<1>6. CASE CommitUnacknowledged(r)
  BY <1>3, <1>6 DEF CommitUnacknowledged, Pursued, ReservedStatements, locals
<1>7. CASE Commit(r)
  BY <1>3, <1>7 DEF Commit, locals
<1>8. CASE UpdatePayment(r)
  <2>1. ~HasApproved(inv[r])
    BY <1>2, ReservedBilling, ApprovedIsPaid DEF IInv, TypeOK
  <2> QED BY <1>1, <1>8, <2>1 DEF UpdatePayment, Goto, Pursued,
            ReservedStatements
<1>9. CASE AppendResult(r) \/ AppendInvoicePaid(r)
  <2>1. AppendFault => faults > 0
    BY <1>9, NoAppendFaultInTx DEF AppendResult, AppendInvoicePaid,
         ReservedStatements
  <2> QED BY <1>1, <1>9, <2>1 DEF AppendResult, AppendInvoicePaid, AppendInTx,
            Abort, ErrorCode, Goto, Answer, Pursued, GaveUp, FailSteps,
            ReservedStatements
<1>10. CASE \/ GetInvoice(r) \/ UpdateInvoice(r) \/ MarkInvoicePaid(r)
            \/ GetBilling(r) \/ MarkBilling(r)
  BY <1>1, <1>10 DEF GetInvoice, UpdateInvoice, MarkInvoicePaid, GetBilling,
       MarkBilling, MarkInTx, Goto, Pursued, ReservedStatements
<1>11. CASE MarkResult(r)
  <2>1. tx'[r].payment = tx[r].payment
    BY <1>1, <1>11 DEF MarkResult, MarkInTx, Transaction
  <2> QED BY <1>1, <1>2, <1>11, <2>1 DEF MarkResult, MarkInTx, Goto, Pursued,
            EmptyTx
<1>12. CASE \/ AppendInvoiceCreated(r) \/ AppendBillingRequested(r)
            \/ MarkBillingRequested(r) \/ MarkInvoiceCreated(r)
            \/ FailBillingRequested(r) \/ FailInvoiceCreated(r)
            \/ FindBilling(r) \/ SaveBilling(r) \/ DispatchBillingRequested(r)
            \/ LockBilling(r) \/ UpdateBilling(r) \/ CommitBilling(r)
            \/ FindPayment(r) \/ CheckApproved(r) \/ InsertPayment(r)
            \/ CallGateway(r) \/ Rollback(r) \/ AfterDispatch(r)
  BY <1>12 DEF AppendInvoiceCreated, AppendBillingRequested,
       MarkBillingRequested, MarkInvoiceCreated, FailBillingRequested,
       FailInvoiceCreated, FindBilling, SaveBilling, DispatchBillingRequested,
       LockBilling, UpdateBilling, CommitBilling, FindPayment, CheckApproved,
       InsertPayment, CallGateway, Rollback, AfterDispatch, Pursued,
       ReservedStatements
<1> QED BY <1>4, <1>5, <1>6, <1>7, <1>8, <1>9, <1>10, <1>11, <1>12
        DEF Act, Step, Fault

\* A request that gave up answers its error.
LEMMA GaveUpStep ==
  ASSUME IInv, AInv, NEW r \in Requests, Act(r), GaveUp(r)
  PROVE  GaveUp(r)'
<1>1. /\ pc \in [Requests -> Steps] /\ faults \in Nat
      /\ reply \in [Requests -> {"none", "201", "404", "409", "500", "lost"}]
  BY DEF IInv, TypeOK
<1>2. CASE Fault(r)
  BY <1>1, <1>2 DEF Fault, StatementFails, CommitUnacknowledged, Disconnect,
       CanFault, InFlight, AfterError, ErrorExit, Goto, Answer, GaveUp,
       FailSteps, TxStatements, BillingTxSteps, LookupSteps, ReservedStatements,
       CreateSteps
<1>3. CASE Rollback(r) \/ FailBillingRequested(r) \/ FailInvoiceCreated(r)
  BY <1>1, <1>3 DEF Rollback, FailBillingRequested, FailInvoiceCreated,
       MarkRecord, AfterError, Goto, GaveUp, FailSteps
<1>4. CASE /\ ~Fault(r) /\ ~Rollback(r)
           /\ ~FailBillingRequested(r) /\ ~FailInvoiceCreated(r)
  BY <1>4 DEF Act, Arrive, CreateInvoice, ProcessPayment, Step,
     AppendInvoiceCreated, AppendBillingRequested, MarkBillingRequested,
     MarkInvoiceCreated, FindBilling, SaveBilling, DispatchBillingRequested,
     LockBilling, UpdateBilling, CommitBilling, FindPayment, CheckApproved,
     InsertPayment, CallGateway, UpdatePayment, AppendResult, GetInvoice,
     UpdateInvoice, AppendInvoicePaid, MarkInvoicePaid, GetBilling, MarkBilling,
     MarkResult, Commit, AfterDispatch, GaveUp, FailSteps
<1> QED BY <1>2, <1>3, <1>4

\* Every call stays accounted for.
LEMMA ChargesStep ==
  ASSUME IInv, AInv, NEW r \in Requests, Act(r), OwnStep(r), Growth
  PROVE  Charges'
<1> SUFFICES ASSUME NEW c \in gatewayCalls'
             PROVE  /\ c.inv = inv'[c.by] /\ c.att = att'[c.by]
                    /\ pc'[c.by] \notin Uncharged
                    /\ Pursued(c.by)' \/ OnRecord(c.by)' \/ GaveUp(c.by)'
  BY DEF Charges
<1>1. CASE CallGateway(r) /\ c \notin gatewayCalls
  BY <1>1 DEF IInv, TypeOK, CallGateway, Goto, Pursued, Uncharged,
       UnbilledSteps, BillingTxSteps, ReservedStatements
<1>2. CASE c \in gatewayCalls
  <2>1. /\ c.inv = inv[c.by] /\ c.att = att[c.by]
        /\ pc[c.by] \notin Uncharged
        /\ Pursued(c.by) \/ OnRecord(c.by) \/ GaveUp(c.by)
        /\ c.by \in Requests /\ faults \in Nat
    BY <1>2 DEF AInv, Charges, IInv, TypeOK
  <2>2. CASE c.by # r
    BY <2>1, <2>2 DEF OwnStep, OthersUnchanged, Growth, Pursued, OnRecord, GaveUp
  <2>3. CASE c.by = r
    <3>1. inv' = inv /\ att' = att /\ pc'[r] \notin Uncharged
      BY <2>1, <2>3, ChargedAttempt
    <3>2. OnRecord(r) => OnRecord(r)'
      BY <3>1 DEF Growth, OnRecord
    <3> QED BY <2>1, <2>3, <3>1, <3>2, PursuedStep, GaveUpStep
  <2> QED BY <2>2, <2>3
<1> QED BY <1>1, <1>2, OnlyCallGatewayCalls

-----------------------------------------------------------------------------
(* The outbox                                                               *)

RowTrue(e) ==
  /\ PublishedRow(e) /\ InvoiceCreatedRow(e)
  /\ BillingRequestedRow(e) /\ ResultRow(e)

\* What a step adds to the outbox.
NewRow(r, e) ==
  \/ /\ pc[r] = "appendInvoiceCreated" /\ pc'[r] = "findBilling"
     /\ e = Event(r, "InvoiceCreated", "pending")
  \/ /\ pc[r] = "appendBillingRequested" /\ pc'[r] = "dispatchBillingRequested"
     /\ e = Event(r, "BillingRequested", "pending")
  \/ /\ pc[r] = "markBillingRequested" /\ pc'[r] = "markInvoiceCreated"
     /\ e = Event(r, "BillingRequested", "processed")
     /\ Event(r, "BillingRequested", "pending") \notin outbox'
  \/ /\ pc[r] = "markInvoiceCreated" /\ pc'[r] = "done"
     /\ e = Event(r, "InvoiceCreated", "processed")
     /\ Event(r, "InvoiceCreated", "pending") \notin outbox'
  \/ /\ pc[r] = "failBillingRequested" /\ pc'[r] = "failInvoiceCreated"
     /\ e = Event(r, "BillingRequested", "failed") /\ UNCHANGED reply
     /\ Event(r, "BillingRequested", "pending") \notin outbox'
  \/ /\ pc[r] = "failInvoiceCreated" /\ pc'[r] = "done"
     /\ e = Event(r, "InvoiceCreated", "failed") /\ UNCHANGED reply
     /\ Event(r, "InvoiceCreated", "pending") \notin outbox'
  \/ /\ pc[r] = "commit" /\ Apply(r) /\ e \in tx[r].outbox

\* Rows come from the bus, one at a time, or with a COMMIT.
LEMMA RowOrigin ==
  ASSUME IInv, NEW r \in Requests, Act(r), NEW e \in outbox'
  PROVE  e \in outbox \/ NewRow(r, e)
<1>1. pc \in [Requests -> Steps]
  BY DEF IInv, TypeOK
<1>2. CASE Arrive(r)
  BY <1>2 DEF Arrive, CreateInvoice, ProcessPayment, tables
<1>3. CASE CommitUnacknowledged(r) \/ Commit(r) \/ CommitBilling(r)
  <2>1. pc[r] = "commitBilling" => tx[r].outbox = {}
    BY DEF IInv, Shape
  <2> QED BY <1>3, <2>1 DEF CommitUnacknowledged, Commit, CommitBilling, Apply,
            NewRow
<1>4. CASE StatementFails(r) \/ Disconnect(r)
  BY <1>4 DEF StatementFails, Disconnect, tables
<1>5. CASE AppendInvoiceCreated(r) \/ AppendBillingRequested(r)
  BY <1>1, <1>5 DEF AppendInvoiceCreated, AppendBillingRequested, AppendRecord,
       Goto, NewRow
<1>6. CASE MarkBillingRequested(r) \/ MarkInvoiceCreated(r)
  BY <1>1, <1>6 DEF MarkBillingRequested, MarkInvoiceCreated, MarkRecord, Marked,
       Event, Goto, NewRow
<1>7. CASE FailBillingRequested(r) \/ FailInvoiceCreated(r)
  BY <1>1, <1>7 DEF FailBillingRequested, FailInvoiceCreated, MarkRecord, Marked,
       Event, Goto, NewRow
<1>8. CASE \/ FindBilling(r) \/ SaveBilling(r) \/ DispatchBillingRequested(r)
           \/ LockBilling(r) \/ UpdateBilling(r) \/ FindPayment(r)
           \/ CheckApproved(r) \/ InsertPayment(r) \/ CallGateway(r)
           \/ UpdatePayment(r)
  BY <1>8 DEF FindBilling, SaveBilling, DispatchBillingRequested, LockBilling,
       UpdateBilling, FindPayment, CheckApproved, InsertPayment, CallGateway,
       UpdatePayment, tables
<1>9. CASE \/ AppendResult(r) \/ GetInvoice(r) \/ UpdateInvoice(r)
           \/ AppendInvoicePaid(r) \/ MarkInvoicePaid(r) \/ GetBilling(r)
           \/ MarkBilling(r) \/ MarkResult(r) \/ Rollback(r) \/ AfterDispatch(r)
  BY <1>9 DEF AppendResult, GetInvoice, UpdateInvoice, AppendInvoicePaid,
       MarkInvoicePaid, GetBilling, MarkBilling, MarkResult, Rollback,
       AfterDispatch, AppendInTx, MarkInTx, tables
<1> QED BY <1>2, <1>3, <1>4, <1>5, <1>6, <1>7, <1>8, <1>9 DEF Act, Step, Fault

\* A pending row of a request is the one its marks replace.
LEMMA OwnPendingRow ==
  ASSUME IInv, AInv, NEW e \in outbox, NEW r \in Requests, e.by = r,
         \/ e.name = "InvoiceCreated" /\ pc[r] # "done"
         \/ /\ e.name = "BillingRequested"
            /\ pc[r] \in {"markBillingRequested", "failBillingRequested"}
  PROVE  e = Event(r, e.name, "pending")
<1>1. RowTrue(e) /\ e \in EventRow /\ Control(r)
  BY DEF AInv, Rows, RowTrue, IInv, TypeOK
<1>2. e.inv = inv[r] /\ e.status = "pending" /\ kind[r] = "create"
  BY <1>1 DEF RowTrue, PublishedRow, OwnRows, InvoiceCreatedRow,
       BillingRequestedRow, UnbilledSteps
<1>3. e.att = IF e.name = "InvoiceCreated" THEN 0 ELSE att[r]
  BY <1>1, <1>2 DEF RowTrue, InvoiceCreatedRow, BillingRequestedRow, Control,
       HasAttempt
<1> QED BY <1>1, <1>2, <1>3 DEF Event, EventRow

\* A row of another request stays true.
LEMMA OtherRow ==
  ASSUME IInv, AInv, NEW r \in Requests, OwnStep(r), Growth,
         NEW e \in outbox, e.by # r
  PROVE  RowTrue(e)'
<1>1. RowTrue(e) /\ e.by \in Requests
  BY DEF AInv, Rows, RowTrue, IInv, TypeOK, EventRow
<1>2. /\ pc'[e.by] = pc[e.by] /\ kind'[e.by] = kind[e.by]
      /\ inv'[e.by] = inv[e.by] /\ reply'[e.by] = reply[e.by]
  BY <1>1 DEF OwnStep, OthersUnchanged
<1>3. PublishedRow(e)' /\ InvoiceCreatedRow(e)'
  BY <1>1, <1>2 DEF RowTrue, PublishedRow, InvoiceCreatedRow
<1>4. BillingRequestedRow(e)'
  BY <1>1, <1>2 DEF RowTrue, BillingRequestedRow, FirstAttemptOnRecord, Growth
<1>5. ResultRow(e)'
  BY <1>1 DEF RowTrue, ResultRow, Growth
<1> QED BY <1>3, <1>4, <1>5 DEF RowTrue

\* How POST /invoices goes on after its first append.
CreateFlow(r) ==
  /\ pc[r] # "done"
  /\ pc'[r] \notin {"idle", "appendInvoiceCreated"}
  /\ pc'[r] \in UnbilledSteps \cup {"appendBillingRequested"} =>
       pc[r] \in UnbilledSteps
  /\ pc'[r] = "markInvoiceCreated" =>
       pc[r] \in UnbilledSteps \/ MarkBillingRequested(r)
  /\ pc[r] = "markInvoiceCreated" => pc'[r] = "done"
  /\ pc[r] = "failInvoiceCreated" => pc'[r] = "done"
  /\ pc'[r] = "done" => reply'[r] \in {"500", "lost"} \/ MarkInvoiceCreated(r)

\* It does.
LEMMA CreateFlowStep ==
  ASSUME IInv, AInv, NEW r \in Requests, Act(r),
         kind[r] = "create", pc[r] \notin {"idle", "appendInvoiceCreated"}
  PROVE  CreateFlow(r)
<1>1. /\ pc \in [Requests -> Steps] /\ Control(r)
      /\ reply \in [Requests -> {"none", "201", "404", "409", "500", "lost"}]
  BY DEF IInv, TypeOK, AInv
<1>2. CASE Arrive(r) \/ AppendInvoiceCreated(r)
  BY <1>2 DEF Arrive, CreateInvoice, ProcessPayment, AppendInvoiceCreated
<1>3. CASE Fault(r)
  BY <1>1, <1>3 DEF Fault, StatementFails, CommitUnacknowledged, Disconnect,
       InFlight, AfterError, ErrorExit, Goto, Answer, CreateFlow, UnbilledSteps,
       TxStatements, BillingTxSteps, LookupSteps, ReservedStatements, CreateSteps
<1>4. CASE \/ AppendBillingRequested(r) \/ MarkBillingRequested(r)
           \/ MarkInvoiceCreated(r) \/ FailBillingRequested(r)
           \/ FailInvoiceCreated(r)
  BY <1>1, <1>4 DEF AppendBillingRequested, MarkBillingRequested,
       MarkInvoiceCreated, FailBillingRequested, FailInvoiceCreated,
       AppendRecord, MarkRecord, Goto, Answer, CreateFlow, UnbilledSteps,
       Control, FailSteps
<1>5. CASE \/ FindBilling(r) \/ SaveBilling(r) \/ DispatchBillingRequested(r)
           \/ LockBilling(r) \/ UpdateBilling(r) \/ CommitBilling(r)
           \/ FindPayment(r) \/ CheckApproved(r) \/ InsertPayment(r)
  BY <1>1, <1>5 DEF FindBilling, SaveBilling, DispatchBillingRequested,
       LockBilling, UpdateBilling, CommitBilling, FindPayment, CheckApproved,
       InsertPayment, Abort, Goto, CreateFlow, UnbilledSteps
<1>6. CASE \/ CallGateway(r) \/ UpdatePayment(r) \/ AppendResult(r)
           \/ GetInvoice(r) \/ UpdateInvoice(r) \/ AppendInvoicePaid(r)
           \/ MarkInvoicePaid(r) \/ GetBilling(r) \/ MarkBilling(r)
           \/ MarkResult(r) \/ Commit(r) \/ Rollback(r) \/ AfterDispatch(r)
  BY <1>1, <1>6 DEF CallGateway, UpdatePayment, AppendResult, GetInvoice,
       UpdateInvoice, AppendInvoicePaid, MarkInvoicePaid, GetBilling,
       MarkBilling, MarkResult, Commit, Rollback, AfterDispatch, AfterError,
       AppendInTx, MarkInTx, Abort, Goto, CreateFlow, UnbilledSteps
<1> QED BY <1>2, <1>3, <1>4, <1>5, <1>6 DEF Act, Step

\* A row the request itself keeps stays true.
LEMMA OwnRow ==
  ASSUME IInv, AInv, NEW r \in Requests, Act(r), Growth,
         NEW e \in outbox, e \in outbox', e.by = r
  PROVE  RowTrue(e)'
<1>1. RowTrue(e) /\ e \in EventRow /\ Control(r)
  BY DEF AInv, Rows, RowTrue, IInv, TypeOK
<1>2. ResultRow(e)'
  BY <1>1 DEF RowTrue, ResultRow, Growth
<1>3. CASE e.name \notin OwnRows
  BY <1>2, <1>3 DEF RowTrue, PublishedRow, InvoiceCreatedRow,
       BillingRequestedRow, OwnRows
<1>4. CASE e.name \in OwnRows
  <2>1. /\ kind[r] = "create" /\ e.inv = inv[r]
        /\ pc[r] \notin {"idle", "appendInvoiceCreated"}
        /\ e.status = "failed" => pc[r] \in {"failInvoiceCreated", "done"}
    BY <1>1, <1>4 DEF RowTrue, PublishedRow
  <2>2. CreateFlow(r)
    BY <2>1, CreateFlowStep
  <2>3. kind' = kind /\ inv' = inv
    BY <2>1, KeepsInvoice DEF Act, Arrive, CreateInvoice, ProcessPayment
  <2>4. MarkInvoiceCreated(r) => e.name # "InvoiceCreated"
    <3> SUFFICES ASSUME MarkInvoiceCreated(r), e.name = "InvoiceCreated"
                 PROVE  FALSE
      OBVIOUS
    <3>1. e = Event(r, "InvoiceCreated", "pending")
      BY <2>2, OwnPendingRow DEF CreateFlow
    <3> QED BY <3>1 DEF MarkInvoiceCreated, MarkRecord, Marked, Event
  <2>5. MarkBillingRequested(r) => e.name # "BillingRequested"
    <3> SUFFICES ASSUME MarkBillingRequested(r), e.name = "BillingRequested"
                 PROVE  FALSE
      OBVIOUS
    <3>1. e = Event(r, "BillingRequested", "pending")
      BY OwnPendingRow DEF MarkBillingRequested
    <3> QED BY <3>1 DEF MarkBillingRequested, MarkRecord, Marked, Event
  <2>6. MarkInvoiceCreated(r) => e.status = "processed"
    BY <1>1, <1>4, <2>4 DEF RowTrue, BillingRequestedRow, OwnRows,
         MarkInvoiceCreated
  <2>7. PublishedRow(e)'
    BY <2>1, <2>2, <2>3, <2>6 DEF PublishedRow, CreateFlow
  <2>8. InvoiceCreatedRow(e)'
    BY <1>1, <2>2 DEF RowTrue, InvoiceCreatedRow, CreateFlow
  <2>9. BillingRequestedRow(e)'
    <3> SUFFICES ASSUME e.name = "BillingRequested"
                 PROVE  BillingRequestedRow(e)'
      BY DEF BillingRequestedRow
    <3>1. /\ e.att = 1
          /\ pc[r] \notin UnbilledSteps \cup {"appendBillingRequested"}
          /\ pc[r] \notin {"markInvoiceCreated", "failInvoiceCreated", "done"} =>
               e.status = "pending"
          /\ e.status = "processed" => FirstAttemptOnRecord(e.inv)
      BY <1>1 DEF RowTrue, BillingRequestedRow
    <3>2. FirstAttemptOnRecord(e.inv) => FirstAttemptOnRecord(e.inv)'
      BY DEF FirstAttemptOnRecord, Growth
    <3> QED BY <2>2, <2>5, <3>1, <3>2 DEF BillingRequestedRow, CreateFlow,
              UnbilledSteps
  <2> QED BY <1>2, <2>7, <2>8, <2>9 DEF RowTrue
<1> QED BY <1>3, <1>4

\* A new row is true.
LEMMA NewRowTrue ==
  ASSUME IInv, AInv, NEW r \in Requests, Act(r), Growth, OwnStep(r),
         Control(r)', Answers(r)',
         NEW e \in outbox', NewRow(r, e)
  PROVE  RowTrue(e)'
<1>1. /\ Control(r) /\ Answers(r) /\ inv[r] \in Invoices /\ att[r] \in Nat
      /\ kind[r] \in {"none", "create", "pay"}
      /\ pc \in [Requests -> Steps]
  BY DEF AInv, IInv, TypeOK
<1>2. CASE pc[r] = "commit" /\ Apply(r) /\ e \in tx[r].outbox
  <2>1. tx[r] = FullTx(r) /\ Concluded(r)
    <3>1. tx[r] # EmptyTx
      BY <1>2 DEF EmptyTx
    <3> QED BY <1>2, <3>1 DEF IInv, Shape
  <2>2. /\ tx[r].payment = entity[r] /\ entity[r] # NoPayment
        /\ entity[r].id = r /\ entity[r].inv = inv[r] /\ entity[r].att = att[r]
        /\ entity[r].status \in {"Approved", "Failed"}
        /\ tx[r].outbox = ResultRows(r, "processed")
    BY <2>1 DEF FullTx, Concluded, OwnEntity
  <2>3. entity[r] \in payments'
    BY <1>2, <2>2 DEF Apply
  <2>4. /\ e.name \notin OwnRows /\ e.status = "processed"
        /\ e.by = r /\ e.inv = inv[r] /\ e.att = att[r]
        /\ entity[r].status = "Failed" <=> e.name = "PaymentFailed"
    BY <1>2, <2>2 DEF ResultRows, Event, OwnRows
  <2> QED BY <2>2, <2>3, <2>4 DEF RowTrue, PublishedRow, InvoiceCreatedRow,
            BillingRequestedRow, ResultRow, OwnRows
<1>3. CASE ~(pc[r] = "commit" /\ Apply(r) /\ e \in tx[r].outbox)
  <2>1. /\ e.by = r /\ e.inv = inv[r]
        /\ pc[r] \in CreateSteps
        /\ e.name \in OwnRows
        /\ e.att = IF e.name = "InvoiceCreated" THEN 0 ELSE att[r]
    BY <1>3 DEF NewRow, Event, CreateSteps, OwnRows
  <2>2. kind[r] = "create"
    BY <1>1, <2>1 DEF Control
  <2>3. kind' = kind /\ inv' = inv
    BY <2>1, KeepsInvoice
       DEF Act, Arrive, CreateInvoice, ProcessPayment, CreateSteps
  <2>4. e.name = "BillingRequested" => att[r] = 1
    BY <1>1, <1>3, <2>2 DEF NewRow, Event, Control, HasAttempt
  <2>5. PublishedRow(e)'
    BY <1>1, <1>3, <2>1, <2>2, <2>3 DEF NewRow, Event, PublishedRow, Control,
         FailSteps
  <2>6. InvoiceCreatedRow(e)'
    BY <1>3, <2>1 DEF NewRow, Event, InvoiceCreatedRow
  <2>7. BillingRequestedRow(e)'
    BY <1>1, <1>3, <2>1, <2>3, <2>4 DEF NewRow, Event, BillingRequestedRow,
         Answers, UnbilledSteps
  <2>8. ResultRow(e)'
    BY <2>1 DEF ResultRow
  <2> QED BY <2>5, <2>6, <2>7, <2>8 DEF RowTrue
<1> QED BY <1>2, <1>3

\* The outbox stays true and without duplicates.
LEMMA RowsStep ==
  ASSUME IInv, AInv, NEW r \in Requests, Act(r), Growth, OwnStep(r),
         Control(r)', Answers(r)'
  PROVE  Rows'
<1>1. ASSUME NEW e \in outbox' PROVE RowTrue(e)'
  BY RowOrigin, OtherRow, OwnRow, NewRowTrue
<1>2. ASSUME NEW e \in outbox', NEW f \in outbox', e.name \in OwnRows,
             e.name = f.name, e.by = f.by, NewRow(r, e)
      PROVE  e = f
  <2>1. CASE pc[r] = "commit" /\ Apply(r) /\ e \in tx[r].outbox
    <3>1. tx[r].outbox = ResultRows(r, "processed")
      <4>1. tx[r] # EmptyTx
        BY <2>1 DEF EmptyTx
      <4>2. tx[r] = FullTx(r)
        BY <2>1, <4>1 DEF IInv, Shape
      <4> QED BY <4>2 DEF FullTx
    <3> QED BY <1>2, <2>1, <3>1 DEF ResultRows, Event, OwnRows
  <2>2. CASE ~(pc[r] = "commit" /\ Apply(r) /\ e \in tx[r].outbox)
    <3>1. e.by = r /\ pc[r] # "commit"
      BY <1>2, <2>2 DEF NewRow, Event
    <3>2. CASE NewRow(r, f)
      BY <1>2, <2>2, <3>1, <3>2 DEF NewRow, Event
    <3>3. CASE f \in outbox
      <4>1. RowTrue(f)
        BY <3>3 DEF AInv, Rows, RowTrue
      <4>2. pc[r] \notin {"appendInvoiceCreated", "appendBillingRequested"}
        BY <1>2, <2>2, <3>1, <4>1 DEF NewRow, Event, RowTrue, PublishedRow,
             BillingRequestedRow, OwnRows
      <4>3. \/ f.name = "InvoiceCreated" /\ pc[r] # "done"
            \/ /\ f.name = "BillingRequested"
               /\ pc[r] \in {"markBillingRequested", "failBillingRequested"}
        BY <1>2, <2>2, <4>2 DEF NewRow, Event
      <4>4. f = Event(r, f.name, "pending")
        BY <1>2, <3>1, <3>3, <4>3, OwnPendingRow
      <4> QED BY <1>2, <2>2, <3>1, <4>2, <4>4 DEF NewRow, Event
    <3> QED BY <3>2, <3>3, RowOrigin
  <2> QED BY <2>1, <2>2
<1>3. ASSUME NEW e \in outbox', NEW f \in outbox', e.name \in OwnRows,
             e.name = f.name, e.by = f.by
      PROVE  e = f
  <2>1. CASE e \in outbox /\ f \in outbox
    BY <1>3, <2>1 DEF AInv, Rows
  <2>2. CASE NewRow(r, e)
    BY <1>2, <1>3, <2>2
  <2>3. CASE NewRow(r, f)
    BY <1>2, <1>3, <2>3
  <2> QED BY <2>1, <2>2, <2>3, RowOrigin
<1> QED BY <1>1, <1>3 DEF Rows, RowTrue

-----------------------------------------------------------------------------
(* Induction                                                                *)

\* Nothing has happened in the initial state.
LEMMA InitAInv == Init => AInv
<1> SUFFICES ASSUME Init PROVE AInv
  OBVIOUS
<1>1. ASSUME NEW r \in Requests PROVE Control(r) /\ Answers(r)
  BY DEF Init, Control, Answers, CreateSteps, BillingTxSteps, HasAttempt,
       LookupSteps, ReservedStatements, FailSteps
<1>2. Creators /\ AppendFaultFirst
  BY DEF Init, Creators, UnbilledSteps, AppendFaultFirst
<1>3. Charges /\ Rows
  BY DEF Init, Charges, Rows
<1> QED BY <1>1, <1>2, <1>3 DEF AInv

\* The process dies: its requests are lost, and what they recorded stays.
LEMMA RestartAInv ==
  ASSUME IInv, AInv, Restart, Growth
  PROVE  AInv'
<1>1. /\ UNCHANGED <<invoices, billings, payments, outbox, gatewayCalls,
                     kind, inv, att, entity>>
      /\ faults' > 0 /\ faults \in Nat
      /\ tx' = [r \in Requests |-> EmptyTx]
      /\ pc' = [r \in Requests |-> IF InFlight(r) THEN "done" ELSE pc[r]]
      /\ reply' = [r \in Requests |-> IF InFlight(r) THEN "lost" ELSE reply[r]]
  BY DEF Restart, CanFault, tables, locals, IInv, TypeOK
<1>2. ASSUME NEW r \in Requests
      PROVE  \/ /\ InFlight(r) /\ pc'[r] = "done" /\ reply'[r] = "lost"
             \/ /\ pc[r] \in {"idle", "done"}
                /\ pc'[r] = pc[r] /\ reply'[r] = reply[r]
  BY <1>1 DEF InFlight
<1>3. ASSUME NEW r \in Requests PROVE Control(r)'
  BY <1>1, <1>2 DEF AInv, Control, CreateSteps, BillingTxSteps, HasAttempt,
       LookupSteps, ReservedStatements, FailSteps
<1>4. ASSUME NEW r \in Requests PROVE Answers(r)'
  BY <1>1, <1>2 DEF AInv, Answers, FirstAttemptOnRecord
<1>5. Creators'
  BY <1>1, <1>2 DEF AInv, Creators, UnbilledSteps
<1>6. AppendFaultFirst'
  BY <1>1 DEF AppendFaultFirst
<1>7. Charges'
  <2> SUFFICES ASSUME NEW c \in gatewayCalls
               PROVE  /\ c.inv = inv'[c.by] /\ c.att = att'[c.by]
                      /\ pc'[c.by] \notin Uncharged
                      /\ OnRecord(c.by)' \/ GaveUp(c.by)'
    BY <1>1 DEF Charges
  <2>1. /\ c.by \in Requests
        /\ c.inv = inv[c.by] /\ c.att = att[c.by]
        /\ pc[c.by] \notin Uncharged
        /\ Pursued(c.by) \/ OnRecord(c.by) \/ GaveUp(c.by)
    BY DEF IInv, TypeOK, AInv, Charges
  <2>2. CASE InFlight(c.by)
    BY <1>1, <1>2, <2>1, <2>2 DEF InFlight, GaveUp, Uncharged, UnbilledSteps,
         BillingTxSteps
  <2>3. CASE ~InFlight(c.by)
    BY <1>1, <1>2, <2>1, <2>3 DEF InFlight, Pursued, OnRecord, GaveUp, Uncharged,
         UnbilledSteps, BillingTxSteps, ReservedStatements
  <2> QED BY <2>2, <2>3
<1>8. Rows'
  <2>1. ASSUME NEW e \in outbox PROVE RowTrue(e)'
    <3>1. RowTrue(e) /\ e.by \in Requests
      BY DEF AInv, Rows, RowTrue, IInv, TypeOK, EventRow
    <3> QED BY <1>1, <1>2, <3>1 DEF InFlight, RowTrue, PublishedRow,
              InvoiceCreatedRow, BillingRequestedRow, ResultRow, OwnRows,
              FirstAttemptOnRecord, UnbilledSteps
  <2> QED BY <1>1, <2>1 DEF AInv, Rows, RowTrue
<1> QED BY <1>3, <1>4, <1>5, <1>6, <1>7, <1>8 DEF AInv

\* Every step preserves the second invariant, given the first.
LEMMA NextAInv ==
  ASSUME IInv, AInv, [Next]_vars
  PROVE  AInv'
<1>1. Growth
  BY NextGrows
<1>2. ASSUME NEW r \in Requests, Act(r) PROVE AInv'
  <2>1. OwnStep(r)
    BY <1>2, ActIsOwn
  <2>2. ASSUME NEW s \in Requests PROVE Control(s)'
    <3>1. CASE s = r
      BY <1>2, <3>1, ControlStep
    <3>2. CASE s # r
      BY <2>1, <3>2 DEF AInv, Control, OwnStep, OthersUnchanged
    <3> QED BY <3>1, <3>2
  <2>3. ASSUME NEW s \in Requests PROVE Answers(s)'
    <3>1. CASE s = r
      BY <1>1, <1>2, <3>1, AnswersStep
    <3>2. CASE s # r
      BY <1>1, <2>1, <3>2 DEF AInv, IInv, TypeOK, Answers, FirstAttemptOnRecord,
           OwnStep, OthersUnchanged, Growth
    <3> QED BY <3>1, <3>2
  <2>4. Creators'
    BY <1>1, <1>2, <2>1, <2>2, CreatorsStep
  <2>5. AppendFaultFirst'
    BY <1>1, <1>2, <2>1, AppendFaultStep
  <2>6. Charges'
    BY <1>1, <1>2, <2>1, ChargesStep
  <2>7. Rows'
    BY <1>1, <1>2, <2>1, <2>2, <2>3, RowsStep
  <2> QED BY <2>2, <2>3, <2>4, <2>5, <2>6, <2>7 DEF AInv
<1>3. CASE Restart
  BY <1>1, <1>3, RestartAInv
<1>4. CASE UNCHANGED vars
  <2>1. UNCHANGED <<invoices, billings, payments, outbox, profile, triggered,
                    gatewayCalls, faults, pc, kind, inv, att, entity, tx, reply>>
    BY <1>4 DEF vars, tables, process, locals
  <2>2. /\ \A r \in Requests : Control(r)' /\ Answers(r)'
        /\ Creators' /\ AppendFaultFirst'
    BY <2>1 DEF AInv, Control, Answers, FirstAttemptOnRecord, Creators,
         AppendFaultFirst, AppendFault
  <2>3. Charges' /\ Rows'
    BY <2>1 DEF AInv, Charges, Pursued, OnRecord, GaveUp, Rows, PublishedRow,
         InvoiceCreatedRow, BillingRequestedRow, ResultRow, FirstAttemptOnRecord
  <2> QED BY <2>2, <2>3 DEF AInv
<1> QED BY <1>2, <1>3, <1>4 DEF Next, Act, Quiescent

\* The second invariant holds in every reachable state.
THEOREM AnswersInvariant == Spec => [](IInv /\ AInv)
<1>1. Init => IInv /\ AInv
  BY InitIInv, InitAInv
<1>2. IInv /\ AInv /\ [Next]_vars => (IInv /\ AInv)'
  BY NextIInv, NextAInv
<1> QED BY <1>1, <1>2, PTL DEF Spec

-----------------------------------------------------------------------------
(* The theorems                                                             *)

\* A committed payment is never Pending: AttemptLedger gives it the status of a
\* concluded attempt.
LEMMA CommittedIsFinal ==
  ASSUME IInv, NEW p \in payments
  PROVE  p.status \in {"Approved", "Failed"}
<1>1. p \in Payment /\ billings[p.inv] \in Billing \cup {NoBilling}
  BY DEF IInv, TypeOK, Payment
<1>2. p.status = "Failed" \/ p.status = billings[p.inv].status
  BY DEF IInv, AttemptLedger
<1> QED BY <1>1, <1>2 DEF Payment, Billing, NoBilling

\* Whatever interleaves, fails or restarts between the commit and the answer, a
\* client that reads 201 or 409 is told the truth.
THEOREM RepliesTruthfulHolds == Spec => []RepliesTruthful
<1>1. IInv /\ AInv => RepliesTruthful
  <2> SUFFICES ASSUME IInv, AInv, NEW r \in Requests, pc[r] = "done"
               PROVE  /\ reply[r] = "201" /\ kind[r] = "pay" =>
                           /\ entity[r] \in payments
                           /\ entity[r].inv = inv[r]
                           /\ entity[r].status # "Pending"
                      /\ reply[r] = "201" /\ kind[r] = "create" =>
                           \E p \in payments : p.inv = inv[r] /\ p.att = 1
                      /\ reply[r] = "409" => invoices[inv[r]] = "Paid"
    BY DEF RepliesTruthful
  <2> QED BY CommittedIsFinal DEF AInv, Answers, FirstAttemptOnRecord
<1> QED BY <1>1, AnswersInvariant, PTL

\* The outcome of a gateway call is carried to COMMIT, on record under the
\* caller's id, or answered with an error: the code forgets no charge silently.
THEOREM GatewayOutcomeKeptHolds == Spec => []GatewayOutcomeKept
<1>1. IInv /\ AInv => GatewayOutcomeKept
  <2> SUFFICES ASSUME IInv, AInv, NEW c \in gatewayCalls
               PROVE  \/ tx[c.by].payment # NoPayment
                      \/ \E p \in payments : p.id = c.by /\ p.att = c.att
                      \/ reply[c.by] \in {"500", "lost"}
    BY DEF GatewayOutcomeKept
  <2>1. /\ c.by \in Requests /\ c.att = att[c.by]
        /\ Pursued(c.by) \/ OnRecord(c.by) \/ GaveUp(c.by)
    BY DEF IInv, TypeOK, AInv, Charges
  <2>2. CASE Pursued(c.by)
    BY <2>1, <2>2, PursuedReserves
  <2>3. CASE OnRecord(c.by) \/ GaveUp(c.by)
    BY <2>1, <2>3 DEF OnRecord, GaveUp
  <2> QED BY <2>1, <2>2, <2>3
<1> QED BY <1>1, AnswersInvariant, PTL

\* Without faults no attempt is charged twice, however many requests race for it
\* and whether or not its event is delivered twice.
THEOREM OneCallPerAttempt == Spec => []OneCallPerAttemptWithoutFaults
<1>1. IInv /\ AInv => OneCallPerAttemptWithoutFaults
  <2> SUFFICES ASSUME IInv, AInv, faults = 0,
                      NEW c \in gatewayCalls, NEW d \in gatewayCalls,
                      c.inv = d.inv, c.att = d.att
               PROVE  c = d
    BY DEF OneCallPerAttemptWithoutFaults, DuplicateCall
  <2>1. /\ c \in [by : Requests, inv : Invoices, att : Nat]
        /\ d \in [by : Requests, inv : Invoices, att : Nat]
        /\ c.inv = inv[c.by] /\ c.att = att[c.by]
        /\ d.inv = inv[d.by] /\ d.att = att[d.by]
        /\ Pursued(c.by) \/ OnRecord(c.by)
        /\ Pursued(d.by) \/ OnRecord(d.by)
    BY DEF IInv, TypeOK, AInv, Charges, GaveUp
  <2>2. CASE Pursued(c.by) /\ Pursued(d.by)
    <3>1. tx[c.by].payment # NoPayment /\ tx[d.by].payment # NoPayment
      BY <2>1, <2>2, PursuedReserves
    <3>2. c.by = d.by
      BY <2>1, <3>1 DEF IInv, ReservationExclusive
    <3> QED BY <2>1, <3>2
  <2>3. CASE OnRecord(c.by) /\ OnRecord(d.by)
    <3>1. PICK p \in payments : p.id = c.by /\ p.inv = c.inv /\ p.att = c.att
      BY <2>1, <2>3 DEF OnRecord
    <3>2. PICK q \in payments : q.id = d.by /\ q.inv = d.inv /\ q.att = d.att
      BY <2>1, <2>3 DEF OnRecord
    <3>3. p = q
      BY <3>1, <3>2 DEF IInv, AttemptLedger
    <3> QED BY <2>1, <3>1, <3>2, <3>3
  <2>4. ASSUME NEW r \in Requests, NEW s \in Requests, Pursued(r), OnRecord(s),
               inv[r] = inv[s], att[r] = att[s]
        PROVE  FALSE
    <3>1. billings[inv[r]] = [status |-> "Requested", attempt |-> att[r]]
      BY <2>4, PursuedReserves, ReservedBilling
    <3>2. billings[inv[r]].status = "Requested" /\ billings[inv[r]].attempt = att[r]
      BY <3>1
    <3>3. PICK p \in payments : p.inv = inv[r] /\ p.att = att[r]
      BY <2>4 DEF OnRecord
    <3>4. att[r] \in Nat /\ p.status \in {"Approved", "Failed"}
      BY CommittedIsFinal DEF IInv, TypeOK
    <3> QED BY <3>2, <3>3, <3>4 DEF IInv, AttemptLedger
  <2> QED BY <2>1, <2>2, <2>3, <2>4
<1> QED BY <1>1, AnswersInvariant, PTL

\* The outbox never says more than what was committed, and what it leaves
\* pending or failed was answered as a failure.
THEOREM OutboxTruthfulHolds == Spec => []OutboxTruthful
<1>1. IInv /\ AInv => OutboxTruthful
  <2> SUFFICES ASSUME IInv, AInv PROVE OutboxTruthful
    OBVIOUS
  <2>1. \A e \in outbox : RowTrue(e) /\ e \in EventRow
    BY DEF AInv, Rows, RowTrue, IInv, TypeOK
  <2>2. ASSUME NEW e \in outbox, NEW f \in outbox,
               e.name = f.name, e.inv = f.inv, e.att = f.att
        PROVE  e = f
    <3>1. CASE e.name \in OwnRows
      <4>1. /\ kind[e.by] = "create" /\ e.inv = inv[e.by] /\ e.by \in Requests
            /\ kind[f.by] = "create" /\ f.inv = inv[f.by] /\ f.by \in Requests
        BY <2>1, <2>2, <3>1 DEF RowTrue, PublishedRow, EventRow
      <4>2. e.by = f.by
        BY <2>2, <4>1 DEF AInv, Creators
      <4> QED BY <2>2, <3>1, <4>2 DEF AInv, Rows
    <3>2. CASE e.name \notin OwnRows
      <4>1. PICK p \in payments : p.id = e.by /\ p.inv = e.inv /\ p.att = e.att
        BY <2>1, <3>2 DEF RowTrue, ResultRow
      <4>2. PICK q \in payments : q.id = f.by /\ q.inv = f.inv /\ q.att = f.att
        BY <2>1, <2>2, <3>2 DEF RowTrue, ResultRow
      <4>3. p = q
        BY <2>2, <4>1, <4>2 DEF IInv, AttemptLedger
      <4>4. e.status = "processed" /\ f.status = "processed" /\ e.by = f.by
        BY <2>1, <2>2, <3>2, <4>1, <4>2, <4>3 DEF RowTrue, ResultRow
      <4> QED BY <2>1, <2>2, <4>4 DEF EventRow
    <3> QED BY <3>1, <3>2
  <2>3. ASSUME NEW e \in outbox, e.name \in {"PaymentApproved", "PaymentFailed"}
        PROVE  /\ e.status = "processed"
               /\ \E p \in payments :
                    /\ p.id = e.by /\ p.inv = e.inv /\ p.att = e.att
                    /\ p.status = "Approved" <=> e.name = "PaymentApproved"
    <3>1. /\ e.status = "processed"
          /\ \E p \in payments :
               /\ p.id = e.by /\ p.inv = e.inv /\ p.att = e.att
               /\ p.status = "Failed" <=> e.name = "PaymentFailed"
      BY <2>1, <2>3 DEF RowTrue, ResultRow, OwnRows
    <3> QED BY <2>3, <3>1, CommittedIsFinal
  <2>4. ASSUME NEW e \in outbox
        PROVE  /\ e.name = "BillingRequested" /\ e.status = "processed" =>
                    \E p \in payments : p.inv = e.inv /\ p.att = 1
               /\ e.status = "failed" => reply[e.by] \in {"500", "lost"}
               /\ e.status = "pending" /\ pc[e.by] = "done" =>
                    reply[e.by] \in {"500", "lost"}
    BY <2>1 DEF RowTrue, PublishedRow, BillingRequestedRow, ResultRow,
         FirstAttemptOnRecord
  <2> QED BY <2>2, <2>3, <2>4 DEF OutboxTruthful
<1> QED BY <1>1, AnswersInvariant, PTL
=============================================================================
