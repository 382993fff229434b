----------------------------- MODULE Customers -----------------------------
(***************************************************************************)
(* The customers module and the use its neighbour makes of it: POST, PUT   *)
(* and PATCH /customers, and POST /invoices up to the INSERT of the        *)
(* invoice, which depends on the customer being active (PaymentFlow goes   *)
(* on from there).  None of them runs in a transaction: a step is one SQL  *)
(* statement, and requests interleave between them.                        *)
(***************************************************************************)
EXTENDS Naturals

CONSTANTS
  Requests,      \* the HTTP requests of a behaviour, each served once
  RawDocuments,  \* documents as clients write them
  Documents,     \* digit strings of a document's length
  Digits,        \* what NewDocument makes of a raw document
  Rejected,      \* the value of Digits for a document of the wrong length
  MaxFaults      \* how many statements, clients or processes may fail

ASSUME CustomersAssumption ==
  /\ Rejected \notin Documents
  /\ Digits \in [RawDocuments -> Documents \cup {Rejected}]
  /\ MaxFaults \in Nat

\* A customer's id is the request that created it (a fresh UUID); its contact,
\* a name with an email, is the request that brought it.
Customer ==
  [document : Documents, contact : Requests, status : {"Active", "Inactive"}]
NoCustomer == [status |-> "None"]

VARIABLES
  customers,  \* committed rows by id
  created,    \* status of the CustomerCreated row of outbox_events, by id
  invoices,   \* the requests that inserted an invoice for their target
  appendFault,\* the outbox_append_failure profile is on and has not fired yet
  faults,     \* faults so far, up to MaxFaults
  pc,         \* the next step of each request
  kind,       \* the operation of the request
  target,     \* the customer id the request is about
  loaded,     \* the Customer the request built or read
  reply       \* the HTTP status the request answers, or "lost"

input == <<kind, target>>
vars == <<customers, created, invoices, appendFault, faults, pc, input, loaded,
          reply>>

Kinds == {"create", "update", "deactivate", "issue"}
Steps ==
  {"idle", "existsByDocument", "save", "appendCreated", "markCreated",
   "getCustomer", "update", "saveInvoice", "done"}

Goto(r, step) == pc' = [pc EXCEPT ![r] = step]
Finish(r, code) == Goto(r, "done") /\ reply' = [reply EXCEPT ![r] = code]

CanFault == faults < MaxFaults /\ faults' = faults + 1
Failure == {"500", "lost"}

\* The answer after the last statement took effect: the request fails all the
\* same if the acknowledgement of the statement, or the answer, is lost.
Conclude(r, code) ==
  \/ Finish(r, code) /\ UNCHANGED faults
  \/ CanFault /\ \E failure \in Failure : Finish(r, failure)

-----------------------------------------------------------------------------
(* POST /customers                                                          *)

\* The digits of the text, if they are as many as a document has.
NewDocument(raw) == Digits[raw]

NewCustomer(r, raw) ==
  [document |-> NewDocument(raw), contact |-> r, status |-> "Active"]

\* An invalid document is answered before any statement.
CreateCustomer(r, raw) ==
  /\ pc[r] = "idle"
  /\ kind' = [kind EXCEPT ![r] = "create"]
  /\ target' = [target EXCEPT ![r] = r]
  /\ IF NewDocument(raw) = Rejected
       THEN Finish(r, "400") /\ UNCHANGED loaded
       ELSE /\ loaded' = [loaded EXCEPT ![r] = NewCustomer(r, raw)]
            /\ Goto(r, "existsByDocument")
            /\ UNCHANGED reply
  /\ UNCHANGED <<customers, created, invoices, appendFault, faults>>

HasDocument(d) ==
  \E c \in Requests : customers[c] # NoCustomer /\ customers[c].document = d

ExistsByDocument(r) ==
  /\ pc[r] = "existsByDocument"
  /\ IF HasDocument(loaded[r].document)
       THEN Finish(r, "409")
       ELSE Goto(r, "save") /\ UNCHANGED reply
  /\ UNCHANGED <<customers, created, invoices, appendFault, faults, input,
                 loaded>>

\* Wrong variant: no unique index on the document.
SaveWithoutIndex(r) ==
  /\ pc[r] = "save"
  /\ customers' = [customers EXCEPT ![r] = loaded[r]]
  /\ Goto(r, "appendCreated")
  /\ UNCHANGED <<created, invoices, appendFault, faults, input, loaded, reply>>

\* INSERT; customers_document_uq refuses a document taken since the check.
Save(r) ==
  /\ pc[r] = "save"
  /\ IF HasDocument(loaded[r].document)
       THEN Finish(r, "409") /\ UNCHANGED customers
       ELSE /\ customers' = [customers EXCEPT ![r] = loaded[r]]
            /\ Goto(r, "appendCreated")
            /\ UNCHANGED reply
  /\ UNCHANGED <<created, invoices, appendFault, faults, input, loaded>>

\* Wrong variant: a failed publication is not reported.
AppendErrorIgnored(r) ==
  /\ pc[r] = "appendCreated"
  /\ IF appendFault
       THEN appendFault' = FALSE /\ Finish(r, "201") /\ UNCHANGED created
       ELSE /\ created' = [created EXCEPT ![r] = "pending"]
            /\ Goto(r, "markCreated")
            /\ UNCHANGED <<appendFault, reply>>
  /\ UNCHANGED <<customers, invoices, faults, input, loaded>>

\* Publish of CustomerCreated, which has no consumer: append and mark.
AppendCustomerCreated(r) ==
  /\ pc[r] = "appendCreated"
  /\ IF appendFault
       THEN appendFault' = FALSE /\ Finish(r, "500") /\ UNCHANGED created
       ELSE /\ created' = [created EXCEPT ![r] = "pending"]
            /\ Goto(r, "markCreated")
            /\ UNCHANGED <<appendFault, reply>>
  /\ UNCHANGED <<customers, invoices, faults, input, loaded>>

MarkCustomerCreated(r) ==
  /\ pc[r] = "markCreated"
  /\ created' = [created EXCEPT ![r] = "processed"]
  /\ Conclude(r, "201")
  /\ UNCHANGED <<customers, invoices, appendFault, input, loaded>>

-----------------------------------------------------------------------------
(* The operations on an existing customer                                   *)

\* PUT and PATCH /customers/{id} and POST /invoices name a customer.
Request(r, k, c) ==
  /\ pc[r] = "idle"
  /\ k # "create"
  /\ kind' = [kind EXCEPT ![r] = k]
  /\ target' = [target EXCEPT ![r] = c]
  /\ Goto(r, "getCustomer")
  /\ UNCHANGED <<customers, created, invoices, appendFault, faults, loaded,
                 reply>>

\* Wrong variant: a profile is written with the status of a new customer.
UpdateProfileActivates(row, r) ==
  [row EXCEPT !.contact = r, !.status = "Active"]

UpdateProfile(row, r) == [row EXCEPT !.contact = r]

\* Wrong variant: the existence checker accepts any customer.
IsAnyone(row) == TRUE

IsActive(row) == row.status = "Active"
Deactivate(row) == [row EXCEPT !.status = "Inactive"]

\* GetByID; an invoice is refused to a customer that is not active.
GetCustomer(r) ==
  /\ pc[r] = "getCustomer"
  /\ LET row == customers[target[r]] IN
       \/ /\ row = NoCustomer
          /\ Finish(r, "404")
          /\ UNCHANGED loaded
       \/ /\ row # NoCustomer
          /\ loaded' = [loaded EXCEPT ![r] = row]
          /\ \/ kind[r] # "issue" /\ Goto(r, "update") /\ UNCHANGED reply
             \/ /\ kind[r] = "issue"
                /\ IF IsActive(row)
                     THEN Goto(r, "saveInvoice") /\ UNCHANGED reply
                     ELSE Finish(r, "409")
  /\ UNCHANGED <<customers, created, invoices, appendFault, faults, input>>

\* The entity a request read, as its use case changed it.
Changed(r) ==
  IF kind[r] = "update" THEN UpdateProfile(loaded[r], r) ELSE Deactivate(loaded[r])

\* UPDATE writes name, email and status as the request holds them.
Update(r) ==
  /\ pc[r] = "update"
  /\ customers' = [customers EXCEPT ![target[r]] =
                     [Changed(r) EXCEPT !.document = customers[target[r]].document]]
  /\ Conclude(r, "200")
  /\ UNCHANGED <<created, invoices, appendFault, input, loaded>>

SaveInvoice(r) ==
  /\ pc[r] = "saveInvoice"
  /\ invoices' = [invoices EXCEPT ![r] = TRUE]
  /\ Conclude(r, "201")
  /\ UNCHANGED <<customers, created, appendFault, input, loaded>>

-----------------------------------------------------------------------------
(* Faults of the environment                                                *)

InFlight(r) == pc[r] \notin {"idle", "done"}

\* A statement fails without effect, or the client is gone before it.
StatementFails(r) ==
  /\ CanFault
  /\ InFlight(r)
  /\ \E failure \in Failure : Finish(r, failure)
  /\ UNCHANGED <<customers, created, invoices, appendFault, input, loaded>>

\* The process dies and is started again, with or without the fault profile.
Restart ==
  /\ CanFault
  /\ pc' = [r \in Requests |-> IF InFlight(r) THEN "done" ELSE pc[r]]
  /\ reply' = [r \in Requests |-> IF InFlight(r) THEN "lost" ELSE reply[r]]
  /\ appendFault' \in BOOLEAN
  /\ UNCHANGED <<customers, created, invoices, input, loaded>>

-----------------------------------------------------------------------------
Init ==
  /\ customers = [c \in Requests |-> NoCustomer]
  /\ created = [c \in Requests |-> "none"]
  /\ invoices = [r \in Requests |-> FALSE]
  /\ appendFault \in BOOLEAN
  /\ faults = 0
  /\ pc = [r \in Requests |-> "idle"]
  /\ kind = [r \in Requests |-> "none"]
  /\ target = [r \in Requests |-> r]
  /\ loaded = [r \in Requests |-> NoCustomer]
  /\ reply = [r \in Requests |-> "none"]

Arrive(r) ==
  \/ \E raw \in RawDocuments : CreateCustomer(r, raw)
  \/ \E k \in Kinds, c \in Requests : Request(r, k, c)

Step(r) ==
  \/ ExistsByDocument(r)
  \/ Save(r)
  \/ AppendCustomerCreated(r)
  \/ MarkCustomerCreated(r)
  \/ GetCustomer(r)
  \/ Update(r)
  \/ SaveInvoice(r)

\* Every request was answered.
Quiescent == (\A r \in Requests : pc[r] = "done") /\ UNCHANGED vars

Next ==
  \/ \E r \in Requests : Arrive(r) \/ Step(r) \/ StatementFails(r)
  \/ Restart
  \/ Quiescent

Spec == Init /\ [][Next]_vars

-----------------------------------------------------------------------------
(* Properties                                                               *)

\* Every variable holds a value of its table, entity or step.
TypeOK ==
  /\ customers \in [Requests -> Customer \cup {NoCustomer}]
  /\ created \in [Requests -> {"none", "pending", "processed"}]
  /\ invoices \in [Requests -> BOOLEAN]
  /\ appendFault \in BOOLEAN
  /\ faults \in 0..MaxFaults
  /\ pc \in [Requests -> Steps]
  /\ kind \in [Requests -> Kinds \cup {"none"}]
  /\ target \in [Requests -> Requests]
  /\ loaded \in [Requests -> Customer \cup {NoCustomer}]
  /\ reply \in [Requests ->
                  {"none", "200", "201", "400", "404", "409", "500", "lost"}]

\* However the check of ExistsByDocument races, no two customers share a
\* document, whatever punctuation their clients wrote it with; and a creation is
\* refused with 409 only when another customer has the document.
DocumentOwnedOnce ==
  \A r \in Requests :
    /\ \A s \in Requests \ {r} :
         customers[r] # NoCustomer /\ customers[s] # NoCustomer =>
           customers[r].document # customers[s].document
    /\ kind[r] = "create" /\ reply[r] = "409" =>
         /\ customers[r] = NoCustomer
         /\ HasDocument(loaded[r].document)

\* Creating a customer is not atomic with its event, and the answers admit it:
\* 201 means the row and a processed CustomerCreated; a row whose event is
\* missing or pending belongs to a request still running or answered 500 or cut
\* off; an event never stands without its row.
CreationAnswered ==
  \A r \in Requests :
    /\ kind[r] = "create" /\ reply[r] = "201" =>
         customers[r] # NoCustomer /\ created[r] = "processed"
    /\ customers[r] # NoCustomer /\ created[r] # "processed" /\ pc[r] = "done" =>
         reply[r] \in Failure
    /\ created[r] # "none" => customers[r] # NoCustomer

\* A PATCH /customers/{id}/inactive was answered with success.
Deactivated(c) ==
  \E r \in Requests :
    kind[r] = "deactivate" /\ target[r] = c /\ reply[r] = "200"

\* A customer that is Active after a deactivation was answered with success owes
\* it to an update that is through and had read the customer while it was Active:
\* no other operation, and no update that read it Inactive, brings it back.
OnlyStaleUpdateReactivates ==
  \A c \in Requests :
    Deactivated(c) /\ customers[c].status = "Active" =>
      \E u \in Requests :
        /\ kind[u] = "update" /\ target[u] = c
        /\ pc[u] = "done" /\ loaded[u].status = "Active"

\* An invoice belongs to a customer that exists; if that customer is inactive, a
\* deactivation overtook the check of the invoice or came after it.
InvoicedCustomerWasActive ==
  \A r \in Requests : invoices[r] =>
    /\ customers[target[r]] # NoCustomer
    /\ loaded[r].status = "Active"
    /\ customers[target[r]].status = "Inactive" =>
         \E d \in Requests :
           /\ kind[d] = "deactivate" /\ target[d] = target[r]
           /\ reply[d] \in {"200"} \cup Failure

\* A deactivation that was answered with 200 is not undone: there is no operation
\* that activates a customer.
DeactivationSticks ==
  \A c \in Requests : Deactivated(c) => customers[c].status = "Inactive"
=============================================================================
