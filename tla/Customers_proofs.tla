-------------------------- MODULE Customers_proofs --------------------------
(* Proofs about Customers, for any number of requests, any documents and any *)
(* number of faults.                                                         *)
EXTENDS Customers, TLAPS

-----------------------------------------------------------------------------
(* The inductive invariant                                                  *)

CreateSteps == {"existsByDocument", "save", "appendCreated", "markCreated"}

Exists(c) == customers[c] # NoCustomer

\* What the step of a request says of its kind and of its answer.
Control(r) ==
  /\ pc[r] = "idle" => kind[r] = "none" /\ reply[r] = "none"
  /\ pc[r] \in CreateSteps =>
       kind[r] = "create" /\ loaded[r] \in Customer /\ loaded[r].status = "Active"
  /\ pc[r] = "getCustomer" => kind[r] \in {"update", "deactivate", "issue"}
  /\ pc[r] = "update" => kind[r] \in {"update", "deactivate"}
  /\ pc[r] = "saveInvoice" => kind[r] = "issue"
  /\ reply[r] # "none" => pc[r] = "done"

\* The row and the event of a creation appear one after the other, and the
\* answer says how far it came.
Creation(r) ==
  /\ kind[r] # "create" => ~Exists(r)
  /\ pc[r] \in {"existsByDocument", "save"} => ~Exists(r)
  /\ pc[r] \in {"appendCreated", "markCreated"} => Exists(r)
  /\ pc[r] = "appendCreated" => created[r] = "none"
  /\ created[r] # "none" => Exists(r)
  /\ Exists(r) /\ created[r] # "processed" /\ pc[r] = "done" =>
       reply[r] \in Failure
  /\ kind[r] = "create" /\ reply[r] = "201" =>
       Exists(r) /\ created[r] = "processed"
  /\ kind[r] = "create" /\ reply[r] = "409" =>
       ~Exists(r) /\ HasDocument(loaded[r].document)

UniqueDocuments ==
  \A c, d \in Requests :
    Exists(c) /\ Exists(d) /\ customers[c].document = customers[d].document =>
      c = d

\* Someone tried to deactivate the customer and was answered, or cut off.
Attempted(c) ==
  \E d \in Requests :
    kind[d] = "deactivate" /\ target[d] = c /\ reply[d] \in {"200"} \cup Failure

\* What a request that names a customer has read and written.
Reading(r) ==
  /\ pc[r] \in {"update", "saveInvoice"} =>
       Exists(target[r]) /\ loaded[r] \in Customer
  /\ pc[r] = "saveInvoice" => loaded[r].status = "Active"
  /\ pc[r] = "update" /\ loaded[r].status = "Inactive" => Attempted(target[r])
  /\ kind[r] = "deactivate" /\ reply[r] = "200" => Exists(target[r])
  /\ invoices[r] =>
       pc[r] = "done" /\ Exists(target[r]) /\ loaded[r].status = "Active"

InactiveWasDeactivated ==
  \A c \in Requests : customers[c].status = "Inactive" => Attempted(c)

CInv ==
  /\ TypeOK
  /\ \A r \in Requests : Control(r) /\ Creation(r) /\ Reading(r)
  /\ UniqueDocuments
  /\ InactiveWasDeactivated
  /\ OnlyStaleUpdateReactivates

-----------------------------------------------------------------------------
(* Facts about one step                                                     *)

Act(r) == Arrive(r) \/ Step(r) \/ StatementFails(r)

\* The step is r's own: what the other requests hold and recorded stays.
OwnStep(r) ==
  \A s \in Requests \ {r} :
    /\ pc'[s] = pc[s] /\ kind'[s] = kind[s] /\ target'[s] = target[s]
    /\ loaded'[s] = loaded[s] /\ reply'[s] = reply[s]
    /\ created'[s] = created[s] /\ invoices'[s] = invoices[s]

Inserted(r) ==
  /\ pc[r] = "save" /\ pc'[r] = "appendCreated"
  /\ ~HasDocument(loaded[r].document)
  /\ customers' = [customers EXCEPT ![r] = loaded[r]]
Written(r) ==
  /\ pc[r] = "update" /\ pc'[r] = "done"
  /\ reply'[r] \in {"200"} \cup Failure
  /\ customers' = [customers EXCEPT ![target[r]] =
                     [Changed(r) EXCEPT !.document = customers[target[r]].document]]

\* The statements that write customers.
TableStep(r) == customers' = customers \/ Inserted(r) \/ Written(r)

\* Rows stay, with their document.
Growth ==
  \A c \in Requests :
    Exists(c) => Exists(c)' /\ customers'[c].document = customers[c].document

\* An answer is final.
AnswersKept ==
  \A r \in Requests :
    /\ reply[r] # "none" =>
         /\ reply'[r] = reply[r] /\ kind'[r] = kind[r] /\ target'[r] = target[r]
         /\ loaded'[r] = loaded[r] /\ pc'[r] = "done"
    /\ pc[r] = "done" =>
         /\ reply'[r] = reply[r] /\ kind'[r] = kind[r] /\ target'[r] = target[r]
         /\ loaded'[r] = loaded[r] /\ pc'[r] = "done"

\* The absent row is not a customer.
LEMMA NoRow == NoCustomer \notin Customer
BY DEF NoCustomer, Customer

\* Every step keeps the types.
LEMMA ActType ==
  ASSUME CInv, NEW r \in Requests, Act(r)
  PROVE  TypeOK'
<1>1. TypeOK /\ Control(r) /\ Reading(r)
  BY DEF CInv
<1>2. CASE Arrive(r)
  <2>1. ASSUME NEW raw \in RawDocuments, CreateCustomer(r, raw) PROVE TypeOK'
    <3>1. NewDocument(raw) # Rejected => NewCustomer(r, raw) \in Customer
      BY CustomersAssumption DEF NewDocument, NewCustomer, Customer
    <3> QED BY <1>1, <2>1, <3>1 DEF TypeOK, CreateCustomer, Finish, Goto, Kinds,
              Steps
  <2>2. ASSUME NEW k \in Kinds, NEW c \in Requests, Request(r, k, c) PROVE TypeOK'
    BY <1>1, <2>2 DEF TypeOK, Request, Goto, Steps
  <2> QED BY <1>2, <2>1, <2>2 DEF Arrive
<1>3. CASE ExistsByDocument(r) \/ Save(r) \/ AppendCustomerCreated(r)
  BY <1>1, <1>3 DEF TypeOK, ExistsByDocument, Save, AppendCustomerCreated, Finish,
       Goto, Steps, input
<1>4. CASE GetCustomer(r)
  BY <1>1, <1>4 DEF TypeOK, GetCustomer, Finish, Goto, Steps, input
<1>5. CASE MarkCustomerCreated(r) \/ SaveInvoice(r) \/ StatementFails(r)
  <2>1. /\ faults' \in 0..MaxFaults
        /\ pc' \in [Requests -> Steps]
        /\ reply' \in [Requests ->
                {"none", "200", "201", "400", "404", "409", "500", "lost"}]
    BY <1>1, <1>5, CustomersAssumption DEF TypeOK, MarkCustomerCreated,
         SaveInvoice, StatementFails, Conclude, CanFault, Failure, Finish, Goto,
         Steps
  <2>2. /\ created' \in [Requests -> {"none", "pending", "processed"}]
        /\ invoices' \in [Requests -> BOOLEAN]
    BY <1>1, <1>5 DEF TypeOK, MarkCustomerCreated, SaveInvoice, StatementFails
  <2>3. UNCHANGED <<customers, appendFault, kind, target, loaded>>
    BY <1>5 DEF MarkCustomerCreated, SaveInvoice, StatementFails, input
  <2> QED BY <1>1, <2>1, <2>2, <2>3 DEF TypeOK
<1>6. CASE Update(r)
  <2>1. /\ loaded[r] \in Customer /\ target[r] \in Requests
        /\ customers[target[r]] \in Customer
    BY <1>1, <1>6 DEF TypeOK, Reading, Exists, Update
  <2>2. [Changed(r) EXCEPT !.document = customers[target[r]].document] \in Customer
    BY <2>1 DEF Changed, UpdateProfile, Deactivate, Customer
  <2>3. customers' \in [Requests -> Customer \cup {NoCustomer}]
    BY <1>1, <1>6, <2>1, <2>2 DEF TypeOK, Update
  <2> QED BY <1>1, <1>6, <2>3, CustomersAssumption DEF TypeOK, Update, Conclude,
            CanFault, Failure, Finish, Goto, Steps, input
<1> QED BY <1>2, <1>3, <1>4, <1>5, <1>6 DEF Act, Step

\* A step of a request touches the state of no other one.
LEMMA ActIsOwn ==
  ASSUME TypeOK, NEW r \in Requests, Act(r)
  PROVE  OwnStep(r)
BY DEF TypeOK, Act, Arrive, CreateCustomer, Request, Step, ExistsByDocument,
     Save, AppendCustomerCreated, MarkCustomerCreated, GetCustomer, Update,
     SaveInvoice, StatementFails, Conclude, Finish, Goto, input, OwnStep

\* Only INSERT and UPDATE write customers.
LEMMA ActWrites ==
  ASSUME TypeOK, NEW r \in Requests, Act(r)
  PROVE  TableStep(r)
BY DEF TypeOK, Act, Arrive, CreateCustomer, Request, Step, ExistsByDocument,
     Save, AppendCustomerCreated, MarkCustomerCreated, GetCustomer, Update,
     SaveInvoice, StatementFails, Conclude, Finish, Goto, TableStep, Inserted,
     Written

\* An UPDATE keeps the document and takes its status from what was read.
LEMMA WrittenRow ==
  ASSUME CInv, NEW r \in Requests, Written(r)
  PROVE  /\ target[r] \in Requests
         /\ customers'[target[r]] \in Customer
         /\ customers'[target[r]].document = customers[target[r]].document
         /\ customers'[target[r]].status =
              IF kind[r] = "update" THEN loaded[r].status ELSE "Inactive"
         /\ \A c \in Requests \ {target[r]} : customers'[c] = customers[c]
<1>1. /\ TypeOK /\ loaded[r] \in Customer /\ target[r] \in Requests
      /\ customers[target[r]] \in Customer
  BY DEF CInv, TypeOK, Reading, Exists, Written
<1>2. customers'[target[r]] =
        [Changed(r) EXCEPT !.document = customers[target[r]].document]
  BY <1>1 DEF TypeOK, Written
<1>3. /\ Changed(r) \in Customer
      /\ Changed(r).status = IF kind[r] = "update" THEN loaded[r].status
                                                   ELSE "Inactive"
  BY <1>1 DEF Changed, UpdateProfile, Deactivate, Customer
<1> QED BY <1>1, <1>2, <1>3 DEF Customer, TypeOK, Written

\* No row disappears or changes its document.
LEMMA TableGrows ==
  ASSUME CInv, NEW r \in Requests, TableStep(r)
  PROVE  Growth
<1>1. CASE customers' = customers
  BY <1>1 DEF Growth, Exists
<1>2. CASE Inserted(r)
  BY <1>2 DEF CInv, TypeOK, Creation, Control, CreateSteps, Inserted, Growth,
       Exists, Customer, NoCustomer
<1>3. CASE Written(r)
  BY <1>3, WrittenRow DEF Growth, Exists, Customer, NoCustomer
<1> QED BY <1>1, <1>2, <1>3 DEF TableStep

\* Nobody takes a step after its answer.
LEMMA ActAnswers ==
  ASSUME CInv, NEW r \in Requests, Act(r), OwnStep(r)
  PROVE  AnswersKept
<1>1. pc[r] # "done"
  BY DEF Act, Arrive, CreateCustomer, Request, Step, ExistsByDocument,
       Save, AppendCustomerCreated, MarkCustomerCreated, GetCustomer, Update,
       SaveInvoice, StatementFails, InFlight
<1>2. \A s \in Requests : reply[s] # "none" => pc[s] = "done"
  BY DEF CInv, Control
<1> QED BY <1>1, <1>2 DEF OwnStep, AnswersKept

-----------------------------------------------------------------------------
(* Each part of the invariant                                               *)

\* A request keeps its kind and its answer consistent with its step.
LEMMA ControlStep ==
  ASSUME CInv, NEW r \in Requests, Act(r)
  PROVE  Control(r)'
<1>1. TypeOK /\ Control(r)
  BY DEF CInv
<1>2. CASE Arrive(r)
  <2>1. ASSUME NEW raw \in RawDocuments, CreateCustomer(r, raw) PROVE Control(r)'
    <3>1. /\ NewDocument(raw) # Rejected => NewCustomer(r, raw) \in Customer
          /\ NewCustomer(r, raw).status = "Active"
      BY CustomersAssumption DEF NewDocument, NewCustomer, Customer
    <3> QED BY <1>1, <2>1, <3>1 DEF TypeOK, Control, CreateSteps, CreateCustomer,
              Finish, Goto
  <2>2. ASSUME NEW k \in Kinds, NEW c \in Requests, Request(r, k, c)
        PROVE  Control(r)'
    BY <1>1, <2>2 DEF TypeOK, Control, CreateSteps, Request, Goto, Kinds
  <2> QED BY <1>2, <2>1, <2>2 DEF Arrive
<1>3. CASE \/ ExistsByDocument(r) \/ Save(r) \/ AppendCustomerCreated(r)
           \/ GetCustomer(r)
  BY <1>1, <1>3 DEF TypeOK, Control, CreateSteps, ExistsByDocument, Save,
       AppendCustomerCreated, GetCustomer, Finish, Goto, input
<1>4. CASE \/ MarkCustomerCreated(r) \/ Update(r) \/ SaveInvoice(r)
           \/ StatementFails(r)
  BY <1>1, <1>4 DEF TypeOK, Control, CreateSteps, MarkCustomerCreated, Update,
       SaveInvoice, StatementFails, Conclude, Failure, Finish, Goto, input
<1> QED BY <1>2, <1>3, <1>4 DEF Act, Step

\* A document that was taken stays taken.
LEMMA DocumentsStay ==
  ASSUME Growth, NEW d, HasDocument(d)
  PROVE  HasDocument(d)'
BY DEF Growth, HasDocument, Exists

\* The row and the event of a creation keep their order.
LEMMA CreationStep ==
  ASSUME CInv, NEW r \in Requests, Act(r), OwnStep(r), TableStep(r), Growth,
         AnswersKept, NEW s \in Requests
  PROVE  Creation(s)'
<1>1. TypeOK /\ Control(s) /\ Creation(s) /\ Reading(r) /\ Control(r)
  BY DEF CInv
<1>2. Exists(s)' <=> Exists(s) \/ (s = r /\ Inserted(r))
  <2>1. CASE customers' = customers /\ ~Inserted(r)
    BY <2>1 DEF Exists, NoCustomer
  <2>2. CASE Inserted(r)
    BY <1>1, <2>2 DEF Exists, Inserted, Control, CreateSteps, TypeOK, Customer,
         NoCustomer
  <2>3. CASE Written(r)
    <3>1. ~Inserted(r) /\ Exists(target[r])
      BY <1>1, <2>3 DEF Written, Inserted, Reading
    <3>2. customers'[target[r]] # NoCustomer
      BY <2>3, WrittenRow, NoRow
    <3>3. s # target[r] => customers'[s] = customers[s]
      BY <2>3, WrittenRow
    <3> QED BY <3>1, <3>2, <3>3 DEF Exists
  <2> QED BY <2>1, <2>2, <2>3 DEF TableStep
<1>3. CASE s # r
  <2>1. /\ pc'[s] = pc[s] /\ kind'[s] = kind[s] /\ loaded'[s] = loaded[s]
        /\ reply'[s] = reply[s] /\ created'[s] = created[s]
    BY <1>3 DEF OwnStep
  <2> QED BY <1>1, <1>2, <1>3, <2>1, DocumentsStay DEF Creation
<1>4. CASE s = r
  <2>1. CASE Arrive(r)
    <3>1. ~Exists(r) /\ ~Exists(r)'
      BY <1>1, <1>2, <1>4, <2>1 DEF Arrive, CreateCustomer, Request, Control,
           Creation, Inserted
    <3>2. reply'[r] \in {"none", "400"} /\ created'[r] = created[r]
      BY <1>1, <1>4, <2>1 DEF TypeOK, Arrive, CreateCustomer, Request, Control,
           Finish
    <3>3. pc'[r] \in {"existsByDocument", "getCustomer", "done"}
      BY <1>1, <2>1 DEF TypeOK, Arrive, CreateCustomer, Request, Finish, Goto
    <3> QED BY <1>1, <1>4, <3>1, <3>2, <3>3 DEF Creation
  <2>2. CASE ExistsByDocument(r)
    <3>1. customers' = customers /\ loaded' = loaded /\ kind' = kind
      BY <2>2 DEF ExistsByDocument, input
    <3>2. ~Exists(r)'
      BY <1>1, <1>4, <2>2, <3>1 DEF ExistsByDocument, Creation, Exists
    <3> QED BY <1>1, <1>4, <2>2, <3>1, <3>2, DocumentsStay DEF TypeOK,
              ExistsByDocument, Finish, Goto, Creation, Control, CreateSteps
  <2>3. CASE Save(r)
    <3>1. CASE HasDocument(loaded[r].document)
      <4>1. customers' = customers /\ loaded' = loaded /\ kind' = kind
        BY <2>3, <3>1 DEF Save, input
      <4>2. ~Exists(r)'
        BY <1>1, <1>4, <2>3, <4>1 DEF Save, Creation, Exists
      <4> QED BY <1>1, <1>4, <2>3, <3>1, <4>1, <4>2, DocumentsStay DEF TypeOK,
                Save, Finish, Goto, Creation, Control, CreateSteps
    <3>2. CASE ~HasDocument(loaded[r].document)
      <4>1. Inserted(r) /\ Exists(r)' /\ ~Exists(r)
        BY <1>1, <1>2, <1>4, <2>3, <3>2 DEF TypeOK, Save, Goto, Inserted,
             Creation
      <4> QED BY <1>1, <1>4, <2>3, <3>2, <4>1 DEF TypeOK, Save, Goto, Creation,
                Control, CreateSteps, input
    <3> QED BY <3>1, <3>2
  <2>4. CASE AppendCustomerCreated(r) \/ MarkCustomerCreated(r)
    <3>1. Exists(r) /\ Exists(r)' /\ kind[r] = "create" /\ kind' = kind
      BY <1>1, <1>2, <1>4, <2>4 DEF AppendCustomerCreated, MarkCustomerCreated,
           Creation, Control, CreateSteps, input
    <3> QED BY <1>1, <1>4, <2>4, <3>1 DEF TypeOK, AppendCustomerCreated,
              MarkCustomerCreated, Conclude, Failure, Finish, Goto, Creation,
              Control, CreateSteps
  <2>5. CASE GetCustomer(r) \/ Update(r) \/ SaveInvoice(r)
    <3>1. /\ kind[r] # "create" /\ kind' = kind /\ created' = created
          /\ pc'[r] \in {"update", "saveInvoice", "done"}
      BY <1>1, <2>5 DEF TypeOK, GetCustomer, Update, SaveInvoice, Conclude,
           Finish, Goto, Control, input
    <3>2. ~Exists(r)'
      BY <1>1, <1>2, <1>4, <2>5, <3>1 DEF GetCustomer, Update, SaveInvoice,
           Creation, Inserted
    <3> QED BY <1>1, <1>2, <1>4, <3>1, <3>2 DEF Creation
  <2>6. CASE StatementFails(r)
    <3>1. /\ reply'[r] \in Failure /\ pc'[r] = "done" /\ kind' = kind
          /\ created' = created /\ customers' = customers
      BY <1>1, <2>6 DEF TypeOK, StatementFails, Finish, Goto, input
    <3> QED BY <1>1, <1>4, <3>1 DEF Failure, Creation, Exists
  <2> QED BY <2>1, <2>2, <2>3, <2>4, <2>5, <2>6 DEF Act, Step
<1> QED BY <1>3, <1>4

\* The unique index keeps documents apart.
LEMMA UniqueStep ==
  ASSUME CInv, NEW r \in Requests, TableStep(r)
  PROVE  UniqueDocuments'
<1>1. TypeOK /\ UniqueDocuments /\ Control(r) /\ Reading(r)
  BY DEF CInv
<1>2. CASE customers' = customers
  BY <1>1, <1>2 DEF UniqueDocuments, Exists
<1>3. CASE Inserted(r)
  BY <1>1, <1>3 DEF TypeOK, UniqueDocuments, Exists, Inserted, HasDocument
<1>4. CASE Written(r)
  <2>1. \A c \in Requests :
          /\ Exists(c)' => Exists(c)
          /\ customers'[c].document = customers[c].document
    BY <1>1, <1>4, WrittenRow DEF Reading, Written, Exists
  <2> QED BY <1>1, <2>1 DEF UniqueDocuments
<1> QED BY <1>2, <1>3, <1>4 DEF TableStep

\* An attempt to deactivate a customer is not forgotten.
LEMMA AttemptsStay ==
  ASSUME AnswersKept, NEW c \in Requests, Attempted(c)
  PROVE  Attempted(c)'
BY DEF AnswersKept, Attempted, Failure

\* A deactivation leaves the customer Inactive and an update leaves it as it was
\* read; whoever made it Inactive has answered by then.
LEMMA InactiveStep ==
  ASSUME CInv, NEW r \in Requests, Act(r), TableStep(r), AnswersKept,
         NEW c \in Requests, customers'[c].status = "Inactive"
  PROVE  Attempted(c)'
<1>1. /\ TypeOK /\ Control(r) /\ Reading(r)
      /\ customers[c].status = "Inactive" => Attempted(c)
  BY DEF CInv, InactiveWasDeactivated
<1>2. CASE customers[c].status = "Inactive"
  BY <1>1, <1>2, AttemptsStay
<1>3. CASE customers[c].status # "Inactive" /\ Inserted(r)
  <2>1. customers'[r] = loaded[r] /\ \A d \in Requests \ {r} :
          customers'[d] = customers[d]
    BY <1>1, <1>3 DEF TypeOK, Inserted
  <2>2. loaded[r].status = "Active"
    BY <1>1, <1>3 DEF Control, CreateSteps, Inserted
  <2> QED BY <1>3, <2>1, <2>2
<1>4. CASE customers[c].status # "Inactive" /\ Written(r)
  <2>1. c = target[r]
    BY <1>4, WrittenRow
  <2>2. CASE kind[r] = "update"
    BY <1>1, <1>4, <2>1, <2>2, WrittenRow, AttemptsStay DEF Reading, Written
  <2>3. CASE kind[r] # "update"
    <3>1. kind[r] = "deactivate" /\ UNCHANGED <<kind, target>>
      BY <1>1, <1>4, <2>3 DEF Written, Control, Act, Arrive, CreateCustomer,
           Request, Step, ExistsByDocument, Save, AppendCustomerCreated,
           MarkCustomerCreated, GetCustomer, Update, SaveInvoice,
           StatementFails, input
    <3> QED BY <1>4, <2>1, <3>1 DEF Written, Attempted
  <2> QED BY <2>2, <2>3
<1> QED BY <1>2, <1>3, <1>4 DEF TableStep

\* What a request read stays as good as it was.
LEMMA ReadingStep ==
  ASSUME CInv, NEW r \in Requests, Act(r), OwnStep(r), TableStep(r), Growth,
         AnswersKept, NEW s \in Requests
  PROVE  Reading(s)'
<1>1. /\ TypeOK /\ Control(s) /\ Reading(s) /\ InactiveWasDeactivated
      /\ target[s] \in Requests
  BY DEF CInv, TypeOK
<1>2. /\ Exists(target[s]) => customers'[target[s]] # NoCustomer
      /\ \A c \in Requests : Attempted(c) => Attempted(c)'
  <2>1. Exists(target[s]) => customers'[target[s]] # NoCustomer
    BY <1>1 DEF Growth, Exists
  <2> QED BY <1>1, <2>1, AttemptsStay
<1>3. CASE s # r
  <2>1. /\ pc'[s] = pc[s] /\ kind'[s] = kind[s] /\ loaded'[s] = loaded[s]
        /\ reply'[s] = reply[s] /\ invoices'[s] = invoices[s]
        /\ target'[s] = target[s]
    BY <1>3 DEF OwnStep
  <2>2. Attempted(target[s]) => Attempted(target[s])'
    BY <1>1, <1>2, <2>1 DEF Attempted
  <2> QED BY <1>1, <1>2, <2>1, <2>2 DEF Reading, Exists
<1>4. CASE s = r
  <2>1. CASE Arrive(r)
    <3>1. /\ ~invoices[r] /\ invoices' = invoices /\ reply'[r] # "200"
          /\ pc'[r] \notin {"update", "saveInvoice"}
      BY <1>1, <1>4, <2>1 DEF TypeOK, Arrive, CreateCustomer, Request, Control,
           Reading, Finish, Goto
    <3> QED BY <1>4, <3>1 DEF Reading
  <2>2. CASE \/ ExistsByDocument(r) \/ Save(r) \/ AppendCustomerCreated(r)
             \/ MarkCustomerCreated(r) \/ StatementFails(r)
    <3>1. /\ ~invoices[r] /\ invoices' = invoices /\ reply'[r] # "200"
          /\ pc'[r] \notin {"update", "saveInvoice"}
      BY <1>1, <1>4, <2>2 DEF TypeOK, ExistsByDocument, Save,
           AppendCustomerCreated, MarkCustomerCreated, StatementFails, InFlight,
           Conclude, Failure, Control, Reading, Finish, Goto
    <3> QED BY <1>4, <3>1 DEF Reading
  <2>3. CASE GetCustomer(r)
    <3>1. /\ ~invoices[r] /\ invoices' = invoices /\ reply'[r] # "200"
          /\ customers' = customers /\ target' = target
      BY <1>1, <1>4, <2>3 DEF TypeOK, GetCustomer, Control, Reading, Finish, Goto,
           input
    <3>2. CASE pc'[r] \in {"update", "saveInvoice"}
      <4>1. /\ Exists(target[r]) /\ loaded'[r] = customers[target[r]]
            /\ pc'[r] = "saveInvoice" => IsActive(customers[target[r]])
        BY <1>1, <2>3, <3>2 DEF TypeOK, GetCustomer, Finish, Goto, Exists
      <4>2. customers[target[r]] \in Customer
        BY <1>1, <1>4, <4>1 DEF TypeOK, Exists
      <4> QED BY <1>1, <1>2, <1>4, <3>1, <3>2, <4>1, <4>2 DEF Reading, Exists,
                IsActive, InactiveWasDeactivated
    <3>3. CASE pc'[r] \notin {"update", "saveInvoice"}
      BY <1>4, <3>1, <3>3 DEF Reading
    <3> QED BY <3>2, <3>3
  <2>4. CASE Update(r) \/ SaveInvoice(r)
    <3>1. /\ Exists(target[r]) /\ target' = target /\ loaded' = loaded
          /\ pc'[r] = "done"
          /\ invoices'[r] => loaded[r].status = "Active"
      BY <1>1, <1>4, <2>4 DEF TypeOK, Update, SaveInvoice, Conclude, Reading,
           Finish, Goto, input
    <3> QED BY <1>2, <1>4, <3>1 DEF Reading, Exists
  <2> QED BY <2>1, <2>2, <2>3, <2>4 DEF Act, Step
<1> QED BY <1>3, <1>4

\* A customer whose deactivation was answered comes back only with an update
\* that had read it Active.
LEMMA StaleUpdateStep ==
  ASSUME CInv, NEW r \in Requests, Act(r), OwnStep(r), TableStep(r), AnswersKept
  PROVE  OnlyStaleUpdateReactivates'
<1> SUFFICES ASSUME NEW c \in Requests, Deactivated(c)',
                    customers'[c].status = "Active"
             PROVE  \E u \in Requests :
                      /\ kind'[u] = "update" /\ target'[u] = c
                      /\ pc'[u] = "done" /\ loaded'[u].status = "Active"
  BY DEF OnlyStaleUpdateReactivates
<1>1. /\ TypeOK /\ Control(r) /\ Reading(r) /\ OnlyStaleUpdateReactivates
      /\ \A d \in Requests : Reading(d)
  BY DEF CInv
<1>2. UNCHANGED <<kind, target>> \/ Arrive(r)
  BY DEF Act, Step, ExistsByDocument, Save, AppendCustomerCreated,
       MarkCustomerCreated, GetCustomer, Update, SaveInvoice, StatementFails,
       input
<1>3. CASE Deactivated(c) /\ customers[c].status = "Active"
  <2>1. PICK u \in Requests : /\ kind[u] = "update" /\ target[u] = c
                              /\ pc[u] = "done" /\ loaded[u].status = "Active"
    BY <1>1, <1>3 DEF OnlyStaleUpdateReactivates
  <2> QED BY <2>1 DEF AnswersKept
<1>4. CASE Deactivated(c) /\ customers[c].status # "Active"
  <2>1. PICK d \in Requests :
          kind[d] = "deactivate" /\ target[d] = c /\ reply[d] = "200"
    BY <1>4 DEF Deactivated
  <2>2. Exists(c)
    BY <1>1, <2>1 DEF Reading
  <2>3. ~Inserted(r) \/ c # r
    BY <1>1, <2>2 DEF CInv, Creation, Inserted
  <2>4. Written(r) /\ c = target[r]
    BY <1>1, <1>4, <2>3, WrittenRow DEF TypeOK, TableStep, Inserted
  <2>5. kind[r] = "update" /\ loaded[r].status = "Active"
    BY <2>4, WrittenRow
  <2>6. UNCHANGED <<kind, target, loaded>>
    BY <2>4 DEF Written, Act, Arrive, CreateCustomer, Request, Step,
         ExistsByDocument, Save, AppendCustomerCreated, MarkCustomerCreated,
         GetCustomer, Update, SaveInvoice, StatementFails, input
  <2> QED BY <2>4, <2>5, <2>6 DEF Written
<1>5. CASE ~Deactivated(c)
  <2>1. PICK d \in Requests :
          kind'[d] = "deactivate" /\ target'[d] = c /\ reply'[d] = "200"
    BY DEF Deactivated
  <2>2. d = r
    BY <1>5, <2>1 DEF OwnStep, Deactivated
  <2>3. Update(r)
    BY <1>1, <1>5, <2>1, <2>2 DEF TypeOK, Act, Arrive, CreateCustomer, Request,
         Step, ExistsByDocument, Save, AppendCustomerCreated,
         MarkCustomerCreated, GetCustomer, SaveInvoice, StatementFails, Conclude,
         Failure, Finish, Control, CreateSteps, input, Deactivated
  <2>4. Written(r) /\ kind' = kind /\ target' = target
    BY <1>1, <2>3 DEF TypeOK, Update, Conclude, Finish, Goto, Written, input
  <2> QED BY <2>1, <2>2, <2>4, WrittenRow
<1> QED BY <1>3, <1>4, <1>5

-----------------------------------------------------------------------------
(* Induction                                                                *)

\* Nothing has happened in the initial state.
LEMMA InitCInv == Init => CInv
<1> SUFFICES ASSUME Init PROVE CInv
  OBVIOUS
<1>1. TypeOK
  BY CustomersAssumption DEF Init, TypeOK, Steps
<1>2. ASSUME NEW r \in Requests PROVE Control(r) /\ Creation(r) /\ Reading(r)
  BY DEF Init, Control, CreateSteps, Creation, Reading, Exists
<1>3. UniqueDocuments /\ InactiveWasDeactivated
  BY DEF Init, UniqueDocuments, Exists, InactiveWasDeactivated, NoCustomer
<1>4. OnlyStaleUpdateReactivates
  BY DEF Init, OnlyStaleUpdateReactivates, Deactivated
<1> QED BY <1>1, <1>2, <1>3, <1>4 DEF CInv

\* The process dies: its requests are lost, and what they wrote stays.
LEMMA RestartCInv ==
  ASSUME CInv, Restart
  PROVE  CInv'
<1>1. /\ UNCHANGED <<customers, created, invoices, kind, target, loaded>>
      /\ TypeOK
      /\ pc' = [r \in Requests |-> IF InFlight(r) THEN "done" ELSE pc[r]]
      /\ reply' = [r \in Requests |-> IF InFlight(r) THEN "lost" ELSE reply[r]]
  BY DEF Restart, CInv, input
<1>2. TypeOK'
  <2>1. faults' \in 0..MaxFaults /\ appendFault' \in BOOLEAN
    BY <1>1, CustomersAssumption DEF TypeOK, Restart, CanFault
  <2>2. /\ pc' \in [Requests -> Steps]
        /\ reply' \in [Requests ->
                {"none", "200", "201", "400", "404", "409", "500", "lost"}]
    BY <1>1 DEF TypeOK, Steps
  <2> QED BY <1>1, <2>1, <2>2 DEF TypeOK
<1>3. ASSUME NEW r \in Requests
      PROVE  \/ /\ InFlight(r) /\ pc'[r] = "done" /\ reply'[r] = "lost"
                /\ reply[r] = "none"
             \/ /\ pc[r] \in {"idle", "done"}
                /\ pc'[r] = pc[r] /\ reply'[r] = reply[r]
  BY <1>1 DEF InFlight, CInv, Control
<1>4. ASSUME NEW r \in Requests PROVE Control(r)'
  BY <1>1, <1>3 DEF CInv, Control, CreateSteps
<1>5. ASSUME NEW r \in Requests PROVE Creation(r)'
  BY <1>1, <1>3 DEF CInv, Creation, Exists, HasDocument, Failure
<1>6. ASSUME NEW r \in Requests PROVE Reading(r)'
  BY <1>1, <1>3 DEF CInv, Reading, Exists, InFlight
<1>7. \A c \in Requests : Attempted(c) => Attempted(c)'
  BY <1>1, <1>3 DEF Attempted, Failure
<1>8. UniqueDocuments' /\ InactiveWasDeactivated'
  BY <1>1, <1>7 DEF CInv, UniqueDocuments, Exists, InactiveWasDeactivated
<1>9. OnlyStaleUpdateReactivates'
  <2>1. \A c \in Requests : Deactivated(c)' => Deactivated(c)
    BY <1>1, <1>3 DEF Deactivated
  <2> QED BY <1>1, <1>3, <2>1 DEF CInv, OnlyStaleUpdateReactivates, InFlight
<1> QED BY <1>2, <1>4, <1>5, <1>6, <1>8, <1>9 DEF CInv

\* Every step preserves the invariant.
LEMMA NextCInv == CInv /\ [Next]_vars => CInv'
<1> SUFFICES ASSUME CInv, [Next]_vars PROVE CInv'
  OBVIOUS
<1>1. ASSUME NEW r \in Requests, Act(r) PROVE CInv'
  <2>1. OwnStep(r) /\ TableStep(r)
    BY <1>1, ActIsOwn, ActWrites DEF CInv
  <2>2. Growth /\ AnswersKept
    BY <1>1, <2>1, TableGrows, ActAnswers
  <2>3. TypeOK'
    BY <1>1, ActType
  <2>4. ASSUME NEW s \in Requests PROVE Control(s)'
    <3>1. CASE s = r
      BY <1>1, <3>1, ControlStep
    <3>2. CASE s # r
      BY <2>1, <3>2 DEF CInv, Control, OwnStep
    <3> QED BY <3>1, <3>2
  <2>5. ASSUME NEW s \in Requests PROVE Creation(s)' /\ Reading(s)'
    BY <1>1, <2>1, <2>2, CreationStep, ReadingStep
  <2>6. UniqueDocuments'
    BY <2>1, UniqueStep
  <2>7. InactiveWasDeactivated'
    BY <1>1, <2>1, <2>2, InactiveStep DEF InactiveWasDeactivated
  <2>8. OnlyStaleUpdateReactivates'
    BY <1>1, <2>1, <2>2, StaleUpdateStep
  <2> QED BY <2>3, <2>4, <2>5, <2>6, <2>7, <2>8 DEF CInv
<1>2. CASE Restart
  BY <1>2, RestartCInv
<1>3. CASE UNCHANGED vars
  <2>1. UNCHANGED <<customers, created, invoices, appendFault, faults, pc, kind,
                    target, loaded, reply>>
    BY <1>3 DEF vars, input
  <2>2. TypeOK'
    BY <2>1 DEF CInv, TypeOK
  <2>3. \A r \in Requests : Control(r)' /\ Creation(r)'
    BY <2>1 DEF CInv, Control, Creation, Exists, HasDocument
  <2>4. \A c \in Requests : Attempted(c)' <=> Attempted(c)
    BY <2>1 DEF Attempted
  <2>5. \A r \in Requests : Reading(r)'
    BY <2>1 DEF CInv, Reading, Exists, Attempted
  <2>6. UniqueDocuments' /\ InactiveWasDeactivated' /\ OnlyStaleUpdateReactivates'
    BY <2>1, <2>4 DEF CInv, UniqueDocuments, Exists, InactiveWasDeactivated,
         OnlyStaleUpdateReactivates, Deactivated
  <2> QED BY <2>2, <2>3, <2>5, <2>6 DEF CInv
<1> QED BY <1>1, <1>2, <1>3 DEF Next, Act, Quiescent

-----------------------------------------------------------------------------
(* The theorems                                                             *)

\* The inductive invariant holds in every reachable state.
THEOREM CustomersInvariant == Spec => []CInv
<1>1. Init => CInv
  BY InitCInv
<1>2. CInv /\ [Next]_vars => CInv'
  BY NextCInv
<1> QED BY <1>1, <1>2, PTL DEF Spec

\* However many creations of one document race past ExistsByDocument, one
\* customer has it, and 409 is answered only because of it.
THEOREM DocumentOwnedOnceHolds == Spec => []DocumentOwnedOnce
<1>1. CInv => DocumentOwnedOnce
  BY DEF CInv, Creation, UniqueDocuments, Exists, DocumentOwnedOnce
<1> QED BY <1>1, CustomersInvariant, PTL

\* The answer to a creation tells whether row and event were both recorded,
\* wherever the creation failed.
THEOREM CreationAnsweredHolds == Spec => []CreationAnswered
<1>1. CInv => CreationAnswered
  BY DEF CInv, Creation, Exists, CreationAnswered
<1> QED BY <1>1, CustomersInvariant, PTL

\* A deactivation that was answered is undone by nothing but an update that read
\* the customer before it.
THEOREM OnlyStaleUpdateReactivatesHolds == Spec => []OnlyStaleUpdateReactivates
<1>1. CInv => OnlyStaleUpdateReactivates
  BY DEF CInv
<1> QED BY <1>1, CustomersInvariant, PTL

\* An invoice is issued only to a customer that exists and was read as Active,
\* and an inactive one was deactivated by a request that was answered or cut off.
THEOREM InvoicedCustomerWasActiveHolds == Spec => []InvoicedCustomerWasActive
<1>1. CInv => InvoicedCustomerWasActive
  <2> SUFFICES ASSUME CInv, NEW r \in Requests, invoices[r]
               PROVE  /\ customers[target[r]] # NoCustomer
                      /\ loaded[r].status = "Active"
                      /\ customers[target[r]].status = "Inactive" =>
                           Attempted(target[r])
    BY DEF InvoicedCustomerWasActive, Attempted
  <2>1. target[r] \in Requests
    BY DEF CInv, TypeOK
  <2> QED BY <2>1 DEF CInv, Reading, Exists, InactiveWasDeactivated
<1> QED BY <1>1, CustomersInvariant, PTL
=============================================================================
