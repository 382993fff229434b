----------------------------- MODULE MCSyncBus -----------------------------
(* The wiring of cmd/api/main.go as a small instance of SyncBus: billing     *)
(* consumes InvoiceCreated and publishes BillingRequested, payments consumes *)
(* that and publishes the result, which invoices and billing consume.        *)
EXTENDS SyncBus

CONSTANTS g1, g2

MCGoroutines == {g1, g2}
MCNames ==
  {"InvoiceCreated", "BillingRequested", "PaymentApproved", "InvoicePaid"}
MCTopNames == {"InvoiceCreated", "PaymentApproved"}
MCHandlers ==
  {"billInvoice", "charge", "payInvoice", "approveBilling"}
MCConsumes ==
  [h \in MCHandlers |->
     CASE h = "billInvoice" -> "InvoiceCreated"
       [] h = "charge" -> "BillingRequested"
       [] OTHER -> "PaymentApproved"]
MCPublishes ==
  [h \in MCHandlers |->
     CASE h = "billInvoice" -> {"BillingRequested"}
       [] h = "charge" -> {"PaymentApproved"}
       [] h = "payInvoice" -> {"InvoicePaid"}
       [] OTHER -> {}]
MCModule ==
  [h \in MCHandlers |->
     CASE h = "charge" -> "payments"
       [] h = "payInvoice" -> "invoices"
       [] OTHER -> "billing"]
\* ProcessBillingRequest charges and publishes within a transaction of its own.
MCTransactional == {"charge"}
\* The second handler of PaymentApproved is subscribed while others publish.
MCWiring ==
  [name \in MCNames |->
     CASE name = "InvoiceCreated" -> <<"billInvoice">>
       [] name = "BillingRequested" -> <<"charge">>
       [] name = "PaymentApproved" -> <<"payInvoice">>
       [] OTHER -> <<>>]
\* EventBusOptions of duplicate_billing_requested and event_consumer_failure;
\* "" names no event.
MCBusOptions ==
  {[duplicate |-> "BillingRequested", failName |-> "", failModule |-> ""],
   [duplicate |-> "", failName |-> "BillingRequested", failModule |-> "payments"]}
=============================================================================
