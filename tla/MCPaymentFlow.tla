--------------------------- MODULE MCPaymentFlow ---------------------------
(* Small instances of PaymentFlow for TLC.                                  *)
EXTENDS PaymentFlow, TLC

CONSTANTS r1, r2, r3, i1, i2

MCRequests2 == {r1, r2}
MCRequests3 == {r1, r2, r3}
MCInvoices1 == {i1}
MCInvoices2 == {i1, i2}
MCOutcomes == {"Approved", "Declined", "Timeout"}
MCNoProfile == {"none"}

\* Invoices share nothing but the once-only flag of the process, and only the
\* append failure can hit the flow of either.
SecondInvoiceForAppend ==
  profile # "outbox_append_failure" =>
    \A r \in Requests : pc[r] # "idle" => inv[r] = i1

\* Requests are interchangeable.
Symmetry == Permutations(Requests)
=============================================================================
