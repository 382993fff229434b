----------------------------- MODULE Settlement -----------------------------
(***************************************************************************)
(* What the invoices, billing and payments modules promise together about  *)
(* their committed tables, with no requests, transactions or events: an    *)
(* invoice is issued, billed once, and charged attempt by attempt; each    *)
(* attempt is concluded once, in one step that writes all three tables;    *)
(* only a failed attempt is followed by another.                           *)
(***************************************************************************)
EXTENDS Naturals

CONSTANT Invoices

VARIABLES
  status,   \* status of each invoice: "None", "Pending" or "Paid"
  billing,  \* the billing of each invoice: status and current attempt
  ledger    \* the concluded attempts: [inv, att, status]

ledgerVars == <<status, billing, ledger>>

Unbilled == [status |-> "None", attempt |-> 0]
RequestedAt(n) == [status |-> "Requested", attempt |-> n]

Init ==
  /\ status = [i \in Invoices |-> "None"]
  /\ billing = [i \in Invoices |-> Unbilled]
  /\ ledger = {}

Issue(i) ==
  /\ status[i] = "None"
  /\ status' = [status EXCEPT ![i] = "Pending"]
  /\ UNCHANGED <<billing, ledger>>

Bill(i) ==
  /\ status[i] = "Pending"
  /\ billing[i] = Unbilled
  /\ billing' = [billing EXCEPT ![i] = RequestedAt(1)]
  /\ UNCHANGED <<status, ledger>>

\* The current attempt gets its outcome; an approval pays the invoice with it.
Conclude(i, outcome) ==
  /\ billing[i].status = "Requested"
  /\ billing' = [billing EXCEPT ![i].status = outcome]
  /\ ledger' = ledger \cup
       {[inv |-> i, att |-> billing[i].attempt, status |-> outcome]}
  /\ status' = IF outcome = "Approved"
                 THEN [status EXCEPT ![i] = "Paid"]
                 ELSE status

Retry(i) ==
  /\ billing[i].status = "Failed"
  /\ billing' = [billing EXCEPT ![i] = RequestedAt(@.attempt + 1)]
  /\ UNCHANGED <<status, ledger>>

Next ==
  \E i \in Invoices :
    \/ Issue(i)
    \/ Bill(i)
    \/ \E outcome \in {"Approved", "Failed"} : Conclude(i, outcome)
    \/ Retry(i)

Spec == Init /\ [][Next]_ledgerVars
=============================================================================
