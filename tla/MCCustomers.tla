---------------------------- MODULE MCCustomers ----------------------------
(* Small instances of Customers for TLC.                                    *)
EXTENDS Customers, TLC

CONSTANTS r1, r2, r3, r4, d1, d2, wrongLength

MCRequests3 == {r1, r2, r3}
MCRequests4 == {r1, r2, r3, r4}
MCDocuments == {d1, d2}

\* "dotted" writes the digits of "plain" with punctuation.
MCRaw == {"plain", "dotted", "other", "short"}
MCDigits ==
  [raw \in MCRaw |-> CASE raw \in {"plain", "dotted"} -> d1
                       [] raw = "other" -> d2
                       [] OTHER -> wrongLength]

Symmetry == Permutations(Requests)
=============================================================================
