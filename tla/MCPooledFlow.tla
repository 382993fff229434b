---------------------------- MODULE MCPooledFlow ----------------------------
(* Small instances of PooledFlow for TLC: pools of one and two connections  *)
(* for three requests.                                                      *)
EXTENDS PooledFlow

CONSTANTS r1, r2, r3, i1

MCRequests == {r1, r2, r3}
MCInvoices == {i1}
MCPools == {1, 2}
MCProfiles == {"duplicate_billing_requested"}
MCOutcomes == {"Approved", "Declined"}
=============================================================================
