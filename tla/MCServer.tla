------------------------------ MODULE MCServer ------------------------------
(* Two requests of two statements each during the life of the process.      *)
EXTENDS Server

CONSTANTS r1, r2
MCRequests == {r1, r2}
=============================================================================
