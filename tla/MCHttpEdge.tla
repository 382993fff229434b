----------------------------- MODULE MCHttpEdge -----------------------------
EXTENDS HttpEdge, TLC

CONSTANTS r1, r2

MCRequests == {r1, r2}
MCClientIds == {Blank, "c1"}
MCDrawn == <<"d1", "d2">>

Symmetry == Permutations(Requests)
=============================================================================
