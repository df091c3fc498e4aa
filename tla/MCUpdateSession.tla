--------------------------- MODULE MCUpdateSession ---------------------------
(* Model-checking instance of UpdateSession: requests are model values.    *)
EXTENDS UpdateSession, TLC

CONSTANTS r1, r2, r3

MCReq2 == {r1, r2}
MCReq1 == {r1}
MCReq3 == {r1, r2, r3}

(* Requests are interchangeable: none is named by the specification.       *)
MCSymmetry == Permutations(Req)
=============================================================================
