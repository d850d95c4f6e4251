---------------------------- MODULE MCBroadSearch -----------------------------
(* A broad search over four documents of two queries and an anchor that    *)
(* came from none.                                                         *)
EXTENDS BroadSearch, TLC

CONSTANTS d1, d2, d3, d4, anchor, q1, q2

MCDocs    == {d1, d2, d3, d4, anchor}
MCOrigins == d1 :> {q1} @@ d2 :> {q1, q2} @@ d3 :> {q2} @@ d4 :> {q1} @@ anchor :> {}
MCFits    == {d1, d2, d4, anchor}
=============================================================================
