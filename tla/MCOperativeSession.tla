-------------------------- MODULE MCOperativeSession --------------------------
(* OperativeSession for TLC: two operatives that ask twice and one answer,  *)
(* which comes at any time or in turn.  A second answer makes liveness too  *)
(* large, and symmetry is not sound for it.                                 *)
EXTENDS OperativeSession

CONSTANTS q1, q2, a1

TwoQueries == {q1, q2}
OneReply   == {a1}

=============================================================================
