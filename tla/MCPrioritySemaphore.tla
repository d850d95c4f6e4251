-------------------------- MODULE MCPrioritySemaphore --------------------------
(* PrioritySemaphore for TLC: four tasks on two permits.  The queue bound is *)
(* passed by the first waiter, so that the second one must be LOW.          *)
EXTENDS PrioritySemaphore, TLC

CONSTANTS t1, t2, t3, t4

Tasks4 == {t1, t2, t3, t4}

=============================================================================
