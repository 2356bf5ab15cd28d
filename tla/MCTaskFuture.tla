---------------------------- MODULE MCTaskFuture ----------------------------
(***************************************************************************)
(* Callers of one _TaskFuture for TLC: a thread, two coroutines on one     *)
(* event loop and one on the loop of another thread.                       *)
(***************************************************************************)
EXTENDS TaskFuture

CONSTANTS t1, t2, c1, c2, c3, l1, l2

Loops == [c \in Coros |-> IF c = c3 THEN l2 ELSE l1]

=============================================================================
