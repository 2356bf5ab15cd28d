----------------------------- MODULE MCNodeCall -----------------------------
(***************************************************************************)
(* Calls for checking NodeCall with TLC: synchronous and asynchronous, of  *)
(* plain functions and coroutines, with and without a timeout, with no     *)
(* retry policy, with max_attempts 3 and with max_attempts 0.              *)
(***************************************************************************)
EXTENDS NodeCall

AllCalls ==
  {c \in CallType : /\ c.max_attempts \in {0, MaxAttempts}
                    /\ ~c.retry => c.max_attempts = MaxAttempts}

=============================================================================
