------------------------------ MODULE NodeCall ------------------------------
(***************************************************************************)
(* One call of a node by the engine: PregelLoop._call_node,                *)
(* _call_with_timeout and _acall_node_inner, with _execute_func, and the   *)
(* interrupt() calls of the node's function.                               *)
(*                                                                         *)
(* The engine starts an attempt and waits for it, at most as long as the   *)
(* timeout says; a failed attempt may be tried again, after a pause.  An   *)
(* attempt of _call_with_timeout runs in a thread that cannot be stopped   *)
(* once it has started: it goes on after its timeout.  All attempts of a   *)
(* call enter one copy of the context, which one thread at a time can be   *)
(* in: an attempt whose thread finds another in it fails with a            *)
(* RuntimeError and does not reach the function.                           *)
(*                                                                         *)
(* A coroutine is cancelled when it times out.  A plain function called by *)
(* the asynchronous engine holds the event loop, and no timeout reaches it.*)
(*                                                                         *)
(* All attempts of a call share one Scratchpad: the answers of the caller  *)
(* and the counter that says which of them an interrupt() call gets.       *)
(***************************************************************************)
EXTENDS Integers, FiniteSets

CONSTANTS
  Calls,           \* the kinds of calls: [async, coroutine, timed, retry, max_attempts]
  RetryOn,         \* retry_policy.retry_on: the failures to try again after
  Answers,         \* len(scratchpad.resume)
  MaxAttempts,     \* bound: on max_attempts
  MaxAsks          \* bound: interrupt() calls of all attempts

\* How an attempt may fail: with an exception of the function, of which TimeoutError is
\* treated apart, or because the context is in use.
Exceptions == {"listed", "other", "timeout"}
Failures   == Exceptions \cup {"busy"}

CallType ==
  [async : BOOLEAN, coroutine : BOOLEAN, timed : BOOLEAN, retry : BOOLEAN,
   max_attempts : 0..MaxAttempts]

ASSUME CallAssumption ==
  /\ MaxAttempts \in Nat \ {0} /\ MaxAsks \in Nat /\ Answers \in Nat
  /\ RetryOn \subseteq Failures
  /\ Calls \subseteq CallType

VARIABLES
  call,            \* what is called, and how
  pc,              \* the engine: "try", "wait" for the attempt, "sleep", "done"
  attempt,
  body,            \* where the function of each attempt is, or how it ended
  counter,         \* scratchpad.interrupt_counter: the questions asked by all attempts
  left,            \* the attempts that timed out
  outcome          \* what the call returned or raised, and of which attempt

vars == <<call, pc, attempt, body, counter, left, outcome>>

Attempts == 0 .. MaxAttempts - 1

Ended == Failures \cup {"returned", "asked"}

Underway == {i \in Attempts : body[i] = "running"}

Limit == IF call.retry THEN call.max_attempts ELSE 1

\* The function runs in a thread of its own.
InThread == call.timed /\ ~call.async

\* The engine can stop waiting for the function.
Interruptible == call.timed /\ (call.async => call.coroutine)

-----------------------------------------------------------------------------
(* The engine.                                                             *)

StartAttempt ==
  /\ pc = "try"
  /\ attempt < Limit
  /\ body' = [body EXCEPT ![attempt] = IF InThread THEN "queued" ELSE "running"]
  /\ pc' = "wait"
  /\ UNCHANGED <<call, attempt, counter, left, outcome>>

Answer(kind, of) ==
  /\ pc' = "done"
  /\ outcome' = [kind |-> kind, of |-> of]
  /\ UNCHANGED attempt

\* max_attempts is 0: the loop is not entered, and the call returns None.
NothingTried ==
  /\ pc = "try"
  /\ attempt >= Limit
  /\ Answer("nothing", attempt)
  /\ UNCHANGED <<call, body, counter, left>>

MoreLeftAlways == TRUE

MoreLeft == call.retry /\ attempt < Limit - 1

\* A TimeoutError of the function itself is taken for a timeout of the engine.
TakenForTimeout(kind) == kind = "timeout" /\ (call.async \/ call.timed)

RetriedAfterAnything(kind) == MoreLeft

Retried(kind) ==
  /\ MoreLeft
  /\ kind \in Failures
  /\ TakenForTimeout(kind) \/ kind \in RetryOn

\* After a timeout the asynchronous engine does not wait before the next attempt.
Again(timed_out) ==
  /\ attempt' = attempt + 1
  /\ pc' = IF timed_out /\ call.async THEN "try" ELSE "sleep"
  /\ UNCHANGED outcome

WatchedOfAnyAge == 0..attempt

Watched == {attempt}

OutcomeOf(kind) ==
  CASE kind = "returned" -> "value"
    [] kind = "asked"    -> "interrupt"
    [] OTHER             -> "error"

AttemptEnds ==
  /\ pc = "wait"
  /\ \E i \in Watched :
       /\ body[i] \in Ended
       /\ \/ Retried(body[i]) /\ Again(TakenForTimeout(body[i]))
          \/ ~Retried(body[i]) /\ Answer(OutcomeOf(body[i]), i)
  /\ UNCHANGED <<call, body, counter, left>>

\* What becomes of an attempt that the engine no longer waits for.
Abandoned(at) == IF at = "queued" \/ call.async THEN "cancelled" ELSE at

OverdueAtFirst == Interruptible /\ attempt = 0

Overdue == Interruptible

TimeOut ==
  /\ pc = "wait"
  /\ Overdue
  /\ body[attempt] \notin Ended
  /\ left' = left \cup {attempt}
  /\ body' = [body EXCEPT ![attempt] = Abandoned(@)]
  /\ IF MoreLeft THEN Again(TRUE) ELSE Answer("timeout", attempt)
  /\ UNCHANGED <<call, counter>>

WakeUp ==
  /\ pc = "sleep"
  /\ pc' = "try"
  /\ UNCHANGED <<call, attempt, body, counter, left, outcome>>

\* The asynchronous call is cancelled where it awaits something.
CancelCall ==
  /\ call.async
  /\ pc = "sleep" \/ (pc = "wait" /\ call.coroutine /\ attempt \in Underway)
  /\ body' = IF pc = "wait" THEN [body EXCEPT ![attempt] = "cancelled"] ELSE body
  /\ Answer("cancelled", attempt)
  /\ UNCHANGED <<call, counter, left>>

-----------------------------------------------------------------------------
(* The function of an attempt.                                             *)

Goes(i, from, to) ==
  /\ body[i] = from
  /\ body' = [body EXCEPT ![i] = to]
  /\ UNCHANGED <<call, pc, attempt, left, outcome>>

PickUpInOwnContext(i) == Goes(i, "queued", "running") /\ UNCHANGED counter

\* The thread of the pool takes up the attempt: ctx.run.
PickUp(i) ==
  /\ Goes(i, "queued", IF Underway = {} THEN "running" ELSE "busy")
  /\ UNCHANGED counter

FunctionEnds(i) ==
  /\ \E how \in Exceptions \cup {"returned"} : Goes(i, "running", how)
  /\ UNCHANGED counter

\* interrupt(): the next answer, or GraphInterrupt when there are no more.
Ask(i) ==
  /\ counter < MaxAsks
  /\ Goes(i, "running", IF counter < Answers THEN "running" ELSE "asked")
  /\ counter' = counter + 1

-----------------------------------------------------------------------------

Init ==
  /\ call \in Calls
  /\ pc = "try"
  /\ attempt = 0
  /\ body = [i \in Attempts |-> "none"]
  /\ counter = 0
  /\ left = {}
  /\ outcome = [kind |-> "none", of |-> 0]

EngineStep == StartAttempt \/ NothingTried \/ AttemptEnds \/ TimeOut \/ WakeUp

BodyStep(i) == PickUp(i) \/ FunctionEnds(i) \/ Ask(i)

Next ==
  \/ EngineStep \/ CancelCall
  \/ \E i \in Attempts : BodyStep(i)
  \/ pc = "done" /\ UNCHANGED vars

Spec == Init /\ [][Next]_vars

\* The engine goes on.  A function returns, unless there is a timeout to end it: then it
\* may hang.
FairSpec ==
  /\ Spec
  /\ WF_vars(EngineStep)
  /\ \A i \in Attempts : WF_vars(~Interruptible /\ BodyStep(i))

-----------------------------------------------------------------------------
(* Properties.                                                             *)

Kinds == {"none", "value", "error", "timeout", "interrupt", "nothing", "cancelled"}

\* The type invariant of a call and its attempts.
TypeOK ==
  /\ call \in CallType
  /\ pc \in {"try", "wait", "sleep", "done"}
  /\ attempt \in Attempts
  /\ body \in [Attempts -> {"none", "queued", "running", "cancelled"} \cup Ended]
  /\ counter \in 0..MaxAsks
  /\ left \in SUBSET Attempts
  /\ outcome \in [kind : Kinds, of : Attempts]

\* The node's result is that of the attempt that was started last: neither the late result
\* of a thread that was given up nor that of a failed attempt reaches the graph.
LastAttemptAnswers ==
  outcome.kind \in {"value", "interrupt", "error"} =>
    /\ outcome.of \notin left
    /\ body[outcome.of] \in Ended /\ outcome.kind = OutcomeOf(body[outcome.of])
    /\ \A j \in Attempts : j > outcome.of => body[j] = "none"

\* A question is not an error: an attempt that interrupts ends the call, whatever
\* retry_on says, and only a thread that was given up asks into the void.
QuestionsEndTheCall ==
  \A i \in Attempts \ left :
    body[i] = "asked" => \A j \in Attempts : j > i => body[j] = "none"

\* The function of a node never runs twice at once on behalf of one call, although a
\* thread that timed out goes on: its state and its side effects need no lock against a
\* retry.
OneAttemptAtATime == Cardinality(Underway) <= 1

\* Every call ends, even of a function that hangs, if the engine can give it up.
CallEnds == <>(pc = "done")

=============================================================================
