----------------------------- MODULE TaskFuture -----------------------------
(***************************************************************************)
(* The future of a @task call, zerograph/func.py: class _TaskFuture.       *)
(*                                                                         *)
(* The task's function runs when somebody first asks for the result, and   *)
(* at most once.  Threads ask with result(), which runs the function with  *)
(* the lock held; coroutines ask with aresult(), where the first one runs  *)
(* it without the lock, behind the flag `executing`, and the others wait   *)
(* for an asyncio.Event that it sets.                                      *)
(*                                                                         *)
(* A coroutine holds the thread of its event loop from one await to the    *)
(* next, also while it blocks in lock.acquire().  The sections of          *)
(* aresult() under the lock neither block nor await: each is one action,   *)
(* enabled when the lock is free.                                          *)
(***************************************************************************)
EXTENDS FiniteSets

CONSTANTS
  Threads,          \* the callers of result()
  Coros,            \* the callers of aresult()
  LoopOf,           \* the event loop of a coroutine
  NoLoop,
  NoOne,
  MayCancel         \* may a coroutine be cancelled where it awaits?

Callers == Threads \cup Coros

ASSUME CallerAssumption ==
  /\ Threads \cap Coros = {}
  /\ NoOne \notin Callers
  /\ \A c \in Coros : LoopOf[c] # NoLoop

Outcomes == {"value", "error"}

VARIABLES
  is_async,         \* is the task's function a coroutine function? It stays what it is
  lock,             \* the thread that holds _lock from one step to the next
  executing,
  outcome,          \* _done, _result and _exception, which change together
  event,            \* _event: "none", "clear" or "set"
  event_loop,       \* the loop the event belongs to since somebody waits for it
  woken,            \* the waiting coroutines the event has woken up
  pc,
  got,              \* what each caller got, or is about to publish
  started           \* history: the callers that started the function

vars == <<is_async, lock, executing, outcome, event, event_loop, woken, pc, got, started>>
notification == <<event, event_loop, woken>>

Goto(a, at) == pc' = [pc EXCEPT ![a] = at]

Answer(a, o) == got' = [got EXCEPT ![a] = o]

Suspended == {"call", "awaiting", "waiting", "ended", "refused", "cancelled"}

LoopFree(c) == \A d \in Coros : LoopOf[d] = LoopOf[c] => pc[d] \in Suspended

-----------------------------------------------------------------------------
(* result()                                                                *)

Acquire(t) ==
  /\ pc[t] = "call" /\ lock = NoOne
  /\ lock' = t
  /\ Goto(t, "locked")
  /\ UNCHANGED <<executing, outcome, notification, got, started>>

\* raise RuntimeError: a coroutine is executing the task.
Refuse(t) ==
  /\ pc[t] = "locked" /\ executing
  /\ lock' = NoOne
  /\ Goto(t, "refused")
  /\ UNCHANGED <<executing, outcome, notification, got, started>>

ToDoWhileExecuting == outcome = "none"

ToDo == ~executing /\ outcome = "none"

RunHere(t) ==
  /\ pc[t] = "locked" /\ ToDo
  /\ ~is_async
  /\ started' = started \cup {t}
  /\ Goto(t, "running")
  /\ UNCHANGED <<lock, executing, outcome, notification, got>>

\* The function has ended, or has turned out to be a coroutine function, which is an
\* error like any other of the task.
Settle(t) ==
  /\ \E o \in Outcomes :
       /\ \/ pc[t] = "running"
          \/ pc[t] = "locked" /\ ToDo /\ is_async /\ o = "error"
       /\ outcome' = o
       /\ Answer(t, o)
  /\ lock' = NoOne
  /\ Goto(t, "ended")
  /\ UNCHANGED <<executing, notification, started>>

Return(t) ==
  /\ pc[t] = "locked" /\ ~executing /\ outcome # "none"
  /\ Answer(t, outcome)
  /\ lock' = NoOne
  /\ Goto(t, "ended")
  /\ UNCHANGED <<executing, outcome, notification, started>>

-----------------------------------------------------------------------------
(* aresult()                                                               *)

\* The loop takes the coroutine up, which goes for the lock.
Schedule(c) ==
  /\ pc[c] = "call" /\ LoopFree(c)
  /\ Goto(c, "locking")
  /\ UNCHANGED <<lock, executing, outcome, notification, got, started>>

LookWithoutFlag(c) ==
  /\ pc[c] = "locking" /\ lock = NoOne /\ outcome = "none"
  /\ Goto(c, "start")
  /\ UNCHANGED <<lock, executing, outcome, notification, got, started>>

Look(c) ==
  /\ pc[c] = "locking" /\ lock = NoOne
  /\ \/ /\ outcome # "none"
        /\ Answer(c, outcome)
        /\ Goto(c, "ended")
        /\ UNCHANGED executing
     \/ /\ ToDo
        /\ executing' = TRUE
        /\ Goto(c, "start")
        /\ UNCHANGED got
     \/ /\ outcome = "none" /\ executing
        /\ Goto(c, "opening")
        /\ UNCHANGED <<executing, got>>
  /\ UNCHANGED <<lock, outcome, notification, started>>

Start(c) ==
  /\ pc[c] = "start"
  /\ started' = started \cup {c}
  /\ Goto(c, IF is_async THEN "awaiting" ELSE "running")
  /\ UNCHANGED <<lock, executing, outcome, notification, got>>

EndFunction(c) ==
  /\ pc[c] = "running" \/ (pc[c] = "awaiting" /\ LoopFree(c))
  /\ \E o \in Outcomes : Answer(c, o)
  /\ Goto(c, "publishing")
  /\ UNCHANGED <<lock, executing, outcome, notification, started>>

Publish(c) ==
  /\ pc[c] = "publishing" /\ lock = NoOne
  /\ outcome' = got[c]
  /\ executing' = FALSE
  /\ Goto(c, "notifying")
  /\ UNCHANGED <<lock, notification, got, started>>

NotifyOnSuccess(c) ==
  /\ pc[c] = "notifying"
  /\ IF event = "none" \/ got[c] = "error" THEN UNCHANGED notification
     ELSE /\ event' = "set"
          /\ woken' = {d \in Coros : pc[d] = "waiting"}
          /\ UNCHANGED event_loop
  /\ Goto(c, "ended")
  /\ UNCHANGED <<lock, executing, outcome, got, started>>

\* Without the lock: `if self._event is not None: self._event.set()`.  Event.set() is not
\* thread-safe: the loop of another thread may go on sleeping.
Notify(c) ==
  /\ pc[c] = "notifying"
  /\ IF event = "none" THEN UNCHANGED notification
     ELSE /\ event' = "set"
          /\ woken' \in SUBSET {d \in Coros : pc[d] = "waiting"}
          /\ \A d \in Coros : pc[d] = "waiting" /\ LoopOf[d] = LoopOf[c] => d \in woken'
          /\ UNCHANGED event_loop
  /\ Goto(c, "ended")
  /\ UNCHANGED <<lock, executing, outcome, got, started>>

OpenEvent(c) ==
  /\ pc[c] = "opening" /\ lock = NoOne
  /\ event' = IF event = "none" THEN "clear" ELSE event
  /\ Goto(c, "entering")
  /\ UNCHANGED <<lock, executing, outcome, event_loop, woken, got, started>>

\* await event.wait(), which refuses a second loop.
AwaitEvent(c) ==
  /\ pc[c] = "entering"
  /\ \/ event = "set" /\ Goto(c, "collecting") /\ UNCHANGED event_loop
     \/ /\ event = "clear" /\ event_loop \in {NoLoop, LoopOf[c]}
        /\ event_loop' = LoopOf[c]
        /\ Goto(c, "waiting")
     \/ /\ event = "clear" /\ event_loop \notin {NoLoop, LoopOf[c]}
        /\ Goto(c, "refused")
        /\ UNCHANGED event_loop
  /\ UNCHANGED <<lock, executing, outcome, event, woken, got, started>>

Wake(c) ==
  /\ pc[c] = "waiting" /\ c \in woken /\ LoopFree(c)
  /\ Goto(c, "collecting")
  /\ UNCHANGED <<lock, executing, outcome, notification, got, started>>

Collect(c) ==
  /\ pc[c] = "collecting" /\ lock = NoOne
  /\ Answer(c, outcome)
  /\ Goto(c, "ended")
  /\ UNCHANGED <<lock, executing, outcome, notification, started>>

CancelAndPublish(c) ==
  /\ pc[c] \in {"awaiting", "waiting"} /\ LoopFree(c) /\ MayCancel
  /\ Goto(c, "cancelled")
  /\ executing' = IF pc[c] = "awaiting" THEN FALSE ELSE executing
  /\ outcome' = IF pc[c] = "awaiting" THEN "cancelled" ELSE outcome
  /\ UNCHANGED <<lock, notification, got, started>>

\* CancelledError is no Exception: nothing handles it, and `executing` stays as it is.
Cancel(c) ==
  /\ pc[c] \in {"awaiting", "waiting"} /\ LoopFree(c) /\ MayCancel
  /\ Goto(c, "cancelled")
  /\ UNCHANGED <<lock, executing, outcome, notification, got, started>>

-----------------------------------------------------------------------------

Init ==
  /\ is_async \in BOOLEAN
  /\ lock = NoOne
  /\ executing = FALSE
  /\ outcome = "none"
  /\ event = "none" /\ event_loop = NoLoop /\ woken = {}
  /\ pc = [a \in Callers |-> "call"]
  /\ got = [a \in Callers |-> "none"]
  /\ started = {}

ThreadStep(t) ==
  /\ UNCHANGED is_async
  /\ Acquire(t) \/ Refuse(t) \/ RunHere(t) \/ Settle(t) \/ Return(t)

CoroStep(c) ==
  /\ UNCHANGED is_async
  /\ \/ Schedule(c) \/ Look(c) \/ Start(c) \/ EndFunction(c) \/ Publish(c) \/ Notify(c)
     \/ OpenEvent(c) \/ AwaitEvent(c) \/ Wake(c) \/ Collect(c)

Next ==
  \/ \E t \in Threads : ThreadStep(t)
  \/ \E c \in Coros : CoroStep(c) \/ (Cancel(c) /\ UNCHANGED is_async)

Spec == Init /\ [][Next]_vars

\* Threads and event loops go on, the lock is held by finitely many calls, and the
\* task's function returns.  Nobody has to cancel.
FairSpec ==
  /\ Spec
  /\ \A t \in Threads : WF_vars(ThreadStep(t))
  /\ \A c \in Coros : WF_vars(CoroStep(c))

-----------------------------------------------------------------------------
(* Properties.                                                             *)

Final == {"ended", "refused", "cancelled"}

ThreadPcs == {"call", "locked", "running", "ended", "refused"}

CoroPcs ==
  {"call", "locking", "start", "awaiting", "running", "publishing", "notifying",
   "opening", "entering", "waiting", "collecting"} \cup Final

\* The type invariant of the future.
TypeOK ==
  /\ lock \in Threads \cup {NoOne}
  /\ executing \in BOOLEAN
  /\ outcome \in Outcomes \cup {"none"}
  /\ event \in {"none", "clear", "set"}
  /\ event_loop \in {LoopOf[c] : c \in Coros} \cup {NoLoop}
  /\ woken \in SUBSET Coros
  /\ is_async \in BOOLEAN
  /\ pc \in [Callers -> ThreadPcs \cup CoroPcs]
  /\ \A t \in Threads : pc[t] \in ThreadPcs
  /\ \A c \in Coros : pc[c] \in CoroPcs
  /\ got \in [Callers -> Outcomes \cup {"none"}]
  /\ started \in SUBSET Callers

\* The task's function starts at most once, whoever asks, in which order, from however
\* many threads and loops, and whatever is cancelled.
RunsOnce == \A a, b \in started : a = b

\* Every caller that gets an answer gets the same one, and it stays the task's outcome:
\* nobody overwrites it and nobody returns before it is there.
OneVerdict ==
  \A a \in Callers : pc[a] = "ended" => outcome # "none" /\ got[a] = outcome

\* A waiter whom nobody is going to wake: the coroutine that ran the function was
\* cancelled, or is one of another loop.
Stranded(c) ==
  /\ pc[c] = "waiting"
  /\ \E e \in started \cap Coros : pc[e] = "cancelled" \/ LoopOf[e] # LoopOf[c]

\* Everybody else gets an answer or is refused: no wake-up is lost within a loop, and
\* neither the lock nor a loop is held for ever.
CallersEnd == \A a \in Callers : <>(pc[a] \in Final \/ (a \in Coros /\ Stranded(a)))

=============================================================================
