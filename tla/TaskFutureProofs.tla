-------------------------- MODULE TaskFutureProofs --------------------------
(***************************************************************************)
(* Proofs about TaskFuture, for any set of callers on any event loops.     *)
(***************************************************************************)
EXTENDS TaskFuture, TLAPS

\* The coroutine that has the task in hand: a cancelled one never gives it back.
Executor(c) ==
  \/ pc[c] \in {"start", "awaiting", "running", "publishing"}
  \/ pc[c] = "cancelled" /\ c \in started

\* Who has the task in hand: a thread by the lock, a coroutine by the flag, never both;
\* and whoever started it has it in hand until there is an outcome.
Ownership ==
  /\ \A t \in Threads : pc[t] \in {"locked", "running"} => lock = t
  /\ \A t \in Threads : pc[t] = "running" => ~executing /\ outcome = "none"
  /\ \A c \in Coros : Executor(c) => executing
  /\ executing => outcome = "none"
  /\ \A c, d \in Coros : Executor(c) /\ Executor(d) => c = d
  /\ \A t \in started \cap Threads : outcome = "none" => pc[t] = "running"
  /\ \A c \in started \cap Coros : outcome = "none" => Executor(c)
  /\ \A c \in started \cap Coros :
       pc[c] \in {"awaiting", "running", "publishing", "notifying", "ended", "cancelled"}

\* Who may speak of the outcome: whoever has an answer has the outcome, and whoever is
\* about to look at it finds one.
Verdict ==
  /\ OneVerdict
  /\ \A c \in Coros : pc[c] = "publishing" => got[c] # "none"
  /\ \A c \in Coros : pc[c] = "notifying" => outcome # "none" /\ got[c] = outcome
  /\ \A c \in Coros : pc[c] = "collecting" => outcome # "none"
  /\ event = "set" \/ woken # {} => outcome # "none"

IInv == TypeOK /\ Ownership /\ Verdict /\ RunsOnce

-----------------------------------------------------------------------------

LEMMA FutureInit == Init => IInv
<1> SUFFICES ASSUME Init PROVE IInv
  OBVIOUS
<1>1. TypeOK
  BY DEF Init, TypeOK, ThreadPcs, CoroPcs, Final, Callers
<1>2. Ownership /\ Verdict /\ RunsOnce
  BY DEF Init, Ownership, Executor, Verdict, OneVerdict, RunsOnce, Callers
<1>3. QED
  BY <1>1, <1>2 DEF IInv

LEMMA TypeNext == TypeOK /\ [Next]_vars => TypeOK'
<1> SUFFICES ASSUME TypeOK, [Next]_vars PROVE TypeOK'
  OBVIOUS
<1> USE DEF TypeOK, Goto, Answer, notification, Callers, Outcomes, ThreadPcs, CoroPcs, Final
<1>1. ASSUME NEW t \in Threads, ThreadStep(t) PROVE TypeOK'
  <2>1. t \notin Coros
    BY CallerAssumption
  <2>2. CASE Acquire(t)
    BY <1>1, <2>1, <2>2 DEF ThreadStep, Acquire
  <2>3. CASE Refuse(t)
    BY <1>1, <2>1, <2>3 DEF ThreadStep, Refuse
  <2>4. CASE RunHere(t)
    BY <1>1, <2>1, <2>4 DEF ThreadStep, RunHere
  <2>5. CASE Settle(t)
    BY <1>1, <2>1, <2>5 DEF ThreadStep, Settle
  <2>6. CASE Return(t)
    BY <1>1, <2>1, <2>6 DEF ThreadStep, Return
  <2>7. Acquire(t) \/ Refuse(t) \/ RunHere(t) \/ Settle(t) \/ Return(t)
    BY <1>1 DEF ThreadStep
  <2>8. QED
    BY <2>2, <2>3, <2>4, <2>5, <2>6, <2>7
<1>2. ASSUME NEW c \in Coros, CoroStep(c) PROVE TypeOK'
  <2>1. c \notin Threads
    BY CallerAssumption
  <2>2. CASE Schedule(c)
    BY <1>2, <2>1, <2>2 DEF CoroStep, Schedule
  <2>3. CASE Look(c)
    <3>0. /\ is_async' = is_async
          /\ UNCHANGED <<lock, outcome, event, event_loop, woken, started>>
      BY <1>2, <2>3 DEF CoroStep, Look
    <3>1. CASE outcome # "none" /\ Answer(c, outcome) /\ Goto(c, "ended") /\ UNCHANGED executing
      BY <2>1, <3>0, <3>1
    <3>2. CASE executing' = TRUE /\ Goto(c, "start") /\ UNCHANGED got
      BY <2>1, <3>0, <3>2
    <3>3. CASE Goto(c, "opening") /\ UNCHANGED <<executing, got>>
      BY <2>1, <3>0, <3>3
    <3>4. QED
      BY <2>3, <3>1, <3>2, <3>3 DEF Look
  <2>4. CASE Start(c)
    BY <1>2, <2>1, <2>4 DEF CoroStep, Start
  <2>5. CASE EndFunction(c)
    BY <1>2, <2>1, <2>5 DEF CoroStep, EndFunction
  <2>6. CASE Publish(c)
    BY <1>2, <2>1, <2>6 DEF CoroStep, Publish
  <2>7. CASE Notify(c)
    BY <1>2, <2>1, <2>7 DEF CoroStep, Notify
  <2>8. CASE OpenEvent(c)
    BY <1>2, <2>1, <2>8 DEF CoroStep, OpenEvent
  <2>9. CASE AwaitEvent(c)
    BY <1>2, <2>1, <2>9 DEF CoroStep, AwaitEvent
  <2>10. CASE Wake(c)
    BY <1>2, <2>1, <2>10 DEF CoroStep, Wake
  <2>11. CASE Collect(c)
    BY <1>2, <2>1, <2>11 DEF CoroStep, Collect
  <2>12. QED
    BY <1>2, <2>2, <2>3, <2>4, <2>5, <2>6, <2>7, <2>8, <2>9, <2>10, <2>11 DEF CoroStep
<1>3. ASSUME NEW c \in Coros, Cancel(c), UNCHANGED is_async PROVE TypeOK'
  <2>1. c \notin Threads
    BY CallerAssumption
  <2>2. QED
    BY <1>3, <2>1 DEF Cancel
<1>4. CASE UNCHANGED vars
  BY <1>4 DEF vars
<1>5. QED
  BY <1>1, <1>2, <1>3, <1>4 DEF Next

-----------------------------------------------------------------------------

LEMMA OwnershipNext == IInv /\ [Next]_vars => Ownership'
<1> SUFFICES ASSUME IInv, [Next]_vars PROVE Ownership'
  OBVIOUS
<1>i. TypeOK /\ Ownership /\ Verdict
  BY DEF IInv
<1>n. NoOne \notin Threads /\ Threads \cap Coros = {}
  BY CallerAssumption DEF Callers
<1>o. /\ Ownership
      /\ pc \in [Callers -> ThreadPcs \cup CoroPcs] /\ started \subseteq Callers
      /\ \A c \in Coros : pc[c] = "publishing" => got[c] # "none"
  BY <1>i DEF TypeOK, Verdict
<1> USE DEF Ownership, Executor, Goto, Answer, notification, ToDo
<1>1. ASSUME NEW t \in Threads, ThreadStep(t) PROVE Ownership'
  <2>1. t \notin Coros /\ t # NoOne /\ t \in Callers
    BY CallerAssumption DEF Callers
  <2>2. CASE Acquire(t)
    BY <1>o, <1>n, <2>1, <2>2 DEF Acquire
  <2>3. CASE Refuse(t)
    BY <1>o, <1>n, <2>1, <2>3 DEF Refuse
  <2>4. CASE RunHere(t)
    BY <1>o, <1>n, <2>1, <2>4 DEF RunHere
  <2>5. CASE Settle(t)
    <3>1. ~executing /\ lock = t /\ outcome' # "none"
      BY <1>o, <2>5 DEF Settle, Outcomes
    <3>2. \A s \in Threads : s # t => pc[s] \notin {"locked", "running"}
      BY <1>o, <3>1
    <3>3. /\ pc' = [pc EXCEPT ![t] = "ended"]
          /\ executing' = executing /\ started' = started
      BY <2>5 DEF Settle
    <3>4. \A c \in Coros : pc'[c] = pc[c]
      BY <1>o, <2>1, <3>3
    <3>5. \A s \in Threads : pc'[s] \notin {"locked", "running"}
      BY <1>o, <1>n, <2>1, <3>2, <3>3 DEF Callers
    <3>6. QED
      BY <1>o, <3>1, <3>3, <3>4, <3>5
  <2>6. CASE Return(t)
    BY <1>o, <1>n, <2>1, <2>6 DEF Return
  <2>7. QED
    BY <1>1, <2>2, <2>3, <2>4, <2>5, <2>6 DEF ThreadStep
<1>2. ASSUME NEW c \in Coros, CoroStep(c) PROVE Ownership'
  <2>1. c \notin Threads /\ c \in Callers
    BY CallerAssumption DEF Callers
  <2>2. CASE Schedule(c)
    BY <1>o, <1>n, <2>1, <2>2 DEF Schedule
  <2>3. CASE Look(c)
    <3>1. /\ lock' = lock /\ outcome' = outcome /\ started' = started
          /\ \A a \in Callers : a # c => pc'[a] = pc[a]
          /\ ~Executor(c)
      BY <1>o, <2>1, <2>3 DEF Look
    <3>2. CASE pc' = [pc EXCEPT ![c] = "start"] /\ ToDo /\ executing'
      BY <1>o, <1>n, <2>1, <2>3, <3>1, <3>2 DEF Callers, Look
    <3>3. CASE executing' = executing /\ pc' = [pc EXCEPT ![c] = "ended"]
      BY <1>o, <1>n, <2>1, <2>3, <3>1, <3>3 DEF Callers, Look
    <3>4. CASE executing' = executing /\ pc' = [pc EXCEPT ![c] = "opening"]
      BY <1>o, <1>n, <2>1, <2>3, <3>1, <3>4 DEF Callers, Look
    <3>5. QED
      BY <2>3, <3>2, <3>3, <3>4 DEF Look
  <2>4. CASE Start(c)
    BY <1>o, <1>n, <2>1, <2>4 DEF Start
  <2>5. CASE EndFunction(c)
    BY <1>o, <1>n, <2>1, <2>5 DEF EndFunction
  <2>6. CASE Publish(c)
    BY <1>o, <1>n, <2>1, <2>6 DEF Publish
  <2>7. CASE Notify(c)
    BY <1>o, <1>n, <2>1, <2>7 DEF Notify
  <2>8. CASE OpenEvent(c)
    BY <1>o, <1>n, <2>1, <2>8 DEF OpenEvent
  <2>9. CASE AwaitEvent(c)
    <3>1. PICK at \in {"collecting", "waiting", "refused"} : pc' = [pc EXCEPT ![c] = at]
      BY <2>9 DEF AwaitEvent
    <3>2. /\ pc[c] = "entering" /\ c \notin started
          /\ UNCHANGED <<lock, executing, outcome, started>>
      BY <1>o, <2>9 DEF AwaitEvent
    <3>3. QED
      BY <1>o, <1>n, <2>1, <3>1, <3>2 DEF Callers
  <2>10. CASE Wake(c)
    BY <1>o, <1>n, <2>1, <2>10 DEF Wake
  <2>11. CASE Collect(c)
    BY <1>o, <1>n, <2>1, <2>11 DEF Collect
  <2>12. QED
    BY <1>2, <2>2, <2>3, <2>4, <2>5, <2>6, <2>7, <2>8, <2>9, <2>10, <2>11 DEF CoroStep
<1>3. ASSUME NEW c \in Coros, Cancel(c) PROVE Ownership'
  <2>1. c \notin Threads /\ c \in Callers
    BY CallerAssumption DEF Callers
  <2>2. QED
    BY <1>o, <1>n, <1>3, <2>1 DEF Cancel
<1>4. CASE UNCHANGED vars
  BY <1>o, <1>n, <1>4 DEF vars
<1>5. QED
  BY <1>1, <1>2, <1>3, <1>4 DEF Next

LEMMA RunsOnceNext == IInv /\ [Next]_vars => RunsOnce'
<1> SUFFICES ASSUME IInv, [Next]_vars PROVE RunsOnce'
  OBVIOUS
<1>i. Ownership /\ RunsOnce /\ started \subseteq Threads \cup Coros
  BY DEF IInv, TypeOK, Callers
<1>1. ASSUME NEW t \in Threads, RunHere(t) PROVE RunsOnce'
  <2>1. started = {}
    BY <1>i, <1>1 DEF Ownership, RunHere, ToDo, Executor
  <2>2. QED
    BY <1>1, <2>1 DEF RunHere, RunsOnce
<1>2. ASSUME NEW c \in Coros, Start(c) PROVE RunsOnce'
  <2>1. executing /\ outcome = "none"
    BY <1>i, <1>2 DEF Ownership, Start, Executor
  <2>2. started \subseteq {c}
    BY <1>i, <1>2, <2>1 DEF Ownership, Start, Executor
  <2>3. QED
    BY <1>2, <2>2 DEF Start, RunsOnce
<1>3. CASE UNCHANGED started
  BY <1>i, <1>3 DEF RunsOnce
<1>4. QED
  BY <1>1, <1>2, <1>3
  DEF Next, vars, ThreadStep, CoroStep, Acquire, Refuse, Settle, Return, Schedule, Look,
      EndFunction, Publish, Notify, OpenEvent, AwaitEvent, Wake, Collect, Cancel

LEMMA VerdictNext == IInv /\ [Next]_vars => Verdict'
<1> SUFFICES ASSUME IInv, [Next]_vars PROVE Verdict'
  OBVIOUS
<1>i. Ownership /\ Verdict
  BY DEF IInv
<1>n. Threads \cap Coros = {}
  BY CallerAssumption
<1>o. /\ pc \in [Callers -> ThreadPcs \cup CoroPcs]
      /\ got \in [Callers -> Outcomes \cup {"none"}]
      /\ woken \subseteq Coros
  BY DEF IInv, TypeOK
<1> USE DEF Verdict, OneVerdict, Goto, Answer, notification, ToDo, Callers, Outcomes
<1>1. ASSUME NEW t \in Threads, ThreadStep(t) PROVE Verdict'
  <2>1. t \notin Coros /\ t # NoOne /\ t \in Callers
    BY CallerAssumption DEF Callers
  <2>2. CASE Acquire(t)
    BY <1>i, <1>n, <1>o, <2>1, <2>2 DEF Acquire
  <2>3. CASE Refuse(t)
    BY <1>i, <1>n, <1>o, <2>1, <2>3 DEF Refuse
  <2>4. CASE RunHere(t)
    BY <1>i, <1>n, <1>o, <2>1, <2>4 DEF RunHere
  <2>5. CASE Settle(t)
    <3>1. outcome = "none" /\ outcome' # "none" /\ got' = [got EXCEPT ![t] = outcome']
      BY <1>i, <2>5 DEF Settle, Ownership
    <3>2. /\ pc' = [pc EXCEPT ![t] = "ended"]
          /\ event' = event /\ woken' = woken
      BY <2>5 DEF Settle
    <3>3. \A a \in Callers : pc[a] \notin {"ended", "notifying", "collecting"} \/ a \in Threads
      BY <1>i, <3>1
    <3>4. QED
      BY <1>i, <1>n, <1>o, <2>1, <3>1, <3>2, <3>3
  <2>6. CASE Return(t)
    BY <1>i, <1>n, <1>o, <2>1, <2>6 DEF Return
  <2>7. QED
    BY <1>1, <2>2, <2>3, <2>4, <2>5, <2>6 DEF ThreadStep
<1>2. ASSUME NEW c \in Coros, CoroStep(c) PROVE Verdict'
  <2>1. c \notin Threads /\ c \in Callers
    BY CallerAssumption DEF Callers
  <2>2. CASE Schedule(c)
    BY <1>i, <1>n, <1>o, <2>1, <2>2 DEF Schedule
  <2>3. CASE Look(c)
    BY <1>i, <1>n, <1>o, <2>1, <2>3 DEF Look
  <2>4. CASE Start(c)
    BY <1>i, <1>n, <1>o, <2>1, <2>4 DEF Start
  <2>5. CASE EndFunction(c)
    BY <1>i, <1>n, <1>o, <2>1, <2>5 DEF EndFunction
  <2>6. CASE Publish(c)
    <3>1. outcome = "none" /\ outcome' = got[c] /\ outcome' # "none" /\ got' = got
      BY <1>i, <2>6 DEF Publish, Ownership, Executor
    <3>2. /\ pc' = [pc EXCEPT ![c] = "notifying"]
          /\ event' = event /\ woken' = woken
      BY <2>6 DEF Publish
    <3>3. QED
      BY <1>i, <1>n, <1>o, <2>1, <3>1, <3>2
  <2>7. CASE Notify(c)
    BY <1>i, <1>n, <1>o, <2>1, <2>7 DEF Notify
  <2>8. CASE OpenEvent(c)
    BY <1>i, <1>n, <1>o, <2>1, <2>8 DEF OpenEvent
  <2>9. CASE AwaitEvent(c)
    BY <1>i, <1>n, <1>o, <2>1, <2>9 DEF AwaitEvent
  <2>10. CASE Wake(c)
    BY <1>i, <1>n, <1>o, <2>1, <2>10 DEF Wake
  <2>11. CASE Collect(c)
    BY <1>i, <1>n, <1>o, <2>1, <2>11 DEF Collect
  <2>12. QED
    BY <1>2, <2>2, <2>3, <2>4, <2>5, <2>6, <2>7, <2>8, <2>9, <2>10, <2>11 DEF CoroStep
<1>3. ASSUME NEW c \in Coros, Cancel(c) PROVE Verdict'
  <2>1. c \notin Threads /\ c \in Callers
    BY CallerAssumption DEF Callers
  <2>2. QED
    BY <1>i, <1>n, <1>o, <1>3, <2>1 DEF Cancel
<1>4. CASE UNCHANGED vars
  BY <1>i, <1>n, <1>o, <1>4 DEF vars
<1>5. QED
  BY <1>1, <1>2, <1>3, <1>4 DEF Next

-----------------------------------------------------------------------------

LEMMA InvariantAlways == Spec => []IInv
<1>1. Init => IInv
  BY FutureInit
<1>2. IInv /\ [Next]_vars => IInv'
  BY TypeNext, OwnershipNext, VerdictNext, RunsOnceNext DEF IInv
<1>3. QED
  BY <1>1, <1>2, PTL DEF Spec

\* The future never leaves its type: in particular only threads hold the lock from one
\* step to the next, and only coroutines are ever woken.
THEOREM FutureTypeCorrect == Spec => []TypeOK
<1>1. IInv => TypeOK
  BY DEF IInv
<1>2. QED
  BY <1>1, InvariantAlways, PTL

\* The task's function starts at most once, for any number of threads, coroutines and
\* event loops, with or without cancellation: the lock excludes the threads from each
\* other, and the flag `executing` the coroutines from each other and from the threads.
THEOREM AtMostOnce == Spec => []RunsOnce
<1>1. IInv => RunsOnce
  BY DEF IInv
<1>2. QED
  BY <1>1, InvariantAlways, PTL

\* Every caller of result() and aresult() that gets an answer gets the task's one outcome.
THEOREM SameVerdict == Spec => []OneVerdict
<1>1. IInv => OneVerdict
  BY DEF IInv, Verdict
<1>2. QED
  BY <1>1, InvariantAlways, PTL

=============================================================================
