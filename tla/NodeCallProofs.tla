--------------------------- MODULE NodeCallProofs ---------------------------
(***************************************************************************)
(* For every kind of call, every retry policy, any number of attempts and  *)
(* of questions: a call gives what its last attempt gave, a question ends  *)
(* it, and its function never runs twice at once.                          *)
(*                                                                         *)
(* The argument: attempts after the current one have not begun (Ahead),    *)
(* and those before it were given up or have failed (Behind), so that      *)
(* nothing they still do is looked at.  Where functions run in threads,    *)
(* the context admits one; elsewhere only the current attempt can run      *)
(* (Alone).                                                                *)
(***************************************************************************)
EXTENDS NodeCall, FiniteSetTheorems, TLAPS

States == {"none", "queued", "running", "cancelled"} \cup Ended

\* Attempts that have not begun.
Ahead ==
  /\ \A j \in Attempts : j > attempt => body[j] = "none"
  /\ pc \in {"try", "sleep"} => body[attempt] = "none"

\* Attempts that are over for the engine.
Behind ==
  /\ \A i \in Attempts : i < attempt /\ i \notin left => body[i] \in Failures
  /\ pc # "done" => \A i \in left : i < attempt
  /\ \A i \in left : i <= attempt
  /\ pc # "done" => outcome.kind = "none"

\* One attempt at a time.
Alone ==
  /\ \A i, j \in Attempts : body[i] = "running" /\ body[j] = "running" => i = j
  /\ ~InThread => \A i \in Attempts : body[i] \in {"queued", "running"} => pc = "wait" /\ i = attempt

CallInv == TypeOK /\ Ahead /\ Behind /\ LastAttemptAnswers /\ Alone

USE DEF Attempts, Exceptions, Failures, Ended

\* There is a next attempt where the code asks for one.
LEMMA NextAttempt ==
  ASSUME TypeOK, MoreLeft
  PROVE  attempt + 1 \in Attempts
  BY CallAssumption DEF TypeOK, MoreLeft, Limit, CallType

\* A call begins with nothing started and nothing answered.
LEMMA InitInv == Init => CallInv
  BY CallAssumption
  DEF Init, CallInv, TypeOK, Ahead, Behind, Alone, LastAttemptAnswers, Kinds

\* What an attempt's function does changes one entry of body, which was "queued" or
\* "running".
LEMMA GoesInv ==
  ASSUME CallInv, NEW i \in Attempts, NEW from \in {"queued", "running"}, NEW to \in States \ {"none", "queued"},
         Goes(i, from, to), counter' \in 0..MaxAsks,
         to = "running" => from = "running" \/ Underway = {}
  PROVE  CallInv'
<1>1. /\ body \in [Attempts -> States] /\ body[i] = from
      /\ body' = [body EXCEPT ![i] = to]
      /\ UNCHANGED <<call, pc, attempt, left, outcome>>
  BY DEF Goes, CallInv, TypeOK, States
<1>2. TypeOK'
  BY <1>1 DEF CallInv, TypeOK, States
<1>3. Ahead'
  BY <1>1, <1>2 DEF CallInv, Ahead, TypeOK
<1>4. Behind'
  <2>1. i < attempt => i \in left
    BY <1>1 DEF CallInv, Behind
  <2> QED  BY <1>1, <2>1, <1>2 DEF CallInv, Behind, TypeOK
<1>5. LastAttemptAnswers'
  BY <1>1 DEF CallInv, LastAttemptAnswers, OutcomeOf
<1>6. Alone'
  <2>1. to = "running" => \A j \in Attempts : body[j] = "running" => j = i
    BY <1>1 DEF CallInv, Alone, Underway
  <2> QED  BY <1>1, <2>1 DEF CallInv, Alone, InThread
<1> QED  BY <1>2, <1>3, <1>4, <1>5, <1>6 DEF CallInv

-----------------------------------------------------------------------------
(* What the function of an attempt does.                                   *)

\* A step of a function, or of the thread that takes it up, keeps the invariant.
LEMMA BodyStepInv ==
  ASSUME CallInv, NEW i \in Attempts, BodyStep(i)
  PROVE  CallInv'
<1>1. counter \in 0..MaxAsks
  BY DEF CallInv, TypeOK
<1>2. CASE PickUp(i)
  <2>1. PICK to \in {"running", "busy"} :
          Goes(i, "queued", to) /\ (to = "running" => Underway = {})
    BY <1>2 DEF PickUp
  <2> QED  BY <1>1, <1>2, <2>1, GoesInv DEF PickUp, States
<1>3. CASE FunctionEnds(i)
  <2>1. PICK how \in Exceptions \cup {"returned"} : Goes(i, "running", how)
    BY <1>3 DEF FunctionEnds
  <2> QED  BY <1>1, <1>3, <2>1, GoesInv DEF FunctionEnds, States
<1>4. CASE Ask(i)
  <2>1. PICK to \in {"running", "asked"} : Goes(i, "running", to)
    BY <1>4 DEF Ask
  <2>2. counter' \in 0..MaxAsks
    BY <1>1, <1>4, CallAssumption DEF Ask
  <2> QED  BY <2>1, <2>2, GoesInv DEF States
<1> QED  BY <1>2, <1>3, <1>4 DEF BodyStep

-----------------------------------------------------------------------------
(* What the engine does.                                                   *)

\* An attempt is started where none has been: nothing else runs outside of threads.
LEMMA StartInv ==
  ASSUME CallInv, StartAttempt
  PROVE  CallInv'
<1>1. PICK at \in {"queued", "running"} :
        body' = [body EXCEPT ![attempt] = at] /\ (at = "running" => ~InThread)
  BY DEF StartAttempt
<1>2. /\ pc = "try" /\ pc' = "wait"
      /\ UNCHANGED <<call, attempt, counter, left, outcome>>
  BY DEF StartAttempt
<1>3. TypeOK'
  BY <1>1, <1>2 DEF CallInv, TypeOK
<1>4. Ahead'
  BY <1>1, <1>2, <1>3 DEF CallInv, Ahead, TypeOK
<1>5. Behind'
  BY <1>1, <1>2, <1>3 DEF CallInv, Behind, TypeOK
<1>6. LastAttemptAnswers'
  BY <1>2 DEF CallInv, Behind, LastAttemptAnswers
<1>7. Alone'
  BY <1>1, <1>2, <1>3 DEF CallInv, Alone, InThread, TypeOK
<1> QED  BY <1>3, <1>4, <1>5, <1>6, <1>7 DEF CallInv

\* The engine is done with a call, and nothing has begun or goes on that it waits for:
\* what it gives as the result is left to show.
LEMMA AnswerInv ==
  ASSUME CallInv, pc # "done", NEW kind \in Kinds, Answer(kind, attempt),
         UNCHANGED <<call, body, counter, left>>,
         ~InThread => \A i \in Attempts : body[i] \notin {"queued", "running"},
         kind \in {"value", "interrupt", "error"} =>
           body[attempt] \in Ended /\ kind = OutcomeOf(body[attempt])
  PROVE  CallInv'
<1>1. /\ pc' = "done" /\ outcome' = [kind |-> kind, of |-> attempt]
      /\ attempt' = attempt /\ attempt \in Attempts
      /\ UNCHANGED <<call, body, counter, left>>
  BY DEF Answer, CallInv, TypeOK
<1>2. TypeOK'
  BY <1>1 DEF CallInv, TypeOK
<1>3. Ahead' /\ Behind'
  BY <1>1 DEF CallInv, Ahead, Behind
<1>4. LastAttemptAnswers'
  <2>1. attempt \notin left
    BY DEF CallInv, Behind, TypeOK
  <2>2. \A j \in Attempts : j > attempt => body[j] = "none"
    BY DEF CallInv, Ahead
  <2>3. OutcomeOf(body[attempt])' = OutcomeOf(body[attempt])
    BY <1>1
  <2> QED  BY <1>1, <2>1, <2>2, <2>3 DEF LastAttemptAnswers
<1>5. Alone'
  BY <1>1 DEF CallInv, Alone, InThread
<1> QED  BY <1>2, <1>3, <1>4, <1>5 DEF CallInv

\* The engine turns to the next attempt: the current one was given up or has failed.
LEMMA AgainInv ==
  ASSUME CallInv, pc = "wait", MoreLeft, NEW timed_out \in BOOLEAN, Again(timed_out),
         NEW at \in States, body' = [body EXCEPT ![attempt] = at],
         NEW gone \in SUBSET {attempt}, left' = left \cup gone,
         gone = {} => at \in Failures,
         at = "running" => InThread /\ body[attempt] = "running",
         at # "queued",
         UNCHANGED <<call, counter>>
  PROVE  CallInv'
<1>1. /\ attempt' = attempt + 1 /\ attempt' \in Attempts /\ attempt \in Attempts
      /\ pc' \in {"try", "sleep"}
      /\ UNCHANGED outcome
  BY NextAttempt DEF Again, CallInv, TypeOK
<1>2. TypeOK'
  BY <1>1 DEF CallInv, TypeOK, States
<1>3. Ahead'
  BY <1>1 DEF CallInv, Ahead, TypeOK
<1>4. Behind'
  <2>1. \A i \in Attempts : i < attempt + 1 /\ i \notin left' => body'[i] \in Failures
    BY <1>1 DEF CallInv, Behind, TypeOK
  <2>2. \A i \in left' : i < attempt + 1
    BY <1>1 DEF CallInv, Behind, TypeOK
  <2> QED  BY <1>1, <2>1, <2>2 DEF CallInv, Behind, TypeOK
<1>5. LastAttemptAnswers'
  BY <1>1 DEF CallInv, Behind, LastAttemptAnswers
<1>6. Alone'
  BY <1>1 DEF CallInv, Alone, InThread, TypeOK
<1> QED  BY <1>2, <1>3, <1>4, <1>5, <1>6 DEF CallInv

\* The engine looks at the current attempt only: what it gave is the result, unless it is
\* a failure to try again after.
LEMMA AttemptEndsInv ==
  ASSUME CallInv, AttemptEnds
  PROVE  CallInv'
<1>1. /\ pc = "wait" /\ attempt \in Attempts /\ body[attempt] \in Ended
      /\ UNCHANGED <<call, body, counter, left>>
      /\ body \in [Attempts -> States]
  BY DEF AttemptEnds, Watched, CallInv, TypeOK, States
<1>2. CASE Retried(body[attempt]) /\ Again(TakenForTimeout(body[attempt]))
  <2>1. MoreLeft /\ body[attempt] \in Failures
    BY <1>2 DEF Retried
  <2>2. /\ body' = [body EXCEPT ![attempt] = body[attempt]]
        /\ left' = left \cup {}
    BY <1>1
  <2>3. TakenForTimeout(body[attempt]) \in BOOLEAN
    BY DEF TakenForTimeout
  <2> QED  BY <1>1, <1>2, <2>1, <2>2, <2>3, AgainInv DEF States
<1>3. CASE Answer(OutcomeOf(body[attempt]), attempt)
  <2>1. OutcomeOf(body[attempt]) \in Kinds
    BY DEF OutcomeOf, Kinds
  <2>2. ~InThread => \A i \in Attempts : body[i] \notin {"queued", "running"}
    BY <1>1 DEF CallInv, Alone
  <2> QED  BY <1>1, <1>3, <2>1, <2>2, AnswerInv
<1> QED  BY <1>2, <1>3 DEF AttemptEnds, Watched

\* A thread that is given up goes on, everything else that is given up has ended.
LEMMA TimeOutInv ==
  ASSUME CallInv, TimeOut
  PROVE  CallInv'
<1> DEFINE at == Abandoned(body[attempt])
<1>1. /\ pc = "wait" /\ attempt \in Attempts /\ body[attempt] \in States \ Ended
      /\ body \in [Attempts -> States]
      /\ left' = left \cup {attempt} /\ body' = [body EXCEPT ![attempt] = at]
      /\ UNCHANGED <<call, counter>>
      /\ call.timed
  BY DEF TimeOut, Overdue, Interruptible, CallInv, TypeOK, States
<1>2. /\ at \in States /\ at # "queued"
      /\ at = "running" => InThread /\ body[attempt] = "running"
  BY <1>1 DEF Abandoned, InThread, States
<1>3. CASE MoreLeft /\ Again(TRUE)
  BY <1>1, <1>2, <1>3, AgainInv
<1>4. CASE Answer("timeout", attempt)
  <2>1. /\ pc' = "done" /\ attempt' = attempt
        /\ outcome' = [kind |-> "timeout", of |-> attempt]
    BY <1>4 DEF Answer
  <2>2. TypeOK'
    BY <1>1, <1>2, <2>1 DEF CallInv, TypeOK, States, Kinds
  <2>3. Ahead'
    BY <1>1, <2>1 DEF CallInv, Ahead, TypeOK
  <2>4. Behind'
    BY <1>1, <2>1 DEF CallInv, Behind, TypeOK
  <2>5. LastAttemptAnswers'
    BY <2>1 DEF LastAttemptAnswers
  <2>6. Alone'
    BY <1>1, <1>2, <2>1 DEF CallInv, Alone, InThread
  <2> QED  BY <2>2, <2>3, <2>4, <2>5, <2>6 DEF CallInv
<1> QED  BY <1>3, <1>4 DEF TimeOut

\* A cancelled call leaves nothing running.
LEMMA CancelCallInv ==
  ASSUME CallInv, CancelCall
  PROVE  CallInv'
<1>1. /\ call.async /\ pc \in {"sleep", "wait"} /\ attempt \in Attempts
      /\ pc' = "done" /\ attempt' = attempt
      /\ outcome' = [kind |-> "cancelled", of |-> attempt]
      /\ body' = IF pc = "wait" THEN [body EXCEPT ![attempt] = "cancelled"] ELSE body
      /\ UNCHANGED <<call, counter, left>>
  BY DEF CancelCall, Answer, CallInv, TypeOK
<1>2. ~InThread
  BY <1>1 DEF InThread
<1>3. TypeOK'
  BY <1>1 DEF CallInv, TypeOK, Kinds
<1>4. Ahead'
  BY <1>1 DEF CallInv, Ahead, TypeOK
<1>5. Behind'
  BY <1>1 DEF CallInv, Behind, TypeOK
<1>6. LastAttemptAnswers'
  BY <1>1 DEF LastAttemptAnswers
<1>7. Alone'
  <2>1. \A i \in Attempts : body'[i] \notin {"queued", "running"}
    BY <1>1, <1>2 DEF CallInv, Alone, TypeOK
  <2> QED  BY <2>1 DEF Alone
<1> QED  BY <1>3, <1>4, <1>5, <1>6, <1>7 DEF CallInv

\* Every step of a call keeps the invariant.
LEMMA NextInv == CallInv /\ [Next]_vars => CallInv'
<1> SUFFICES ASSUME CallInv, [Next]_vars
             PROVE  CallInv'
  OBVIOUS
<1>1. CASE StartAttempt
  BY <1>1, StartInv
<1>2. CASE NothingTried
  <2>1. "nothing" \in Kinds /\ pc = "try"
    BY <1>2 DEF NothingTried, Kinds
  <2>2. ~InThread => \A i \in Attempts : body[i] \notin {"queued", "running"}
    BY <2>1 DEF CallInv, Alone
  <2> QED  BY <1>2, <2>1, <2>2, AnswerInv DEF NothingTried
<1>3. CASE AttemptEnds
  BY <1>3, AttemptEndsInv
<1>4. CASE TimeOut
  BY <1>4, TimeOutInv
<1>5. CASE WakeUp
  BY <1>5 DEF WakeUp, CallInv, TypeOK, Ahead, Behind, LastAttemptAnswers, OutcomeOf,
              Alone, InThread
<1>6. CASE CancelCall
  BY <1>6, CancelCallInv
<1>7. CASE \E i \in Attempts : BodyStep(i)
  BY <1>7, BodyStepInv
<1>8. CASE UNCHANGED vars
  BY <1>8 DEF vars, CallInv, TypeOK, Ahead, Behind, LastAttemptAnswers, OutcomeOf,
              Alone, InThread
<1> QED  BY <1>1, <1>2, <1>3, <1>4, <1>5, <1>6, <1>7, <1>8 DEF Next, EngineStep

-----------------------------------------------------------------------------
(* The results.                                                            *)

\* The invariant holds throughout a call.
LEMMA CallInvAlways == Spec => []CallInv
  BY InitInv, NextInv, PTL DEF Spec

\* A call and its attempts are always of their types, whatever is called and however often.
THEOREM CallTypeCorrect == Spec => []TypeOK
<1>1. CallInv => TypeOK
  BY DEF CallInv
<1> QED  BY <1>1, CallInvAlways, PTL

\* What a call gives is what its last attempt gave, never the late result of a thread that
\* _call_with_timeout gave up.
THEOREM OnlyTheLastAnswers == Spec => []LastAttemptAnswers
<1>1. CallInv => LastAttemptAnswers
  BY DEF CallInv
<1> QED  BY <1>1, CallInvAlways, PTL

\* An attempt that interrupts ends the call: attempts before the current one have failed or
\* were given up, and those after it have not begun.
THEOREM QuestionsAreNotRetried == Spec => []QuestionsEndTheCall
<1>1. CallInv => QuestionsEndTheCall
  <2> SUFFICES ASSUME CallInv, NEW i \in Attempts \ left, body[i] = "asked",
                      NEW j \in Attempts, j > i
               PROVE  body[j] = "none"
    BY DEF QuestionsEndTheCall
  <2>1. ~(i < attempt)
    BY DEF CallInv, Behind
  <2>2. j > attempt
    BY <2>1 DEF CallInv, TypeOK
  <2> QED  BY <2>2 DEF CallInv, Ahead
<1> QED  BY <1>1, CallInvAlways, PTL

\* The function of a node never runs twice at once for one call, although a thread that
\* timed out goes on: the context that all attempts share admits one.
THEOREM NeverTwiceAtOnce == Spec => []OneAttemptAtATime
<1>1. CallInv => OneAttemptAtATime
  <2> SUFFICES ASSUME CallInv
               PROVE  Cardinality(Underway) <= 1
    BY DEF OneAttemptAtATime
  <2>1. CASE Underway = {}
    BY <2>1, FS_EmptySet
  <2>2. CASE Underway # {}
    <3>1. PICK i \in Underway : TRUE
      BY <2>2
    <3>2. Underway = {i}
      BY <3>1 DEF Underway, CallInv, Alone
    <3> QED  BY <3>2, FS_Singleton
  <2> QED  BY <2>1, <2>2
<1> QED  BY <1>1, CallInvAlways, PTL

=============================================================================
