--------------------------- MODULE AsyncLoopProofs ---------------------------
(***************************************************************************)
(* Proofs about AsyncLoop, for every graph and every value of the bounds.  *)
(* What the two engines share is taken from PregelLoopProofs.              *)
(***************************************************************************)
EXTENDS AsyncLoop, PregelLoopProofs, FiniteSetTheorems

-----------------------------------------------------------------------------
(* Functions defined by recursion on an interval from 0.                   *)

LEMMA LeastNumber ==
  ASSUME NEW S \in SUBSET Nat, S # {}
  PROVE  \E i \in S : \A j \in S : i <= j
<1> DEFINE less == {ss \in Nat \X Nat : ss[1] < ss[2]}
<1>1. IsWellFoundedOn(less, Nat)
  BY NatLessThanWellFounded DEF OpToRel
<1>2. PICK i \in S : \A j \in S : <<j, i>> \notin less
  <2> HIDE DEF less
  <2> QED  BY <1>1, WFMin
<1>3. \A j \in S : ~(j < i)
  BY <1>2
<1>4. QED
  BY <1>3

\* What holds at 0 and goes on holding, holds at the end.
LEMMA Stays ==
  ASSUME NEW N \in Nat, NEW f, NEW T, f[0] \in T,
         \A i \in 1..N : f[i - 1] \in T => f[i] \in T
  PROVE  f[N] \in T
<1> DEFINE Bad == {i \in 0..N : f[i] \notin T}
<1>1. SUFFICES ASSUME Bad # {} PROVE FALSE
  OBVIOUS
<1>2. PICK i \in Bad : \A j \in Bad : i <= j
  <2>1. Bad \in SUBSET Nat
    OBVIOUS
  <2> HIDE DEF Bad
  <2> QED  BY <1>1, <2>1, LeastNumber
<1>3. i # 0 /\ i \in 0..N /\ i - 1 \in 0..N /\ i - 1 \notin Bad
  BY <1>2
<1>4. QED
  BY <1>2, <1>3

\* A recursion whose steps are the functions next[i] has a solution.
Solves(f, m, a, next) == f[0] = a /\ \A i \in 1..m : f[i] = next[i][f[i - 1]]

LEMMA RecursionSolved ==
  ASSUME NEW N \in Nat, NEW T, NEW a \in T, NEW next \in [1..N -> [T -> T]]
  PROVE  \E f \in [0..N -> T] : Solves(f, N, a, next)
<1> DEFINE Bad == {m \in 0..N : ~ \E f \in [0..m -> T] : Solves(f, m, a, next)}
<1>1. SUFFICES ASSUME Bad # {} PROVE FALSE
  OBVIOUS
<1>2. PICK m \in Bad : \A j \in Bad : m <= j
  <2>1. Bad \in SUBSET Nat
    OBVIOUS
  <2> HIDE DEF Bad
  <2> QED  BY <1>1, <2>1, LeastNumber
<1>3. m # 0
  <2>1. [i \in 0..0 |-> a] \in [0..0 -> T] /\ Solves([i \in 0..0 |-> a], 0, a, next)
    BY DEF Solves
  <2> QED  BY <2>1
<1>4. m - 1 \in 0..N /\ m - 1 \notin Bad /\ m \in 1..N
  <2>1. m \in 0..N
    OBVIOUS
  <2> HIDE DEF Bad
  <2> QED  BY <1>2, <1>3, <2>1
<1>5. PICK f \in [0..(m - 1) -> T] : Solves(f, m - 1, a, next)
  BY <1>4
<1> DEFINE g == [i \in 0..m |-> IF i = m THEN next[m][f[m - 1]] ELSE f[i]]
<1>6. g \in [0..m -> T]
  BY <1>4
<1>7. Solves(g, m, a, next)
  <2>1. g[0] = a
    BY <1>4, <1>5 DEF Solves
  <2>2. \A i \in 1..m : g[i] = next[i][g[i - 1]]
    BY <1>4, <1>5 DEF Solves
  <2> QED  BY <2>1, <2>2 DEF Solves
<1>8. QED
  BY <1>2, <1>6, <1>7

-----------------------------------------------------------------------------
(* The operators of the model have the types their names promise.          *)

TaskType ==
  [at : {"none", "queued", "running", "done"},
   kind : {"none", "skipped", "result", "handled", "interrupt", "error"},
   route : Route]

TasksTypeOK == send_inputs \in [Nodes -> Nat] /\ tasks \in [Nodes -> TaskType]

LEMMA AsyncTypeParts == AsyncTypeOK <=> TypeOK /\ TasksTypeOK
BY DEF AsyncTypeOK, TasksTypeOK, TaskType

LEMMA NoTasksType == NoSends \in [Nodes -> Nat] /\ NoTasks \in [Nodes -> TaskType]
BY NoRouteType DEF NoSends, NoTasks, Task, TaskType

LEMMA LocalType == Local => TasksTypeOK'
BY NoTasksType DEF Local, TasksTypeOK

LEMMA TaskTypeLemma ==
  ASSUME NEW at \in {"none", "queued", "running", "done"},
         NEW kind \in {"none", "skipped", "result", "handled", "interrupt", "error"},
         NEW route \in Route
  PROVE  Task(at, kind, route) \in TaskType
BY DEF Task, TaskType

\* Subsets of the nodes are finite, and so are the Sends of a route.
LEMMA NodesFinite ==
  ASSUME NEW S \in SUBSET Nodes
  PROVE  IsFiniteSet(S) /\ Cardinality(S) \in Nat
BY AsyncAssumption, FS_Subset, FS_CardinalityType

LEMMA SendsFinite ==
  ASSUME NEW r \in Route, NEW n
  PROVE  Cardinality({i \in DOMAIN r.sends : r.sends[i] = n}) \in 0..Len(r.sends)
<1> DEFINE to == {i \in DOMAIN r.sends : r.sends[i] = n}
<1>1. r.sends \in Seq(Nodes)
  BY DEF Route
<1>2. DOMAIN r.sends = 1..Len(r.sends) /\ Len(r.sends) \in Nat
  BY <1>1, LenProperties
<1>3. IsFiniteSet(1..Len(r.sends)) /\ Cardinality(1..Len(r.sends)) = Len(r.sends)
  BY <1>2, FS_Interval
<1>4. to \in SUBSET (1..Len(r.sends))
  BY <1>2
<1> HIDE DEF to
<1>5. IsFiniteSet(to) /\ Cardinality(to) <= Len(r.sends)
  BY <1>3, <1>4, FS_Subset
<1>6. Cardinality(to) \in Nat
  BY <1>5, FS_CardinalityType
<1>7. QED
  BY <1>2, <1>5, <1>6 DEF to

LEMMA RoutesInTaskType ==
  ASSUME NEW n \in Nodes, NEW res \in [kind : {"value", "goto", "list"}, route : Route]
  PROVE  RoutesInTask(n, res) \subseteq Route
<1>1. Branches[n] \subseteq Route /\ Early[n] \subseteq Route
  BY GraphAssumption, AsyncAssumption
<1>2. [next |-> Successors(n), sends |-> <<>>] \in Route
  BY EmptySeq, GraphAssumption DEF Successors, Route
<1>3. QED
  BY <1>1, <1>2, JoinType DEF RoutesInTask

\* What the tasks of a step leave behind.
LEMMA FinishedType ==
  ASSUME TypeOK, TasksTypeOK
  PROVE  /\ Finished \in SUBSET Nodes /\ Cardinality(Finished) \in Nat
         /\ Ended("interrupt") \in SUBSET Nodes
         /\ Selected \in SUBSET Nodes /\ \A n \in Nodes : tasks[n].route \in Route
         /\ NewValues \in [Nodes -> Nat] /\ NewErrors \in [Nodes -> Nat]
<1>1. Finished \in SUBSET Nodes /\ Ended("interrupt") \in SUBSET Nodes
  BY DEF Finished, Ended, At
<1>2. Cardinality(Finished) \in Nat
  BY <1>1, NodesFinite
<1>3. \A n \in Nodes : tasks[n].route \in Route
  BY DEF TasksTypeOK, TaskType
<1>4. \A n \in Nodes : tasks[n].route.next \in SUBSET Nodes
  BY <1>3 DEF Route
<1>5. Selected \in SUBSET Nodes
  BY <1>1, <1>4 DEF Selected
<1>6. NewValues \in [Nodes -> Nat] /\ NewErrors \in [Nodes -> Nat]
  BY DEF NewValues, NewErrors, TypeOK
<1>7. QED
  BY <1>1, <1>2, <1>3, <1>5, <1>6

\* SentInOrder appends the Sends of the tasks to new_sends.
LEMMA SentInOrderIn ==
  ASSUME TypeOK, TasksTypeOK, NEW T, new_sends \in T,
         \A t \in T, n \in Finished : t \o tasks[n].route.sends \in T,
         NEW order \in [1..Cardinality(Finished) -> Finished]
  PROVE  SentInOrder(order) \in T
<1> DEFINE f == CHOOSE f : f = [i \in 0..Cardinality(Finished) |->
                              IF i = 0 THEN new_sends
                              ELSE f[i - 1] \o tasks[order[i]].route.sends]
<1>1. PICK N \in Nat : N = Cardinality(Finished)
  BY FinishedType
<1>2. PICK next \in [1..N -> [T -> T]] :
        \A i \in 1..N : \A t \in T : next[i][t] = t \o tasks[order[i]].route.sends
  <2> DEFINE next == [i \in 1..N |-> [t \in T |-> t \o tasks[order[i]].route.sends]]
  <2>1. next \in [1..N -> [T -> T]]
    BY <1>1
  <2>2. \A i \in 1..N : \A t \in T : next[i][t] = t \o tasks[order[i]].route.sends
    OBVIOUS
  <2> HIDE DEF next
  <2> QED  BY <2>1, <2>2
<1>3. PICK g \in [0..N -> T] : Solves(g, N, new_sends, next)
  BY RecursionSolved
<1>4. g = [i \in 0..N |-> IF i = 0 THEN new_sends
                          ELSE g[i - 1] \o tasks[order[i]].route.sends]
  <2>1. \A i \in 1..N : g[i] = g[i - 1] \o tasks[order[i]].route.sends
    <3> TAKE i \in 1..N
    <3>1. i - 1 \in 0..N
      OBVIOUS
    <3>2. g[i - 1] \in T
      BY <3>1
    <3> QED  BY <1>2, <1>3, <3>2 DEF Solves
  <2>2. \A i \in 0..N : i = 0 \/ i \in 1..N
    OBVIOUS
  <2>3. \A i \in 0..N : g[i] = IF i = 0 THEN new_sends
                               ELSE g[i - 1] \o tasks[order[i]].route.sends
    BY <1>3, <2>1, <2>2 DEF Solves
  <2> QED  BY <2>3
<1>5. f = [i \in 0..N |-> IF i = 0 THEN new_sends
                          ELSE f[i - 1] \o tasks[order[i]].route.sends]
  BY <1>1, <1>4
<1>6. SentInOrder(order) = f[N]
  BY <1>1 DEF SentInOrder
<1> HIDE DEF f
<1>7. f[0] = new_sends
  <2>1. 0 \in 0..N
    OBVIOUS
  <2> QED  BY <1>5, <2>1
<1>8. \A i \in 1..N : f[i - 1] \in T => f[i] \in T
  <2> SUFFICES ASSUME NEW i \in 1..N, f[i - 1] \in T PROVE f[i] \in T
    OBVIOUS
  <2>1. i \in 0..N /\ i # 0
    OBVIOUS
  <2>2. f[i] = f[i - 1] \o tasks[order[i]].route.sends
    BY <1>5, <2>1
  <2>3. order[i] \in Finished
    BY <1>1
  <2> QED  BY <2>2, <2>3
<1>9. f[N] \in T
  BY <1>7, <1>8, Stays
<1>10. QED
  BY <1>6, <1>9

\* The runs of a node with the Sends of START: at least one was good, and RoutedBy joins
\* where their results lead.
LEMMA GoodRuns ==
  ASSUME NEW k \in Nat, NEW ran, DOMAIN ran = 1..k, Good(ran) # {}
  PROVE  /\ Good(ran) \subseteq 1..k /\ LastGood(ran) \in Good(ran)
         /\ Cardinality(Good(ran)) \in 1..k
<1>1. PICK good \in SUBSET (1..k) : good = Good(ran)
  BY DEF Good
<1>2. LastGood(ran) \in good
  <2>1. {k - i : i \in good} \in SUBSET Nat /\ {k - i : i \in good} # {}
    BY <1>1
  <2>2. PICK d \in {k - i : i \in good} : \A e \in {k - i : i \in good} : d <= e
    BY <2>1, LeastNumber
  <2>3. PICK i \in good : d = k - i
    BY <2>2
  <2>4. \A j \in good : k - i <= k - j
    BY <2>2, <2>3
  <2>5. \A j \in good : j <= i
    BY <2>4
  <2> QED  BY <1>1, <2>5 DEF LastGood
<1>3. PICK K : K = 1..k
  OBVIOUS
<1>4. IsFiniteSet(good) /\ Cardinality(good) <= k
  <2>1. IsFiniteSet(K) /\ Cardinality(K) = k
    BY <1>3, FS_Interval
  <2>2. good \in SUBSET K
    BY <1>3
  <2>3. IsFiniteSet(good) /\ Cardinality(good) <= Cardinality(K)
    BY <2>1, <2>2, FS_Subset
  <2> QED  BY <2>1, <2>3
<1>5. Cardinality(good) \in Nat /\ Cardinality(good) # 0
  BY <1>1, <1>4, FS_CardinalityType, FS_EmptySet
<1>6. QED
  BY <1>1, <1>2, <1>4, <1>5

LEMMA RoutedByIn ==
  ASSUME NEW n, NEW k \in Nat, NEW X, NEW ran \in [1..k -> X], NEW T, NoRoute \in T,
         \A t \in T, i \in Good(ran) : Join(t, ExtractRouting(n, ran[i])) \in T
  PROVE  RoutedBy(n, ran) \in T
<1> DEFINE f == CHOOSE f : f = [i \in 0..Len(ran) |->
                              IF i = 0 THEN NoRoute
                              ELSE IF i \in Good(ran)
                                THEN Join(f[i - 1], ExtractRouting(n, ran[i]))
                                ELSE f[i - 1]]
<1>1. Len(ran) = k
  OBVIOUS
<1>2. PICK next \in [1..k -> [T -> T]] :
        \A i \in 1..k : \A t \in T :
          next[i][t] = IF i \in Good(ran) THEN Join(t, ExtractRouting(n, ran[i])) ELSE t
  <2> DEFINE next == [i \in 1..k |-> [t \in T |->
                IF i \in Good(ran) THEN Join(t, ExtractRouting(n, ran[i])) ELSE t]]
  <2>1. next \in [1..k -> [T -> T]]
    OBVIOUS
  <2>2. \A i \in 1..k : \A t \in T :
          next[i][t] = IF i \in Good(ran) THEN Join(t, ExtractRouting(n, ran[i])) ELSE t
    OBVIOUS
  <2> HIDE DEF next
  <2> QED  BY <2>1, <2>2
<1>3. PICK g \in [0..k -> T] : Solves(g, k, NoRoute, next)
  BY RecursionSolved
<1>4. g = [i \in 0..k |-> IF i = 0 THEN NoRoute
                          ELSE IF i \in Good(ran)
                            THEN Join(g[i - 1], ExtractRouting(n, ran[i]))
                            ELSE g[i - 1]]
  <2>1. \A i \in 1..k : g[i] = IF i \in Good(ran)
                               THEN Join(g[i - 1], ExtractRouting(n, ran[i])) ELSE g[i - 1]
    <3> TAKE i \in 1..k
    <3>1. i - 1 \in 0..k
      OBVIOUS
    <3>2. g[i - 1] \in T
      BY <3>1
    <3> QED  BY <1>2, <1>3, <3>2 DEF Solves
  <2>2. \A i \in 0..k : i = 0 \/ i \in 1..k
    OBVIOUS
  <2>3. \A i \in 0..k : g[i] = IF i = 0 THEN NoRoute
                               ELSE IF i \in Good(ran)
                                 THEN Join(g[i - 1], ExtractRouting(n, ran[i])) ELSE g[i - 1]
    BY <1>3, <2>1, <2>2 DEF Solves
  <2> QED  BY <2>3
<1>5. f = [i \in 0..k |-> IF i = 0 THEN NoRoute
                          ELSE IF i \in Good(ran)
                            THEN Join(f[i - 1], ExtractRouting(n, ran[i]))
                            ELSE f[i - 1]]
  BY <1>1, <1>4
<1>6. RoutedBy(n, ran) = f[k]
  BY <1>1 DEF RoutedBy
<1> HIDE DEF f
<1>7. f[0] = NoRoute
  <2>1. 0 \in 0..k
    OBVIOUS
  <2> QED  BY <1>5, <2>1
<1>8. \A i \in 1..k : f[i - 1] \in T => f[i] \in T
  <2> SUFFICES ASSUME NEW i \in 1..k, f[i - 1] \in T PROVE f[i] \in T
    OBVIOUS
  <2>1. i \in 0..k /\ i # 0
    OBVIOUS
  <2>2. f[i] = IF i \in Good(ran) THEN Join(f[i - 1], ExtractRouting(n, ran[i])) ELSE f[i - 1]
    BY <1>5, <2>1
  <2> QED  BY <2>2
<1>9. f[k] \in T
  BY <1>7, <1>8, Stays
<1>10. QED
  BY <1>6, <1>9

\* What the runs of a node with the Sends of START come to.
LEMMA InitialSendsRun ==
  ASSUME TypeOK, TasksTypeOK, NEW n \in Nodes, RunInitialSends(n)
  PROVE  \E k \in 1..send_inputs[n], route \in Route :
           /\ values' = [values EXCEPT ![n] = @ + k]
           /\ new_next' = new_next \cup route.next
           /\ new_sends' = new_sends \o route.sends
           /\ route.next \subseteq LeadsTo(n)
           /\ Sendless => route.sends = <<>>
           /\ Gotos[n] = {} => Successors(n) \subseteq route.next
<1> DEFINE X == Results(n) \cup IF n \in Failing THEN {NoResult} ELSE {}
           T == {r \in Route : r.next \subseteq LeadsTo(n) /\ (Sendless => r.sends = <<>>)}
<1>0. PICK N \in Nat : N = send_inputs[n]
  BY DEF TasksTypeOK
<1>1. PICK ran \in [1..N -> X] :
        /\ Good(ran) # {}
        /\ values' = [values EXCEPT ![n] = @ + Cardinality(Good(ran))]
        /\ \E r \in NextNodes(n, ran[LastGood(ran)]) :
             /\ new_next' = new_next \cup Join(RoutedBy(n, ran), r).next
             /\ new_sends' = new_sends \o Join(RoutedBy(n, ran), r).sends
  BY <1>0 DEF RunInitialSends
<1>2. /\ Good(ran) \subseteq 1..N /\ LastGood(ran) \in Good(ran)
      /\ Cardinality(Good(ran)) \in 1..N
  BY <1>1, GoodRuns
<1>3. \A i \in Good(ran) : ran[i] \in Results(n)
  BY <1>1, <1>2 DEF Good
<1>4. PICK r \in NextNodes(n, ran[LastGood(ran)]) :
        /\ new_next' = new_next \cup Join(RoutedBy(n, ran), r).next
        /\ new_sends' = new_sends \o Join(RoutedBy(n, ran), r).sends
  BY <1>1
<1>5. /\ r \in T
      /\ Gotos[n] = {} => Successors(n) \subseteq r.next
  BY <1>2, <1>3, <1>4, RoutesLead, ResultType
<1>6. ASSUME NEW t \in T, NEW u \in T PROVE Join(t, u) \in T
  <2>1. Join(t, u) \in Route /\ Join(t, u).next = t.next \cup u.next
    BY JoinType DEF Join
  <2>2. Sendless => Join(t, u).sends = <<>>
    <3>1. <<>> \o <<>> = <<>>
      OBVIOUS
    <3> QED  BY <3>1 DEF Join
  <2> QED  BY <2>1, <2>2
<1>7. NoRoute \in T
  BY NoRouteType DEF NoRoute
<1>8. \A i \in Good(ran) : ExtractRouting(n, ran[i]) \in T
  <2> SUFFICES ASSUME NEW i \in Good(ran) PROVE ExtractRouting(n, ran[i]) \in T
    OBVIOUS
  <2>1. ran[i] \in Results(n) /\ ExtractRouting(n, ran[i]) \in Route
    BY <1>3, ResultType
  <2> QED  BY <2>1, ResultLeads
<1> HIDE DEF T, X
<1>9. RoutedBy(n, ran) \in T
  BY <1>6, <1>7, <1>8, RoutedByIn
<1>10. PICK route \in T : route = Join(RoutedBy(n, ran), r)
  BY <1>5, <1>6, <1>9
<1>11. /\ route \in Route /\ route.next \subseteq LeadsTo(n)
       /\ Sendless => route.sends = <<>>
       /\ r.next \subseteq route.next
  BY <1>10 DEF T, Join
<1>12. QED
  BY <1>0, <1>1, <1>2, <1>4, <1>5, <1>10, <1>11

-----------------------------------------------------------------------------
(* The steps of the asynchronous engine: those it shares with the other    *)
(* engine, the tasks, and the Sends of START.                              *)

SharedStep ==
  /\ [Next]_vars
  /\ \/ Local
     \/ UNCHANGED <<send_inputs, tasks>> /\ (~Parallel \/ NodesDone \/ UNCHANGED vars)

LEMMA AsyncSteps ==
  ASSUME [AsyncNext]_avars
  PROVE  \/ SharedStep \/ InvokeAsync \/ StartStepAsync
         \/ TaskStep \/ GatherStep \/ InitialSendStep
<1>1. CASE (Finish \/ RecursionError \/ PauseBefore \/ PauseAfter) /\ Local
  BY <1>1 DEF SharedStep, Next, LoopStep
<1>2. CASE SequentialStep
  <2>1. CASE \E n \in Nodes : send_inputs[n] = 0 /\ InterruptNode(n) /\ send_inputs' = NoSends
    <3>1. Local
      BY <1>2, <2>1 DEF SequentialStep, Parallel, Local
    <3> QED  BY <2>1, <3>1 DEF SharedStep, Next, LoopStep, NodeStep
  <2>2. CASE /\ \E n \in Nodes : /\ send_inputs[n] = 0
                                 /\ SkipNode(n) \/ RunNode(n) \/ HitNode(n) \/ FailNode(n)
             /\ UNCHANGED send_inputs
    <3>1. UNCHANGED <<send_inputs, tasks>> /\ ~Parallel
      BY <1>2, <2>2 DEF SequentialStep
    <3> QED  BY <2>2, <3>1 DEF SharedStep, Next, LoopStep, NodeStep
  <2> QED  BY <1>2, <2>1, <2>2 DEF SequentialStep
<1>3. CASE SendStepAsync
  <2>1. CASE (StartBatch \/ RunSend \/ FailSend) /\ UNCHANGED <<send_inputs, tasks>>
    <3>1. NodesDone
      BY <2>1 DEF StartBatch, RunSend, FailSend, NextSend
    <3> QED  BY <2>1, <3>1 DEF SharedStep, Next, LoopStep, SendStep
  <2>2. CASE (SendDepthError \/ InterruptSend) /\ Local
    BY <2>2 DEF SharedStep, Next, LoopStep, SendStep
  <2> QED  BY <1>3, <2>1, <2>2 DEF SendStepAsync
<1>4. CASE EndStep /\ UNCHANGED <<send_inputs, tasks>>
  BY <1>4 DEF SharedStep, Next, LoopStep, EndStep, StepDone
<1>5. CASE ResumeAsync \/ Cancelled
  BY <1>5 DEF ResumeAsync, Cancelled, SharedStep, Next, CallerStep
<1>6. CASE (CallerRests /\ UNCHANGED <<send_inputs, tasks>>) \/ UNCHANGED avars
  BY <1>6 DEF CallerRests, avars, SharedStep
<1>7. QED
  BY <1>1, <1>2, <1>3, <1>4, <1>5, <1>6 DEF AsyncNext, AsyncLoopStep

\* The caller and the top of the loop are those of the other engine.
LEMMA EntersAsBefore ==
  /\ InvokeAsync => Invoke /\ tasks' = NoTasks
  /\ StartStepAsync => StartStep
<1>1. ASSUME InvokeAsync PROVE Invoke /\ tasks' = NoTasks
  <2>1. PICK r \in StartRoutes, resume \in BOOLEAN :
          /\ resume => saved.kind = "none"
          /\ Enter(r.next \cup {r.sends[i] : i \in DOMAIN r.sends}, 0, resume)
    BY <1>1 DEF InvokeAsync
  <2>2. r.next \cup {r.sends[i] : i \in DOMAIN r.sends} \in StartSets
    BY AsyncAssumption
  <2>3. \E s \in StartSets, again \in BOOLEAN :
          (again => saved.kind = "none") /\ Enter(s, 0, again)
    BY <2>1, <2>2
  <2> QED  BY <1>1, <2>3 DEF InvokeAsync, Invoke
<1>2. StartStepAsync => StartStep
  BY DEF StartStepAsync
<1>3. QED
  BY <1>1, <1>2

\* A task changes nothing of the engine but the cache, where it may store its result.
TaskOnly ==
  UNCHANGED <<saved, turns, calls, pc, step, next_nodes, new_next, new_sends, batch, send_depth,
              completed_nodes, prev_completed, values, errors, is_resuming, answered,
              base_step, asked, offered, send_inputs>>

LEMMA TaskOnlyStep ==
  ASSUME NEW n, NEW task, TaskIs(n, task) PROVE TaskOnly
BY DEF TaskIs, TaskOnly, bounds, sendq, channels, frame

LEMMA StoreAdds ==
  ASSUME ThreadTypeOK, NEW n \in Nodes, NEW res \in Results(n), Store(n, res)
  PROVE  \A m \in Nodes : cache'[m] \subseteq cache[m] \cup Results(m)
BY DEF Store, ThreadTypeOK

LEMMA TaskSteps ==
  ASSUME TypeOK, TasksTypeOK, TaskStep
  PROVE  /\ TaskOnly
         /\ cache' \in [Nodes -> SUBSET [kind : {"value", "goto", "list"}, route : Route]]
         /\ \A m \in Nodes : cache'[m] \subseteq cache[m] \cup Results(m)
         /\ tasks' \in [Nodes -> TaskType]
<1>t. ThreadTypeOK
  BY TypeParts
<1>k. ASSUME NEW n \in Nodes, NEW task \in TaskType, TaskIs(n, task), cache' = cache
      PROVE  /\ TaskOnly
             /\ cache' \in [Nodes -> SUBSET [kind : {"value", "goto", "list"}, route : Route]]
             /\ \A m \in Nodes : cache'[m] \subseteq cache[m] \cup Results(m)
             /\ tasks' \in [Nodes -> TaskType]
  BY <1>k, <1>t, TaskOnlyStep DEF TaskIs, TasksTypeOK, ThreadTypeOK
<1>1. ASSUME NEW n \in Nodes, StartTask(n)
      PROVE  \E task \in TaskType : TaskIs(n, task) /\ cache' = cache
  <2>1. CASE \E res \in cache[n] : \E r \in RoutesInTask(n, res) :
               TaskIs(n, Task("done", "result", r))
    <3>1. PICK res \in cache[n] : \E r \in RoutesInTask(n, res) :
               TaskIs(n, Task("done", "result", r))
      BY <2>1
    <3>2. PICK r \in RoutesInTask(n, res) : TaskIs(n, Task("done", "result", r))
      BY <3>1
    <3>3. r \in Route
      BY <1>t, <3>1, <3>2, RoutesInTaskType DEF ThreadTypeOK
    <3> QED  BY <1>1, <3>2, <3>3, TaskTypeLemma DEF StartTask
  <2>2. CASE TaskIs(n, Task("done", "skipped", NoRoute))
    BY <1>1, <2>2, NoRouteType, TaskTypeLemma DEF StartTask
  <2>3. CASE TaskIs(n, Task("running", "none", NoRoute))
    BY <1>1, <2>3, NoRouteType, TaskTypeLemma DEF StartTask
  <2> QED  BY <1>1, <2>1, <2>2, <2>3 DEF StartTask
<1>2. ASSUME NEW n \in Nodes, ReturnFromTask(n)
      PROVE  /\ TaskOnly
             /\ cache' \in [Nodes -> SUBSET [kind : {"value", "goto", "list"}, route : Route]]
             /\ \A m \in Nodes : cache'[m] \subseteq cache[m] \cup Results(m)
             /\ tasks' \in [Nodes -> TaskType]
  <2>1. PICK res \in Results(n) :
          /\ \E r \in RoutesInTask(n, res) :
               TaskIs(n, Task("done", "result", Join(ExtractRouting(n, res), r)))
          /\ Store(n, res)
    BY <1>2 DEF ReturnFromTask
  <2>2. PICK r \in RoutesInTask(n, res) :
          TaskIs(n, Task("done", "result", Join(ExtractRouting(n, res), r)))
    BY <2>1
  <2>3. Task("done", "result", Join(ExtractRouting(n, res), r)) \in TaskType
    BY <2>2, RoutesInTaskType, ResultType, JoinType, TaskTypeLemma
  <2>4. tasks' \in [Nodes -> TaskType] /\ TaskOnly
    BY <2>2, <2>3, TaskOnlyStep DEF TaskIs, TasksTypeOK
  <2> QED  BY <1>t, <2>1, <2>4, StoreType, StoreAdds
<1>3. ASSUME NEW n \in Nodes, InterruptTask(n)
      PROVE  \E task \in TaskType : TaskIs(n, task) /\ cache' = cache
  BY <1>3, NoRouteType, TaskTypeLemma DEF InterruptTask
<1>4. ASSUME NEW n \in Nodes, FailTask(n)
      PROVE  \E task \in TaskType : TaskIs(n, task) /\ cache' = cache
  <2>1. CASE ErrorHandler[n] = NoNode
    BY <1>4, <2>1, NoRouteType, TaskTypeLemma DEF FailTask
  <2>2. CASE ErrorHandler[n] # NoNode
    <3>1. [next |-> {ErrorHandler[n]}, sends |-> <<>>] \in Route
      BY <2>2, GraphAssumption, EmptySeq DEF Route
    <3> QED  BY <1>4, <2>2, <3>1, TaskTypeLemma DEF FailTask
  <2> QED  BY <2>1, <2>2
<1>5. PICK n \in Nodes : StartTask(n) \/ ReturnFromTask(n) \/ InterruptTask(n) \/ FailTask(n)
  BY DEF TaskStep
<1>6. CASE ReturnFromTask(n)
  BY <1>2, <1>6
<1>7. CASE StartTask(n) \/ InterruptTask(n) \/ FailTask(n)
  <2>1. PICK task \in TaskType : TaskIs(n, task) /\ cache' = cache
    BY <1>1, <1>3, <1>4, <1>7
  <2> QED  BY <1>k, <2>1
<1>8. QED
  BY <1>5, <1>6, <1>7

-----------------------------------------------------------------------------
(* Type correctness, for every graph and every number of tasks.            *)

LEMMA AsyncInitType == AsyncInit => AsyncTypeOK
BY InitType, AsyncTypeParts, NoTasksType DEF AsyncInit, TasksTypeOK

\* What the two ends of a step of tasks that interrupts or raises have in common with
\* an invocation that ends.
LEMMA EndType ==
  ASSUME ThreadTypeOK, Return, Local, cache' = cache, UNCHANGED bounds, saved' \in CheckpointType
  PROVE  AsyncTypeOK'
<1>1. RunTypeOK' /\ TasksTypeOK'
  BY ReturnType, LocalType
<1>2. ThreadTypeOK'
  BY DEF ThreadTypeOK, bounds
<1>3. TypeOK'
  BY <1>1, <1>2 DEF TypeOK, ThreadTypeOK, RunTypeOK
<1>4. QED
  BY <1>1, <1>3 DEF AsyncTypeOK, TasksTypeOK, TaskType

LEMMA AsyncNextType == AsyncTypeOK /\ [AsyncNext]_avars => AsyncTypeOK'
<1> SUFFICES ASSUME TypeOK, TasksTypeOK, [AsyncNext]_avars PROVE AsyncTypeOK'
  BY AsyncTypeParts
<1>t. ThreadTypeOK /\ RunTypeOK
  BY TypeParts
<1>a. ASSUME TypeOK', TasksTypeOK' PROVE AsyncTypeOK'
  BY <1>a DEF AsyncTypeOK, TasksTypeOK, TaskType
<1>1. CASE SharedStep
  <2>1. TypeOK'
    BY <1>1, NextType DEF SharedStep
  <2>2. TasksTypeOK'
    BY <1>1, LocalType DEF SharedStep, TasksTypeOK
  <2> QED  BY <1>a, <2>1, <2>2
<1>2. CASE InvokeAsync
  <2>1. TypeOK' /\ tasks' = NoTasks
    BY <1>2, EntersAsBefore, NextType DEF Next, CallerStep
  <2>2. PICK r \in StartRoutes :
          send_inputs' = [n \in Nodes |-> Cardinality({i \in DOMAIN r.sends : r.sends[i] = n})]
    BY <1>2 DEF InvokeAsync
  <2>3. \A n \in Nodes : Cardinality({i \in DOMAIN r.sends : r.sends[i] = n}) \in Nat
    <3>1. r \in Route
      BY <2>2, AsyncAssumption
    <3>2. Len(r.sends) \in Nat
      BY <3>1, LenProperties DEF Route
    <3> TAKE n \in Nodes
    <3>3. Cardinality({i \in DOMAIN r.sends : r.sends[i] = n}) \in 0..Len(r.sends)
      BY <3>1, SendsFinite
    <3> QED  BY <3>2, <3>3
  <2>4. TasksTypeOK'
    BY <2>1, <2>2, <2>3, NoTasksType DEF TasksTypeOK
  <2> QED  BY <1>a, <2>1, <2>4
<1>3. CASE StartStepAsync
  <2>1. TypeOK'
    BY <1>3, EntersAsBefore, NextType DEF Next, LoopStep
  <2>2. \A n \in Nodes : /\ Task("queued", "none", NoRoute) \in TaskType
                         /\ NoTasks[n] \in TaskType
    BY NoRouteType, NoTasksType, TaskTypeLemma
  <2>3. TasksTypeOK'
    BY <1>3, <2>2, NoTasksType DEF StartStepAsync, TasksTypeOK
  <2> QED  BY <1>a, <2>1, <2>3
<1>4. CASE TaskStep
  <2>1. /\ TaskOnly
        /\ cache' \in [Nodes -> SUBSET [kind : {"value", "goto", "list"}, route : Route]]
        /\ tasks' \in [Nodes -> TaskType]
    BY <1>4, TaskSteps
  <2>2. TypeOK'
    BY <2>1 DEF TypeOK, TaskOnly
  <2>3. TasksTypeOK'
    BY <2>1 DEF TasksTypeOK, TaskOnly
  <2> QED  BY <1>a, <2>2, <2>3
<1>f. /\ Finished \in SUBSET Nodes /\ Ended("interrupt") \in SUBSET Nodes
      /\ Selected \in SUBSET Nodes /\ \A n \in Nodes : tasks[n].route \in Route
      /\ NewValues \in [Nodes -> Nat] /\ NewErrors \in [Nodes -> Nat]
  BY FinishedType
<1>5. CASE Gather
  <2>1. new_sends' \in Seq(Nodes)
    <3>1. \A s \in Seq(Nodes), n \in Finished : s \o tasks[n].route.sends \in Seq(Nodes)
      BY <1>f, ConcatProperties DEF Route
    <3>2. new_sends \in Seq(Nodes)
      BY <1>t DEF RunTypeOK
    <3>3. PICK order \in [1..Cardinality(Finished) -> Finished] :
            new_sends' = SentInOrder(order)
      BY <1>5 DEF Gather
    <3> QED  BY <3>1, <3>2, <3>3, SentInOrderIn
  <2>2. TypeOK'
    <3>1. completed_nodes' \in SUBSET Nodes /\ new_next' \in SUBSET Nodes /\ next_nodes' = {}
      BY <1>5, <1>f, <1>t DEF Gather, RunTypeOK
    <3>2. values' \in [Nodes -> Nat] /\ errors' \in [Nodes -> Nat]
      BY <1>5, <1>f DEF Gather
    <3>3. UNCHANGED <<saved, cache, bounds, pc, step, batch, send_depth, prev_completed, frame>>
      BY <1>5 DEF Gather
    <3> QED  BY <2>1, <3>1, <3>2, <3>3 DEF TypeOK, bounds, frame
  <2>3. TasksTypeOK'
    BY <1>5, NoTasksType DEF Gather, TasksTypeOK
  <2> QED  BY <1>a, <2>2, <2>3
<1>6. CASE GatherInterrupts
  <2>1. PICK last \in Ended("interrupt") :
       saved' = [kind |-> "interrupt", next |-> LeftAtInterrupts,
                 completed |-> completed_nodes \cup Finished,
                 values |-> NewValues, errors |-> NewErrors,
                 step |-> saved.step, asked |-> {<<last, Answers>>}]
    BY <1>6 DEF GatherInterrupts
  <2>2. LeftAtInterrupts \in SUBSET Nodes /\ completed_nodes \cup Finished \in SUBSET Nodes
    BY <1>f, <1>t DEF LeftAtInterrupts, RunTypeOK
  <2>3. {<<last, Answers>>} \in SUBSET Question /\ saved.step \in Nat
    BY <1>f, <1>t, <2>1, QuestionType DEF ThreadTypeOK, CheckpointType
  <2>4. "interrupt" \in Kinds
    BY DEF Kinds
  <2>5. saved' \in CheckpointType
    BY <1>f, <2>1, <2>2, <2>3, <2>4, RecordType
  <2> QED  BY <1>6, <1>t, <2>5, EndType DEF GatherInterrupts
<1>7. CASE GatherError
  BY <1>7, <1>t, EndType DEF GatherError, ThreadTypeOK
<1>8. ASSUME NEW n \in Nodes, TakenForSends(n), cache' = cache,
             completed_nodes' \in SUBSET Nodes, values' \in [Nodes -> Nat],
             new_next' \in SUBSET Nodes, new_sends' \in Seq(Nodes), errors' \in [Nodes -> Nat]
      PROVE  AsyncTypeOK'
  <2>1. TypeOK'
    <3>1. /\ next_nodes' = next_nodes \ {n}
          /\ UNCHANGED <<saved, bounds, pc, step, batch, send_depth, prev_completed, frame>>
      BY <1>8 DEF TakenForSends, Taken
    <3> QED  BY <1>8, <3>1 DEF TypeOK, bounds, frame
  <2>2. TasksTypeOK'
    BY <1>8 DEF TakenForSends, TasksTypeOK
  <2> QED  BY <1>a, <2>1, <2>2
<1>9. ASSUME NEW n \in Nodes, RunInitialSends(n) PROVE AsyncTypeOK'
  <2>1. PICK k \in 1..send_inputs[n], route \in Route :
           /\ values' = [values EXCEPT ![n] = @ + k]
           /\ new_next' = new_next \cup route.next
           /\ new_sends' = new_sends \o route.sends
    BY <1>9, InitialSendsRun
  <2>2. k \in Nat /\ route.next \in SUBSET Nodes /\ route.sends \in Seq(Nodes)
    BY <2>1 DEF Route, TasksTypeOK
  <2>3. values' \in [Nodes -> Nat] /\ new_next' \in SUBSET Nodes
    BY <1>t, <2>1, <2>2 DEF RunTypeOK
  <2>4. new_sends' \in Seq(Nodes)
    BY <1>t, <2>1, <2>2, ConcatProperties DEF RunTypeOK
  <2>5. /\ TakenForSends(n) /\ cache' = cache /\ errors' = errors
        /\ completed_nodes' = completed_nodes \cup {n}
    BY <1>9 DEF RunInitialSends
  <2> QED  BY <1>8, <1>t, <2>3, <2>4, <2>5 DEF RunTypeOK
<1>10. ASSUME NEW n \in Nodes, FailInitialSends(n) PROVE AsyncTypeOK'
  <2>1. TakenForSends(n) /\ HandOver(n) /\ cache' = cache
    BY <1>10 DEF FailInitialSends, HandOver
  <2> QED  BY <1>8, <1>t, <2>1, HandOverType
<1>11. ASSUME NEW n \in Nodes, RaiseInitialSend(n) PROVE AsyncTypeOK'
  BY <1>11, <1>t, EndType DEF RaiseInitialSend, ThreadTypeOK
<1>12. QED
  BY <1>1, <1>2, <1>3, <1>4, <1>5, <1>6, <1>7, <1>9, <1>10, <1>11, AsyncSteps
  DEF GatherStep, InitialSendStep

\* AsyncTypeOK, the invariant of the run "parallel", for every graph: the tasks of a step,
\* their gathered results and the Sends of START keep every variable within its type.
THEOREM AsyncTypeCorrect == AsyncSpec => []AsyncTypeOK
<1>1. QED
  BY AsyncInitType, AsyncNextType, PTL DEF AsyncSpec

-----------------------------------------------------------------------------
(* A step of tasks has a task for every node that is due, and nothing      *)
(* selected yet.                                                           *)

StepOfTasks ==
  Parallel =>
    /\ pc = "nodes" /\ new_next = {} /\ next_nodes # {}
    /\ \A n \in Nodes : n \in next_nodes <=> tasks[n].at # "none"

TaskChanges(n) == \E task : tasks' = [tasks EXCEPT ![n] = task] /\ task.at # "none"

LEMMA TaskTaken ==
  ASSUME TaskStep PROVE \E n \in At("queued") \cup At("running") : TaskChanges(n)
<1>k. ASSUME NEW n, NEW at, NEW kind, NEW r, TaskIs(n, Task(at, kind, r)), at # "none"
      PROVE  TaskChanges(n)
  <2>1. PICK task : task = Task(at, kind, r)
    OBVIOUS
  <2>2. task.at # "none" /\ tasks' = [tasks EXCEPT ![n] = task]
    BY <1>k, <2>1 DEF Task, TaskIs
  <2> QED  BY <2>2 DEF TaskChanges
<1>1. ASSUME NEW n \in Nodes, StartTask(n) PROVE n \in At("queued") /\ TaskChanges(n)
  BY <1>k, <1>1 DEF StartTask, HasSlot
<1>2. ASSUME NEW n \in Nodes, ReturnFromTask(n) \/ InterruptTask(n) \/ FailTask(n)
      PROVE  n \in At("running") /\ TaskChanges(n)
  <2>1. CASE ReturnFromTask(n)
    BY <1>k, <2>1 DEF ReturnFromTask
  <2>2. CASE InterruptTask(n)
    BY <1>k, <2>2 DEF InterruptTask
  <2>3. CASE FailTask(n)
    <3>1. CASE ErrorHandler[n] = NoNode
      BY <1>k, <2>3, <3>1 DEF FailTask
    <3>2. CASE ErrorHandler[n] # NoNode
      BY <1>k, <2>3, <3>2 DEF FailTask
    <3> QED  BY <3>1, <3>2
  <2> QED  BY <1>2, <2>1, <2>2, <2>3
<1>3. QED
  BY <1>1, <1>2 DEF TaskStep

LEMMA StepOfTasksKept == TypeOK /\ TasksTypeOK /\ StepOfTasks /\ [AsyncNext]_avars => StepOfTasks'
<1> SUFFICES ASSUME TypeOK, TasksTypeOK, StepOfTasks, [AsyncNext]_avars PROVE StepOfTasks'
  OBVIOUS
<1>n. ASSUME tasks' = NoTasks PROVE StepOfTasks'
  BY <1>n DEF StepOfTasks, Parallel, NoTasks
<1>1. CASE SharedStep
  <2>1. CASE Local
    BY <1>n, <2>1 DEF Local
  <2>2. CASE tasks' = tasks /\ (~Parallel \/ NodesDone)
    <3>1. ~Parallel
      BY <2>2 DEF StepOfTasks, NodesDone
    <3> QED  BY <1>n, <2>2, <3>1 DEF Parallel
  <2>3. CASE tasks' = tasks /\ UNCHANGED vars
    BY <2>3 DEF StepOfTasks, Parallel, vars
  <2> QED  BY <1>1, <2>1, <2>2, <2>3 DEF SharedStep
<1>2. CASE InvokeAsync
  BY <1>2, <1>n, EntersAsBefore
<1>3. CASE StartStepAsync
  <2>1. CASE ~CanParallel
    BY <1>3, <1>n, <2>1 DEF StartStepAsync
  <2>2. CASE CanParallel
    <3>1. tasks' = [n \in Nodes |-> IF n \in Due THEN Task("queued", "none", NoRoute)
                                    ELSE NoTasks[n]]
      BY <1>3, <2>2 DEF StartStepAsync
    <3>2. Due # {}
      <4>1. Cardinality(Due) > 1
        BY <2>2 DEF CanParallel
      <4> QED  BY <4>1, FS_EmptySet
    <3>3. pc' = "nodes" /\ next_nodes' = Due /\ new_next' = {}
      BY <1>3, EntersAsBefore DEF StartStep
    <3>4. \A n \in Nodes : n \in Due <=> tasks'[n].at # "none"
      BY <3>1 DEF Task, NoTasks
    <3> QED  BY <3>2, <3>3, <3>4 DEF StepOfTasks
  <2> QED  BY <2>1, <2>2
<1>4. CASE TaskStep
  <2>1. PICK n \in At("queued") \cup At("running") : TaskChanges(n)
    BY <1>4, TaskTaken
  <2>3. PICK task : tasks' = [tasks EXCEPT ![n] = task] /\ task.at # "none"
    BY <2>1 DEF TaskChanges
  <2>4. /\ n \in Nodes /\ tasks[n].at # "none" /\ tasks'[n] = task
        /\ \A m \in Nodes : m # n => tasks'[m] = tasks[m]
    BY <2>1, <2>3 DEF At, TasksTypeOK
  <2>5. Parallel
    BY <2>4 DEF Parallel, NoTasks, Task
  <2>6. TaskOnly
    BY <1>4, TaskSteps
  <2> QED  BY <2>3, <2>4, <2>5, <2>6 DEF StepOfTasks, TaskOnly
<1>5. CASE GatherStep
  BY <1>5, <1>n DEF GatherStep, Gather, GatherInterrupts, GatherError, Local
<1>6. CASE InitialSendStep
  <2>1. tasks' = NoTasks
    BY <1>6 DEF InitialSendStep, RunInitialSends, FailInitialSends, RaiseInitialSend,
                TakenForSends, Parallel, Local
  <2> QED  BY <1>n, <2>1
<1>7. QED
  BY <1>1, <1>2, <1>3, <1>4, <1>5, <1>6, AsyncSteps

-----------------------------------------------------------------------------
(* What a task found is where its node leads.  A path function that does   *)
(* not see the update of its node may answer early, but only what it may   *)
(* also answer with the update.                                            *)

EarlyWithin == \A n \in Nodes : Early[n] \subseteq Branches[n]

TaskInOrder(n, task) ==
  /\ task.route.next \subseteq LeadsTo(n)
  /\ Sendless => task.route.sends = <<>>
  /\ task.kind = "none" <=> task.at # "done"
  /\ task.kind = "skipped" => Needs[n] # {}
  /\ task.kind = "error" => n \in Failing /\ ErrorHandler[n] = NoNode

TasksInv ==
  /\ FanInInv /\ TasksTypeOK /\ StepOfTasks
  /\ \A n \in Nodes : TaskInOrder(n, tasks[n])

LEMMA RoutesInTaskLead ==
  ASSUME EarlyWithin, NEW n \in Nodes, NEW res \in Results(n), NEW r \in RoutesInTask(n, res)
  PROVE  /\ r.next \subseteq LeadsTo(n) /\ (Sendless => r.sends = <<>>)
         /\ Join(ExtractRouting(n, res), r).next \subseteq LeadsTo(n)
         /\ Sendless => Join(ExtractRouting(n, res), r).sends = <<>>
<1> DEFINE direct == [next |-> Successors(n), sends |-> <<>>]
<1>1. direct = Join(direct, NoRoute)
  BY DEF Join, NoRoute
<1>2. Early[n] \subseteq Branches[n]
  BY DEF EarlyWithin
<1>3. r \in NextNodes(n, res)
  <2>1. CASE res.kind = "goto"
    BY <2>1 DEF RoutesInTask, NextNodes
  <2>2. CASE res.kind # "goto" /\ Branches[n] = {}
    <3>1. r = direct
      BY <2>2 DEF RoutesInTask
    <3>2. NextNodes(n, res) = {Join(direct, a) : a \in {NoRoute}}
      BY <2>2 DEF NextNodes
    <3> HIDE DEF direct
    <3> QED  BY <1>1, <3>1, <3>2
  <2>3. CASE res.kind # "goto" /\ Branches[n] # {}
    <3>1. PICK a \in IF res.kind = "list" THEN {res.route} ELSE Branches[n] : r = Join(direct, a)
      BY <1>2, <2>3 DEF RoutesInTask
    <3>2. NextNodes(n, res) = {Join(direct, b) : b \in IF res.kind = "list" THEN {res.route}
                                                         ELSE Branches[n]}
      BY <2>3 DEF NextNodes
    <3> HIDE DEF direct
    <3> QED  BY <3>1, <3>2
  <2> QED  BY <2>1, <2>2, <2>3
<1>4. /\ r.next \subseteq LeadsTo(n) /\ (Sendless => r.sends = <<>>)
      /\ ExtractRouting(n, res).next \subseteq LeadsTo(n)
      /\ Sendless => ExtractRouting(n, res).sends = <<>>
  BY <1>3, RoutesLead, ResultLeads
<1>5. <<>> \o <<>> = <<>>
  OBVIOUS
<1>6. QED
  BY <1>4, <1>5 DEF Join

LEMMA NoTaskInOrder == \A n \in Nodes : TaskInOrder(n, Task("none", "none", NoRoute))
BY DEF TaskInOrder, Task, NoRoute

\* One task moves on, and stays in order.
TaskMoved ==
  \E n \in At("queued") \cup At("running") : \E task :
    /\ tasks' = [tasks EXCEPT ![n] = task]
    /\ TaskInOrder(n, task) /\ task.at # "none"

LEMMA TaskMoves ==
  ASSUME EarlyWithin, TasksInv, TaskStep
  PROVE  TaskMoved
<1>t. \A m \in Nodes : cache[m] \subseteq Results(m)
  BY DEF TasksInv, FanInInv, RoutesAvoidJoins
<1>k. ASSUME NEW n \in At("queued") \cup At("running"), NEW at, NEW kind, NEW r,
             TaskIs(n, Task(at, kind, r)), at # "none",
             r.next \subseteq LeadsTo(n), Sendless => r.sends = <<>>,
             kind = "none" <=> at # "done", kind = "skipped" => Needs[n] # {},
             kind = "error" => n \in Failing /\ ErrorHandler[n] = NoNode
      PROVE  TaskMoved
  <2>1. PICK task : task = Task(at, kind, r)
    OBVIOUS
  <2>2. task.at = at /\ task.kind = kind /\ task.route = r
    BY <2>1 DEF Task
  <2>3. TaskInOrder(n, task) /\ task.at # "none"
    BY <1>k, <2>2 DEF TaskInOrder
  <2>4. tasks' = [tasks EXCEPT ![n] = task]
    BY <1>k, <2>1 DEF TaskIs
  <2> QED  BY <2>3, <2>4 DEF TaskMoved
<1>r. NoRoute.next = {} /\ NoRoute.sends = <<>>
  BY DEF NoRoute
<1>1. ASSUME NEW n \in Nodes, StartTask(n)
      PROVE  TaskMoved
  <2>1. n \in At("queued")
    BY <1>1 DEF StartTask, HasSlot
  <2>2. CASE ~Available(n) /\ TaskIs(n, Task("done", "skipped", NoRoute))
    <3>1. Needs[n] # {}
      BY <2>2 DEF Available
    <3> QED  BY <1>k, <1>r, <2>1, <2>2, <3>1
  <2>3. CASE \E res \in cache[n] : \E r \in RoutesInTask(n, res) :
               TaskIs(n, Task("done", "result", r))
    <3>1. PICK res \in cache[n] : \E r \in RoutesInTask(n, res) :
               TaskIs(n, Task("done", "result", r))
      BY <2>3
    <3>2. PICK r \in RoutesInTask(n, res) : TaskIs(n, Task("done", "result", r))
      BY <3>1
    <3>3. res \in Results(n)
      BY <1>t, <3>1
    <3>4. r.next \subseteq LeadsTo(n) /\ (Sendless => r.sends = <<>>)
      BY <3>2, <3>3, RoutesInTaskLead
    <3> QED  BY <1>k, <2>1, <3>2, <3>4
  <2>4. CASE TaskIs(n, Task("running", "none", NoRoute))
    BY <1>k, <1>r, <2>1, <2>4
  <2>5. \/ ~Available(n) /\ TaskIs(n, Task("done", "skipped", NoRoute))
        \/ \E res \in cache[n] : \E r \in RoutesInTask(n, res) :
             TaskIs(n, Task("done", "result", r))
        \/ TaskIs(n, Task("running", "none", NoRoute))
    BY <1>1 DEF StartTask
  <2> QED  BY <2>2, <2>3, <2>4, <2>5
<1>2. ASSUME NEW n \in Nodes, ReturnFromTask(n)
      PROVE  TaskMoved
  <2>1. PICK res \in Results(n) : \E r \in RoutesInTask(n, res) :
               TaskIs(n, Task("done", "result", Join(ExtractRouting(n, res), r)))
    BY <1>2 DEF ReturnFromTask
  <2>2. PICK r \in RoutesInTask(n, res) :
          TaskIs(n, Task("done", "result", Join(ExtractRouting(n, res), r)))
    BY <2>1
  <2>3. PICK route : route = Join(ExtractRouting(n, res), r)
    OBVIOUS
  <2>4. route.next \subseteq LeadsTo(n) /\ (Sendless => route.sends = <<>>)
    BY <2>2, <2>3, RoutesInTaskLead
  <2>5. n \in At("running") /\ TaskIs(n, Task("done", "result", route))
    BY <1>2, <2>2, <2>3 DEF ReturnFromTask
  <2> QED  BY <1>k, <2>4, <2>5
<1>3. ASSUME NEW n \in Nodes, InterruptTask(n)
      PROVE  TaskMoved
  BY <1>k, <1>r, <1>3 DEF InterruptTask
<1>4. ASSUME NEW n \in Nodes, FailTask(n)
      PROVE  TaskMoved
  <2>1. n \in At("running") /\ n \in Failing
    BY <1>4 DEF FailTask
  <2>2. CASE ErrorHandler[n] = NoNode
    <3>1. TaskIs(n, Task("done", "error", NoRoute))
      BY <1>4, <2>2 DEF FailTask
    <3> QED  BY <1>k, <1>r, <2>1, <2>2, <3>1
  <2>3. CASE ErrorHandler[n] # NoNode
    <3>1. PICK r : r = [next |-> {ErrorHandler[n]}, sends |-> <<>>]
      OBVIOUS
    <3>2. TaskIs(n, Task("done", "handled", r))
      BY <1>4, <2>3, <3>1 DEF FailTask
    <3>3. r.next \subseteq LeadsTo(n) /\ r.sends = <<>>
      BY <2>3, <3>1 DEF LeadsTo
    <3> QED  BY <1>k, <2>1, <3>2, <3>3
  <2> QED  BY <2>2, <2>3
<1>5. QED
  BY <1>1, <1>2, <1>3, <1>4 DEF TaskStep

\* When all tasks of a step have ended: which nodes are in what they leave behind.
LEMMA AtTheGather ==
  ASSUME TasksInv, AllDone
  PROVE  /\ pc = "nodes" /\ new_next = {}
         /\ Finished \in SUBSET next_nodes /\ Ended("interrupt") \in SUBSET next_nodes
         /\ Finished \cap Ended("interrupt") = {}
         /\ Ended("result") \cap Ended("handled") = {}
         /\ LedBy(Selected, Finished)
         /\ next_nodes \subseteq Finished \cup Ended("interrupt") \cup Ended("error")
                                   \cup Ended("skipped")
<1>t. TypeOK /\ TasksTypeOK
  BY DEF TasksInv, FanInInv
<1>1. /\ pc = "nodes" /\ new_next = {} /\ Parallel
      /\ \A n \in Nodes : n \in next_nodes <=> tasks[n].at # "none"
  BY DEF TasksInv, StepOfTasks, AllDone
<1>2. \A n \in Nodes : tasks[n].at = "done" => n \in next_nodes
  BY <1>1
<1>3. Finished \in SUBSET next_nodes /\ Ended("interrupt") \in SUBSET next_nodes
  BY <1>2 DEF Finished, Ended, At
<1>4. Finished \cap Ended("interrupt") = {} /\ Ended("result") \cap Ended("handled") = {}
  BY DEF Finished, Ended
<1>5. LedBy(Selected, Finished)
  <2>1. \A n \in Finished : n \in Nodes /\ tasks[n].route.next \subseteq LeadsTo(n)
    BY DEF TasksInv, TaskInOrder, Finished, Ended, At
  <2> QED  BY <2>1 DEF LedBy, Selected
<1>6. ASSUME NEW n \in next_nodes
      PROVE  n \in Finished \cup Ended("interrupt") \cup Ended("error") \cup Ended("skipped")
  <2>1. n \in Nodes /\ tasks[n] \in TaskType
    BY <1>t DEF TypeOK, TasksTypeOK
  <2>2. tasks[n].at = "done"
    <3>1. tasks[n].at \notin {"none", "queued", "running"}
      BY <1>1, <2>1 DEF AllDone, At
    <3> QED  BY <2>1, <3>1 DEF TaskType
  <2>3. tasks[n].kind # "none"
    BY <2>1, <2>2 DEF TasksInv, TaskInOrder
  <2>4. tasks[n].kind \in {"skipped", "result", "handled", "interrupt", "error"}
    BY <2>1, <2>3 DEF TaskType
  <2> QED  BY <2>1, <2>2, <2>4 DEF Finished, Ended, At
<1>7. QED
  BY <1>1, <1>3, <1>4, <1>5, <1>6

LEMMA LeadsToAvoidsJoins == \A n \in Nodes : LeadsTo(n) \cap JoinNodes = {}
<1> SUFFICES ASSUME NEW n \in Nodes, NEW j \in JoinNodes PROVE j \notin LeadsTo(n)
  OBVIOUS
<1>1. j \notin Successors(n) /\ ErrorHandler[n] # j
  BY JoinUnreachable
<1>2. \A r \in Branches[n] \cup Gotos[n] \cup Listed[n] :
        j \notin r.next \cup {r.sends[i] : i \in DOMAIN r.sends}
  BY JoinUnreachable
<1>3. j \notin RouteTargets(Branches[n] \cup Gotos[n] \cup Listed[n])
  BY <1>2 DEF RouteTargets
<1>4. QED
  BY <1>1, <1>3 DEF LeadsTo

LEMMA TasksInit == AsyncInit => TasksInv
BY FanInInit, NoTasksType, NoTaskInOrder
DEF AsyncInit, TasksInv, TasksTypeOK, StepOfTasks, Parallel, NoTasks

\* FanInInv over the steps that only this engine has.
LEMMA TasksKeepFanIn ==
  ASSUME TasksInv, TypeOK', EarlyWithin, TaskStep \/ GatherStep \/ InitialSendStep
  PROVE  FanInInv'
<1>t. /\ FanInInv /\ TypeOK /\ TasksTypeOK /\ ThreadTypeOK /\ RunTypeOK
      /\ FanInWaits /\ RoutesAvoidJoins
  BY TypeParts DEF TasksInv, FanInInv
<1> SUFFICES FanInWaits' /\ RoutesAvoidJoins'
  BY DEF FanInInv
<1>l. \A n \in Nodes : LeadsTo(n) \cap JoinNodes = {}
  BY LeadsToAvoidsJoins
<1>1. CASE TaskStep
  <2>1. TaskOnly /\ \A m \in Nodes : cache'[m] \subseteq cache[m] \cup Results(m)
    BY <1>1, <1>t, TaskSteps
  <2>2. FanInWaits'
    BY <1>t, <2>1 DEF TaskOnly, FanInWaits
  <2>3. RoutesAvoidJoins'
    BY <1>t, <2>1 DEF TaskOnly, RoutesAvoidJoins
  <2> QED  BY <2>2, <2>3
<1>2. CASE Gather
  <2>1. LedBy(Selected, Finished) /\ Finished \subseteq Nodes
    BY <1>2, <1>t, AtTheGather, FinishedType DEF Gather
  <2>2. JoinNodes \cap Selected = {}
    BY <1>l, <2>1 DEF LedBy
  <2>3. /\ saved' = saved /\ next_nodes' \subseteq next_nodes /\ cache' = cache
        /\ completed_nodes \subseteq completed_nodes' /\ new_next' = Selected
    BY <1>2 DEF Gather
  <2>4. FanInWaits'
    BY <1>t, <2>3, FanInWithinStep
  <2> QED  BY <1>t, <2>2, <2>3, <2>4 DEF RoutesAvoidJoins
<1>3. CASE GatherInterrupts
  <2>1. /\ LedBy(Selected, Finished) /\ Finished \subseteq Nodes
        /\ Ended("interrupt") \subseteq next_nodes
    BY <1>3, <1>t, AtTheGather, FinishedType DEF GatherInterrupts
  <2>2. JoinNodes \cap Selected = {}
    BY <1>l, <2>1 DEF LedBy
  <2>3. /\ saved'.next = LeftAtInterrupts /\ saved'.completed = completed_nodes \cup Finished
        /\ Return /\ cache' = cache
    BY <1>3 DEF GatherInterrupts
  <2>4. ASSUME NEW j \in JoinNodes, j \in saved'.next PROVE Joined(j, saved'.completed)
    <3>1. j \in next_nodes
      BY <2>1, <2>2, <2>3, <2>4 DEF LeftAtInterrupts
    <3>2. Joined(j, completed_nodes)
      BY <1>t, <3>1 DEF FanInWaits
    <3> QED  BY <2>3, <3>2, JoinedMonotone
  <2> QED  BY <1>t, <2>3, <2>4, FanInAtPause
<1>4. ASSUME Return, saved' = saved, cache' = cache PROVE FanInWaits' /\ RoutesAvoidJoins'
  BY <1>4, <1>t, FanInAtPause DEF FanInWaits
<1>5. CASE GatherError
  BY <1>4, <1>5 DEF GatherError
<1>6. ASSUME NEW n \in Nodes, RaiseInitialSend(n) PROVE FanInWaits' /\ RoutesAvoidJoins'
  BY <1>4, <1>6 DEF RaiseInitialSend
<1>7. ASSUME NEW n \in Nodes, TakenForSends(n), cache' = cache,
             completed_nodes \subseteq completed_nodes', JoinNodes \cap new_next' = {}
      PROVE  FanInWaits' /\ RoutesAvoidJoins'
  <2>1. saved' = saved /\ next_nodes' \subseteq next_nodes
    BY <1>7 DEF TakenForSends, Taken
  <2> QED  BY <1>7, <1>t, <2>1, FanInWithinStep DEF RoutesAvoidJoins
<1>8. ASSUME NEW n \in Nodes, RunInitialSends(n) PROVE FanInWaits' /\ RoutesAvoidJoins'
  <2>1. \E T \in SUBSET LeadsTo(n) : new_next' = new_next \cup T
    BY <1>8, <1>t, InitialSendsRun
  <2>2. JoinNodes \cap new_next' = {}
    BY <1>l, <1>t, <2>1 DEF RoutesAvoidJoins
  <2>3. TakenForSends(n) /\ cache' = cache /\ completed_nodes \subseteq completed_nodes'
    BY <1>8 DEF RunInitialSends
  <2> QED  BY <1>7, <2>2, <2>3
<1>9. ASSUME NEW n \in Nodes, FailInitialSends(n) PROVE FanInWaits' /\ RoutesAvoidJoins'
  <2>1. TakenForSends(n) /\ HandOver(n) /\ cache' = cache
    BY <1>9 DEF FailInitialSends, HandOver
  <2>2. RoutesAvoidJoins' /\ completed_nodes \subseteq completed_nodes'
    BY <1>t, <2>1, HandOverAvoidsJoins
  <2> QED  BY <1>7, <2>1, <2>2 DEF RoutesAvoidJoins
<1>10. QED
  BY <1>1, <1>2, <1>3, <1>5, <1>6, <1>8, <1>9 DEF GatherStep, InitialSendStep

LEMMA TasksNext == EarlyWithin /\ TasksInv /\ [AsyncNext]_avars => TasksInv'
<1> SUFFICES ASSUME EarlyWithin, TasksInv, [AsyncNext]_avars PROVE TasksInv'
  OBVIOUS
<1>t. TypeOK /\ TasksTypeOK /\ FanInInv /\ StepOfTasks
  BY DEF TasksInv, FanInInv
<1>a. TypeOK' /\ TasksTypeOK' /\ StepOfTasks'
  <2>1. AsyncTypeOK'
    BY <1>t, AsyncTypeParts, AsyncNextType
  <2> QED  BY <1>t, <2>1, StepOfTasksKept DEF AsyncTypeOK, TasksTypeOK, TaskType
<1>n. ASSUME tasks' = NoTasks PROVE \A n \in Nodes : TaskInOrder(n, tasks'[n])
  BY <1>n, NoTaskInOrder DEF NoTasks
<1>1. CASE SharedStep
  <2>1. FanInInv'
    BY <1>1, <1>t, FanInNext DEF SharedStep
  <2>2. tasks' = NoTasks \/ tasks' = tasks
    BY <1>1 DEF SharedStep, Local
  <2> QED  BY <1>a, <1>n, <2>1, <2>2 DEF TasksInv
<1>2. CASE InvokeAsync
  BY <1>2, <1>a, <1>n, <1>t, EntersAsBefore, FanInNext DEF Next, CallerStep, TasksInv
<1>3. CASE StartStepAsync
  <2>1. FanInInv'
    BY <1>3, <1>t, EntersAsBefore, FanInNext DEF Next, LoopStep
  <2>2. CASE ~CanParallel
    BY <1>3, <1>a, <1>n, <2>1, <2>2 DEF StartStepAsync, TasksInv
  <2>3. CASE CanParallel
    <3>1. tasks' = [n \in Nodes |-> IF n \in Due THEN Task("queued", "none", NoRoute)
                                    ELSE NoTasks[n]]
      BY <1>3, <2>3 DEF StartStepAsync
    <3>2. \A n \in Nodes : TaskInOrder(n, tasks'[n])
      BY <3>1, NoTaskInOrder DEF TaskInOrder, Task, NoTasks, NoRoute
    <3> QED  BY <1>a, <2>1, <3>2 DEF TasksInv
  <2> QED  BY <2>2, <2>3
<1>4. CASE TaskStep
  <2>1. FanInInv'
    BY <1>4, <1>a, TasksKeepFanIn
  <2>2. PICK n \in At("queued") \cup At("running") : \E task :
          /\ tasks' = [tasks EXCEPT ![n] = task]
          /\ TaskInOrder(n, task) /\ task.at # "none"
    BY <1>4, TaskMoves DEF TaskMoved
  <2>3. PICK task :
          /\ tasks' = [tasks EXCEPT ![n] = task]
          /\ TaskInOrder(n, task) /\ task.at # "none"
    BY <2>2
  <2>4. /\ n \in Nodes /\ tasks'[n] = task
        /\ \A m \in Nodes : m # n => tasks'[m] = tasks[m]
    BY <1>t, <2>2, <2>3 DEF At, TasksTypeOK
  <2>5. \A m \in Nodes : TaskInOrder(m, tasks'[m])
    BY <2>3, <2>4 DEF TasksInv
  <2> QED  BY <1>a, <2>1, <2>5 DEF TasksInv
<1>5. CASE GatherStep
  <2>1. tasks' = NoTasks
    BY <1>5 DEF GatherStep, Gather, GatherInterrupts, GatherError, Local
  <2> QED  BY <1>5, <1>a, <1>n, <2>1, TasksKeepFanIn DEF TasksInv
<1>6. CASE InitialSendStep
  <2>1. tasks' = NoTasks
    BY <1>6 DEF InitialSendStep, RunInitialSends, FailInitialSends, RaiseInitialSend,
                TakenForSends, Parallel, Local
  <2> QED  BY <1>6, <1>a, <1>n, <2>1, TasksKeepFanIn DEF TasksInv
<1>7. QED
  BY <1>1, <1>2, <1>3, <1>4, <1>5, <1>6, AsyncSteps

\* FanInWaits, for the asynchronous engine on every graph: whatever the tasks of a step
\* and the Sends of START do, a fan-in node is never due before all its sources completed.
THEOREM AsyncFanInCorrect ==
  ASSUME EarlyWithin PROVE AsyncSpec => []FanInWaits
<1>1. TasksInv => FanInWaits
  BY DEF TasksInv, FanInInv
<1>2. TasksInv /\ [AsyncNext]_avars => TasksInv'
  BY TasksNext
<1>3. QED
  BY <1>1, <1>2, TasksInit, PTL DEF AsyncSpec

-----------------------------------------------------------------------------
(* Graphs that lead to every node once: what the steps of this engine do   *)
(* to the order of the nodes that are pending, selected and completed.     *)

\* All results of a step of tasks are in the channels, and its routes in the next step.
GatherCompletes ==
  /\ pc = "nodes" /\ pc' = "nodes" /\ Finished \in SUBSET next_nodes
  /\ LedBy(Selected, Finished)
  /\ next_nodes' = {} /\ completed_nodes' = completed_nodes \cup Finished
  /\ new_next' = new_next \cup Selected
  /\ values' = NewValues /\ errors' = NewErrors
  /\ UNCHANGED <<saved, turns, new_sends, batch>>

LEMMA GatherOnce ==
  ASSUME Sendless, TasksInv, NoSendsLeft, Gather
  PROVE  GatherCompletes
<1>t. TypeOK /\ TasksTypeOK
  BY DEF TasksInv, FanInInv
<1>1. /\ pc = "nodes" /\ new_next = {}
      /\ Finished \in SUBSET next_nodes /\ LedBy(Selected, Finished)
  BY AtTheGather DEF Gather
<1>2. new_sends' = <<>>
  <2>1. \A n \in Finished : tasks[n].route.sends = <<>>
    BY DEF TasksInv, TaskInOrder, Finished, Ended, At
  <2>2. <<>> \o <<>> = <<>>
    OBVIOUS
  <2>3. new_sends \in {<<>>} /\ \A s \in {<<>>}, n \in Finished : s \o tasks[n].route.sends \in {<<>>}
    BY <2>1, <2>2 DEF NoSendsLeft
  <2>4. PICK order \in [1..Cardinality(Finished) -> Finished] : new_sends' = SentInOrder(order)
    BY DEF Gather
  <2>5. SentInOrder(order) \in {<<>>}
    BY <1>t, <2>3, SentInOrderIn
  <2> QED  BY <2>4, <2>5
<1>3. /\ next_nodes' = {} /\ completed_nodes' = completed_nodes \cup Finished
      /\ new_next' = Selected /\ values' = NewValues /\ errors' = NewErrors
      /\ UNCHANGED <<saved, bounds, pc, batch>>
  BY DEF Gather
<1>4. new_sends = <<>>
  BY DEF NoSendsLeft
<1>5. QED
  BY <1>1, <1>2, <1>3, <1>4 DEF GatherCompletes, bounds

\* A node that START sent to runs once per argument, and leaves a record of the runs that
\* went well, or one error entry.
RunsAll(n, T, k) ==
  /\ pc = "nodes" /\ pc' = "nodes" /\ n \in next_nodes
  /\ next_nodes' = next_nodes \ {n}
  /\ completed_nodes' = completed_nodes \cup {n}
  /\ new_next' = new_next \cup T
  /\ \/ values' = [values EXCEPT ![n] = @ + k] /\ errors' = errors
     \/ errors' = [errors EXCEPT ![n] = @ + k] /\ values' = values
  /\ UNCHANGED <<saved, turns, new_sends, batch>>

LEMMA InitialOnce ==
  ASSUME Sendless, TasksInv, NoSendsLeft, NEW n \in Nodes,
         RunInitialSends(n) \/ FailInitialSends(n)
  PROVE  \E k \in 1..send_inputs[n], T \in SUBSET LeadsTo(n) : RunsAll(n, T, k)
<1>t. TypeOK /\ TasksTypeOK
  BY DEF TasksInv, FanInInv
<1>1. /\ pc = "nodes" /\ pc' = "nodes" /\ n \in next_nodes
      /\ next_nodes' = next_nodes \ {n} /\ send_inputs[n] > 0
      /\ UNCHANGED <<saved, turns, batch>>
  BY DEF RunInitialSends, FailInitialSends, TakenForSends, Taken, bounds
<1>2. CASE RunInitialSends(n)
  <2>1. PICK k \in 1..send_inputs[n], route \in Route :
           /\ values' = [values EXCEPT ![n] = @ + k]
           /\ new_next' = new_next \cup route.next
           /\ new_sends' = new_sends \o route.sends
           /\ route.next \subseteq LeadsTo(n)
           /\ Sendless => route.sends = <<>>
    BY <1>2, <1>t, InitialSendsRun
  <2>2. <<>> \o <<>> = <<>>
    OBVIOUS
  <2>3. new_sends' = new_sends
    BY <2>1, <2>2 DEF NoSendsLeft
  <2>4. completed_nodes' = completed_nodes \cup {n} /\ errors' = errors
    BY <1>2 DEF RunInitialSends
  <2>5. RunsAll(n, route.next, k)
    BY <1>1, <2>1, <2>3, <2>4 DEF RunsAll
  <2> QED  BY <2>1, <2>5
<1>3. CASE FailInitialSends(n)
  <2>1. /\ errors' = [errors EXCEPT ![n] = @ + 1] /\ values' = values
        /\ new_next' = new_next \cup {ErrorHandler[n]} /\ ErrorHandler[n] # NoNode
        /\ completed_nodes' = completed_nodes \cup {n} /\ new_sends' = new_sends
    BY <1>3 DEF FailInitialSends, HandOver
  <2>2. {ErrorHandler[n]} \in SUBSET LeadsTo(n)
    BY <2>1 DEF LeadsTo
  <2>3. 1 \in 1..send_inputs[n]
    BY <1>1, <1>t DEF TasksTypeOK
  <2>4. RunsAll(n, {ErrorHandler[n]}, 1)
    BY <1>1, <2>1 DEF RunsAll
  <2> QED  BY <2>2, <2>3, <2>4
<1>4. QED
  BY <1>2, <1>3

\* What is left at the questions of a step of tasks is in order.
LEMMA LeftInOrder ==
  ASSUME LeadsOnce, TasksInv, OnceInv, AllDone
  PROVE  Orderly(LeftAtInterrupts, completed_nodes \cup Finished)
<1>1. /\ pc = "nodes" /\ new_next = {}
      /\ Finished \in SUBSET next_nodes /\ Ended("interrupt") \in SUBSET next_nodes
      /\ LedBy(Selected, Finished)
  BY AtTheGather
<1>2. Orderly((next_nodes \ Finished) \cup (new_next \cup Selected), completed_nodes \cup Finished)
  BY <1>1, FinishOrderly
<1>3. LeftAtInterrupts \subseteq (next_nodes \ Finished) \cup (new_next \cup Selected)
  BY <1>1 DEF LeftAtInterrupts
<1>4. QED
  BY <1>2, <1>3, OrderlyPart

LEMMA TasksKeepOnce ==
  ASSUME OneWay, EarlyWithin, TasksInv, OnceInv, TaskStep \/ GatherStep \/ InitialSendStep
  PROVE  NoSendsLeft' /\ FirstInput' /\ RunOrderly' /\ Orderly(saved.next, saved.completed)'
<1>t. /\ LeadsOnce /\ Sendless /\ TypeOK /\ TasksTypeOK
      /\ NoSendsLeft /\ FirstInput /\ RunOrderly /\ Orderly(saved.next, saved.completed)
  BY DEF OneWay, LeadsOnce, TasksInv, OnceInv, FanInInv
<1>1. CASE TaskStep
  <2>1. TaskOnly
    BY <1>1, <1>t, TaskSteps
  <2> QED  BY <1>t, <2>1 DEF TaskOnly, NoSendsLeft, FirstInput, RunOrderly
<1>2. CASE Gather
  <2>1. GatherCompletes
    BY <1>2, <1>t, GatherOnce
  <2>2. next_nodes' \subseteq next_nodes \ Finished
    BY <2>1 DEF GatherCompletes
  <2> QED  BY <1>t, <2>1, <2>2, OnceMoves DEF GatherCompletes
<1>3. CASE GatherInterrupts
  <2>1. /\ saved'.next = LeftAtInterrupts /\ saved'.completed = completed_nodes \cup Finished
        /\ Return /\ turns' = turns /\ AllDone
    BY <1>3 DEF GatherInterrupts, bounds
  <2>2. pc # "idle"
    BY <2>1, AtTheGather
  <2>3. Orderly(saved'.next, saved'.completed)
    BY <1>t, <2>1, LeftInOrder
  <2> QED  BY <2>1, <2>2, <2>3, OnceAtEnd
<1>4. CASE GatherError
  <2>1. Return /\ saved' = saved /\ turns' = turns /\ AllDone
    BY <1>4 DEF GatherError, bounds
  <2>2. pc # "idle"
    BY <2>1, AtTheGather
  <2> QED  BY <1>t, <2>1, <2>2, OnceAtEnd
<1>5. ASSUME NEW n \in Nodes, RaiseInitialSend(n)
      PROVE  NoSendsLeft' /\ FirstInput' /\ RunOrderly' /\ Orderly(saved.next, saved.completed)'
  <2>1. Return /\ saved' = saved /\ turns' = turns /\ pc # "idle"
    BY <1>5 DEF RaiseInitialSend, bounds
  <2> QED  BY <1>t, <2>1, OnceAtEnd
<1>6. ASSUME NEW n \in Nodes, RunInitialSends(n) \/ FailInitialSends(n)
      PROVE  NoSendsLeft' /\ FirstInput' /\ RunOrderly' /\ Orderly(saved.next, saved.completed)'
  <2>1. PICK k \in 1..send_inputs[n], T \in SUBSET LeadsTo(n) : RunsAll(n, T, k)
    BY <1>6, <1>t, InitialOnce
  <2>2. PICK F \in SUBSET next_nodes : F = {n}
    BY <2>1 DEF RunsAll
  <2>3. /\ LedBy(T, F) /\ next_nodes' \subseteq next_nodes \ F
        /\ completed_nodes' = completed_nodes \cup F
    BY <2>1, <2>2 DEF RunsAll, LedBy
  <2> QED  BY <1>t, <2>1, <2>3, OnceMoves DEF RunsAll
<1>7. QED
  BY <1>1, <1>2, <1>3, <1>4, <1>5, <1>6 DEF GatherStep, InitialSendStep

AsyncOnce == TasksInv /\ OnceInv

LEMMA AsyncOnceInit == LeadsOnce /\ AsyncInit => AsyncOnce
BY TasksInit, OnceInit DEF AsyncInit, AsyncOnce

LEMMA AsyncOnceNext == OneWay /\ EarlyWithin /\ AsyncOnce /\ [AsyncNext]_avars => AsyncOnce'
<1> SUFFICES ASSUME OneWay, EarlyWithin, AsyncOnce, [AsyncNext]_avars PROVE AsyncOnce'
  OBVIOUS
<1>1. TasksInv /\ OnceInv
  BY DEF AsyncOnce
<1>2. TasksInv'
  BY <1>1, TasksNext
<1>3. CASE SharedStep \/ InvokeAsync \/ StartStepAsync
  <2>1. [Next]_vars
    BY <1>3, EntersAsBefore DEF SharedStep, Next, LoopStep, CallerStep
  <2> QED  BY <1>1, <1>2, <2>1, OnceNext DEF AsyncOnce
<1>4. CASE TaskStep \/ GatherStep \/ InitialSendStep
  <2>1. NoSendsLeft' /\ FirstInput' /\ RunOrderly' /\ Orderly(saved.next, saved.completed)'
    BY <1>1, <1>4, TasksKeepOnce
  <2> QED  BY <1>2, <2>1 DEF AsyncOnce, OnceInv, TasksInv
<1>5. QED
  BY <1>3, <1>4, AsyncSteps

\* Only an interrupt saves a checkpoint when the tasks of a step have ended.
LEMMA SavesAtTheGather ==
  ASSUME TasksInv, AllDone, [AsyncNext]_avars, saved' # saved
  PROVE  GatherInterrupts
<1>t. /\ TypeOK /\ TasksTypeOK /\ pc = "nodes" /\ Parallel /\ ~NodesDone
  <2>1. pc = "nodes" /\ Parallel /\ next_nodes # {}
    BY AtTheGather DEF AllDone, TasksInv, StepOfTasks
  <2> QED  BY <2>1 DEF NodesDone, TasksInv, FanInInv
<1>1. ~(Finish \/ RecursionError \/ PauseBefore \/ PauseAfter)
  BY <1>t DEF Finish, RecursionError, PauseBefore, PauseAfter, StepDone
<1>2. ~(StartStepAsync \/ InvokeAsync \/ ResumeAsync \/ EndStep \/ Cancelled)
  BY <1>t DEF StartStepAsync, StartStep, InvokeAsync, ResumeAsync, Resume, Enter, EndStep,
              StepDone, Cancelled, Crash
<1>3. ~(SequentialStep \/ SendStepAsync)
  BY <1>t DEF SequentialStep, SendStepAsync, StartBatch, SendDepthError, RunSend, FailSend,
              NextSend, InterruptSend
<1>4. ~TaskStep
  BY <1>t, TaskSteps DEF TaskOnly
<1>5. ~(Gather \/ GatherError)
  BY DEF Gather, GatherError
<1>6. ~InitialSendStep
  BY <1>t DEF InitialSendStep, RunInitialSends, FailInitialSends, RaiseInitialSend, TakenForSends
<1>7. ~(UNCHANGED avars \/ CallerRests)
  BY DEF avars, vars, CallerRests
<1>8. QED
  BY <1>1, <1>2, <1>3, <1>4, <1>5, <1>6, <1>7 DEF AsyncNext, AsyncLoopStep, GatherStep

\* AskersStayNext, the property of the run "parallel", for every graph that leads to every
\* node once, on a thread with one input: the tasks that asked in a step are all pending
\* again, and none of those whose results are in the checkpoint.
THEOREM EveryAskerAsksAgain ==
  ASSUME OneWay, EarlyWithin PROVE AsyncSpec => AskersStayNext
<1> DEFINE Kept == AllDone /\ saved' # saved =>
                     Ended("interrupt") \subseteq saved'.next /\ saved'.next \cap Finished = {}
<1>1. AsyncInit => AsyncOnce
  BY AsyncOnceInit DEF OneWay
<1>2. AsyncOnce /\ [AsyncNext]_avars => AsyncOnce'
  BY AsyncOnceNext
<1>3. AsyncOnce /\ [AsyncNext]_avars => [Kept]_avars
  <2> SUFFICES ASSUME AsyncOnce, [AsyncNext]_avars, AllDone, saved' # saved
               PROVE  Ended("interrupt") \subseteq saved'.next /\ saved'.next \cap Finished = {}
    OBVIOUS
  <2>t. TasksInv /\ OnceInv /\ TypeOK /\ TasksTypeOK /\ RunOrderly
    BY DEF AsyncOnce, TasksInv, OnceInv, FanInInv
  <2>1. GatherInterrupts
    BY <2>t, SavesAtTheGather
  <2>2. /\ saved'.next = LeftAtInterrupts /\ AllDone
    BY <2>1 DEF GatherInterrupts
  <2>3. /\ pc = "nodes" /\ Ended("interrupt") \in SUBSET next_nodes
        /\ Finished \cap Ended("interrupt") = {}
    BY <2>t, <2>2, AtTheGather
  <2>4. next_nodes \cap completed_nodes = {}
    BY <2>t, <2>3 DEF RunOrderly, Orderly
  <2> QED  BY <2>2, <2>3, <2>4 DEF LeftAtInterrupts
<1>4. QED
  BY <1>1, <1>2, <1>3, PTL DEF AsyncSpec, AskersStayNext

-----------------------------------------------------------------------------
(* The records of such a graph: one of each node that ran, and of a node   *)
(* that START sent to at most one per argument.                            *)

\* The path functions of START may send to a node a bounded number of times.
SendsBounded == \E b \in Nat : \A r \in StartRoutes : Len(r.sends) <= b

LEMMA MostRecordsAre ==
  ASSUME SendsBounded
  PROVE  /\ MostRecords \in [Nodes -> Nat \ {0}]
         /\ \A n \in Nodes : \A r \in StartRoutes : SendsTo(n, r) <= MostRecords[n]
<1>1. PICK b \in Nat : \A r \in StartRoutes : Len(r.sends) <= b
  BY DEF SendsBounded
<1>2. ASSUME NEW n \in Nodes
      PROVE  /\ MostRecords[n] \in Nat \ {0}
             /\ \A r \in StartRoutes : SendsTo(n, r) <= MostRecords[n]
  <2>1. ASSUME NEW r \in StartRoutes PROVE SendsTo(n, r) \in 0..b
    <3>1. r \in Route /\ Len(r.sends) <= b
      BY <1>1, AsyncAssumption
    <3>2. Len(r.sends) \in Nat
      BY <3>1, LenProperties DEF Route
    <3>3. SendsTo(n, r) \in 0..Len(r.sends)
      BY <3>1, SendsFinite DEF SendsTo
    <3> QED  BY <3>1, <3>2, <3>3
  <2>2. PICK args \in SUBSET (1..(b + 1)) :
          args = Arguments(n) /\ 1 \in args /\ \A r \in StartRoutes : SendsTo(n, r) \in args \cup {0}
    <3>1. \A k \in Arguments(n) : k \in 1..(b + 1)
      BY <2>1 DEF Arguments
    <3>2. 1 \in Arguments(n) /\ \A r \in StartRoutes : SendsTo(n, r) \in Arguments(n) \cup {0}
      BY DEF Arguments
    <3> QED  BY <3>1, <3>2
  <2>3. \E k \in args : \A j \in args : j <= k
    <3> DEFINE below == {b + 1 - k : k \in args}
    <3>1. below \in SUBSET Nat /\ below # {}
      BY <2>2
    <3>2. PICK d \in below : \A e \in below : d <= e
      <4> HIDE DEF below
      <4> QED  BY <3>1, LeastNumber
    <3>3. PICK k \in args : d = b + 1 - k
      BY <3>2
    <3>4. ASSUME NEW j \in args PROVE j <= k
      <4>1. b + 1 - k <= b + 1 - j
        BY <3>2, <3>3
      <4>2. j \in Nat /\ k \in Nat
        OBVIOUS
      <4> QED  BY <4>1, <4>2
    <3> QED  BY <3>4
  <2>4. PICK most \in args : most = MostRecords[n] /\ \A j \in args : j <= most
    BY <2>2, <2>3 DEF MostRecords
  <2>5. MostRecords[n] \in Nat \ {0}
    <3>1. most \in Nat \ {0}
      OBVIOUS
    <3> QED  BY <2>4, <3>1
  <2>6. ASSUME NEW r \in StartRoutes PROVE SendsTo(n, r) <= MostRecords[n]
    BY <2>2, <2>4, <2>5
  <2> QED  BY <2>5, <2>6
<1>3. MostRecords = [n \in Nodes |-> MostRecords[n]]
  BY DEF MostRecords
<1>4. QED
  BY <1>2, <1>3

\* What the tasks of a step leave in the channels.
LEMMA TasksCount ==
  ASSUME NEW most \in [Nodes -> Nat \ {0}], TasksInv, OnceInv, CountInv(most), AllDone
  PROVE  /\ RecordsWithin(NewValues, NewErrors, completed_nodes \cup Finished, most)
         /\ saved.completed \subseteq completed_nodes
         /\ \A n \in saved.completed :
              NewValues[n] + NewErrors[n] = saved.values[n] + saved.errors[n]
<1>t. /\ RunTypeOK /\ RunOrderly /\ saved.completed \subseteq Nodes
  BY TypeParts DEF OnceInv, FanInInv, ThreadTypeOK, CheckpointType
<1>1. /\ pc = "nodes" /\ Finished \in SUBSET next_nodes
      /\ Ended("result") \cap Ended("handled") = {}
  BY AtTheGather
<1>2. RunCounts(most) /\ Finished \cap completed_nodes = {}
  BY <1>1, <1>t DEF CountInv, RunOrderly, Orderly
<1>3. ASSUME NEW n \in Nodes
      PROVE  NewValues[n] + NewErrors[n] = values[n] + errors[n] + IF n \in Finished THEN 1 ELSE 0
  <2>1. values[n] \in Nat /\ errors[n] \in Nat
    BY <1>t DEF RunTypeOK
  <2>2. /\ NewValues[n] = values[n] + IF n \in Ended("result") THEN 1 ELSE 0
        /\ NewErrors[n] = errors[n] + IF n \in Ended("handled") THEN 1 ELSE 0
    BY DEF NewValues, NewErrors
  <2>3. /\ n \in Finished <=> n \in Ended("result") \/ n \in Ended("handled")
        /\ ~(n \in Ended("result") /\ n \in Ended("handled"))
    BY <1>1 DEF Finished
  <2> QED  BY <2>1, <2>2, <2>3
<1>4. RecordsWithin(NewValues, NewErrors, completed_nodes \cup Finished, most)
  <2> SUFFICES ASSUME NEW n \in Nodes
               PROVE  NewValues[n] + NewErrors[n] \in
                        IF n \in completed_nodes \cup Finished THEN 1..most[n] ELSE {0}
    BY DEF RecordsWithin
  <2>1. values[n] + errors[n] \in IF n \in completed_nodes THEN 1..most[n] ELSE {0}
    BY <1>2 DEF RunCounts, RecordsWithin
  <2>2. values[n] \in Nat /\ errors[n] \in Nat /\ most[n] \in Nat \ {0}
    BY <1>t DEF RunTypeOK
  <2>3. CASE n \in Finished
    <3>1. n \notin completed_nodes
      BY <1>2, <2>3
    <3>2. NewValues[n] + NewErrors[n] = 1
      BY <1>3, <2>1, <2>2, <2>3, <3>1
    <3> QED  BY <2>2, <2>3, <3>2
  <2>4. CASE n \notin Finished
    BY <1>3, <2>1, <2>2, <2>4
  <2> QED  BY <2>3, <2>4
<1>5. ASSUME NEW n \in saved.completed
      PROVE  NewValues[n] + NewErrors[n] = saved.values[n] + saved.errors[n]
  <2>1. n \in Nodes /\ n \in completed_nodes /\ n \notin Finished
    BY <1>2, <1>t DEF RunCounts
  <2>2. values[n] + errors[n] = saved.values[n] + saved.errors[n]
    BY <1>2 DEF RunCounts
  <2>3. values[n] \in Nat /\ errors[n] \in Nat
    BY <1>t, <2>1 DEF RunTypeOK
  <2> QED  BY <1>3, <2>1, <2>2, <2>3
<1>6. QED
  BY <1>2, <1>4, <1>5 DEF RunCounts

ArgumentsLeft == \A n \in Nodes : send_inputs[n] <= MostRecords[n]

AsyncCounts == AsyncOnce /\ CountInv(MostRecords) /\ ArgumentsLeft

LEMMA ArgumentsNext ==
  ASSUME SendsBounded, TasksTypeOK, TypeOK, ArgumentsLeft, [AsyncNext]_avars
  PROVE  ArgumentsLeft'
<1>m. /\ \A n \in Nodes : MostRecords[n] \in Nat /\ NoSends[n] <= MostRecords[n]
      /\ \A n \in Nodes : \A r \in StartRoutes : SendsTo(n, r) <= MostRecords[n]
  BY MostRecordsAre DEF NoSends
<1>k. ASSUME send_inputs' = send_inputs \/ send_inputs' = NoSends PROVE ArgumentsLeft'
  BY <1>k, <1>m DEF ArgumentsLeft
<1>1. CASE SharedStep \/ StartStepAsync
  BY <1>1, <1>k DEF SharedStep, Local, StartStepAsync
<1>2. CASE InvokeAsync
  <2>1. PICK r \in StartRoutes :
          send_inputs' = [n \in Nodes |-> Cardinality({i \in DOMAIN r.sends : r.sends[i] = n})]
    BY <1>2 DEF InvokeAsync
  <2>2. \A n \in Nodes : send_inputs'[n] = SendsTo(n, r)
    BY <2>1 DEF SendsTo
  <2> QED  BY <1>m, <2>2 DEF ArgumentsLeft
<1>3. CASE TaskStep
  BY <1>3, <1>k, TaskSteps DEF TaskOnly
<1>4. CASE GatherStep
  BY <1>4, <1>k DEF GatherStep, Gather, GatherInterrupts, GatherError, Local
<1>5. CASE InitialSendStep
  <2>1. CASE \E n \in Nodes : RunInitialSends(n) \/ FailInitialSends(n)
    <3>1. PICK n \in Nodes : send_inputs' = [send_inputs EXCEPT ![n] = 0]
      BY <2>1 DEF RunInitialSends, FailInitialSends, TakenForSends
    <3> QED  BY <1>m, <3>1 DEF ArgumentsLeft, TasksTypeOK
  <2>2. CASE \E n \in Nodes : RaiseInitialSend(n)
    BY <1>k, <2>2 DEF RaiseInitialSend, Local
  <2> QED  BY <1>5, <2>1, <2>2 DEF InitialSendStep
<1>6. QED
  BY <1>1, <1>2, <1>3, <1>4, <1>5, AsyncSteps

LEMMA AsyncCountsInit == LeadsOnce /\ SendsBounded /\ AsyncInit => AsyncCounts
<1> SUFFICES ASSUME LeadsOnce, SendsBounded, AsyncInit PROVE AsyncCounts
  OBVIOUS
<1>1. AsyncOnce /\ Init /\ send_inputs = NoSends
  BY AsyncOnceInit DEF AsyncInit
<1>2. CountInv(MostRecords)
  <2>1. PICK most : most = MostRecords
    OBVIOUS
  <2>2. CountInv(most)
    BY <1>1, CountInit
  <2> QED  BY <2>1, <2>2
<1>3. ArgumentsLeft
  BY <1>1, MostRecordsAre DEF ArgumentsLeft, NoSends
<1>4. QED
  BY <1>1, <1>2, <1>3 DEF AsyncCounts

LEMMA AsyncCountsNext ==
  OneWay /\ EarlyWithin /\ SendsBounded /\ AsyncCounts /\ [AsyncNext]_avars => AsyncCounts'
<1> SUFFICES ASSUME OneWay, EarlyWithin, SendsBounded, AsyncCounts, [AsyncNext]_avars
             PROVE  AsyncCounts'
  OBVIOUS
<1>t. /\ AsyncOnce /\ TasksInv /\ OnceInv /\ TypeOK /\ TasksTypeOK
      /\ Sendless /\ NoSendsLeft /\ ArgumentsLeft
  BY DEF AsyncCounts, AsyncOnce, TasksInv, OnceInv, FanInInv, OneWay, LeadsOnce
<1>1. PICK most \in [Nodes -> Nat \ {0}] : most = MostRecords
  BY MostRecordsAre
<1>2. CountInv(most)
  BY <1>1 DEF AsyncCounts
<1>i. /\ RecordsWithin(saved.values, saved.errors, saved.completed, most)
      /\ pc # "idle" => RunCounts(most)
  BY <1>2 DEF CountInv
<1>s. ASSUME Return, saved' = saved PROVE CountInv(most)'
  BY <1>s, <1>i DEF Return, CountInv
<1>3. CASE SharedStep \/ InvokeAsync \/ StartStepAsync
  <2>1. [Next]_vars
    BY <1>3, EntersAsBefore DEF SharedStep, Next, LoopStep, CallerStep
  <2>2. CountInv(most)'
    BY <1>2, <1>t, <2>1, CountNext
  <2> QED  BY <1>1, <1>t, <2>2, AsyncOnceNext, ArgumentsNext DEF AsyncCounts
<1>4. CASE TaskStep
  <2>1. UNCHANGED <<saved, pc, values, errors, completed_nodes>>
    BY <1>4, <1>t, TaskSteps DEF TaskOnly
  <2>2. CountInv(most)'
    BY <1>i, <2>1 DEF CountInv, RunCounts
  <2> QED  BY <1>1, <1>t, <2>2, AsyncOnceNext, ArgumentsNext DEF AsyncCounts
<1>5. CASE GatherStep
  <2>0. /\ RecordsWithin(NewValues, NewErrors, completed_nodes \cup Finished, most)
        /\ saved.completed \subseteq completed_nodes
        /\ \A n \in saved.completed :
             NewValues[n] + NewErrors[n] = saved.values[n] + saved.errors[n]
    <3>1. AllDone
      BY <1>5 DEF GatherStep, Gather, GatherInterrupts, GatherError
    <3> QED  BY <1>2, <1>t, <3>1, TasksCount
  <2>1. ASSUME Gather PROVE CountInv(most)'
    <3>1. /\ saved' = saved /\ values' = NewValues /\ errors' = NewErrors
          /\ completed_nodes' = completed_nodes \cup Finished
      BY <2>1 DEF Gather
    <3>2. RunCounts(most)'
      BY <2>0, <3>1 DEF RunCounts
    <3> QED  BY <1>i, <3>1, <3>2 DEF CountInv
  <2>2. ASSUME GatherInterrupts PROVE CountInv(most)'
    <3>1. /\ saved'.values = NewValues /\ saved'.errors = NewErrors
          /\ saved'.completed = completed_nodes \cup Finished /\ Return
      BY <2>2 DEF GatherInterrupts
    <3> QED  BY <2>0, <3>1 DEF CountInv, Return
  <2>3. ASSUME GatherError PROVE CountInv(most)'
    BY <1>s, <2>3 DEF GatherError
  <2>4. CountInv(most)'
    BY <1>5, <2>1, <2>2, <2>3 DEF GatherStep
  <2> QED  BY <1>1, <1>t, <2>4, AsyncOnceNext, ArgumentsNext DEF AsyncCounts
<1>6. CASE InitialSendStep
  <2>1. ASSUME NEW n \in Nodes, RaiseInitialSend(n) PROVE CountInv(most)'
    BY <1>s, <2>1 DEF RaiseInitialSend
  <2>2. ASSUME NEW n \in Nodes, RunInitialSends(n) \/ FailInitialSends(n) PROVE CountInv(most)'
    <3>1. PICK k \in 1..send_inputs[n], T \in SUBSET LeadsTo(n) : RunsAll(n, T, k)
      BY <1>t, <2>2, InitialOnce
    <3>2. k \in 1..most[n]
      <4>1. send_inputs[n] \in Nat /\ most[n] \in Nat /\ send_inputs[n] <= most[n]
        BY <1>1, <1>t DEF TasksTypeOK, ArgumentsLeft
      <4> QED  BY <3>1, <4>1
    <3> QED  BY <1>2, <1>t, <3>1, <3>2, CountMoves DEF RunsAll
  <2>3. CountInv(most)'
    BY <1>6, <2>1, <2>2 DEF InitialSendStep
  <2> QED  BY <1>1, <1>t, <2>3, AsyncOnceNext, ArgumentsNext DEF AsyncCounts
<1>7. QED
  BY <1>3, <1>4, <1>5, <1>6, AsyncSteps

\* RecordsPerArgument, the invariant of the run "parallel", for every graph that leads to
\* every node once and any number of tasks, on a thread with one input: in whatever order
\* the tasks of a step end, interrupt, fail or are cancelled, a completed node has left at
\* least one record and at most one per argument, and no other node has left any.
THEOREM RecordsOfTasks ==
  ASSUME OneWay, EarlyWithin, SendsBounded PROVE AsyncSpec => []RecordsPerArgument
<1>1. AsyncCounts => RecordsPerArgument
  BY DEF AsyncCounts, CountInv, RecordsWithin, RecordsPerArgument
<1>2. AsyncInit => AsyncCounts
  BY AsyncCountsInit DEF OneWay
<1>3. AsyncCounts /\ [AsyncNext]_avars => AsyncCounts'
  BY AsyncCountsNext
<1>4. QED
  BY <1>1, <1>2, <1>3, PTL DEF AsyncSpec

-----------------------------------------------------------------------------
(* The asynchronous engine implements DurableThread on such a graph, if    *)
(* its nodes find their inputs and a node that fails has an error handler: *)
(* the error of another, beside a task that asked, is only logged, and its *)
(* node is no longer pending.                                              *)

Handled == \A n \in Nodes \cap Failing : ErrorHandler[n] # NoNode

\* What the tasks of a step leave undone is what asked.
LEMMA OthersAsked ==
  ASSUME Unskipped, Handled, TasksInv, AllDone
  PROVE  next_nodes \ Finished = Ended("interrupt") /\ Ended("error") = {}
<1>1. Ended("error") = {}
  BY DEF TasksInv, TaskInOrder, Ended, At, Handled
<1>2. Ended("skipped") = {}
  BY DEF TasksInv, TaskInOrder, Ended, At, Unskipped
<1>3. QED
  BY <1>1, <1>2, AtTheGather

\* The nodes that complete in a step of tasks, or in one Send of START, follow as those of
\* the other engine do.
LEMMA TasksFollow ==
  ASSUME OneWay, Unskipped, Handled, EarlyWithin, AsyncOnce, RunFollows, [AsyncNext]_avars
  PROVE  RunFollows'
<1>t. /\ TasksInv /\ OnceInv /\ TypeOK /\ TasksTypeOK /\ RunOrderly
      /\ Sendless /\ NoSendsLeft
  BY DEF AsyncOnce, TasksInv, OnceInv, FanInInv, OneWay, LeadsOnce
<1>e. Return => RunFollows'
  BY DEF Return, RunFollows
<1>f. ASSUME pc = "nodes", pc' = "nodes", saved' = saved,
             NEW F \in SUBSET next_nodes, NEW T, LedBy(T, F),
             next_nodes' = next_nodes \ F, completed_nodes' = completed_nodes \cup F,
             new_next' = new_next \cup T
      PROVE  RunFollows'
  <2>1. F \cap completed_nodes = {} /\ Follows(saved, completed_nodes, next_nodes, new_next)
    BY <1>f, <1>t DEF RunOrderly, Orderly, RunFollows
  <2>2. Follows(saved, completed_nodes \cup F, next_nodes \ F, new_next \cup T)
    BY <1>f, <2>1, FollowsOn
  <2> QED  BY <1>f, <2>2 DEF RunFollows
<1>1. CASE SharedStep \/ InvokeAsync \/ StartStepAsync
  <2>1. [Next]_vars
    BY <1>1, EntersAsBefore DEF SharedStep, Next, LoopStep, CallerStep
  <2> QED  BY <1>t, <2>1, FollowsNext
<1>2. CASE TaskStep
  <2>1. TaskOnly
    BY <1>2, <1>t, TaskSteps
  <2> QED  BY <2>1 DEF TaskOnly, RunFollows
<1>3. CASE Gather
  <2>1. GatherCompletes
    BY <1>3, <1>t, GatherOnce
  <2>2. next_nodes \ Finished = {}
    BY <1>3, <1>t, OthersAsked DEF Gather
  <2> QED  BY <1>f, <2>1, <2>2 DEF GatherCompletes
<1>4. CASE GatherInterrupts \/ GatherError
  BY <1>4, <1>e DEF GatherInterrupts, GatherError
<1>5. ASSUME NEW n \in Nodes, RunInitialSends(n) \/ FailInitialSends(n) PROVE RunFollows'
  <2>1. PICK k \in 1..send_inputs[n], T \in SUBSET LeadsTo(n) : RunsAll(n, T, k)
    BY <1>5, <1>t, InitialOnce
  <2>2. PICK F \in SUBSET next_nodes : F = {n}
    BY <2>1 DEF RunsAll
  <2>3. LedBy(T, F)
    BY <2>1, <2>2 DEF LedBy
  <2> QED  BY <1>f, <2>1, <2>2, <2>3 DEF RunsAll
<1>6. ASSUME NEW n \in Nodes, RaiseInitialSend(n) PROVE RunFollows'
  BY <1>6, <1>e DEF RaiseInitialSend
<1>7. QED
  BY <1>1, <1>2, <1>3, <1>4, <1>5, <1>6, AsyncSteps DEF GatherStep, InitialSendStep

LEMMA TasksPromise ==
  ASSUME NEW most \in [Nodes -> Nat \ {0}], OneWay, Unskipped, Handled, AsyncOnce,
         CountInv(most), CountInv(most)', RunFollows, [AsyncNext]_avars
  PROVE  Promised(most)
<1>t. /\ TasksInv /\ OnceInv /\ TypeOK /\ TasksTypeOK /\ RunOrderly
  BY DEF AsyncOnce, TasksInv, OnceInv, FanInInv
<1>s. ASSUME saved' = saved PROVE Promised(most)
  BY <1>s DEF Records, Promised
<1>1. CASE SharedStep \/ InvokeAsync \/ StartStepAsync
  <2>1. [Next]_vars
    BY <1>1, EntersAsBefore DEF SharedStep, Next, LoopStep, CallerStep
  <2> QED  BY <1>t, <2>1, ThreadSteps
<1>2. CASE TaskStep
  BY <1>2, <1>s, <1>t, TaskSteps DEF TaskOnly
<1>3. CASE GatherInterrupts
  <2>1. /\ pc = "nodes" /\ new_next = {}
        /\ Finished \in SUBSET next_nodes /\ Finished \cap Ended("interrupt") = {}
        /\ LedBy(Selected, Finished) /\ AllDone
    BY <1>3, <1>t, AtTheGather DEF GatherInterrupts
  <2>2. next_nodes \ Finished = Ended("interrupt") /\ next_nodes \cap completed_nodes = {}
    BY <1>t, <2>1, OthersAsked DEF RunOrderly, Orderly
  <2>3. PICK done, left :
          done = completed_nodes \cup Finished /\ left = Ended("interrupt")
    OBVIOUS
  <2>4. Follows(saved, completed_nodes \cup Finished, next_nodes \ Finished, new_next \cup Selected)
    BY <2>1, <2>2, FollowsOn DEF RunFollows
  <2>5. Follows(saved, done, left, Selected)
    <3>1. new_next \cup Selected = Selected
      BY <2>1
    <3> QED  BY <2>2, <2>3, <2>4, <3>1
  <2>6. /\ saved'.completed = done /\ saved'.next = (left \cup Selected) \ done
        /\ saved'.values = NewValues /\ saved'.errors = NewErrors
    BY <1>3, <2>3 DEF GatherInterrupts, LeftAtInterrupts
  <2>7. left \cap done = {} /\ left \subseteq saved'.next
    BY <2>1, <2>2, <2>3, <2>6
  <2>8. \A n \in saved.completed : Records'[n] = Records[n]
    <3>1. saved.completed \subseteq Nodes
      BY <1>t, TypeParts DEF ThreadTypeOK, CheckpointType
    <3>2. \A n \in saved.completed : NewValues[n] + NewErrors[n] = saved.values[n] + saved.errors[n]
      BY <1>t, <2>1, TasksCount
    <3> QED  BY <2>6, <3>1, <3>2 DEF Records
  <2>9. done \in SUBSET Nodes /\ left \in SUBSET Nodes /\ Selected \in SUBSET Nodes
    BY <1>t, <2>3, FinishedType, TypeParts DEF RunTypeOK
  <2>10. \E ran \in SUBSET Nodes : AdvancesBy(ran, most)
    <3>1. \A m \in saved'.next : m \in left \cup Selected \/ Joined(m, done)
      BY <2>6
    <3> QED  BY <1>t, <2>5, <2>6, <2>7, <2>8, <2>9, <3>1, SaveAdvances
  <2> QED  BY <2>10 DEF Promised
<1>4. CASE Gather \/ GatherError
  BY <1>4, <1>s DEF Gather, GatherError
<1>5. CASE InitialSendStep
  BY <1>5, <1>s DEF InitialSendStep, RunInitialSends, FailInitialSends, RaiseInitialSend,
                    TakenForSends, Taken
<1>6. QED
  BY <1>1, <1>2, <1>3, <1>4, <1>5, AsyncSteps DEF GatherStep

AsyncThreadInv == AsyncCounts /\ RunFollows

\* The promise in the words of DurableThread, with the records of the arguments.
LEMMA PromisedMany == Promised(MostRecords) => [AsyncThread!Next]_<<saved.next, Records>>
<1> SUFFICES ASSUME NEW ran \in SUBSET Nodes, AdvancesBy(ran, MostRecords)
             PROVE  AsyncThread!Advance(ran)
  BY DEF Promised, AsyncThread!Next, AsyncThread!Begin, Records
<1>1. \A n \in ran \ saved.next : AsyncThread!Ready(n, Records)
  BY DEF AdvancesBy, HasRecords, AsyncThread!Ready
<1>2. \A n \in Nodes :
        Records'[n] - Records[n] \in IF n \in ran THEN 1..MostRecords[n] ELSE {0}
  BY DEF AdvancesBy
<1>3. saved.next \ ran \subseteq saved'.next
  BY DEF AdvancesBy
<1>4. \A m \in saved'.next \ (saved.next \ ran) :
        \/ \E n \in ran : <<n, m>> \in {e \in Nodes \X Nodes : e[2] \in LeadsTo(e[1])}
        \/ AsyncThread!Ready(m, Records')
  BY DEF AdvancesBy, HasRecords, AsyncThread!Ready
<1>5. QED
  BY <1>1, <1>2, <1>3, <1>4 DEF AsyncThread!Advance, Records

\* AsyncImplementsThread, the property of the run "parallel", for every graph that leads to
\* every node once, finds the inputs of its nodes and handles their errors: concurrent
\* tasks, a batch of arguments from START and a cancellation between them look to the
\* caller of the thread like the nodes of the sequential engine.
THEOREM AsyncEngineImplementsThread ==
  ASSUME OneWay, Unskipped, Handled, EarlyWithin, SendsBounded
  PROVE  AsyncSpec => AsyncImplementsThread
<1>1. AsyncInit => AsyncThread!Init
  BY DEF AsyncInit, Init, NoCheckpoint, Nowhere, AsyncThread!Init
<1>2. AsyncInit => AsyncThreadInv
  <2>1. Init => RunFollows
    BY DEF Init, RunFollows
  <2> QED  BY <2>1, AsyncCountsInit DEF AsyncInit, AsyncThreadInv, OneWay
<1>3. AsyncThreadInv /\ [AsyncNext]_avars => AsyncThreadInv'
  BY AsyncCountsNext, TasksFollow DEF AsyncThreadInv, AsyncCounts
<1>4. AsyncThreadInv /\ [AsyncNext]_avars => [AsyncThread!Next]_<<saved.next, Records>>
  <2> SUFFICES ASSUME AsyncThreadInv, [AsyncNext]_avars
               PROVE  [AsyncThread!Next]_<<saved.next, Records>>
    OBVIOUS
  <2>1. PICK most \in [Nodes -> Nat \ {0}] : most = MostRecords
    BY MostRecordsAre
  <2>2. AsyncOnce /\ RunFollows /\ CountInv(most)
    BY <2>1 DEF AsyncThreadInv, AsyncCounts
  <2>3. CountInv(most)'
    BY <1>3, <2>1 DEF AsyncThreadInv, AsyncCounts
  <2>4. Promised(most)
    BY <2>2, <2>3, TasksPromise
  <2> QED  BY <2>1, <2>4, PromisedMany
<1>5. QED
  BY <1>1, <1>2, <1>3, <1>4, PTL
  DEF AsyncSpec, AsyncImplementsThread, AsyncThread!Spec, Records

-----------------------------------------------------------------------------
(* The step counter and the updates of a thread, for every graph: what     *)
(* holds of them in the other engine also holds with tasks and with Sends  *)
(* of START.                                                               *)

\* A step of this engine alone stays in its superstep or ends the invocation, and saves
\* nothing but the channels with the results of its tasks.
LEMMA OwnSteps ==
  ASSUME TypeOK, TasksTypeOK, StepOfTasks, TaskStep \/ GatherStep \/ InitialSendStep
  PROVE  /\ pc = "nodes" /\ turns' = turns
         /\ \/ /\ UNCHANGED <<saved, pc, step, base_step>> /\ Grows(values, values')
            \/ /\ pc' = "idle"
               /\ saved' = saved \/ (saved'.values = NewValues /\ saved'.step = saved.step)
<1>t. RunTypeOK /\ values \in [Nodes -> Nat] /\ StepOfTasks
  BY TypeParts DEF RunTypeOK
<1>r. Grows(values, values)
  BY <1>t DEF Grows
<1>1. CASE TaskStep
  <2>1. TaskOnly
    BY <1>1, TaskSteps
  <2>2. pc = "nodes"
    BY <1>1 DEF TaskStep, StartTask, ReturnFromTask, InterruptTask, FailTask, TaskIs
  <2> QED  BY <1>r, <2>1, <2>2 DEF TaskOnly
<1>2. CASE GatherStep
  <2>1. pc = "nodes"
    BY <1>2, <1>t DEF GatherStep, Gather, GatherInterrupts, GatherError, AllDone, StepOfTasks
  <2>2. CASE Gather
    <3>1. UNCHANGED <<saved, turns, pc, step, base_step>> /\ values' = NewValues
      BY <2>2 DEF Gather, bounds, frame
    <3>2. Grows(values, NewValues)
      BY <1>t DEF Grows, NewValues
    <3> QED  BY <2>1, <3>1, <3>2
  <2>3. CASE GatherInterrupts
    BY <2>1, <2>3 DEF GatherInterrupts, Return, bounds
  <2>4. CASE GatherError
    BY <2>1, <2>4 DEF GatherError, Return, bounds
  <2> QED  BY <1>2, <2>2, <2>3, <2>4 DEF GatherStep
<1>3. ASSUME NEW n \in Nodes, RunInitialSends(n) \/ FailInitialSends(n)
      PROVE  /\ pc = "nodes" /\ UNCHANGED <<saved, turns, pc, step, base_step>>
             /\ Grows(values, values')
  <2>1. pc = "nodes" /\ UNCHANGED <<saved, turns, pc, step, base_step>>
    BY <1>3 DEF RunInitialSends, FailInitialSends, TakenForSends, Taken, bounds, frame
  <2>2. CASE RunInitialSends(n)
    <3>1. PICK k \in 1..send_inputs[n] : values' = [values EXCEPT ![n] = @ + k]
      BY <2>2, InitialSendsRun
    <3>2. k \in Nat
      OBVIOUS
    <3>3. \A m \in Nodes : values'[m] = values[m] + k \/ values'[m] = values[m]
      BY <1>t, <3>1
    <3>4. \A m \in Nodes : values[m] \in Nat
      BY <1>t
    <3> QED  BY <2>1, <3>2, <3>3, <3>4 DEF Grows
  <2>3. CASE FailInitialSends(n)
    BY <1>r, <2>1, <2>3 DEF FailInitialSends, HandOver
  <2> QED  BY <1>3, <2>2, <2>3
<1>4. ASSUME NEW n \in Nodes, RaiseInitialSend(n)
      PROVE  pc = "nodes" /\ turns' = turns /\ pc' = "idle" /\ saved' = saved
  BY <1>4 DEF RaiseInitialSend, Return, bounds
<1>5. QED
  BY <1>1, <1>2, <1>3, <1>4 DEF InitialSendStep

CountersInv == AsyncTypeOK /\ StepOfTasks /\ StepCounted /\ ChannelsHold

LEMMA CountersInit == AsyncInit => CountersInv
<1>1. AsyncInit => AsyncTypeOK /\ StepCounted /\ ChannelsHold
  BY AsyncInitType, StepInit, ChannelsInit DEF AsyncInit, StepInv, ChannelsInv
<1>2. AsyncInit => StepOfTasks
  BY DEF AsyncInit, StepOfTasks, Parallel
<1>3. QED
  BY <1>1, <1>2 DEF CountersInv

LEMMA CountersNext ==
  ASSUME CountersInv, [AsyncNext]_avars
  PROVE  /\ CountersInv'
         /\ Grows(saved.values, saved'.values)
         /\ turns' = turns => saved'.step >= saved.step
<1>t. /\ TypeOK /\ TasksTypeOK /\ StepOfTasks /\ StepCounted /\ ChannelsHold
      /\ StepInv /\ ChannelsInv
  BY AsyncTypeParts DEF CountersInv, StepInv, ChannelsInv
<1>a. AsyncTypeOK' /\ StepOfTasks'
  BY <1>t, AsyncNextType, StepOfTasksKept DEF CountersInv
<1>1. CASE SharedStep \/ InvokeAsync \/ StartStepAsync
  <2>1. [Next]_vars
    BY <1>1, EntersAsBefore DEF SharedStep, Next, LoopStep, CallerStep
  <2>2. StepCounted' /\ ChannelsHold' /\ Grows(saved.values, saved'.values)
    BY <1>t, <2>1, StepNext, ChannelsNext DEF StepInv
  <2>3. turns' = turns => saved'.step >= saved.step
    BY <1>t, <2>1, StepKept
  <2> QED  BY <1>a, <2>2, <2>3 DEF CountersInv
<1>2. CASE TaskStep \/ GatherStep \/ InitialSendStep
  <2>1. /\ pc = "nodes" /\ turns' = turns
        /\ \/ /\ UNCHANGED <<saved, pc, step, base_step>> /\ Grows(values, values')
           \/ /\ pc' = "idle"
              /\ saved' = saved \/ (saved'.values = NewValues /\ saved'.step = saved.step)
    BY <1>2, <1>t, OwnSteps
  <2>2. /\ saved.values \in [Nodes -> Nat] /\ values \in [Nodes -> Nat]
        /\ values' \in [Nodes -> Nat] /\ saved.step \in Nat
    BY <1>t, <1>a DEF AsyncTypeOK, TypeOK, CheckpointType
  <2>3. Grows(saved.values, values) /\ Grows(values, NewValues)
    BY <1>t, <2>1, <2>2 DEF ChannelsHold, Grows, NewValues
  <2>4. NewValues \in [Nodes -> Nat]
    BY <1>t, FinishedType
  <2>5. Grows(saved.values, NewValues) /\ Grows(saved.values, saved.values)
    BY <2>2, <2>3, <2>4 DEF Grows
  <2>6. Grows(saved.values, saved'.values) /\ saved'.step >= saved.step
    BY <2>1, <2>2, <2>5
  <2>7. StepCounted'
    BY <1>t, <2>1 DEF StepCounted
  <2>8. ChannelsHold'
    BY <2>1, <2>2, <2>3 DEF ChannelsHold, Grows
  <2> QED  BY <1>a, <2>6, <2>7, <2>8 DEF CountersInv
<1>3. QED
  BY <1>1, <1>2, AsyncSteps

\* UpdatesKept and ResumeKeepsStep, for the asynchronous engine on every graph: no
\* checkpoint loses an update of an earlier one, and only a new input sets the step counter
\* back, whatever the tasks of a step and the Sends of START do.
THEOREM AsyncLosesNoUpdate == AsyncSpec => UpdatesKept /\ ResumeKeepsStep
<1>1. CountersInv /\ [AsyncNext]_avars => [\A n \in Nodes : saved'.values[n] >= saved.values[n]]_saved
  BY CountersNext DEF Grows
<1>2. CountersInv /\ [AsyncNext]_avars => [turns' = turns => saved'.step >= saved.step]_vars
  BY CountersNext
<1>3. CountersInv /\ [AsyncNext]_avars => CountersInv'
  BY CountersNext
<1>4. QED
  BY <1>1, <1>2, <1>3, CountersInit, PTL DEF AsyncSpec, UpdatesKept, ResumeKeepsStep

\* StepsWithinLimit, for the asynchronous engine on every graph and every limit.
THEOREM AsyncStepsBounded == AsyncSpec => []StepsWithinLimit
<1>1. CountersInv => StepsWithinLimit
  <2> SUFFICES ASSUME CountersInv, pc # "idle" PROVE saved.step <= base_step + RecursionLimit
    BY DEF StepsWithinLimit
  <2>1. saved.step = base_step + step /\ step <= RecursionLimit
    BY LimitAssumption DEF CountersInv, StepCounted, AsyncTypeOK, TypeOK
  <2> QED  BY <2>1, LimitAssumption DEF CountersInv, AsyncTypeOK, TypeOK
<1>2. CountersInv /\ [AsyncNext]_avars => CountersInv'
  BY CountersNext
<1>3. QED
  BY <1>1, <1>2, CountersInit, PTL DEF AsyncSpec

=============================================================================
