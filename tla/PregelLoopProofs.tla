-------------------------- MODULE PregelLoopProofs --------------------------
(***************************************************************************)
(* Proofs about PregelLoop, for every graph and every value of the bounds. *)
(***************************************************************************)
EXTENDS PregelLoop, SequenceTheorems, TLAPS

(* The two halves of TypeOK: what outlives an invocation, and what does not. *)
ThreadTypeOK ==
  /\ saved \in CheckpointType
  /\ cache \in [Nodes -> SUBSET [kind : {"value", "goto", "list"}, route : Route]]
  /\ turns \in 0..MaxTurns /\ calls \in 0..MaxCalls

RunTypeOK ==
  /\ pc \in {"idle", "step", "nodes"}
  /\ step \in Nat /\ base_step \in Nat /\ send_depth \in 0..MaxSendDepth
  /\ next_nodes \in SUBSET Nodes /\ new_next \in SUBSET Nodes
  /\ new_sends \in Seq(Nodes) /\ batch \in Seq(Nodes)
  /\ completed_nodes \in SUBSET Nodes /\ prev_completed \in SUBSET Nodes
  /\ values \in [Nodes -> Nat] /\ errors \in [Nodes -> Nat]
  /\ is_resuming \in BOOLEAN /\ answered \in BOOLEAN
  /\ asked \in SUBSET Question /\ offered \in SUBSET Nodes

-----------------------------------------------------------------------------
(* The operators of the model have the types their names promise.          *)

LEMMA NoRouteType == NoRoute \in Route
BY EmptySeq DEF NoRoute, Route

LEMMA JoinType ==
  ASSUME NEW r \in Route, NEW s \in Route
  PROVE  Join(r, s) \in Route
<1>1. r.sends \o s.sends \in Seq(Nodes)
  BY ConcatProperties DEF Route
<1>2. QED
  BY <1>1 DEF Join, Route

LEMMA ResultType ==
  ASSUME NEW n \in Nodes, NEW res \in Results(n)
  PROVE  /\ res \in [kind : {"value", "goto", "list"}, route : Route]
         /\ ExtractRouting(n, res) \in Route
         /\ NextNodes(n, res) \subseteq Route
<1>1. Gotos[n] \subseteq Route /\ Listed[n] \subseteq Route /\ Branches[n] \subseteq Route
  BY GraphAssumption
<1>2. res \in [kind : {"value", "goto", "list"}, route : Route]
  BY <1>1, NoRouteType DEF Results
<1>3. ExtractRouting(n, res) \in Route
  BY <1>2, NoRouteType DEF ExtractRouting
<1>4. [next |-> Successors(n), sends |-> <<>>] \in Route
  BY EmptySeq, GraphAssumption DEF Successors, Route
<1>5. NextNodes(n, res) \subseteq Route
  BY <1>1, <1>2, <1>4, NoRouteType, JoinType DEF NextNodes
<1>6. QED
  BY <1>2, <1>3, <1>5

LEMMA CachedResultType ==
  ASSUME NEW n \in Nodes, NEW res \in [kind : {"value", "goto", "list"}, route : Route]
  PROVE  NextNodes(n, res) \subseteq Route
<1>1. Branches[n] \subseteq Route
  BY GraphAssumption
<1>2. [next |-> Successors(n), sends |-> <<>>] \in Route
  BY EmptySeq, GraphAssumption DEF Successors, Route
<1>3. QED
  BY <1>1, <1>2, NoRouteType, JoinType DEF NextNodes

LEMMA FanInType == \A S : FanIn(S) \subseteq Nodes
BY GraphAssumption DEF FanIn

LEMMA NowhereType == Nowhere \in [Nodes -> Nat]
BY DEF Nowhere

LEMMA CheckpointTypeLemma ==
  ASSUME RunTypeOK, NEW kind \in Kinds, NEW next \in SUBSET Nodes,
         NEW completed \in SUBSET Nodes, NEW at \in Nat
  PROVE  Checkpoint(kind, next, completed, at) \in CheckpointType
BY DEF Checkpoint, CheckpointType, RunTypeOK

LEMMA RecordType ==
  ASSUME NEW kind \in Kinds, NEW next \in SUBSET Nodes, NEW completed \in SUBSET Nodes,
         NEW vs \in [Nodes -> Nat], NEW es \in [Nodes -> Nat], NEW at \in Nat,
         NEW A \in SUBSET Question
  PROVE  [kind |-> kind, next |-> next, completed |-> completed, values |-> vs,
          errors |-> es, step |-> at, asked |-> A] \in CheckpointType
BY DEF CheckpointType

LEMMA BumpType ==
  ASSUME NEW f \in [Nodes -> Nat], NEW n \in Nodes
  PROVE  [f EXCEPT ![n] = @ + 1] \in [Nodes -> Nat]
OBVIOUS

LEMMA AskedType ==
  ASSUME NEW cp \in CheckpointType, NEW A \in SUBSET Question
  PROVE  [cp EXCEPT !.asked = A] \in CheckpointType
BY DEF CheckpointType

LEMMA QuestionType == \A n \in Nodes : {<<n, Answers>>} \in SUBSET Question
BY DEF Question, Answers

LEMMA ReturnType == Return => RunTypeOK'
<1>1. <<>> \in Seq(Nodes) /\ 0 \in Nat /\ 0 \in 0..MaxSendDepth
  BY EmptySeq, LimitAssumption
<1>2. QED
  BY <1>1, NowhereType DEF Return, RunTypeOK

LEMMA TypeParts == TypeOK <=> ThreadTypeOK /\ RunTypeOK
BY DEF TypeOK, ThreadTypeOK, RunTypeOK

LEMMA SuccessorsType == \A n \in Nodes : Successors(n) \subseteq Nodes
BY GraphAssumption DEF Successors

\* The parts of an action that several actions share keep their variables well-typed.
LEMMA CompleteType ==
  ASSUME RunTypeOK, NEW n \in Nodes, NEW r \in Route, Complete(n, r)
  PROVE  /\ completed_nodes' \in SUBSET Nodes /\ values' \in [Nodes -> Nat]
         /\ new_next' \in SUBSET Nodes /\ new_sends' \in Seq(Nodes)
         /\ errors' \in [Nodes -> Nat]
<1>1. r.next \in SUBSET Nodes /\ r.sends \in Seq(Nodes)
  BY DEF Route
<1>2. new_sends' \in Seq(Nodes)
  BY <1>1, ConcatProperties DEF Complete, RunTypeOK
<1>3. QED
  BY <1>1, <1>2 DEF Complete, RunTypeOK

LEMMA StoreType ==
  ASSUME ThreadTypeOK, NEW n \in Nodes, NEW res \in Results(n), Store(n, res)
  PROVE  cache' \in [Nodes -> SUBSET [kind : {"value", "goto", "list"}, route : Route]]
BY ResultType DEF Store, ThreadTypeOK

LEMMA HandOverType ==
  ASSUME RunTypeOK, ThreadTypeOK, NEW n \in Nodes, HandOver(n)
  PROVE  /\ completed_nodes' \in SUBSET Nodes /\ values' \in [Nodes -> Nat]
         /\ new_next' \in SUBSET Nodes /\ new_sends' \in Seq(Nodes)
         /\ errors' \in [Nodes -> Nat]
         /\ cache' \in [Nodes -> SUBSET [kind : {"value", "goto", "list"}, route : Route]]
<1>1. ErrorHandler[n] \in Nodes
  BY GraphAssumption DEF HandOver
<1>2. QED
  BY <1>1 DEF HandOver, RunTypeOK, ThreadTypeOK

EnterTypeOK ==
  /\ saved' \in CheckpointType
  /\ cache' \in [Nodes -> SUBSET [kind : {"value", "goto", "list"}, route : Route]]
  /\ calls' \in 0..MaxCalls
  /\ pc' \in {"idle", "step", "nodes"}
  /\ step' \in Nat /\ base_step' \in Nat /\ send_depth' \in 0..MaxSendDepth
  /\ next_nodes' \in SUBSET Nodes /\ new_next' \in SUBSET Nodes
  /\ new_sends' \in Seq(Nodes) /\ batch' \in Seq(Nodes)
  /\ completed_nodes' \in SUBSET Nodes /\ prev_completed' \in SUBSET Nodes
  /\ values' \in [Nodes -> Nat] /\ errors' \in [Nodes -> Nat]
  /\ answered' \in BOOLEAN

LEMMA EnterType ==
  ASSUME TypeOK, NEW next \in SUBSET Nodes, NEW at \in Nat, NEW resume \in BOOLEAN,
         Enter(next, at, resume)
  PROVE  EnterTypeOK
<1>1. saved' \in CheckpointType
  BY DEF Enter, TypeOK, CheckpointType, Kinds
<1>2. calls' \in 0..MaxCalls
  BY LimitAssumption DEF Enter, TypeOK
<1>3. QED
  BY <1>1, <1>2 DEF Enter, EnterTypeOK, Restored, sendq, TypeOK, CheckpointType

-----------------------------------------------------------------------------
(* Type correctness: every behaviour of the engine keeps every variable, the *)
(* checkpoint included, within its type.                                   *)

LEMMA InitType == Init => TypeOK
<1>1. <<>> \in Seq(Nodes) /\ 0 \in 0..MaxSendDepth /\ 0 \in 0..MaxTurns /\ 0 \in 0..MaxCalls
  BY EmptySeq, LimitAssumption
<1>2. NoCheckpoint \in CheckpointType
  BY NowhereType DEF NoCheckpoint, CheckpointType, Kinds
<1>3. [n \in Nodes |-> {}] \in
        [Nodes -> SUBSET [kind : {"value", "goto", "list"}, route : Route]]
  OBVIOUS
<1>4. Init => ThreadTypeOK
  BY <1>1, <1>2, <1>3 DEF Init, ThreadTypeOK
<1>5. ASSUME Init PROVE RunTypeOK
  <2>1. /\ pc = "idle" /\ step = 0 /\ base_step = 0 /\ send_depth = 0
        /\ next_nodes = {} /\ new_next = {} /\ completed_nodes = {} /\ prev_completed = {}
        /\ is_resuming = FALSE /\ answered = FALSE
        /\ asked = {} /\ offered = {}
    BY <1>5 DEF Init
  <2>2. new_sends \in Seq(Nodes) /\ batch \in Seq(Nodes)
    BY <1>1, <1>5 DEF Init
  <2>3. values \in [Nodes -> Nat] /\ errors \in [Nodes -> Nat]
    BY <1>5, NowhereType DEF Init
  <2>4. QED
    BY <1>1, <2>1, <2>2, <2>3 DEF RunTypeOK
<1>6. QED
  BY <1>4, <1>5, TypeParts

LEMMA NextType == TypeOK /\ [Next]_vars => TypeOK'
<1> SUFFICES ASSUME TypeOK, [Next]_vars PROVE TypeOK'
  OBVIOUS
<1>t. ThreadTypeOK /\ RunTypeOK
  BY TypeParts
<1>r. ASSUME Return, cache' = cache, UNCHANGED bounds, saved' \in CheckpointType
      PROVE  TypeOK'
  <2>1. RunTypeOK'
    BY <1>r, ReturnType
  <2>2. ThreadTypeOK'
    BY <1>r, <1>t DEF ThreadTypeOK, bounds
  <2>3. QED
    BY <2>1, <2>2 DEF TypeOK, ThreadTypeOK, RunTypeOK
<1>1. CASE Invoke
  <2>1. PICK s \in StartSets, resume \in BOOLEAN : Enter(s, 0, resume)
    BY <1>1 DEF Invoke
  <2>2. s \in SUBSET Nodes /\ turns' \in 0..MaxTurns
    BY <1>1, GraphAssumption, LimitAssumption DEF Invoke, TypeOK
  <2>3. EnterTypeOK
    BY <2>1, <2>2, EnterType
  <2>4. QED
    BY <1>1, <2>2, <2>3 DEF Invoke, EnterTypeOK, TypeOK
<1>2. CASE Resume
  <2>1. PICK resume \in BOOLEAN : Enter(saved.next, saved.step, resume)
    BY <1>2 DEF Resume
  <2>2. saved.next \in SUBSET Nodes /\ saved.step \in Nat /\ saved.asked \in SUBSET Question
    BY DEF TypeOK, CheckpointType
  <2>3. EnterTypeOK
    BY <2>1, <2>2, EnterType
  <2>4. QED
    BY <1>2, <2>2, <2>3 DEF Resume, EnterTypeOK, TypeOK
<1>3. ASSUME NEW as \in UpdateAs, UpdateState(as) PROVE TypeOK'
  <2>0. as \in Nodes
    BY LimitAssumption
  <2> DEFINE paths == Branches[as] \cup
                 {[next |-> UNION {b.next : b \in Branches[as]}, sends |-> <<>>]}
             joins == {w.end : w \in {e \in WaitingEdges :
                         as \in e.starts /\ e.starts \subseteq saved.completed \cup {as}}}
  <2>1. \A p \in paths : p.next \subseteq Nodes /\ p.sends \in Seq(Nodes)
    <3>1. Branches[as] \subseteq Route
      BY <2>0, GraphAssumption
    <3>2. \A p \in Branches[as] : p.next \subseteq Nodes /\ p.sends \in Seq(Nodes)
      BY <3>1 DEF Route
    <3>3. UNION {b.next : b \in Branches[as]} \subseteq Nodes
      BY <3>2
    <3>4. <<>> \in Seq(Nodes)
      BY EmptySeq
    <3>5. ASSUME NEW p, p = [next |-> UNION {b.next : b \in Branches[as]}, sends |-> <<>>]
          PROVE  p.next \subseteq Nodes /\ p.sends \in Seq(Nodes)
      <4>1. p.next = UNION {b.next : b \in Branches[as]} /\ p.sends = <<>>
        BY <3>5
      <4>2. QED
        BY <4>1, <3>3, <3>4
    <3>6. QED
      BY <3>2, <3>5
  <2>2. \A p \in paths : {p.sends[i] : i \in DOMAIN p.sends} \subseteq Nodes
    <3>1. \A q \in Seq(Nodes) : \A i \in DOMAIN q : q[i] \in Nodes
      OBVIOUS
    <3>2. QED
      BY <2>1, <3>1
  <2>3. joins \subseteq Nodes
    <3>1. \A w \in WaitingEdges : w.end \in Nodes
      BY GraphAssumption
    <3>2. QED
      BY <3>1
  <2> HIDE DEF joins
  <2>4. saved' \in CheckpointType
    <3>1. PICK p \in paths :
            saved' = [kind |-> "update",
                      next |-> ((Successors(as) \cup p.next
                                  \cup {p.sends[i] : i \in DOMAIN p.sends}) \ {as}) \cup joins,
                      completed |-> saved.completed \cup {as},
                      values |-> [saved.values EXCEPT ![as] = @ + 1],
                      errors |-> saved.errors,
                      step |-> saved.step,
                      asked |-> {}]
      BY <1>3 DEF UpdateState, joins
    <3> DEFINE after == ((Successors(as) \cup p.next \cup {p.sends[i] : i \in DOMAIN p.sends})
                            \ {as}) \cup joins
    <3> HIDE DEF paths
    <3>2. after \in SUBSET Nodes
      BY <2>0, <2>1, <2>2, <2>3, SuccessorsType
    <3> HIDE DEF after
    <3>3. /\ saved.completed \cup {as} \in SUBSET Nodes
          /\ [saved.values EXCEPT ![as] = @ + 1] \in [Nodes -> Nat]
          /\ saved.errors \in [Nodes -> Nat] /\ saved.step \in Nat
      <4>1. /\ saved.completed \in SUBSET Nodes /\ saved.values \in [Nodes -> Nat]
            /\ saved.errors \in [Nodes -> Nat] /\ saved.step \in Nat
        BY DEF TypeOK, CheckpointType
      <4>2. [saved.values EXCEPT ![as] = @ + 1] \in [Nodes -> Nat]
        BY <2>0, <4>1, BumpType
      <4>3. QED
        BY <2>0, <4>1, <4>2
    <3>4. saved' = [kind |-> "update", next |-> after, completed |-> saved.completed \cup {as},
                    values |-> [saved.values EXCEPT ![as] = @ + 1],
                    errors |-> saved.errors, step |-> saved.step, asked |-> {}]
      BY <3>1 DEF after
    <3>5. "update" \in Kinds /\ {} \in SUBSET Question
      BY DEF Kinds
    <3>6. QED
      BY <3>2, <3>3, <3>4, <3>5, RecordType
  <2>5. calls' \in 0..MaxCalls
    BY <1>3, LimitAssumption DEF UpdateState, TypeOK
  <2>6. QED
    BY <1>3, <2>4, <2>5 DEF UpdateState, TypeOK, sendq, channels, frame
<1>4. CASE Finish \/ RecursionError \/ SendDepthError \/ Crash
  BY <1>4, <1>r DEF Finish, RecursionError, SendDepthError, Crash, TypeOK
<1>5. CASE PauseBefore
  <2>1. Due \in SUBSET Nodes /\ saved.step \in Nat
    BY FanInType DEF Due, TypeOK, CheckpointType
  <2>2. saved' \in CheckpointType
    BY <1>5, <1>t, <2>1, CheckpointTypeLemma DEF PauseBefore, RunTypeOK, Kinds
  <2>3. QED
    BY <1>5, <2>2, <1>r DEF PauseBefore
<1>6. CASE StartStep
  <2>1. Due \in SUBSET Nodes
    BY FanInType DEF Due, TypeOK
  <2>2. QED
    BY <1>6, <2>1 DEF StartStep, TypeOK, bounds, sendq, channels, frame
<1>7. ASSUME NEW n \in Nodes, SkipNode(n) PROVE TypeOK'
  BY <1>7 DEF SkipNode, Taken, TypeOK, bounds, channels, frame
<1>8. ASSUME NEW n \in Nodes, RunNode(n) PROVE TypeOK'
  <2>1. PICK k \in Asks[n], res \in Results(n) :
          /\ \E r \in NextNodes(n, res) : Complete(n, Join(ExtractRouting(n, res), r))
          /\ Store(n, res)
    BY <1>8 DEF RunNode
  <2>2. PICK r \in NextNodes(n, res) : Complete(n, Join(ExtractRouting(n, res), r))
    BY <2>1
  <2>3. Join(ExtractRouting(n, res), r) \in Route /\ k \in Nat
    BY ResultType, JoinType, GraphAssumption
  <2>4. QED
    BY <1>8, <1>t, <2>1, <2>2, <2>3, CompleteType, StoreType
    DEF RunNode, Taken, TypeOK, bounds, frame
<1>9. ASSUME NEW n \in Nodes, HitNode(n) PROVE TypeOK'
  <2>1. PICK res \in cache[n] : \E r \in NextNodes(n, res) : Complete(n, r)
    BY <1>9 DEF HitNode
  <2>2. PICK r \in NextNodes(n, res) : Complete(n, r)
    BY <2>1
  <2>3. r \in Route
    BY <2>1, <2>2, CachedResultType DEF TypeOK
  <2>4. QED
    BY <1>9, <1>t, <2>2, <2>3, CompleteType DEF HitNode, Taken, TypeOK, bounds, frame
<1>10. ASSUME NEW n \in Nodes, FailNode(n) PROVE TypeOK'
  BY <1>10, <1>t, HandOverType DEF FailNode, Taken, TypeOK, bounds, frame
<1>11. ASSUME NEW n \in Nodes, InterruptNode(n) PROVE TypeOK'
  <2>1. LeftAtInterrupt(n) \in SUBSET Nodes /\ saved.step \in Nat
    BY DEF LeftAtInterrupt, TypeOK, CheckpointType
  <2>2. Checkpoint("interrupt", LeftAtInterrupt(n), completed_nodes, saved.step)
          \in CheckpointType
    BY <1>t, <2>1, CheckpointTypeLemma DEF RunTypeOK, Kinds
  <2>3. saved' \in CheckpointType
    BY <1>11, <2>2, AskedType, QuestionType DEF InterruptNode
  <2>4. QED
    BY <1>11, <2>3, <1>r DEF InterruptNode
<1>12. CASE StartBatch
  <2>1. send_depth' \in 0..MaxSendDepth
    BY <1>12, LimitAssumption DEF StartBatch, TypeOK
  <2>2. QED
    BY <1>12, <2>1, EmptySeq DEF StartBatch, TypeOK, bounds, channels, frame
<1>13. CASE RunSend
  <2> DEFINE n == Head(batch)
  <2>0. n \in Nodes /\ batch' \in Seq(Nodes)
    BY <1>13, HeadTailProperties DEF RunSend, NextSend, TypeOK
  <2>1. PICK res \in Results(n) :
          /\ \E r \in NextNodes(n, res) : Complete(n, Join(ExtractRouting(n, res), r))
          /\ Store(n, res)
    BY <1>13, <2>0, GraphAssumption DEF RunSend
  <2>2. PICK r \in NextNodes(n, res) : Complete(n, Join(ExtractRouting(n, res), r))
    BY <2>1
  <2>3. Join(ExtractRouting(n, res), r) \in Route
    BY <2>0, ResultType, JoinType
  <2> HIDE DEF n
  <2>4. /\ completed_nodes' \in SUBSET Nodes /\ values' \in [Nodes -> Nat]
        /\ new_next' \in SUBSET Nodes /\ new_sends' \in Seq(Nodes)
        /\ errors' \in [Nodes -> Nat]
        /\ cache' \in [Nodes -> SUBSET [kind : {"value", "goto", "list"}, route : Route]]
    BY <1>t, <2>0, <2>1, <2>2, <2>3, CompleteType, StoreType
  <2>5. QED
    BY <1>13, <2>0, <2>4 DEF RunSend, NextSend, TypeOK, bounds, frame
<1>14. CASE FailSend
  <2>0. Head(batch) \in Nodes /\ batch' \in Seq(Nodes)
    BY <1>14, HeadTailProperties DEF FailSend, NextSend, TypeOK
  <2>1. /\ completed_nodes' \in SUBSET Nodes /\ values' \in [Nodes -> Nat]
        /\ new_next' \in SUBSET Nodes /\ new_sends' \in Seq(Nodes)
        /\ errors' \in [Nodes -> Nat]
        /\ cache' \in [Nodes -> SUBSET [kind : {"value", "goto", "list"}, route : Route]]
    BY <1>14, <1>t, <2>0, HandOverType DEF FailSend
  <2>2. QED
    BY <1>14, <2>0, <2>1 DEF FailSend, NextSend, TypeOK, bounds, frame
<1>15. CASE InterruptSend
  <2> DEFINE done == completed_nodes \cup {Head(batch)}
  <2>0. Head(batch) \in Nodes
    BY <1>15, HeadTailProperties DEF InterruptSend, TypeOK
  <2>1. done \in SUBSET Nodes /\ new_next \ done \in SUBSET Nodes /\ saved.step \in Nat
    BY <2>0 DEF TypeOK, CheckpointType
  <2>2. Checkpoint("interrupt", new_next \ done, done, saved.step) \in CheckpointType
    BY <1>t, <2>1, CheckpointTypeLemma DEF Kinds
  <2>3. saved' \in CheckpointType
    BY <1>15, <2>0, <2>2, AskedType, QuestionType DEF InterruptSend
  <2>4. QED
    BY <1>15, <2>3, <1>r DEF InterruptSend
<1>16. CASE PauseAfter
  <2>1. NextStep \in SUBSET Nodes /\ saved.step \in Nat
    BY FanInType DEF NextStep, TypeOK, CheckpointType
  <2>2. saved' \in CheckpointType
    BY <1>16, <1>t, <2>1, CheckpointTypeLemma DEF PauseAfter, RunTypeOK, Kinds
  <2>3. QED
    BY <1>16, <2>2, <1>r DEF PauseAfter
<1>17. CASE EndStep
  <2>1. NextStep \in SUBSET Nodes /\ base_step + step + 1 \in Nat
    BY FanInType DEF NextStep, TypeOK
  <2>2. saved' \in CheckpointType
    BY <1>17, <1>t, <2>1, CheckpointTypeLemma DEF EndStep, StepCheckpoint, RunTypeOK, Kinds
  <2>3. 0 \in 0..MaxSendDepth
    BY LimitAssumption
  <2>4. QED
    BY <1>17, <2>1, <2>2, <2>3 DEF EndStep, TypeOK, bounds, channels, frame
<1>18. CASE UNCHANGED vars
  BY <1>18 DEF TypeOK, vars
<1>19. QED
  BY <1>1, <1>2, <1>3, <1>4, <1>5, <1>6, <1>7, <1>8, <1>9, <1>10, <1>11, <1>12, <1>13,
     <1>14, <1>15, <1>16, <1>17, <1>18
  DEF Next, LoopStep, NodeStep, SendStep, CallerStep, CallerRests

\* Spec keeps TypeOK, the invariant of the run "review", for every graph.
THEOREM TypeCorrect == Spec => []TypeOK
<1>1. QED
  BY InitType, NextType, PTL DEF Spec

-----------------------------------------------------------------------------
(* Fan-in.  FanInWaits is not inductive alone: a step may carry over from  *)
(* new_next, so that must hold no join node, and a cache hit routes by a   *)
(* result stored earlier, so the cache must hold only results of its node. *)

RoutesAvoidJoins ==
  /\ JoinNodes \cap new_next = {}
  /\ \A n \in Nodes : cache[n] \subseteq Results(n)

FanInInv == TypeOK /\ FanInWaits /\ RoutesAvoidJoins

\* A waiting edge is the only way to a join node.
LEMMA JoinUnreachable ==
  ASSUME NEW j \in JoinNodes
  PROVE  /\ \A s \in StartSets : j \notin s
         /\ \A n \in Nodes : j \notin Successors(n) /\ ErrorHandler[n] # j
         /\ \A n \in Nodes : \A r \in Branches[n] \cup Gotos[n] \cup Listed[n] :
              j \notin r.next /\ j \notin {r.sends[i] : i \in DOMAIN r.sends}
<1>0. /\ j \notin (UNION StartSets)
      /\ j \notin EdgeTargets /\ j \notin Handlers
      /\ j \notin RoutedNodes
  <2>1. j \notin OtherwiseReached
    BY DEF JoinNodes
  <2>2. QED
    BY <2>1 DEF OtherwiseReached
<1>1. ASSUME NEW n \in Nodes
      PROVE  j \notin RouteTargets(Branches[n] \cup Gotos[n] \cup Listed[n])
  <2> DEFINE T(x) == RouteTargets(Branches[x] \cup Gotos[x] \cup Listed[x])
  <2>1. j \notin UNION {T(x) : x \in Nodes}
    BY <1>0 DEF RoutedNodes
  <2> HIDE DEF T
  <2>2. j \notin T(n)
    BY <2>1
  <2>3. QED
    BY <2>2 DEF T
<1>2. ASSUME NEW n \in Nodes, NEW r \in Branches[n] \cup Gotos[n] \cup Listed[n]
      PROVE  j \notin r.next /\ j \notin {r.sends[i] : i \in DOMAIN r.sends}
  <2>1. r.next \cup {r.sends[i] : i \in DOMAIN r.sends}
          \in {q.next \cup {q.sends[i] : i \in DOMAIN q.sends} :
                 q \in Branches[n] \cup Gotos[n] \cup Listed[n]}
    OBVIOUS
  <2>2. j \notin r.next \cup {r.sends[i] : i \in DOMAIN r.sends}
    BY <1>1, <2>1 DEF RouteTargets
  <2>3. QED
    BY <2>2
<1>3. \A s \in StartSets : j \notin s
  BY <1>0
<1>4. \A n \in Nodes : j \notin Successors(n)
  BY <1>0 DEF Successors, EdgeTargets
<1>5. \A n \in Nodes : ErrorHandler[n] # j
  BY <1>0 DEF Handlers
<1>6. QED
  BY <1>2, <1>3, <1>4, <1>5

LEMMA RoutesAvoid ==
  ASSUME NEW j \in JoinNodes, NEW n \in Nodes, NEW res \in Results(n),
         NEW r \in NextNodes(n, res)
  PROVE  j \notin r.next /\ j \notin Join(ExtractRouting(n, res), r).next
<1>1. j \notin Successors(n)
  BY JoinUnreachable
<1>2. \A q \in Branches[n] \cup Gotos[n] \cup Listed[n] : j \notin q.next
  BY JoinUnreachable
<1>3. res.route \in {NoRoute} \cup Gotos[n] \cup Listed[n] /\ (res.kind = "list" => res.route \in Listed[n])
  BY DEF Results
<1>4. j \notin NoRoute.next
  BY DEF NoRoute
<1>5. j \notin res.route.next
  BY <1>2, <1>3, <1>4
<1>6. j \notin ExtractRouting(n, res).next
  BY <1>4, <1>5 DEF ExtractRouting
<1>7. j \notin r.next
  <2>1. CASE res.kind = "goto"
    BY <1>5, <2>1 DEF NextNodes
  <2>2. CASE res.kind # "goto"
    <3>1. PICK q \in Branches[n] \cup {NoRoute, res.route} :
            r = Join([next |-> Successors(n), sends |-> <<>>], q)
      BY <2>2 DEF NextNodes
    <3>2. j \notin q.next
      BY <1>2, <1>4, <1>5, <3>1
    <3>3. QED
      BY <1>1, <3>1, <3>2 DEF Join
  <2>3. QED
    BY <2>1, <2>2
<1>8. QED
  BY <1>6, <1>7 DEF Join

\* What FanIn adds is due: all sources of one of its edges have completed.
LEMMA FanInJoined == \A S : \A j \in FanIn(S) : Joined(j, completed_nodes)
BY DEF FanIn, Joined

LEMMA JoinedMonotone ==
  ASSUME NEW j, NEW S, NEW T, S \subseteq T, Joined(j, S)
  PROVE  Joined(j, T)
BY DEF Joined

LEMMA StoreKeepsResults ==
  ASSUME ThreadTypeOK, RoutesAvoidJoins, NEW n \in Nodes, NEW res \in Results(n), Store(n, res)
  PROVE  \A m \in Nodes : cache'[m] \subseteq Results(m)
BY DEF Store, ThreadTypeOK, RoutesAvoidJoins

\* The loop goes on within a step: the due nodes only get fewer, the completed ones more.
LEMMA FanInWithinStep ==
  ASSUME FanInInv, saved' = saved, next_nodes' \subseteq next_nodes,
         completed_nodes \subseteq completed_nodes'
  PROVE  FanInWaits'
<1> SUFFICES ASSUME NEW j \in JoinNodes
             PROVE  /\ j \in saved'.next => Joined(j, saved'.completed)
                    /\ j \in next_nodes' => Joined(j, completed_nodes')
  BY DEF FanInWaits
<1>1. j \in next_nodes => Joined(j, completed_nodes)
  BY DEF FanInInv, FanInWaits
<1>2. j \in saved.next => Joined(j, saved.completed)
  BY DEF FanInInv, FanInWaits
<1>3. QED
  BY <1>1, <1>2, JoinedMonotone

LEMMA CompleteAvoidsJoins ==
  ASSUME RoutesAvoidJoins, NEW n, NEW r, \A j \in JoinNodes : j \notin r.next, Complete(n, r)
  PROVE  JoinNodes \cap new_next' = {} /\ completed_nodes \subseteq completed_nodes'
BY DEF RoutesAvoidJoins, Complete

LEMMA HandOverAvoidsJoins ==
  ASSUME RoutesAvoidJoins, NEW n \in Nodes, HandOver(n)
  PROVE  RoutesAvoidJoins' /\ completed_nodes \subseteq completed_nodes'
<1>1. \A j \in JoinNodes : ErrorHandler[n] # j
  BY JoinUnreachable
<1>2. QED
  BY <1>1 DEF RoutesAvoidJoins, HandOver

\* A checkpoint is saved and the invocation ends.
LEMMA FanInAtPause ==
  ASSUME FanInInv, Return, cache' = cache,
         \A j \in JoinNodes : j \in saved'.next => Joined(j, saved'.completed)
  PROVE  FanInWaits' /\ RoutesAvoidJoins'
BY DEF FanInInv, FanInWaits, RoutesAvoidJoins, Return

LEMMA FanInInit == Init => FanInInv
<1>1. Init => FanInWaits
  BY DEF Init, FanInWaits, NoCheckpoint
<1>2. Init => RoutesAvoidJoins
  BY DEF Init, RoutesAvoidJoins
<1>3. QED
  BY <1>1, <1>2, InitType DEF FanInInv

LEMMA FanInNext == FanInInv /\ [Next]_vars => FanInInv'
<1> SUFFICES ASSUME FanInInv, [Next]_vars PROVE FanInWaits' /\ RoutesAvoidJoins'
  BY NextType DEF FanInInv
<1>t. ThreadTypeOK /\ RunTypeOK /\ FanInWaits /\ RoutesAvoidJoins
  BY TypeParts DEF FanInInv
<1>1. CASE Invoke
  <2>1. PICK s \in StartSets, resume \in BOOLEAN : Enter(s, 0, resume)
    BY <1>1 DEF Invoke
  <2>2. \A j \in JoinNodes : j \notin s
    BY JoinUnreachable
  <2>3. next_nodes' = s /\ saved'.next = s
    BY <2>1, <1>t DEF Enter, ThreadTypeOK, CheckpointType
  <2>4. QED
    BY <1>t, <2>1, <2>2, <2>3 DEF Enter, FanInWaits, RoutesAvoidJoins
<1>2. CASE Resume
  <2>1. PICK resume \in BOOLEAN : Enter(saved.next, saved.step, resume)
    BY <1>2 DEF Resume
  <2>2. /\ next_nodes' = saved.next /\ saved'.next = saved.next
        /\ saved'.completed = saved.completed /\ completed_nodes' = saved.completed
    BY <2>1, <1>t DEF Enter, ThreadTypeOK, CheckpointType
  <2>3. QED
    BY <1>t, <2>1, <2>2 DEF Enter, FanInWaits, RoutesAvoidJoins
<1>3. ASSUME NEW as \in UpdateAs, UpdateState(as) PROVE FanInWaits' /\ RoutesAvoidJoins'
  <2> DEFINE joins == {w.end : w \in {e \in WaitingEdges :
                         as \in e.starts /\ e.starts \subseteq saved.completed \cup {as}}}
             paths == Branches[as] \cup
                 {[next |-> UNION {b.next : b \in Branches[as]}, sends |-> <<>>]}
         pending(p) == ((Successors(as) \cup p.next
                            \cup {p.sends[i] : i \in DOMAIN p.sends}) \ {as}) \cup joins
         after(p) == [kind |-> "update", next |-> pending(p),
                      completed |-> saved.completed \cup {as},
                      values |-> [saved.values EXCEPT ![as] = @ + 1],
                      errors |-> saved.errors, step |-> saved.step, asked |-> {}]
  <2>0. \E p \in paths : saved' = after(p)
    BY <1>3 DEF UpdateState
  <2>1. PICK p \in paths :
          /\ saved'.next = pending(p)
          /\ saved'.completed = saved.completed \cup {as}
    <3> HIDE DEF paths, pending
    <3>1. \A p \in paths : after(p).next = pending(p)
                             /\ after(p).completed = saved.completed \cup {as}
      OBVIOUS
    <3> HIDE DEF after
    <3>2. QED
      BY <2>0, <3>1
  <2>2. as \in Nodes
    BY LimitAssumption
  <2>3. ASSUME NEW j \in JoinNodes
        PROVE  j \notin Successors(as) /\ j \notin p.next
                 /\ j \notin {p.sends[i] : i \in DOMAIN p.sends}
    <3>1. \A q \in Branches[as] :
            j \notin q.next /\ j \notin {q.sends[i] : i \in DOMAIN q.sends}
      BY <2>2, JoinUnreachable
    <3>2. j \notin UNION {b.next : b \in Branches[as]}
      BY <3>1
    <3>3. CASE p \in Branches[as]
      BY <2>2, <3>1, <3>3, JoinUnreachable
    <3>4. CASE p = [next |-> UNION {b.next : b \in Branches[as]}, sends |-> <<>>]
      <4>1. p.next = UNION {b.next : b \in Branches[as]} /\ p.sends = <<>>
        BY <3>4
      <4>2. {p.sends[i] : i \in DOMAIN p.sends} = {}
        BY <4>1
      <4>3. QED
        BY <2>2, <3>2, <4>1, <4>2, JoinUnreachable
    <3>5. QED
      BY <3>3, <3>4
  <2>4. \A j \in joins : Joined(j, saved.completed \cup {as})
    BY DEF Joined
  <2> HIDE DEF joins, paths
  <2>5. UNCHANGED <<cache, next_nodes, new_next, completed_nodes>>
    BY <1>3 DEF UpdateState
  <2>6. ASSUME NEW j \in JoinNodes
        PROVE  /\ j \in saved'.next => Joined(j, saved'.completed)
               /\ j \in next_nodes' => Joined(j, completed_nodes')
    <3>1. j \in saved'.next => j \in joins
      BY <2>1, <2>3
    <3>2. QED
      BY <1>t, <2>1, <2>4, <2>5, <3>1 DEF FanInWaits
  <2>7. FanInWaits'
    BY <2>6 DEF FanInWaits
  <2>8. QED
    BY <1>t, <2>5, <2>7 DEF RoutesAvoidJoins
<1>4. CASE Finish \/ RecursionError \/ SendDepthError \/ Crash
  BY <1>4, <1>t, FanInAtPause
  DEF Finish, RecursionError, SendDepthError, Crash, FanInWaits
<1>5. ASSUME NEW j \in JoinNodes, j \in Due PROVE Joined(j, completed_nodes)
  BY <1>5, <1>t, FanInJoined DEF Due, FanInWaits
<1>6. CASE PauseBefore
  <2>1. saved'.next = Due /\ saved'.completed = completed_nodes
    BY <1>6 DEF PauseBefore, Checkpoint
  <2>2. QED
    BY <1>5, <1>6, <2>1, FanInAtPause DEF PauseBefore
<1>7. CASE StartStep
  BY <1>5, <1>7, <1>t DEF StartStep, FanInWaits, RoutesAvoidJoins
<1>8. ASSUME NEW n \in Nodes, SkipNode(n) PROVE FanInWaits' /\ RoutesAvoidJoins'
  BY <1>8, <1>t, FanInWithinStep DEF SkipNode, Taken, RoutesAvoidJoins
<1>9. ASSUME NEW n \in Nodes, RunNode(n) PROVE FanInWaits' /\ RoutesAvoidJoins'
  <2>1. PICK k \in Asks[n], res \in Results(n) :
          /\ \E r \in NextNodes(n, res) : Complete(n, Join(ExtractRouting(n, res), r))
          /\ Store(n, res)
    BY <1>9 DEF RunNode
  <2>2. JoinNodes \cap new_next' = {} /\ completed_nodes \subseteq completed_nodes'
    BY <1>t, <2>1, RoutesAvoid, CompleteAvoidsJoins
  <2>3. saved' = saved /\ next_nodes' \subseteq next_nodes
    BY <1>9 DEF RunNode, Taken
  <2>4. FanInWaits'
    BY <2>2, <2>3, FanInWithinStep
  <2>5. QED
    BY <1>t, <2>1, <2>2, <2>4, StoreKeepsResults DEF RoutesAvoidJoins
<1>10. ASSUME NEW n \in Nodes, HitNode(n) PROVE FanInWaits' /\ RoutesAvoidJoins'
  <2>1. PICK res \in cache[n] : \E r \in NextNodes(n, res) : Complete(n, r)
    BY <1>10 DEF HitNode
  <2>2. res \in Results(n)
    BY <1>t DEF RoutesAvoidJoins
  <2>3. JoinNodes \cap new_next' = {} /\ completed_nodes \subseteq completed_nodes'
    BY <1>t, <2>1, <2>2, RoutesAvoid, CompleteAvoidsJoins
  <2>4. saved' = saved /\ next_nodes' \subseteq next_nodes /\ cache' = cache
    BY <1>10 DEF HitNode, Taken
  <2>5. QED
    BY <1>t, <2>3, <2>4, FanInWithinStep DEF RoutesAvoidJoins
<1>11. ASSUME NEW n \in Nodes, FailNode(n) PROVE FanInWaits' /\ RoutesAvoidJoins'
  <2>1. saved' = saved /\ next_nodes' \subseteq next_nodes
    BY <1>11 DEF FailNode, Taken
  <2>2. QED
    BY <1>11, <1>t, <2>1, HandOverAvoidsJoins, FanInWithinStep DEF FailNode
<1>12. ASSUME NEW n \in Nodes, InterruptNode(n) PROVE FanInWaits' /\ RoutesAvoidJoins'
  <2>1. saved'.next = LeftAtInterrupt(n) /\ saved'.completed = completed_nodes
    BY <1>12 DEF InterruptNode, Checkpoint
  <2>2. \A j \in JoinNodes : j \in LeftAtInterrupt(n) => Joined(j, completed_nodes)
    BY <1>t DEF LeftAtInterrupt, FanInWaits, RoutesAvoidJoins
  <2>3. QED
    BY <1>12, <2>1, <2>2, FanInAtPause DEF InterruptNode
<1>13. CASE StartBatch
  BY <1>13, <1>t, FanInWithinStep DEF StartBatch, RoutesAvoidJoins
<1>14. CASE RunSend
  <2>0. Head(batch) \in Nodes
    BY <1>14, <1>t, HeadTailProperties DEF RunSend, NextSend, RunTypeOK
  <2>1. PICK res \in Results(Head(batch)) :
          /\ \E r \in NextNodes(Head(batch), res) :
               Complete(Head(batch), Join(ExtractRouting(Head(batch), res), r))
          /\ Store(Head(batch), res)
    BY <1>14 DEF RunSend
  <2>2. JoinNodes \cap new_next' = {} /\ completed_nodes \subseteq completed_nodes'
    BY <1>t, <2>0, <2>1, RoutesAvoid, CompleteAvoidsJoins
  <2>3. saved' = saved /\ next_nodes' \subseteq next_nodes
    BY <1>14 DEF RunSend, NextSend
  <2>4. FanInWaits'
    BY <2>2, <2>3, FanInWithinStep
  <2>5. QED
    BY <1>t, <2>0, <2>1, <2>2, <2>4, StoreKeepsResults DEF RoutesAvoidJoins
<1>15. CASE FailSend
  <2>0. Head(batch) \in Nodes
    BY <1>15, <1>t, HeadTailProperties DEF FailSend, NextSend, RunTypeOK
  <2>1. saved' = saved /\ next_nodes' \subseteq next_nodes
    BY <1>15 DEF FailSend, NextSend
  <2>2. QED
    BY <1>15, <1>t, <2>0, <2>1, HandOverAvoidsJoins, FanInWithinStep DEF FailSend
<1>16. CASE InterruptSend
  <2>1. saved'.next \subseteq new_next
    BY <1>16 DEF InterruptSend, Checkpoint
  <2>2. QED
    BY <1>16, <1>t, <2>1, FanInAtPause DEF InterruptSend, RoutesAvoidJoins
<1>17. ASSUME NEW j \in JoinNodes, j \in NextStep PROVE Joined(j, completed_nodes)
  BY <1>17, <1>t, FanInJoined DEF NextStep, RoutesAvoidJoins
<1>18. CASE PauseAfter
  <2>1. saved'.next = NextStep /\ saved'.completed = completed_nodes
    BY <1>18 DEF PauseAfter, Checkpoint
  <2>2. QED
    BY <1>17, <1>18, <2>1, FanInAtPause DEF PauseAfter
<1>19. CASE EndStep
  <2>1. saved'.next = NextStep /\ saved'.completed = completed_nodes
    BY <1>19 DEF EndStep, StepCheckpoint, Checkpoint
  <2>2. QED
    BY <1>17, <1>19, <1>t, <2>1 DEF EndStep, FanInWaits, RoutesAvoidJoins
<1>20. CASE UNCHANGED vars
  BY <1>20, <1>t DEF vars, FanInWaits, RoutesAvoidJoins
<1>21. QED
  BY <1>1, <1>2, <1>3, <1>4, <1>6, <1>7, <1>8, <1>9, <1>10, <1>11, <1>12, <1>13, <1>14,
     <1>15, <1>16, <1>18, <1>19, <1>20
  DEF Next, LoopStep, NodeStep, SendStep, CallerStep, CallerRests

\* FanInWaits, the invariant of the run "review", for every graph: the waiting-edge checks
\* of _run and update_state never make a fan-in node due before all its sources completed.
THEOREM FanInCorrect == Spec => []FanInWaits
<1>1. FanInInv => FanInWaits
  BY DEF FanInInv
<1>2. QED
  BY <1>1, FanInInit, FanInNext, PTL DEF Spec

-----------------------------------------------------------------------------
(* The step counter.  The checkpoint of a running invocation counts from   *)
(* base_step, and the guard at the top of the loop keeps it within the limit. *)

StepCounted ==
  /\ pc # "idle" => saved.step = base_step + step
  /\ pc = "step" => step <= RecursionLimit
  /\ pc = "nodes" => step < RecursionLimit

StepInv == TypeOK /\ StepCounted

\* The actions inside a step touch neither the checkpoint nor the counters.
LEMMA InsideStep ==
  NodeStep \/ SendStep =>
    pc' = "idle" \/ UNCHANGED <<saved, turns, pc, step, base_step>>
<1> SUFFICES ASSUME NodeStep \/ SendStep
             PROVE  pc' = "idle" \/ UNCHANGED <<saved, turns, pc, step, base_step>>
  OBVIOUS
<1>1. CASE NodeStep
  <2>1. PICK n \in Nodes :
          SkipNode(n) \/ RunNode(n) \/ HitNode(n) \/ FailNode(n) \/ InterruptNode(n)
    BY <1>1 DEF NodeStep
  <2>2. CASE InterruptNode(n)
    BY <2>2 DEF InterruptNode, Return
  <2>3. CASE SkipNode(n) \/ RunNode(n) \/ HitNode(n) \/ FailNode(n)
    BY <2>3 DEF SkipNode, RunNode, HitNode, FailNode, Taken, frame, bounds
  <2>4. QED
    BY <2>1, <2>2, <2>3
<1>2. CASE StartBatch \/ RunSend \/ FailSend
  BY <1>2 DEF StartBatch, RunSend, FailSend, NextSend, frame, bounds
<1>3. CASE SendDepthError \/ InterruptSend
  BY <1>3 DEF SendDepthError, InterruptSend, Return
<1>4. QED
  BY <1>1, <1>2, <1>3 DEF SendStep

LEMMA StepInit == Init => StepInv
BY InitType DEF Init, StepInv, StepCounted

LEMMA StepNext == StepInv /\ [Next]_vars => StepInv'
<1> SUFFICES ASSUME StepInv, [Next]_vars PROVE StepCounted'
  BY NextType DEF StepInv
<1>t. ThreadTypeOK /\ RunTypeOK /\ StepCounted /\ RecursionLimit \in Nat
  BY TypeParts, LimitAssumption DEF StepInv
<1>1. ASSUME NEW next, NEW at \in Nat, NEW resume, Enter(next, at, resume)
      PROVE  StepCounted'
  <2>1. saved'.step = at
    BY <1>1, <1>t DEF Enter, ThreadTypeOK, CheckpointType
  <2>2. QED
    BY <1>1, <1>t, <2>1 DEF Enter, StepCounted
<1>2. CASE Invoke
  BY <1>1, <1>2 DEF Invoke
<1>3. CASE Resume
  <2>1. saved.step \in Nat
    BY <1>t DEF ThreadTypeOK, CheckpointType
  <2>2. QED
    BY <1>1, <1>3, <2>1 DEF Resume
<1>4. ASSUME NEW as \in UpdateAs, UpdateState(as) PROVE StepCounted'
  BY <1>4 DEF UpdateState, StepCounted
<1>5. CASE Finish \/ RecursionError \/ PauseBefore \/ PauseAfter \/ Crash
  BY <1>5 DEF Finish, RecursionError, PauseBefore, PauseAfter, Crash, Return, StepCounted
<1>6. CASE StartStep
  BY <1>6, <1>t DEF StartStep, WithinLimit, StepCounted, frame
<1>7. CASE NodeStep \/ SendStep
  BY <1>7, <1>t, InsideStep DEF StepCounted
<1>8. CASE EndStep
  <2>1. saved'.step = base_step + step + 1
    BY <1>8 DEF EndStep, StepCheckpoint, Checkpoint
  <2>2. pc = "nodes" /\ pc' = "step" /\ step' = step + 1 /\ base_step' = base_step
    BY <1>8 DEF EndStep, StepDone, NodesDone, frame
  <2>3. QED
    BY <1>t, <2>1, <2>2 DEF StepCounted, RunTypeOK
<1>9. CASE UNCHANGED vars
  BY <1>9, <1>t DEF vars, StepCounted
<1>10. QED
  BY <1>2, <1>3, <1>4, <1>5, <1>6, <1>7, <1>8, <1>9 DEF Next, LoopStep, CallerStep, CallerRests

\* StepsWithinLimit, the invariant of the run "agent", for every graph and every limit:
\* an invocation of _run commits at most recursion_limit supersteps.
THEOREM StepsBounded == Spec => []StepsWithinLimit
<1>1. StepInv => StepsWithinLimit
  <2> SUFFICES ASSUME StepInv, pc # "idle" PROVE saved.step <= base_step + RecursionLimit
    BY DEF StepsWithinLimit
  <2>1. saved.step = base_step + step /\ step <= RecursionLimit
    BY LimitAssumption DEF StepInv, StepCounted, TypeOK
  <2>2. QED
    BY <2>1, LimitAssumption DEF StepInv, TypeOK
<1>2. QED
  BY <1>1, StepInit, StepNext, PTL DEF Spec

LEMMA StepKept ==
  StepInv /\ [Next]_vars => (turns' = turns => saved'.step >= saved.step)
<1> SUFFICES ASSUME StepInv, [Next]_vars, turns' = turns PROVE saved'.step >= saved.step
  OBVIOUS
<1>t. ThreadTypeOK /\ RunTypeOK /\ StepCounted
  BY TypeParts DEF StepInv
<1>s. saved.step \in Nat /\ turns \in Nat /\ base_step \in Nat /\ step \in Nat
  BY <1>t DEF ThreadTypeOK, RunTypeOK, CheckpointType
<1>k. saved' = saved \/ saved'.step = saved.step => saved'.step >= saved.step
  BY <1>s
<1>1. ~Invoke
  BY <1>s DEF Invoke
<1>2. CASE Resume
  <2>1. PICK resume \in BOOLEAN : Enter(saved.next, saved.step, resume)
    BY <1>2 DEF Resume
  <2>2. saved'.step = saved.step
    BY <2>1, <1>t DEF Enter, ThreadTypeOK, CheckpointType
  <2>3. QED
    BY <1>k, <2>2
<1>3. ASSUME NEW as \in UpdateAs, UpdateState(as) PROVE saved'.step >= saved.step
  <2>1. saved'.step = saved.step
    BY <1>3 DEF UpdateState
  <2>2. QED
    BY <1>k, <2>1
<1>4. CASE Finish \/ RecursionError \/ StartStep \/ SendDepthError \/ Crash
  BY <1>4, <1>k DEF Finish, RecursionError, StartStep, SendDepthError, Crash
<1>5. CASE PauseBefore \/ PauseAfter
  BY <1>5, <1>k DEF PauseBefore, PauseAfter, Checkpoint
<1>6. CASE NodeStep
  <2>1. PICK n \in Nodes :
          SkipNode(n) \/ RunNode(n) \/ HitNode(n) \/ FailNode(n) \/ InterruptNode(n)
    BY <1>6 DEF NodeStep
  <2>2. CASE InterruptNode(n)
    BY <2>2, <1>k DEF InterruptNode, Checkpoint
  <2>3. CASE SkipNode(n) \/ RunNode(n) \/ HitNode(n) \/ FailNode(n)
    BY <2>3, <1>k DEF SkipNode, RunNode, HitNode, FailNode, Taken
  <2>4. QED
    BY <2>1, <2>2, <2>3
<1>7. CASE StartBatch \/ RunSend \/ FailSend
  BY <1>7, <1>k DEF StartBatch, RunSend, FailSend, NextSend
<1>8. CASE InterruptSend
  BY <1>8, <1>k DEF InterruptSend, Checkpoint
<1>9. CASE EndStep
  <2>1. saved'.step = base_step + step + 1 /\ pc = "nodes"
    BY <1>9 DEF EndStep, StepCheckpoint, Checkpoint, StepDone, NodesDone
  <2>2. QED
    BY <1>s, <1>t, <2>1 DEF StepCounted
<1>10. CASE UNCHANGED vars
  BY <1>10, <1>k DEF vars
<1>11. QED
  BY <1>1, <1>2, <1>3, <1>4, <1>5, <1>6, <1>7, <1>8, <1>9, <1>10
  DEF Next, LoopStep, SendStep, CallerStep, CallerRests

\* ResumeKeepsStep, the action property of the run "agent", for every graph: only a new
\* input sets the step counter of a thread back.
THEOREM StepNeverBack == Spec => ResumeKeepsStep
<1>1. StepInv /\ [Next]_vars => [turns' = turns => saved'.step >= saved.step]_vars
  BY StepKept
<1>2. QED
  BY <1>1, StepInit, StepNext, PTL DEF Spec, ResumeKeepsStep

-----------------------------------------------------------------------------
(* No update is lost.  A running invocation holds at least the updates of  *)
(* the thread's checkpoint, so that whatever it saves next has them too.   *)

ChannelsHold == pc # "idle" => \A n \in Nodes : values[n] >= saved.values[n]

ChannelsInv == TypeOK /\ ChannelsHold

\* The updates of a thread from one state to the next.
Grows(f, g) == \A n \in Nodes : g[n] >= f[n]

LEMMA BumpGrows ==
  ASSUME NEW f \in [Nodes -> Nat], NEW m, NEW n \in Nodes
  PROVE  [f EXCEPT ![m] = @ + 1][n] >= f[n]
<1>1. CASE n = m
  <2>1. [f EXCEPT ![m] = @ + 1][n] = f[n] + 1
    BY <1>1
  <2>2. QED
    BY <2>1
<1>2. CASE n # m
  BY <1>2
<1>3. QED
  BY <1>1, <1>2

LEMMA CompleteGrows ==
  ASSUME RunTypeOK, NEW n \in Nodes, NEW r, Complete(n, r) PROVE Grows(values, values')
BY DEF RunTypeOK, Complete, Grows

\* Within a step the channels only gain updates, and the checkpoint stays or becomes the
\* channels; between steps every save is of the channels.
LEMMA EveryStepGrows ==
  ASSUME TypeOK, LoopStep
  PROVE  /\ saved' = saved \/ saved'.values = values
         /\ pc' = "idle" \/ (Grows(values, values') /\ pc # "idle")
<1>t. RunTypeOK
  BY TypeParts
<1>r. Grows(values, values)
  BY <1>t DEF RunTypeOK, Grows
<1>1. CASE Finish \/ RecursionError \/ SendDepthError
  BY <1>1 DEF Finish, RecursionError, SendDepthError, Return
<1>2. CASE PauseBefore \/ PauseAfter
  BY <1>2 DEF PauseBefore, PauseAfter, Checkpoint, Return
<1>3. CASE StartStep \/ StartBatch
  BY <1>3, <1>r DEF StartStep, StartBatch, channels, NodesDone
<1>4. ASSUME NEW n \in Nodes,
             SkipNode(n) \/ RunNode(n) \/ HitNode(n) \/ FailNode(n) \/ InterruptNode(n)
      PROVE  /\ saved' = saved \/ saved'.values = values
             /\ pc' = "idle" \/ (Grows(values, values') /\ pc # "idle")
  <2>1. CASE SkipNode(n)
    BY <2>1, <1>r DEF SkipNode, Taken, channels
  <2>2. CASE RunNode(n)
    BY <2>2, <1>t, CompleteGrows DEF RunNode, Taken
  <2>3. CASE HitNode(n)
    BY <2>3, <1>t, CompleteGrows DEF HitNode, Taken
  <2>4. CASE FailNode(n)
    BY <2>4, <1>r DEF FailNode, HandOver, Taken
  <2>5. CASE InterruptNode(n)
    BY <2>5 DEF InterruptNode, Checkpoint, Return
  <2>6. QED
    BY <1>4, <2>1, <2>2, <2>3, <2>4, <2>5
<1>5. CASE RunSend
  <2>1. Head(batch) \in Nodes
    BY <1>5, <1>t, HeadTailProperties DEF RunSend, NextSend, RunTypeOK
  <2>2. PICK r : Complete(Head(batch), r)
    BY <1>5 DEF RunSend
  <2>3. QED
    BY <1>5, <1>t, <2>1, <2>2, CompleteGrows DEF RunSend, NextSend, NodesDone
<1>6. CASE FailSend
  BY <1>6, <1>r DEF FailSend, HandOver, NextSend, NodesDone
<1>7. CASE InterruptSend
  BY <1>7 DEF InterruptSend, Checkpoint, Return
<1>8. CASE EndStep
  BY <1>8, <1>r DEF EndStep, StepCheckpoint, Checkpoint, channels, StepDone, NodesDone
<1>9. QED
  BY <1>1, <1>2, <1>3, <1>4, <1>5, <1>6, <1>7, <1>8 DEF LoopStep, NodeStep, SendStep

LEMMA ChannelsInit == Init => ChannelsInv
BY InitType DEF Init, ChannelsInv, ChannelsHold

LEMMA ChannelsNext ==
  ChannelsInv /\ [Next]_vars => ChannelsHold' /\ Grows(saved.values, saved'.values)
<1> SUFFICES ASSUME ChannelsInv, [Next]_vars
             PROVE  ChannelsHold' /\ Grows(saved.values, saved'.values)
  OBVIOUS
<1>t. TypeOK /\ ThreadTypeOK /\ RunTypeOK /\ ChannelsHold /\ TypeOK'
  BY TypeParts, NextType DEF ChannelsInv
<1>v. saved.values \in [Nodes -> Nat] /\ values \in [Nodes -> Nat] /\ values' \in [Nodes -> Nat]
  BY <1>t DEF TypeOK, CheckpointType
<1>r. Grows(saved.values, saved.values)
  BY <1>v DEF Grows
<1>1. ASSUME NEW next, NEW at, NEW resume, Enter(next, at, resume)
      PROVE  ChannelsHold' /\ Grows(saved.values, saved'.values)
  <2>1. saved'.values = saved.values /\ values' = saved.values
    BY <1>1, <1>t DEF Enter, Restored, ThreadTypeOK, CheckpointType
  <2>2. QED
    BY <2>1, <1>r DEF ChannelsHold, Grows
<1>2. CASE Invoke \/ Resume
  BY <1>1, <1>2 DEF Invoke, Resume
<1>3. ASSUME NEW as \in UpdateAs, UpdateState(as)
      PROVE  ChannelsHold' /\ Grows(saved.values, saved'.values)
  <2>1. saved'.values = [saved.values EXCEPT ![as] = @ + 1] /\ pc' = "idle"
    <3>1. pc = "idle" /\ pc' = pc
      BY <1>3 DEF UpdateState
    <3>2. saved'.values = [saved.values EXCEPT ![as] = @ + 1]
      BY <1>3 DEF UpdateState
    <3>3. QED
      BY <3>1, <3>2
  <2>2. Grows(saved.values, [saved.values EXCEPT ![as] = @ + 1])
    BY <1>v, BumpGrows DEF Grows
  <2>3. QED
    BY <2>1, <2>2 DEF ChannelsHold
<1>4. CASE LoopStep
  <2>1. pc # "idle"
    BY <1>4
    DEF LoopStep, NodeStep, SendStep, Finish, RecursionError, PauseBefore, StartStep,
        SkipNode, RunNode, HitNode, FailNode, InterruptNode, Taken, StartBatch,
        SendDepthError, RunSend, FailSend, InterruptSend, NextSend, NodesDone,
        PauseAfter, EndStep, StepDone
  <2>2. Grows(saved.values, values)
    BY <1>t, <2>1 DEF ChannelsHold, Grows
  <2>3. saved' = saved \/ saved'.values = values
    BY <1>t, <1>4, EveryStepGrows
  <2>4. Grows(saved.values, saved'.values) /\ Grows(saved'.values, values)
    BY <1>r, <1>v, <2>2, <2>3 DEF Grows
  <2>5. pc' # "idle" => Grows(values, values')
    BY <1>t, <1>4, EveryStepGrows
  <2>6. saved'.values \in [Nodes -> Nat]
    BY <1>t DEF TypeOK, CheckpointType
  <2>7. ChannelsHold'
    BY <1>v, <2>4, <2>5, <2>6 DEF ChannelsHold, Grows
  <2>8. QED
    BY <2>4, <2>7
<1>5. CASE Crash
  BY <1>5, <1>r DEF Crash, Return, ChannelsHold
<1>6. CASE UNCHANGED vars
  BY <1>6, <1>t, <1>r DEF vars, ChannelsHold
<1>7. QED
  BY <1>2, <1>3, <1>4, <1>5, <1>6 DEF Next, CallerStep, CallerRests

\* UpdatesKept, the action property of the run "agent", for every graph: whatever the
\* caller, the nodes, the Sends, pauses and crashes do, no later checkpoint of a thread
\* has lost an update of an earlier one (_checkpoint_from_channels, _restore_channels).
THEOREM NoUpdateLost == Spec => UpdatesKept
<1>1. ChannelsInv /\ [Next]_vars => [\A n \in Nodes : saved'.values[n] >= saved.values[n]]_saved
  BY ChannelsNext DEF Grows
<1>2. ChannelsInv /\ [Next]_vars => ChannelsInv'
  BY ChannelsNext, NextType DEF ChannelsInv
<1>3. QED
  BY <1>1, <1>2, ChannelsInit, PTL DEF Spec, UpdatesKept

-----------------------------------------------------------------------------
(* Graphs that lead to every node once.  The nodes that are pending or     *)
(* selected have not run, and whatever leads to a node that is pending,    *)
(* selected or has run, has run.                                           *)

OneWay == LeadsOnce /\ UpdateAs = {} /\ MaxTurns <= 1

Orderly(next, done) ==
  /\ next \cap done = {}
  /\ \A n \in Nodes : LeadsTo(n) \cap (next \cup done) # {} => n \in done

NoSendsLeft == new_sends = <<>> /\ batch = <<>>

FirstInput == turns = 0 => pc = "idle" /\ saved = NoCheckpoint

RunOrderly ==
  /\ pc # "nodes" => new_next = {}
  /\ pc # "idle" => /\ Orderly(next_nodes \cup new_next, completed_nodes)
                    /\ next_nodes \cap new_next = {}

OnceInv ==
  /\ FanInInv /\ NoSendsLeft /\ FirstInput
  /\ Orderly(saved.next, saved.completed)
  /\ RunOrderly

\* What RunNode, HitNode and FailNode have in common: node n completes and selects T.
Finishes(n, T) ==
  /\ pc = "nodes" /\ n \in next_nodes
  /\ next_nodes' = next_nodes \ {n}
  /\ completed_nodes' = completed_nodes \cup {n}
  /\ new_next' = new_next \cup T
  /\ \/ /\ values' = [values EXCEPT ![n] = @ + 1] /\ errors' = errors
        /\ Gotos[n] = {} => Successors(n) \subseteq T
     \/ /\ errors' = [errors EXCEPT ![n] = @ + 1] /\ values' = values
        /\ ErrorHandler[n] \in T
  /\ UNCHANGED <<saved, turns, pc, step, new_sends, batch, prev_completed, offered>>

\* Where a node leads, by its edges and by any route it may take.
LEMMA ListedRoutesLead ==
  ASSUME NEW n \in Nodes
  PROVE  /\ Successors(n) \subseteq LeadsTo(n) /\ NoRoute.next = {} /\ NoRoute.sends = <<>>
         /\ \A q \in Branches[n] \cup Gotos[n] \cup Listed[n] :
              q.next \subseteq LeadsTo(n) /\ (Sendless => q.sends = <<>>)
<1> DEFINE routes == Branches[n] \cup Gotos[n] \cup Listed[n]
<1>1. ASSUME NEW q \in routes PROVE q.next \subseteq LeadsTo(n)
  <2>1. q.next \cup {q.sends[i] : i \in DOMAIN q.sends}
          \in {p.next \cup {p.sends[i] : i \in DOMAIN p.sends} : p \in routes}
    OBVIOUS
  <2>2. q.next \subseteq RouteTargets(routes)
    BY <2>1 DEF RouteTargets
  <2>3. QED
    BY <2>2 DEF LeadsTo
<1>2. Sendless => \A q \in routes : q.sends = <<>>
  BY DEF Sendless
<1>3. Successors(n) \subseteq LeadsTo(n) /\ NoRoute.next = {} /\ NoRoute.sends = <<>>
  BY DEF LeadsTo, NoRoute
<1>4. QED
  BY <1>1, <1>2, <1>3

\* Where a result leads by itself.
LEMMA ResultLeads ==
  ASSUME NEW n \in Nodes, NEW res \in Results(n)
  PROVE  /\ res.route.next \subseteq LeadsTo(n) /\ (Sendless => res.route.sends = <<>>)
         /\ ExtractRouting(n, res).next \subseteq LeadsTo(n)
         /\ Sendless => ExtractRouting(n, res).sends = <<>>
<1>1. res.route \in {NoRoute} \cup Gotos[n] \cup Listed[n]
  BY DEF Results
<1>2. res.route.next \subseteq LeadsTo(n) /\ (Sendless => res.route.sends = <<>>)
  BY <1>1, ListedRoutesLead
<1>3. QED
  BY <1>2, ListedRoutesLead DEF ExtractRouting

\* Where the routes of a result lead.
LEMMA RoutesLead ==
  ASSUME NEW n \in Nodes, NEW res \in Results(n), NEW r \in NextNodes(n, res)
  PROVE  /\ r.next \subseteq LeadsTo(n) /\ ExtractRouting(n, res).next \subseteq LeadsTo(n)
         /\ Sendless => r.sends = <<>> /\ ExtractRouting(n, res).sends = <<>>
         /\ Gotos[n] = {} => Successors(n) \subseteq r.next
<1>1. /\ Successors(n) \subseteq LeadsTo(n) /\ NoRoute.next = {} /\ NoRoute.sends = <<>>
      /\ \A q \in Branches[n] \cup Gotos[n] \cup Listed[n] :
           q.next \subseteq LeadsTo(n) /\ (Sendless => q.sends = <<>>)
  BY ListedRoutesLead
<1>2. /\ res.route.next \subseteq LeadsTo(n) /\ (Sendless => res.route.sends = <<>>)
      /\ ExtractRouting(n, res).next \subseteq LeadsTo(n)
      /\ Sendless => ExtractRouting(n, res).sends = <<>>
  BY ResultLeads
<1>3. CASE res.kind = "goto"
  <2>1. r = res.route /\ Gotos[n] # {}
    BY <1>3 DEF NextNodes, Results
  <2>2. QED
    BY <1>2, <2>1
<1>4. CASE res.kind # "goto"
  <2>1. PICK q \in Branches[n] \cup {NoRoute, res.route} :
          r = Join([next |-> Successors(n), sends |-> <<>>], q)
    BY <1>4 DEF NextNodes
  <2>2. q.next \subseteq LeadsTo(n) /\ (Sendless => q.sends = <<>>)
    BY <1>1, <1>2, <2>1
  <2>3. r.next = Successors(n) \cup q.next /\ (Sendless => r.sends = <<>> \o <<>>)
    BY <2>1, <2>2 DEF Join
  <2>4. Sendless => r.sends = <<>>
    BY <2>3
  <2>5. QED
    BY <1>1, <1>2, <2>2, <2>3, <2>4
<1>5. QED
  BY <1>3, <1>4

LEMMA CompleteFinishes ==
  ASSUME RunTypeOK, NEW n, NEW r, r.sends = <<>>, Complete(n, r)
  PROVE  new_sends' = new_sends
<1>1. new_sends \o <<>> = new_sends
  BY ConcatEmptySeq DEF RunTypeOK
<1>2. QED
  BY <1>1 DEF Complete

\* A node that runs, is found in the cache or hands over to its error handler finishes.
LEMMA NodeFinishes ==
  ASSUME Sendless, FanInInv, NEW n \in Nodes, RunNode(n) \/ HitNode(n) \/ FailNode(n)
  PROVE  \E T \in SUBSET LeadsTo(n) : Finishes(n, T)
<1>t. RunTypeOK /\ ThreadTypeOK /\ \A m \in Nodes : cache[m] \subseteq Results(m)
  BY TypeParts DEF FanInInv, RoutesAvoidJoins
<1>f. /\ pc = "nodes" /\ n \in next_nodes /\ next_nodes' = next_nodes \ {n}
      /\ UNCHANGED <<saved, turns, pc, step, batch, prev_completed, offered>>
  BY DEF RunNode, HitNode, FailNode, Taken, bounds, frame
<1>c. ASSUME NEW route, route.next \subseteq LeadsTo(n), route.sends = <<>>,
             Gotos[n] = {} => Successors(n) \subseteq route.next,
             Complete(n, route)
      PROVE  Finishes(n, route.next)
  <2>1. new_sends' = new_sends
    BY <1>c, <1>t, CompleteFinishes
  <2>2. QED
    BY <1>c, <1>f, <2>1 DEF Complete, Finishes
<1>1. CASE RunNode(n)
  <2>1. PICK k \in Asks[n], res \in Results(n) :
          \E r \in NextNodes(n, res) : Complete(n, Join(ExtractRouting(n, res), r))
    BY <1>1 DEF RunNode
  <2>2. PICK r \in NextNodes(n, res) : Complete(n, Join(ExtractRouting(n, res), r))
    BY <2>1
  <2> DEFINE route == Join(ExtractRouting(n, res), r)
  <2>3. /\ r.next \subseteq LeadsTo(n) /\ r.sends = <<>>
        /\ ExtractRouting(n, res).next \subseteq LeadsTo(n)
        /\ ExtractRouting(n, res).sends = <<>>
        /\ Gotos[n] = {} => Successors(n) \subseteq r.next
    BY RoutesLead
  <2>4. route.next = ExtractRouting(n, res).next \cup r.next /\ route.sends = <<>> \o <<>>
    BY <2>3 DEF Join
  <2>5. route.sends = <<>>
    BY <2>4
  <2>6. /\ route.next \subseteq LeadsTo(n)
        /\ Gotos[n] = {} => Successors(n) \subseteq route.next
    BY <2>3, <2>4
  <2>7. Complete(n, route)
    BY <2>2
  <2> HIDE DEF route
  <2>8. QED
    BY <1>c, <2>5, <2>6, <2>7
<1>2. CASE HitNode(n)
  <2>1. PICK res \in cache[n] : \E r \in NextNodes(n, res) : Complete(n, r)
    BY <1>2 DEF HitNode
  <2>2. PICK r \in NextNodes(n, res) : Complete(n, r)
    BY <2>1
  <2>3. /\ r.next \subseteq LeadsTo(n) /\ r.sends = <<>>
        /\ Gotos[n] = {} => Successors(n) \subseteq r.next
    BY <1>t, RoutesLead
  <2>4. QED
    BY <1>c, <2>2, <2>3
<1>3. CASE FailNode(n)
  <2>1. {ErrorHandler[n]} \subseteq LeadsTo(n)
    BY <1>3 DEF FailNode, HandOver, LeadsTo
  <2>2. Finishes(n, {ErrorHandler[n]})
    BY <1>3, <1>f DEF FailNode, HandOver, Finishes
  <2>3. QED
    BY <2>1, <2>2
<1>4. QED
  BY <1>1, <1>2, <1>3

\* The steps that remain in a graph without Sends.
LEMMA SendlessSteps ==
  ASSUME Sendless, FanInInv, NoSendsLeft, [Next]_vars
  PROVE  /\ \/ Invoke \/ Resume \/ \E as \in UpdateAs : UpdateState(as)
            \/ Finish \/ RecursionError \/ Crash
            \/ PauseBefore \/ StartStep \/ PauseAfter \/ EndStep
            \/ \E n \in Nodes : SkipNode(n) \/ InterruptNode(n)
                                  \/ \E T \in SUBSET LeadsTo(n) : Finishes(n, T)
            \/ UNCHANGED vars
         /\ NoSendsLeft'
<1>1. ~SendStep
  BY DEF NoSendsLeft, SendStep, StartBatch, SendDepthError, RunSend, FailSend,
         InterruptSend, NextSend
<1>2. NodeStep => \E n \in Nodes : SkipNode(n) \/ InterruptNode(n)
                               \/ \E T \in SUBSET LeadsTo(n) : Finishes(n, T)
  BY NodeFinishes DEF NodeStep
<1>3. \/ Invoke \/ Resume \/ \E as \in UpdateAs : UpdateState(as)
      \/ Finish \/ RecursionError \/ Crash
      \/ PauseBefore \/ StartStep \/ PauseAfter \/ EndStep
      \/ \E n \in Nodes : SkipNode(n) \/ InterruptNode(n)
                            \/ \E T \in SUBSET LeadsTo(n) : Finishes(n, T)
      \/ UNCHANGED vars
  BY <1>1, <1>2 DEF Next, LoopStep, CallerStep, CallerRests
<1>4. ASSUME Return \/ UNCHANGED <<new_sends, batch>> PROVE NoSendsLeft'
  BY <1>4 DEF Return, NoSendsLeft
<1>5. Invoke \/ Resume \/ (\E as \in UpdateAs : UpdateState(as)) => UNCHANGED <<new_sends, batch>>
  BY DEF Invoke, Resume, Enter, UpdateState, sendq
<1>6. Finish \/ RecursionError \/ Crash \/ PauseBefore \/ PauseAfter => Return
  BY DEF Finish, RecursionError, Crash, PauseBefore, PauseAfter
<1>7. StartStep \/ EndStep => UNCHANGED <<new_sends, batch>>
  BY DEF StartStep, EndStep, sendq
<1>8. ASSUME NEW n, NEW T, SkipNode(n) \/ InterruptNode(n) \/ Finishes(n, T)
      PROVE  Return \/ UNCHANGED <<new_sends, batch>>
  BY <1>8 DEF SkipNode, Taken, InterruptNode, Finishes
<1>9. UNCHANGED vars => UNCHANGED <<new_sends, batch>>
  BY DEF vars
<1>10. QED
  BY <1>3, <1>4, <1>5, <1>6, <1>7, <1>8, <1>9

LEMMA OnceSteps ==
  ASSUME OneWay, OnceInv, [Next]_vars
  PROVE  /\ \/ Invoke \/ Resume \/ Finish \/ RecursionError \/ Crash
            \/ PauseBefore \/ StartStep \/ PauseAfter \/ EndStep
            \/ \E n \in Nodes : SkipNode(n) \/ InterruptNode(n)
                                  \/ \E T \in SUBSET LeadsTo(n) : Finishes(n, T)
            \/ UNCHANGED vars
         /\ NoSendsLeft'
<1>1. Sendless /\ FanInInv /\ NoSendsLeft /\ UpdateAs = {}
  BY DEF OneWay, LeadsOnce, OnceInv
<1>2. QED
  BY <1>1, SendlessSteps

LEMMA OnceInit == LeadsOnce /\ Init => OnceInv
<1> SUFFICES ASSUME LeadsOnce, Init PROVE OnceInv
  OBVIOUS
<1>1. FanInInv
  BY FanInInit
<1>2. NoSendsLeft /\ FirstInput /\ RunOrderly
  BY DEF Init, NoSendsLeft, FirstInput, RunOrderly
<1>3. saved.next = {} /\ saved.completed = {}
  BY DEF Init, NoCheckpoint
<1>4. QED
  BY <1>1, <1>2, <1>3 DEF OnceInv, Orderly

\* The nodes a waiting edge makes due keep the order: no other node leads to them, and
\* they have not completed.
LEMMA FanInOrderly ==
  ASSUME LeadsOnce, NEW next, Orderly(next, completed_nodes), NEW S
  PROVE  Orderly(next \cup FanIn(S), completed_nodes)
<1>1. FanIn(S) \subseteq {w.end : w \in WaitingEdges} /\ FanIn(S) \cap completed_nodes = {}
  BY DEF FanIn
<1>2. \A n \in Nodes : LeadsTo(n) \cap FanIn(S) = {}
  <2>1. \A n \in Nodes : LeadsTo(n) \cap {w.end : w \in WaitingEdges} = {}
    BY DEF LeadsOnce
  <2>2. QED
    BY <1>1, <2>1
<1>3. QED
  BY <1>1, <1>2 DEF Orderly

LEMMA OrderlyPart ==
  ASSUME NEW next, NEW done, Orderly(next, done), NEW part, part \subseteq next
  PROVE  Orderly(part, done)
BY DEF Orderly

\* What each of some nodes may select is led to by that node.
LedBy(T, F) == \A m \in T : \E n \in F : m \in LeadsTo(n)

\* Nodes that complete select nodes that nothing else has selected.
LEMMA FinishOrderly ==
  ASSUME LeadsOnce, OnceInv, pc = "nodes", NEW F \in SUBSET next_nodes, NEW T, LedBy(T, F)
  PROVE  /\ Orderly((next_nodes \ F) \cup (new_next \cup T), completed_nodes \cup F)
         /\ (next_nodes \ F) \cap (new_next \cup T) = {}
<1>0. /\ Orderly(next_nodes \cup new_next, completed_nodes)
      /\ next_nodes \cap new_next = {} /\ F \subseteq Nodes
  BY TypeParts DEF OnceInv, FanInInv, RunTypeOK, RunOrderly
<1>1. F \cap completed_nodes = {} /\ F \cap new_next = {}
  BY <1>0 DEF Orderly
<1>2. \A n \in F : LeadsTo(n) \cap (next_nodes \cup new_next \cup completed_nodes) = {}
  BY <1>0, <1>1 DEF Orderly
<1>3. \A m \in Nodes : LeadsTo(m) \cap T # {} => m \in F
  BY <1>0 DEF LeadsOnce, LedBy
<1>4. T \cap (next_nodes \cup new_next \cup completed_nodes) = {}
  BY <1>2 DEF LedBy
<1>5. QED
  BY <1>0, <1>1, <1>2, <1>3, <1>4 DEF Orderly

\* An invocation ends, with the checkpoint it had or a new one that is in order.
LEMMA OnceAtEnd ==
  ASSUME OnceInv, pc # "idle", Return, turns' = turns, Orderly(saved'.next, saved'.completed)
  PROVE  NoSendsLeft' /\ FirstInput' /\ RunOrderly' /\ Orderly(saved.next, saved.completed)'
<1>1. turns # 0
  BY DEF OnceInv, FirstInput
<1>2. QED
  BY <1>1 DEF Return, NoSendsLeft, FirstInput, RunOrderly

\* Nodes of a step complete, and others may be passed over.
LEMMA OnceMoves ==
  ASSUME LeadsOnce, OnceInv, pc = "nodes", pc' = "nodes",
         NEW F \in SUBSET next_nodes, NEW T, LedBy(T, F),
         next_nodes' \subseteq next_nodes \ F, completed_nodes' = completed_nodes \cup F,
         new_next' = new_next \cup T, UNCHANGED <<saved, turns, new_sends, batch>>
  PROVE  NoSendsLeft' /\ FirstInput' /\ RunOrderly' /\ Orderly(saved.next, saved.completed)'
<1>i. NoSendsLeft /\ FirstInput /\ Orderly(saved.next, saved.completed)
  BY DEF OnceInv
<1>1. /\ Orderly((next_nodes \ F) \cup (new_next \cup T), completed_nodes \cup F)
      /\ (next_nodes \ F) \cap (new_next \cup T) = {}
  BY FinishOrderly
<1>2. /\ next_nodes' \cup new_next' \subseteq (next_nodes \ F) \cup (new_next \cup T)
      /\ next_nodes' \cap new_next' = {}
  BY <1>1
<1>3. Orderly(next_nodes' \cup new_next', completed_nodes')
  BY <1>1, <1>2, OrderlyPart
<1>4. RunOrderly'
  BY <1>2, <1>3 DEF RunOrderly
<1>5. QED
  BY <1>i, <1>4 DEF NoSendsLeft, FirstInput

LEMMA OnceNext == OneWay /\ OnceInv /\ [Next]_vars => OnceInv'
<1> SUFFICES ASSUME OneWay, OnceInv, [Next]_vars
             PROVE  /\ NoSendsLeft' /\ FirstInput' /\ RunOrderly'
                    /\ Orderly(saved.next, saved.completed)'
  BY FanInNext DEF OnceInv
<1>t. LeadsOnce /\ ThreadTypeOK /\ RunTypeOK /\ turns \in Nat
  BY TypeParts DEF OneWay, OnceInv, FanInInv, ThreadTypeOK
<1>i. NoSendsLeft /\ FirstInput /\ RunOrderly /\ Orderly(saved.next, saved.completed)
  BY DEF OnceInv
<1>e. ASSUME NEW next, NEW at, NEW resume, Enter(next, at, resume),
             Orderly(next, saved.completed), turns' # 0
      PROVE  /\ NoSendsLeft' /\ FirstInput' /\ RunOrderly'
             /\ Orderly(saved.next, saved.completed)'
  <2>1. saved'.next = next /\ saved'.completed = saved.completed
    BY <1>e, <1>t DEF Enter, ThreadTypeOK, CheckpointType
  <2>2. /\ pc' = "step" /\ next_nodes' = next /\ completed_nodes' = saved.completed
        /\ new_next' = {} /\ new_sends' = <<>> /\ batch' = <<>>
    BY <1>e, <1>i DEF Enter, sendq, NoSendsLeft, RunOrderly
  <2>3. next \cup {} = next
    OBVIOUS
  <2>4. RunOrderly'
    BY <1>e, <2>2, <2>3 DEF RunOrderly
  <2>5. QED
    BY <1>e, <2>1, <2>2, <2>4 DEF NoSendsLeft, FirstInput
<1>1. CASE Invoke
  <2>1. turns = 0 /\ turns' = turns + 1 /\ saved.completed = {}
    BY <1>1, <1>t, <1>i, LimitAssumption DEF Invoke, OneWay, FirstInput, NoCheckpoint
  <2>2. PICK s \in StartSets, resume \in BOOLEAN : Enter(s, 0, resume)
    BY <1>1 DEF Invoke
  <2>3. Orderly(s, saved.completed)
    <3>1. \A n \in Nodes : LeadsTo(n) \cap s = {}
      BY <1>t DEF LeadsOnce
    <3>2. QED
      BY <2>1, <3>1 DEF Orderly
  <2>4. QED
    BY <1>e, <2>1, <2>2, <2>3
<1>2. CASE Resume
  <2>1. PICK resume \in BOOLEAN : Enter(saved.next, saved.step, resume)
    BY <1>2 DEF Resume
  <2>2. turns' # 0
    BY <1>2, <1>i DEF Resume, FirstInput, NoCheckpoint
  <2>3. QED
    BY <1>e, <1>i, <2>1, <2>2
<1>3. CASE Finish \/ RecursionError \/ Crash
  <2>1. pc # "idle" /\ Return /\ turns' = turns /\ saved' = saved
    BY <1>3 DEF Finish, RecursionError, Crash, bounds
  <2>2. QED
    BY <1>i, <2>1, OnceAtEnd
<1>4. CASE PauseBefore
  <2>1. pc = "step" /\ new_next = {}
    BY <1>4, <1>i DEF PauseBefore, RunOrderly
  <2>2. Orderly(next_nodes, completed_nodes)
    BY <1>i, <2>1, OrderlyPart DEF RunOrderly
  <2>3. Orderly(Due, completed_nodes)
    BY <1>t, <2>2, FanInOrderly DEF Due
  <2>4. saved'.next = Due /\ saved'.completed = completed_nodes
    BY <1>4 DEF PauseBefore, Checkpoint
  <2>5. Return /\ turns' = turns
    BY <1>4 DEF PauseBefore, bounds
  <2>6. QED
    BY <2>1, <2>3, <2>4, <2>5, OnceAtEnd
<1>5. CASE StartStep
  <2>1. pc = "step" /\ new_next = {}
    BY <1>5, <1>i DEF StartStep, RunOrderly
  <2>2. Orderly(next_nodes, completed_nodes)
    BY <1>i, <2>1, OrderlyPart DEF RunOrderly
  <2>3. Orderly(Due, completed_nodes)
    BY <1>t, <2>2, FanInOrderly DEF Due
  <2>4. /\ pc' = "nodes" /\ next_nodes' = Due /\ new_next' = {}
        /\ UNCHANGED <<saved, turns, new_sends, batch, completed_nodes>>
    BY <1>5 DEF StartStep, sendq, bounds
  <2>5. Due \cup {} = Due
    OBVIOUS
  <2>6. RunOrderly'
    BY <2>3, <2>4, <2>5 DEF RunOrderly
  <2>7. QED
    BY <1>i, <2>1, <2>4, <2>6 DEF NoSendsLeft, FirstInput
<1>6. CASE PauseAfter \/ EndStep
  <2>1. pc = "nodes" /\ next_nodes = {}
    BY <1>6 DEF PauseAfter, EndStep, StepDone, NodesDone
  <2>2. Orderly(new_next, completed_nodes)
    BY <1>i, <2>1, OrderlyPart DEF RunOrderly
  <2>3. Orderly(NextStep, completed_nodes)
    BY <1>t, <2>2, FanInOrderly DEF NextStep
  <2>4. saved'.next = NextStep /\ saved'.completed = completed_nodes /\ turns' = turns
    BY <1>6 DEF PauseAfter, EndStep, StepCheckpoint, Checkpoint, bounds
  <2>5. CASE PauseAfter
    BY <2>1, <2>3, <2>4, <2>5, OnceAtEnd DEF PauseAfter
  <2>6. CASE EndStep
    <3>1. /\ pc' = "step" /\ next_nodes' = NextStep /\ new_next' = {}
          /\ UNCHANGED <<new_sends, batch, completed_nodes>>
      BY <2>6 DEF EndStep
    <3>2. NextStep \cup {} = NextStep
      OBVIOUS
    <3>3. RunOrderly'
      BY <2>3, <3>1, <3>2 DEF RunOrderly
    <3>4. turns # 0
      BY <1>i, <2>1 DEF FirstInput
    <3>5. QED
      BY <1>i, <2>3, <2>4, <3>1, <3>3, <3>4 DEF NoSendsLeft, FirstInput
  <2>7. QED
    BY <1>6, <2>5, <2>6
<1>7. ASSUME NEW n \in Nodes, SkipNode(n)
      PROVE  /\ NoSendsLeft' /\ FirstInput' /\ RunOrderly'
             /\ Orderly(saved.next, saved.completed)'
  <2>1. /\ pc = "nodes" /\ next_nodes' = next_nodes \ {n}
        /\ UNCHANGED <<saved, turns, pc, new_next, new_sends, batch, completed_nodes>>
    BY <1>7 DEF SkipNode, Taken, bounds
  <2>2. LedBy({}, {}) /\ {} \in SUBSET next_nodes
    BY DEF LedBy
  <2>3. /\ next_nodes' \subseteq next_nodes \ {} /\ completed_nodes' = completed_nodes \cup {}
        /\ new_next' = new_next \cup {}
    BY <2>1
  <2>4. QED
    BY <1>t, <2>1, <2>2, <2>3, OnceMoves
<1>8. ASSUME NEW n \in Nodes, InterruptNode(n)
      PROVE  /\ NoSendsLeft' /\ FirstInput' /\ RunOrderly'
             /\ Orderly(saved.next, saved.completed)'
  <2>1. pc = "nodes" /\ Return /\ turns' = turns
    BY <1>8 DEF InterruptNode, bounds
  <2>2. saved'.next = LeftAtInterrupt(n) /\ saved'.completed = completed_nodes
    BY <1>8 DEF InterruptNode, Checkpoint
  <2>3. Orderly(LeftAtInterrupt(n), completed_nodes)
    BY <1>i, <2>1, OrderlyPart DEF RunOrderly, LeftAtInterrupt
  <2>4. QED
    BY <2>1, <2>2, <2>3, OnceAtEnd
<1>9. ASSUME NEW n \in Nodes, NEW T \in SUBSET LeadsTo(n), Finishes(n, T)
      PROVE  /\ NoSendsLeft' /\ FirstInput' /\ RunOrderly'
             /\ Orderly(saved.next, saved.completed)'
  <2>1. PICK F \in SUBSET next_nodes : F = {n}
    BY <1>9 DEF Finishes
  <2>2. /\ pc = "nodes" /\ pc' = "nodes" /\ LedBy(T, F)
        /\ next_nodes' \subseteq next_nodes \ F /\ completed_nodes' = completed_nodes \cup F
        /\ new_next' = new_next \cup T
        /\ UNCHANGED <<saved, turns, new_sends, batch>>
    BY <1>9, <2>1 DEF Finishes, LedBy
  <2>3. QED
    BY <1>t, <2>2, OnceMoves
<1>10. CASE UNCHANGED vars
  BY <1>10, <1>i DEF vars, NoSendsLeft, FirstInput, RunOrderly
<1>11. QED
  BY <1>1, <1>2, <1>3, <1>4, <1>5, <1>6, <1>7, <1>8, <1>9, <1>10, OnceSteps

-----------------------------------------------------------------------------
(* In such a graph every node that runs leaves a record, and at most as    *)
(* many as one run of it may leave (here one).                             *)

RecordsWithin(vs, es, done, most) ==
  \A n \in Nodes : vs[n] + es[n] \in IF n \in done THEN 1..most[n] ELSE {0}

\* The channels of an invocation hold the records of the checkpoint as they were.
RunCounts(most) ==
  /\ RecordsWithin(values, errors, completed_nodes, most)
  /\ saved.completed \subseteq completed_nodes
  /\ \A n \in saved.completed : values[n] + errors[n] = saved.values[n] + saved.errors[n]

CountInv(most) ==
  /\ RecordsWithin(saved.values, saved.errors, saved.completed, most)
  /\ pc # "idle" => RunCounts(most)

One == [n \in Nodes |-> 1]

EffectsInv == OnceInv /\ CountInv(One)

LEMMA OneRecord ==
  ASSUME NEW vs, NEW es, NEW done
  PROVE  RecordsWithin(vs, es, done, One) <=>
           \A n \in Nodes : vs[n] + es[n] = IF n \in done THEN 1 ELSE 0
<1>1. \A n \in Nodes : 1..One[n] = {1}
  BY DEF One
<1>2. QED
  BY <1>1 DEF RecordsWithin

\* One node leaves from 1 to most records and completes.
LEMMA BumpWithin ==
  ASSUME RunTypeOK, NEW most, NEW n \in Nodes, n \notin completed_nodes,
         RecordsWithin(values, errors, completed_nodes, most),
         NEW k \in 1..most[n], most[n] \in Nat,
         completed_nodes' = completed_nodes \cup {n},
         \/ values' = [values EXCEPT ![n] = @ + k] /\ errors' = errors
         \/ errors' = [errors EXCEPT ![n] = @ + k] /\ values' = values
  PROVE  /\ RecordsWithin(values', errors', completed_nodes', most)
         /\ \A m \in Nodes : m # n => values'[m] + errors'[m] = values[m] + errors[m]
<1> SUFFICES ASSUME NEW m \in Nodes
             PROVE  /\ values'[m] + errors'[m] \in IF m \in completed_nodes' THEN 1..most[m] ELSE {0}
                    /\ m # n => values'[m] + errors'[m] = values[m] + errors[m]
  BY DEF RecordsWithin
<1>t. /\ values \in [Nodes -> Nat] /\ errors \in [Nodes -> Nat]
      /\ values[m] \in Nat /\ errors[m] \in Nat /\ k \in Nat
  BY DEF RunTypeOK
<1>1. values[m] + errors[m] \in IF m \in completed_nodes THEN 1..most[m] ELSE {0}
  BY DEF RecordsWithin
<1>2. CASE m = n
  <2>1. values[m] + errors[m] = 0
    BY <1>1, <1>2
  <2>2. \/ values'[m] = values[m] + k /\ errors'[m] = errors[m]
        \/ errors'[m] = errors[m] + k /\ values'[m] = values[m]
    BY <1>t, <1>2
  <2>3. values'[m] + errors'[m] = k
    BY <1>t, <2>1, <2>2
  <2>4. QED
    BY <1>2, <2>3
<1>3. CASE m # n
  <2>1. values'[m] = values[m] /\ errors'[m] = errors[m]
    BY <1>t, <1>3
  <2>2. QED
    BY <1>1, <1>3, <2>1
<1>4. QED
  BY <1>2, <1>3

LEMMA CountInit == ASSUME NEW most, Init PROVE CountInv(most)
BY DEF Init, CountInv, RecordsWithin, NoCheckpoint, Nowhere

\* A node of a step leaves its records: what the step shares with those of tasks.
LEMMA CountMoves ==
  ASSUME NEW most \in [Nodes -> Nat \ {0}], OnceInv, CountInv(most), pc = "nodes",
         saved' = saved, NEW n \in next_nodes, NEW k \in 1..most[n],
         completed_nodes' = completed_nodes \cup {n},
         \/ values' = [values EXCEPT ![n] = @ + k] /\ errors' = errors
         \/ errors' = [errors EXCEPT ![n] = @ + k] /\ values' = values
  PROVE  CountInv(most)'
<1>t. RunTypeOK /\ RunOrderly /\ saved.completed \subseteq Nodes
  BY TypeParts DEF OnceInv, FanInInv, ThreadTypeOK, CheckpointType
<1>1. n \in Nodes /\ n \notin completed_nodes /\ most[n] \in Nat
  BY <1>t DEF RunTypeOK, RunOrderly, Orderly
<1>2. RunCounts(most)
  BY DEF CountInv
<1>3. /\ RecordsWithin(values', errors', completed_nodes', most)
      /\ \A m \in Nodes : m # n => values'[m] + errors'[m] = values[m] + errors[m]
  BY <1>t, <1>1, <1>2, BumpWithin DEF RunCounts
<1>4. /\ saved.completed \subseteq completed_nodes' /\ n \notin saved.completed
      /\ \A m \in saved.completed : values[m] + errors[m] = saved.values[m] + saved.errors[m]
  BY <1>1, <1>2 DEF RunCounts
<1>5. \A m \in saved.completed : values'[m] + errors'[m] = saved.values[m] + saved.errors[m]
  BY <1>t, <1>3, <1>4
<1>6. QED
  BY <1>3, <1>4, <1>5 DEF CountInv, RunCounts

LEMMA CountNext ==
  ASSUME NEW most \in [Nodes -> Nat \ {0}], OneWay, OnceInv, CountInv(most), [Next]_vars
  PROVE  CountInv(most)'
<1>t. ThreadTypeOK /\ RunTypeOK /\ RunOrderly
  BY TypeParts DEF OnceInv, FanInInv
<1>i. /\ RecordsWithin(saved.values, saved.errors, saved.completed, most)
      /\ pc # "idle" => RunCounts(most)
  BY DEF CountInv
<1>s. ASSUME Return, saved' = saved PROVE CountInv(most)'
  BY <1>s, <1>i DEF Return, CountInv
<1>c. ASSUME pc # "idle", saved'.values = values, saved'.errors = errors,
             saved'.completed = completed_nodes, Return \/ UNCHANGED <<values, errors, completed_nodes>>
      PROVE  CountInv(most)'
  <2>1. RecordsWithin(values, errors, completed_nodes, most)
    BY <1>c, <1>i DEF RunCounts
  <2>2. RecordsWithin(saved'.values, saved'.errors, saved'.completed, most)
    BY <1>c, <2>1
  <2>3. pc' # "idle" => RunCounts(most)'
    BY <1>c, <2>1 DEF Return, RunCounts
  <2>4. QED
    BY <2>2, <2>3 DEF CountInv
<1>1. CASE Invoke \/ Resume
  <2>1. PICK next, at, resume : Enter(next, at, resume)
    BY <1>1 DEF Invoke, Resume
  <2>2. /\ saved'.values = saved.values /\ saved'.errors = saved.errors
        /\ saved'.completed = saved.completed
    BY <2>1, <1>t DEF Enter, ThreadTypeOK, CheckpointType
  <2>3. values' = saved.values /\ errors' = saved.errors /\ completed_nodes' = saved.completed
    BY <2>1 DEF Enter, Restored
  <2>4. QED
    BY <1>i, <2>2, <2>3 DEF CountInv, RunCounts
<1>2. CASE Finish \/ RecursionError \/ Crash
  BY <1>2, <1>s DEF Finish, RecursionError, Crash
<1>3. CASE PauseBefore \/ PauseAfter
  <2>1. /\ pc # "idle" /\ Return /\ saved'.values = values /\ saved'.errors = errors
        /\ saved'.completed = completed_nodes
    BY <1>3 DEF PauseBefore, PauseAfter, Checkpoint, StepDone, NodesDone
  <2>2. QED
    BY <1>c, <2>1
<1>4. CASE StartStep
  <2>1. pc # "idle" /\ UNCHANGED <<saved, values, errors, completed_nodes>>
    BY <1>4 DEF StartStep, channels
  <2>2. QED
    BY <1>i, <2>1 DEF CountInv, RunCounts
<1>5. CASE EndStep
  <2>1. /\ pc # "idle" /\ saved'.values = values /\ saved'.errors = errors
        /\ saved'.completed = completed_nodes /\ UNCHANGED <<values, errors, completed_nodes>>
    BY <1>5 DEF EndStep, StepCheckpoint, Checkpoint, StepDone, NodesDone, channels
  <2>2. QED
    BY <1>c, <2>1
<1>6. ASSUME NEW n \in Nodes, SkipNode(n) PROVE CountInv(most)'
  <2>1. pc # "idle" /\ UNCHANGED <<saved, values, errors, completed_nodes>>
    BY <1>6 DEF SkipNode, Taken, channels
  <2>2. QED
    BY <1>i, <2>1 DEF CountInv, RunCounts
<1>7. ASSUME NEW n \in Nodes, InterruptNode(n) PROVE CountInv(most)'
  <2>1. /\ pc # "idle" /\ Return /\ saved'.values = values /\ saved'.errors = errors
        /\ saved'.completed = completed_nodes
    BY <1>7 DEF InterruptNode, Checkpoint
  <2>2. QED
    BY <1>c, <2>1
<1>8. ASSUME NEW n \in Nodes, NEW T \in SUBSET LeadsTo(n), Finishes(n, T)
      PROVE  CountInv(most)'
  <2>1. pc = "nodes" /\ n \in next_nodes /\ saved' = saved
    BY <1>8 DEF Finishes
  <2>2. 1 \in 1..most[n]
    OBVIOUS
  <2>3. /\ completed_nodes' = completed_nodes \cup {n}
        /\ \/ values' = [values EXCEPT ![n] = @ + 1] /\ errors' = errors
           \/ errors' = [errors EXCEPT ![n] = @ + 1] /\ values' = values
    BY <1>8 DEF Finishes
  <2>4. QED
    BY <2>1, <2>2, <2>3, CountMoves
<1>9. CASE UNCHANGED vars
  BY <1>9, <1>i DEF vars, CountInv, RunCounts
<1>10. QED
  BY <1>1, <1>2, <1>3, <1>4, <1>5, <1>6, <1>7, <1>8, <1>9, OnceSteps

LEMMA EffectsInit == LeadsOnce /\ Init => EffectsInv
BY OnceInit, CountInit DEF EffectsInv

LEMMA EffectsNext == OneWay /\ EffectsInv /\ [Next]_vars => EffectsInv'
<1>1. One \in [Nodes -> Nat \ {0}]
  BY DEF One
<1>2. QED
  BY <1>1, OnceNext, CountNext DEF EffectsInv

LEMMA EffectsOfInv == EffectsInv => EffectsOnce
BY OneRecord DEF EffectsInv, CountInv, EffectsOnce

\* EffectsOnce, the invariant of the run "review", for every graph without Sends that leads
\* to every node once, on a thread with one input: whatever pauses, crashes, resumes and
\* retries do, a completed node has left one record in the checkpoint and no other has any.
THEOREM EachNodeOnce ==
  ASSUME OneWay PROVE Spec => []EffectsOnce
<1>1. EffectsInv => EffectsOnce
  BY EffectsOfInv
<1>2. Init => EffectsInv
  BY EffectsInit DEF OneWay
<1>3. EffectsInv /\ [Next]_vars => EffectsInv'
  BY EffectsNext
<1>4. QED
  BY <1>1, <1>2, <1>3, PTL DEF Spec

-----------------------------------------------------------------------------
(* A node that asked is pending: it had not completed when it asked.       *)

AskerInv == OnceInv /\ InterruptedNodeIsNext

LEMMA AskerNext == OneWay /\ AskerInv /\ [Next]_vars => AskerInv'
<1> SUFFICES ASSUME OneWay, AskerInv, [Next]_vars
             PROVE  \A q \in saved'.asked : q[1] \in saved'.next
  BY OnceNext DEF AskerInv, InterruptedNodeIsNext
<1>t. ThreadTypeOK /\ RunOrderly /\ OnceInv
  BY TypeParts DEF AskerInv, OnceInv, FanInInv
<1>i. \A q \in saved.asked : q[1] \in saved.next
  BY DEF AskerInv, InterruptedNodeIsNext
<1>1. CASE Invoke \/ Resume
  <2>1. PICK next, at, resume : Enter(next, at, resume)
    BY <1>1 DEF Invoke, Resume
  <2>2. saved'.asked = {}
    BY <2>1, <1>t DEF Enter, ThreadTypeOK, CheckpointType
  <2>3. QED
    BY <2>2
<1>2. CASE Finish \/ RecursionError \/ Crash \/ StartStep
  BY <1>2, <1>i DEF Finish, RecursionError, Crash, StartStep
<1>3. CASE PauseBefore \/ PauseAfter \/ EndStep
  BY <1>3 DEF PauseBefore, PauseAfter, EndStep, StepCheckpoint, Checkpoint
<1>4. ASSUME NEW n \in Nodes, SkipNode(n) \/ \E T \in SUBSET LeadsTo(n) : Finishes(n, T)
      PROVE  saved' = saved
  BY <1>4 DEF SkipNode, Taken, Finishes
<1>5. ASSUME NEW n \in Nodes, InterruptNode(n)
      PROVE  \A q \in saved'.asked : q[1] \in saved'.next
  <2>1. /\ pc = "nodes" /\ n \in next_nodes
        /\ saved'.asked = {<<n, Answers>>} /\ saved'.next = LeftAtInterrupt(n)
    BY <1>5 DEF InterruptNode, Checkpoint
  <2>2. n \in LeftAtInterrupt(n)
    BY <1>t, <2>1 DEF RunOrderly, Orderly, LeftAtInterrupt
  <2>3. QED
    BY <2>1, <2>2
<1>6. CASE UNCHANGED vars
  BY <1>6, <1>i DEF vars
<1>7. QED
  BY <1>i, <1>t, <1>1, <1>2, <1>3, <1>4, <1>5, <1>6, OnceSteps

\* InterruptedNodeIsNext, the invariant of the run "review", for every graph without Sends
\* that leads to every node once, on a thread with one input: a resume runs the node again
\* that asked.
THEOREM AskerIsNext ==
  ASSUME OneWay PROVE Spec => []InterruptedNodeIsNext
<1>1. AskerInv => InterruptedNodeIsNext
  BY DEF AskerInv
<1>2. Init => InterruptedNodeIsNext
  BY DEF Init, NoCheckpoint, InterruptedNodeIsNext
<1>3. Init => AskerInv
  BY <1>2, OnceInit DEF AskerInv, OneWay
<1>4. AskerInv /\ [Next]_vars => AskerInv'
  BY AskerNext
<1>5. QED
  BY <1>1, <1>3, <1>4, PTL DEF Spec

-----------------------------------------------------------------------------
(* No work is lost between the checkpoints of such a graph, if its nodes   *)
(* do not override their edges and find their inputs.                      *)

Unskipped == \A n \in Nodes : Needs[n] = {}

Straight == Unskipped /\ (\A n \in Nodes : Gotos[n] = {}) /\ (\A w \in WaitingEdges : w.starts # {})

\* What the completed nodes lead to is pending or has completed.
LedOn(next, done, vs, es) ==
  /\ \E s \in StartSets : s \subseteq done \cup next
  /\ \A n \in done : /\ vs[n] > 0 => Successors(n) \subseteq done \cup next
                     /\ es[n] > 0 => ErrorHandler[n] \in done \cup next

JoinsLeft(next, done) ==
  \A w \in WaitingEdges : next = {} /\ w.starts \subseteq done => w.end \in done

RunLedOn == pc # "idle" => LedOn(next_nodes \cup new_next, completed_nodes, values, errors)

KeptInv == EffectsInv /\ NothingLost /\ RunLedOn

LEMMA LedOnMore ==
  ASSUME NEW next, NEW done, NEW vs, NEW es, LedOn(next, done, vs, es),
         NEW more, next \subseteq more \cup done
  PROVE  LedOn(more, done, vs, es)
<1>1. done \cup next \subseteq done \cup more
  OBVIOUS
<1>2. QED
  BY <1>1 DEF LedOn

LEMMA FinishLedOn ==
  ASSUME RunTypeOK, Straight, NEW n \in Nodes, NEW T, Finishes(n, T), n \notin completed_nodes,
         RecordsWithin(values, errors, completed_nodes, One),
         LedOn(next_nodes \cup new_next, completed_nodes, values, errors)
  PROVE  LedOn(next_nodes' \cup new_next', completed_nodes', values', errors')
<1> DEFINE had == completed_nodes \cup (next_nodes \cup new_next)
           has == completed_nodes' \cup (next_nodes' \cup new_next')
<1>1. /\ completed_nodes' = completed_nodes \cup {n}
      /\ had \subseteq has /\ T \subseteq has
  BY DEF Finishes
<1>2. \E s \in StartSets : s \subseteq has
  BY <1>1 DEF LedOn
<1>3. ASSUME NEW m \in completed_nodes'
      PROVE  /\ values'[m] > 0 => Successors(m) \subseteq has
             /\ errors'[m] > 0 => ErrorHandler[m] \in has
  <2>t. /\ m \in Nodes /\ values \in [Nodes -> Nat] /\ errors \in [Nodes -> Nat]
        /\ values[n] \in Nat /\ errors[n] \in Nat
    BY <1>1 DEF RunTypeOK
  <2>1. CASE m # n
    <3>1. m \in completed_nodes /\ values'[m] = values[m] /\ errors'[m] = errors[m]
      BY <1>1, <2>1, <2>t DEF Finishes
    <3>2. /\ values[m] > 0 => Successors(m) \subseteq had
          /\ errors[m] > 0 => ErrorHandler[m] \in had
      BY <3>1 DEF LedOn
    <3> HIDE DEF had, has
    <3>3. QED
      BY <1>1, <3>1, <3>2
  <2>2. CASE m = n
    <3>1. values[n] + errors[n] = 0
      BY OneRecord
    <3>2. values[n] = 0 /\ errors[n] = 0
      BY <2>t, <3>1
    <3>3. \/ Successors(n) \subseteq T /\ errors'[n] = 0
          \/ ErrorHandler[n] \in T /\ values'[n] = 0
      BY <2>t, <3>2 DEF Finishes, Straight
    <3> HIDE DEF had, has
    <3>4. QED
      BY <1>1, <2>2, <3>3
  <2>3. QED
    BY <2>1, <2>2
<1>4. QED
  BY <1>2, <1>3 DEF LedOn

LEMMA NothingLostParts ==
  NothingLost <=> (saved.kind # "none" =>
                     /\ LedOn(saved.next, saved.completed, saved.values, saved.errors)
                     /\ JoinsLeft(saved.next, saved.completed))
BY DEF NothingLost, LedOn, JoinsLeft

LEMMA KeptNext == OneWay /\ Straight /\ KeptInv /\ [Next]_vars => KeptInv'
<1> DEFINE Kept == /\ LedOn(saved.next, saved.completed, saved.values, saved.errors)
                   /\ JoinsLeft(saved.next, saved.completed)
<1> SUFFICES ASSUME OneWay, Straight, KeptInv, [Next]_vars
             PROVE  (saved.kind # "none" => Kept)' /\ RunLedOn'
  <2>1. (saved.kind # "none" => Kept)' => NothingLost'
    BY DEF NothingLost, LedOn, JoinsLeft
  <2>2. QED
    BY <2>1, EffectsNext DEF KeptInv
<1>t. ThreadTypeOK /\ RunTypeOK /\ OnceInv /\ RunOrderly /\ CountInv(One) /\ FirstInput
  BY TypeParts DEF KeptInv, EffectsInv, OnceInv, FanInInv
<1>i. (saved.kind # "none" => Kept) /\ RunLedOn
  BY NothingLostParts DEF KeptInv
<1>s. ASSUME Return, saved' = saved
      PROVE  (saved.kind # "none" => Kept)' /\ RunLedOn'
  BY <1>s, <1>i DEF Return, RunLedOn
\* A checkpoint of the channels is saved whose next nodes are those that are left.
<1>c. ASSUME pc # "idle", saved'.values = values, saved'.errors = errors,
             saved'.completed = completed_nodes,
             next_nodes \cup new_next \subseteq saved'.next,
             JoinsLeft(saved'.next, completed_nodes)
      PROVE  Kept'
  <2>1. LedOn(next_nodes \cup new_next, completed_nodes, values, errors)
    BY <1>c, <1>i DEF RunLedOn
  <2>2. LedOn(saved'.next, completed_nodes, values, errors)
    BY <1>c, <2>1, LedOnMore
  <2>3. QED
    BY <1>c, <2>2
<1>1. CASE Invoke
  <2>1. saved.completed = {}
    BY <1>1, <1>t, LimitAssumption DEF Invoke, OneWay, FirstInput, NoCheckpoint, ThreadTypeOK
  <2>2. PICK s \in StartSets, resume \in BOOLEAN : Enter(s, 0, resume)
    BY <1>1 DEF Invoke
  <2>3. saved'.next = s /\ saved'.completed = {} /\ saved'.values = saved.values
          /\ saved'.errors = saved.errors
    BY <1>t, <2>1, <2>2 DEF Enter, ThreadTypeOK, CheckpointType
  <2>4. next_nodes' = s /\ completed_nodes' = {}
    BY <2>1, <2>2 DEF Enter
  <2>5. \A vs, es, more : LedOn(s \cup more, {}, vs, es)
    BY DEF LedOn
  <2>6. JoinsLeft(s, {})
    BY DEF Straight, JoinsLeft
  <2>7. s \cup {} = s
    OBVIOUS
  <2>8. LedOn(s, {}, saved'.values, saved'.errors)
    BY <2>5, <2>7
  <2>9. QED
    BY <2>3, <2>4, <2>5, <2>6, <2>8 DEF RunLedOn
<1>2. CASE Resume
  <2>1. PICK resume \in BOOLEAN : Enter(saved.next, saved.step, resume)
    BY <1>2 DEF Resume
  <2>2. saved'.next = saved.next /\ saved'.completed = saved.completed
          /\ saved'.values = saved.values /\ saved'.errors = saved.errors
    BY <1>t, <2>1 DEF Enter, ThreadTypeOK, CheckpointType
  <2>3. /\ next_nodes' = saved.next /\ completed_nodes' = saved.completed
        /\ values' = saved.values /\ errors' = saved.errors
    BY <2>1 DEF Enter, Restored
  <2>4. Kept
    BY <1>2, <1>i DEF Resume
  <2>5. LedOn(saved.next \cup new_next', saved.completed, saved.values, saved.errors)
    BY <2>4, LedOnMore
  <2>6. QED
    BY <2>2, <2>3, <2>4, <2>5 DEF RunLedOn
<1>3. CASE Finish \/ RecursionError \/ Crash
  BY <1>3, <1>s DEF Finish, RecursionError, Crash
<1>4. CASE PauseBefore
  <2>1. /\ pc = "step" /\ next_nodes # {} /\ Return /\ saved'.values = values
        /\ saved'.errors = errors /\ saved'.completed = completed_nodes /\ saved'.next = Due
    BY <1>4 DEF PauseBefore, Checkpoint
  <2>2. new_next = {} /\ Due # {} /\ next_nodes \cup new_next \subseteq Due
    BY <1>t, <2>1 DEF RunOrderly, Due
  <2>3. JoinsLeft(Due, completed_nodes)
    BY <2>2 DEF JoinsLeft
  <2>4. QED
    BY <1>c, <2>1, <2>2, <2>3 DEF Return, RunLedOn
<1>5. CASE StartStep
  <2>1. pc = "step" /\ new_next = {}
    BY <1>5, <1>t DEF StartStep, RunOrderly
  <2>2. LedOn(next_nodes \cup new_next, completed_nodes, values, errors)
    BY <1>i, <2>1 DEF RunLedOn
  <2>3. /\ next_nodes' = Due /\ new_next' = {} /\ UNCHANGED <<saved, completed_nodes, values, errors>>
    BY <1>5 DEF StartStep, channels
  <2>4. next_nodes \cup new_next \subseteq (next_nodes' \cup new_next') \cup completed_nodes
    BY <2>1, <2>3 DEF Due
  <2>5. LedOn(next_nodes' \cup new_next', completed_nodes, values, errors)
    BY <2>2, <2>4, LedOnMore
  <2>6. QED
    BY <1>i, <2>3, <2>5 DEF RunLedOn
<1>6. CASE PauseAfter \/ EndStep
  <2>1. /\ pc = "nodes" /\ next_nodes = {} /\ saved'.values = values
        /\ saved'.errors = errors /\ saved'.completed = completed_nodes
        /\ saved'.next = NextStep
    BY <1>6 DEF PauseAfter, EndStep, StepCheckpoint, Checkpoint, StepDone, NodesDone
  <2>2. next_nodes \cup new_next \subseteq NextStep
    BY <2>1 DEF NextStep
  <2>3. JoinsLeft(NextStep, completed_nodes)
    <3>1. ASSUME NEW w \in WaitingEdges, NextStep = {}, w.starts \subseteq completed_nodes,
                 w.end \notin completed_nodes
          PROVE  FALSE
      <4>1. new_next = {} /\ w.end \notin new_next \cup completed_nodes
        BY <3>1 DEF NextStep
      <4>2. w.end \in FanIn(new_next)
        BY <3>1, <4>1 DEF FanIn
      <4>3. QED
        BY <3>1, <4>2 DEF NextStep
    <3>2. QED
      BY <3>1 DEF JoinsLeft
  <2>4. Kept'
    BY <1>c, <2>1, <2>2, <2>3
  <2>5. CASE PauseAfter
    BY <2>4, <2>5 DEF PauseAfter, Return, RunLedOn
  <2>6. CASE EndStep
    <3>1. /\ next_nodes' = NextStep /\ completed_nodes' = completed_nodes
          /\ UNCHANGED <<values, errors>>
      BY <2>6 DEF EndStep, channels
    <3>2. LedOn(NextStep \cup new_next', completed_nodes, values, errors)
      BY <2>1, <2>4, LedOnMore
    <3>3. QED
      BY <2>4, <3>1, <3>2 DEF RunLedOn
  <2>7. QED
    BY <1>6, <2>5, <2>6
<1>7. \A n \in Nodes : ~SkipNode(n)
  BY DEF SkipNode, Available, Straight, Unskipped
<1>8. ASSUME NEW n \in Nodes, InterruptNode(n)
      PROVE  (saved.kind # "none" => Kept)' /\ RunLedOn'
  <2>1. /\ pc = "nodes" /\ n \in next_nodes /\ Return /\ saved'.values = values
        /\ saved'.errors = errors /\ saved'.completed = completed_nodes
        /\ saved'.next = LeftAtInterrupt(n)
    BY <1>8 DEF InterruptNode, Checkpoint
  <2>2. next_nodes \cup new_next \subseteq LeftAtInterrupt(n) /\ LeftAtInterrupt(n) # {}
    BY <1>t, <2>1 DEF RunOrderly, Orderly, LeftAtInterrupt
  <2>3. JoinsLeft(LeftAtInterrupt(n), completed_nodes)
    BY <2>2 DEF JoinsLeft
  <2>4. QED
    BY <1>c, <2>1, <2>2, <2>3 DEF Return, RunLedOn
<1>9. ASSUME NEW n \in Nodes, NEW T \in SUBSET LeadsTo(n), Finishes(n, T)
      PROVE  (saved.kind # "none" => Kept)' /\ RunLedOn'
  <2>1. pc = "nodes" /\ n \in next_nodes /\ saved' = saved
    BY <1>9 DEF Finishes
  <2>2. n \notin completed_nodes /\ RecordsWithin(values, errors, completed_nodes, One)
    BY <1>t, <2>1 DEF RunOrderly, Orderly, CountInv, RunCounts
  <2>3. LedOn(next_nodes' \cup new_next', completed_nodes', values', errors')
    BY <1>9, <1>t, <1>i, <2>1, <2>2, FinishLedOn DEF RunLedOn
  <2>4. QED
    BY <1>i, <2>1, <2>3 DEF RunLedOn
<1>10. CASE UNCHANGED vars
  BY <1>10, <1>i DEF vars, RunLedOn
<1>11. QED
  BY <1>t, <1>1, <1>2, <1>3, <1>4, <1>5, <1>6, <1>7, <1>8, <1>9, <1>10, OnceSteps

\* NothingLost, the invariant of the run "review", for every graph without Sends and gotos
\* that leads to every node once: whatever stops an invocation, what the completed nodes
\* lead to is in the checkpoint, and a fan-in that is due is not forgotten.
THEOREM WorkIsKept ==
  ASSUME OneWay, Straight PROVE Spec => []NothingLost
<1>1. KeptInv => NothingLost
  BY DEF KeptInv
<1>2. Init => NothingLost /\ RunLedOn
  BY DEF Init, NoCheckpoint, NothingLost, RunLedOn
<1>3. Init => KeptInv
  BY <1>2, EffectsInit DEF KeptInv, OneWay
<1>4. KeptInv /\ [Next]_vars => KeptInv'
  BY KeptNext
<1>5. QED
  BY <1>1, <1>3, <1>4, PTL DEF Spec

-----------------------------------------------------------------------------
(* The engine implements DurableThread on such a graph, if its nodes find  *)
(* their inputs.  What runs between two checkpoints was pending, or became *)
(* due by a waiting edge, and what it selects it leads to.                 *)

Follows(cp, done, left, selected) ==
  /\ cp.completed \subseteq done
  /\ cp.next \subseteq done \cup left
  /\ \A n \in (done \ cp.completed) \cup left : n \in cp.next \/ Joined(n, cp.completed)
  /\ LedBy(selected, done \ cp.completed)

RunFollows ==
  pc # "idle" =>
    /\ pc = "step" => completed_nodes = saved.completed
    /\ Follows(saved, completed_nodes, next_nodes, new_next)

LEMMA FollowsOn ==
  ASSUME NEW cp, NEW done, NEW left, NEW selected, Follows(cp, done, left, selected),
         NEW F \in SUBSET left, F \cap done = {}, NEW T, LedBy(T, F)
  PROVE  Follows(cp, done \cup F, left \ F, selected \cup T)
<1>1. F \subseteq (done \cup F) \ cp.completed
  BY DEF Follows
<1>2. LedBy(selected \cup T, (done \cup F) \ cp.completed)
  BY <1>1 DEF Follows, LedBy
<1>3. QED
  BY <1>2 DEF Follows

LEMMA FollowsNext ==
  ASSUME OneWay, Unskipped, OnceInv, RunFollows, [Next]_vars
  PROVE  RunFollows'
<1>t. ThreadTypeOK /\ RunTypeOK /\ RunOrderly
  BY TypeParts DEF OnceInv, FanInInv
<1>e. ASSUME NEW next, NEW at, NEW resume, Enter(next, at, resume) PROVE RunFollows'
  <2>1. saved'.next = next /\ saved'.completed = saved.completed
    BY <1>e, <1>t DEF Enter, ThreadTypeOK, CheckpointType
  <2>2. /\ next_nodes' = next /\ completed_nodes' = saved.completed /\ new_next' = {}
    BY <1>e, <1>t DEF Enter, RunOrderly
  <2>3. QED
    BY <2>1, <2>2 DEF RunFollows, Follows, LedBy
<1>1. CASE Invoke \/ Resume
  BY <1>1, <1>e DEF Invoke, Resume
<1>2. CASE Finish \/ RecursionError \/ Crash \/ PauseBefore \/ PauseAfter
  BY <1>2 DEF Finish, RecursionError, Crash, PauseBefore, PauseAfter, Return, RunFollows
<1>3. CASE StartStep
  <2>1. /\ pc = "step" /\ pc' = "nodes" /\ next_nodes' = Due /\ new_next' = {}
        /\ UNCHANGED <<saved, completed_nodes>>
    BY <1>3 DEF StartStep
  <2>2. /\ completed_nodes = saved.completed /\ saved.next \subseteq completed_nodes \cup next_nodes
        /\ \A n \in next_nodes : n \in saved.next \/ Joined(n, saved.completed)
    BY <2>1 DEF RunFollows, Follows
  <2>3. \A n \in FanIn(next_nodes) : Joined(n, saved.completed)
    BY <2>2, FanInJoined
  <2>4. QED
    BY <2>1, <2>2, <2>3 DEF RunFollows, Follows, LedBy, Due
<1>4. CASE EndStep
  <2>1. /\ saved'.next = NextStep /\ saved'.completed = completed_nodes
        /\ next_nodes' = NextStep /\ completed_nodes' = completed_nodes /\ new_next' = {}
    BY <1>4 DEF EndStep, StepCheckpoint, Checkpoint
  <2>2. QED
    BY <2>1 DEF RunFollows, Follows, LedBy
<1>5. \A n \in Nodes : ~SkipNode(n)
  BY DEF SkipNode, Available, Unskipped
<1>6. ASSUME NEW n \in Nodes, InterruptNode(n) PROVE RunFollows'
  BY <1>6 DEF InterruptNode, Return, RunFollows
<1>7. ASSUME NEW n \in Nodes, NEW T \in SUBSET LeadsTo(n), Finishes(n, T) PROVE RunFollows'
  <2>1. PICK F \in SUBSET next_nodes : F = {n}
    BY <1>7 DEF Finishes
  <2>2. /\ pc = "nodes" /\ pc' = pc /\ saved' = saved
        /\ next_nodes' = next_nodes \ F /\ completed_nodes' = completed_nodes \cup F
        /\ new_next' = new_next \cup T /\ LedBy(T, F)
    BY <1>7, <2>1 DEF Finishes, LedBy
  <2>3. F \cap completed_nodes = {} /\ Follows(saved, completed_nodes, next_nodes, new_next)
    BY <1>t, <2>2 DEF RunOrderly, Orderly, RunFollows
  <2>4. Follows(saved, completed_nodes \cup F, next_nodes \ F, new_next \cup T)
    BY <2>2, <2>3, FollowsOn
  <2>5. QED
    BY <2>2, <2>4 DEF RunFollows
<1>8. CASE UNCHANGED vars
  BY <1>8 DEF vars, RunFollows
<1>9. QED
  BY <1>1, <1>2, <1>3, <1>4, <1>5, <1>6, <1>7, <1>8, OnceSteps

\* What DurableThread sees of a checkpoint, and of a step that saves one.
Records == [n \in Nodes |-> saved.values[n] + saved.errors[n]]

HasRecords(j, left) == \E w \in WaitingEdges : w.end = j /\ \A s \in w.starts : left[s] > 0

AdvancesBy(ran, most) ==
  /\ \A n \in ran \ saved.next : HasRecords(n, Records)
  /\ \A n \in Nodes : Records'[n] - Records[n] \in IF n \in ran THEN 1..most[n] ELSE {0}
  /\ saved.next \ ran \subseteq saved'.next
  /\ \A m \in saved'.next \ (saved.next \ ran) :
       \/ \E n \in ran : n \in Nodes /\ m \in Nodes /\ m \in LeadsTo(n)
       \/ HasRecords(m, Records')

\* Saving a checkpoint with the nodes that are left, those selected, and those that waiting
\* edges make due, advances the thread by the nodes completed since the last checkpoint.
LEMMA SaveAdvances ==
  ASSUME NEW most \in [Nodes -> Nat \ {0}], OnceInv, CountInv(most), CountInv(most)',
         NEW done \in SUBSET Nodes, NEW left \in SUBSET Nodes, NEW selected \in SUBSET Nodes,
         Follows(saved, done, left, selected), left \cap done = {}, saved'.completed = done,
         \A n \in saved.completed : Records'[n] = Records[n],
         left \subseteq saved'.next,
         \A m \in saved'.next : m \in left \cup selected \/ Joined(m, done)
  PROVE  \E ran \in SUBSET Nodes : AdvancesBy(ran, most)
<1>t. ThreadTypeOK /\ Orderly(saved.next, saved.completed)
  BY TypeParts DEF OnceInv, FanInInv
<1>0. PICK ran \in SUBSET Nodes : ran = done \ saved.completed
  OBVIOUS
<1>f. /\ saved.completed \subseteq done
      /\ saved.next \subseteq done \cup left
      /\ \A n \in ran \cup left : n \in saved.next \/ Joined(n, saved.completed)
      /\ \A m \in selected : \E n \in ran : m \in LeadsTo(n)
  BY <1>0 DEF Follows, LedBy
<1>r. /\ \A n \in Nodes : Records[n] \in IF n \in saved.completed THEN 1..most[n] ELSE {0}
      /\ \A n \in Nodes : Records'[n] \in IF n \in done THEN 1..most[n] ELSE {0}
  BY DEF CountInv, RecordsWithin, Records
<1>s. \A w \in WaitingEdges : w.starts \subseteq Nodes
  BY GraphAssumption
<1>1. ASSUME NEW j, Joined(j, saved.completed) PROVE HasRecords(j, Records)
  <2>1. \A n \in Nodes : n \in saved.completed => Records[n] > 0
    <3> TAKE n \in Nodes
    <3>1. most[n] \in Nat
      OBVIOUS
    <3>2. QED
      BY <1>r, <3>1
  <2>2. QED
    BY <1>1, <1>s, <2>1 DEF Joined, HasRecords
<1>2. ASSUME NEW j, Joined(j, done) PROVE HasRecords(j, Records')
  <2>1. \A n \in Nodes : n \in done => Records'[n] > 0
    <3> TAKE n \in Nodes
    <3>1. most[n] \in Nat
      OBVIOUS
    <3>2. QED
      BY <1>r, <3>1
  <2>2. QED
    BY <1>2, <1>s, <2>1 DEF Joined, HasRecords
<1>3. \A n \in ran \ saved.next : HasRecords(n, Records)
  BY <1>1, <1>f
<1>4. \A n \in Nodes : Records'[n] - Records[n] \in IF n \in ran THEN 1..most[n] ELSE {0}
  <2> TAKE n \in Nodes
  <2>1. CASE n \in saved.completed
    <3>1. Records'[n] = Records[n] /\ Records[n] \in 1..most[n] /\ n \notin ran
      BY <1>0, <1>r, <2>1
    <3>2. QED
      BY <3>1
  <2>2. CASE n \in ran
    <3>1. Records[n] = 0 /\ Records'[n] \in 1..most[n]
      BY <1>0, <1>r, <2>2
    <3>2. QED
      BY <2>2, <3>1
  <2>3. CASE n \notin done
    <3>1. Records[n] = 0 /\ Records'[n] = 0 /\ n \notin ran
      BY <1>0, <1>f, <1>r, <2>3
    <3>2. QED
      BY <3>1
  <2>4. QED
    BY <1>0, <2>1, <2>2, <2>3
<1>5. saved.next \ ran \subseteq saved'.next
  <2>1. saved.next \cap saved.completed = {}
    BY <1>t DEF Orderly
  <2>2. QED
    BY <1>0, <1>f, <2>1
<1>6. ASSUME NEW m \in saved'.next \ (saved.next \ ran)
      PROVE  \/ \E n \in ran : n \in Nodes /\ m \in Nodes /\ m \in LeadsTo(n)
             \/ HasRecords(m, Records')
  <2>1. CASE Joined(m, done)
    BY <1>2, <2>1
  <2>2. CASE m \in selected
    BY <1>f, <2>2
  <2>3. CASE m \in left
    <3>1. m \notin ran
      BY <1>0, <2>3
    <3>2. Joined(m, saved.completed)
      BY <1>6, <1>f, <2>3, <3>1
    <3>3. Joined(m, done)
      BY <1>f, <3>2, JoinedMonotone
    <3>4. QED
      BY <1>2, <3>3
  <2>4. QED
    BY <2>1, <2>2, <2>3
<1>7. AdvancesBy(ran, most)
  BY <1>3, <1>4, <1>5, <1>6 DEF AdvancesBy
<1>8. QED
  BY <1>7

\* What a step may do to the pending nodes and the records of the thread.
Promised(most) ==
  \/ saved'.next \in StartSets /\ Records' = Records
  \/ \E ran \in SUBSET Nodes : AdvancesBy(ran, most)
  \/ UNCHANGED <<saved.next, Records>>

LEMMA ThreadSteps ==
  ASSUME NEW most \in [Nodes -> Nat \ {0}], OneWay, Unskipped,
         OnceInv, CountInv(most), RunFollows, [Next]_vars
  PROVE  Promised(most)
<1>t. ThreadTypeOK /\ RunTypeOK /\ RunOrderly /\ CountInv(most)'
  BY TypeParts, CountNext DEF OnceInv, FanInInv
<1>s. ASSUME saved' = saved PROVE Promised(most)
  BY <1>s DEF Records, Promised
<1>a. ASSUME pc # "idle", saved'.completed = completed_nodes, next_nodes \subseteq saved'.next,
             saved'.values = values, saved'.errors = errors,
             \A m \in saved'.next : m \in next_nodes \cup new_next \/ Joined(m, completed_nodes)
      PROVE  Promised(most)
  <2>1. /\ Follows(saved, completed_nodes, next_nodes, new_next)
        /\ next_nodes \cap completed_nodes = {} /\ saved.completed \subseteq Nodes
        /\ \A n \in saved.completed : values[n] + errors[n] = saved.values[n] + saved.errors[n]
    BY <1>a, <1>t DEF RunFollows, RunOrderly, Orderly, CountInv, RunCounts, ThreadTypeOK,
                      CheckpointType
  <2>2. \A n \in saved.completed : Records'[n] = Records[n]
    BY <1>a, <2>1 DEF Records
  <2>3. \E ran \in SUBSET Nodes : AdvancesBy(ran, most)
    BY <1>a, <1>t, <2>1, <2>2, SaveAdvances DEF RunTypeOK
  <2>4. QED
    BY <2>3 DEF Promised
<1>j. \A S : \A m \in FanIn(S) : Joined(m, completed_nodes)
  BY FanInJoined
<1>1. CASE Invoke \/ Resume
  <2>1. PICK next, at, resume :
          Enter(next, at, resume) /\ (next \in StartSets \/ next = saved.next)
    <3>1. CASE Invoke
      BY <3>1 DEF Invoke
    <3>2. CASE Resume
      BY <3>2 DEF Resume
    <3>3. QED
      BY <1>1, <3>1, <3>2
  <2>2. /\ saved'.next = next /\ saved'.values = saved.values /\ saved'.errors = saved.errors
    BY <1>t, <2>1 DEF Enter, ThreadTypeOK, CheckpointType
  <2>3. Records' = Records
    BY <2>2 DEF Records
  <2>4. QED
    BY <2>1, <2>2, <2>3 DEF Promised
<1>2. CASE Finish \/ RecursionError \/ Crash \/ StartStep
  BY <1>2, <1>s DEF Finish, RecursionError, Crash, StartStep
<1>3. CASE PauseBefore
  <2>1. /\ pc = "step" /\ saved'.completed = completed_nodes /\ saved'.next = Due
        /\ saved'.values = values /\ saved'.errors = errors
    BY <1>3 DEF PauseBefore, Checkpoint
  <2>2. QED
    BY <1>a, <1>j, <2>1 DEF Due
<1>4. CASE PauseAfter \/ EndStep
  <2>1. /\ pc = "nodes" /\ next_nodes = {}
        /\ saved'.completed = completed_nodes /\ saved'.next = NextStep
        /\ saved'.values = values /\ saved'.errors = errors
    BY <1>4 DEF PauseAfter, EndStep, StepCheckpoint, Checkpoint, StepDone, NodesDone
  <2>2. QED
    BY <1>a, <1>j, <2>1 DEF NextStep
<1>5. ASSUME NEW n \in Nodes, InterruptNode(n) PROVE Promised(most)
  <2>1. /\ pc = "nodes" /\ saved'.completed = completed_nodes
        /\ saved'.next = LeftAtInterrupt(n) /\ saved'.values = values /\ saved'.errors = errors
    BY <1>5 DEF InterruptNode, Checkpoint
  <2>2. next_nodes \subseteq LeftAtInterrupt(n)
    BY <1>t, <2>1 DEF RunOrderly, Orderly, LeftAtInterrupt
  <2>3. QED
    BY <1>a, <2>1, <2>2 DEF LeftAtInterrupt
<1>6. ASSUME NEW n \in Nodes, SkipNode(n) \/ \E T \in SUBSET LeadsTo(n) : Finishes(n, T)
      PROVE  Promised(most)
  BY <1>6, <1>s DEF SkipNode, Taken, Finishes
<1>7. CASE UNCHANGED vars
  BY <1>7, <1>s DEF vars
<1>8. QED
  BY <1>1, <1>2, <1>3, <1>4, <1>5, <1>6, <1>7, OnceSteps

ThreadInv == EffectsInv /\ RunFollows

LEMMA ThreadInit == LeadsOnce /\ Init => ThreadInv
BY EffectsInit DEF Init, ThreadInv, RunFollows

LEMMA ThreadNext == OneWay /\ Unskipped /\ ThreadInv /\ [Next]_vars => ThreadInv'
BY EffectsNext, FollowsNext DEF ThreadInv, EffectsInv

\* The promise in the words of DurableThread.
LEMMA PromisedOne == Promised(One) => [Thread!Next]_<<saved.next, Records>>
<1> SUFFICES ASSUME NEW ran \in SUBSET Nodes, AdvancesBy(ran, One) PROVE Thread!Advance(ran)
  BY DEF Promised, Thread!Next, Thread!Begin, Records
<1>1. \A n \in ran \ saved.next : Thread!Ready(n, Records)
  BY DEF AdvancesBy, HasRecords, Thread!Ready
<1>2. \A n \in Nodes : Records'[n] - Records[n] \in IF n \in ran THEN 1..One[n] ELSE {0}
  BY DEF AdvancesBy
<1>3. saved.next \ ran \subseteq saved'.next
  BY DEF AdvancesBy
<1>4. \A m \in saved'.next \ (saved.next \ ran) :
        \/ \E n \in ran : <<n, m>> \in {e \in Nodes \X Nodes : e[2] \in LeadsTo(e[1])}
        \/ Thread!Ready(m, Records')
  BY DEF AdvancesBy, HasRecords, Thread!Ready
<1>5. QED
  BY <1>1, <1>2, <1>3, <1>4 DEF Thread!Advance, Records, One

\* ImplementsThread, the property of the run "review", for every graph without Sends that
\* leads to every node once and whose nodes find their inputs: every step of the engine is
\* one of DurableThread or cannot be seen in the thread's pending nodes and records.
THEOREM EngineImplementsThread ==
  ASSUME OneWay, Unskipped PROVE Spec => ImplementsThread
<1>1. Init => Thread!Init
  BY DEF Init, NoCheckpoint, Nowhere, Thread!Init
<1>2. Init => ThreadInv
  BY ThreadInit DEF OneWay
<1>3. ThreadInv /\ [Next]_vars => ThreadInv'
  BY ThreadNext
<1>4. ThreadInv /\ [Next]_vars => [Thread!Next]_<<saved.next, Records>>
  <2>1. One \in [Nodes -> Nat \ {0}]
    BY DEF One
  <2>2. QED
    BY <2>1, ThreadSteps, PromisedOne DEF ThreadInv, EffectsInv
<1>5. QED
  BY <1>1, <1>2, <1>3, <1>4, PTL DEF Spec, ImplementsThread, Thread!Spec, Records

-----------------------------------------------------------------------------
(* Listed nodes.  The first step of a resumed invocation passes the gate   *)
(* of interrupt_before, with the nodes the caller was shown; no other step *)
(* has a listed node.                                                      *)

ListedApart == InterruptBefore \cap {w.end : w \in WaitingEdges} = {}

GateKept ==
  /\ pc = "step" /\ GateOpen => next_nodes = offered
  /\ pc = "nodes" => InterruptBefore \cap next_nodes \subseteq offered

ListedInv == FanInInv /\ NoSendsLeft /\ GateKept

LEMMA ListedNext == Sendless /\ ListedApart /\ ListedInv /\ [Next]_vars => ListedInv'
<1> SUFFICES ASSUME Sendless, ListedApart, ListedInv, [Next]_vars PROVE GateKept'
  BY FanInNext, SendlessSteps DEF ListedInv
<1>i. FanInInv /\ NoSendsLeft /\ GateKept /\ RunTypeOK
  BY TypeParts DEF ListedInv, FanInInv
<1>1. CASE Invoke
  <2>1. pc' = "step" /\ is_resuming' = FALSE
    BY <1>1 DEF Invoke, Enter
  <2>2. QED
    BY <2>1 DEF GateKept, GateOpen
<1>2. CASE Resume
  <2>1. pc' = "step" /\ next_nodes' = saved.next /\ offered' = saved.next
    BY <1>2 DEF Resume, Enter
  <2>2. QED
    BY <2>1 DEF GateKept
<1>3. CASE \E as \in UpdateAs : UpdateState(as)
  BY <1>3 DEF UpdateState, GateKept
<1>4. CASE Finish \/ RecursionError \/ Crash \/ PauseBefore \/ PauseAfter
  BY <1>4 DEF Finish, RecursionError, Crash, PauseBefore, PauseAfter, Return, GateKept
<1>5. CASE StartStep
  <2>1. /\ pc = "step" /\ Held = {} /\ pc' = "nodes" /\ next_nodes' = Due /\ offered' = offered
    BY <1>5 DEF StartStep, frame
  <2>2. FanIn(next_nodes) \cap InterruptBefore = {}
    BY DEF FanIn, ListedApart
  <2>3. CASE GateOpen
    BY <1>i, <2>1, <2>2, <2>3 DEF GateKept, Due
  <2>4. CASE ~GateOpen
    BY <2>1, <2>4 DEF GateKept, Held
  <2>5. QED
    BY <2>3, <2>4
<1>6. CASE EndStep
  <2>1. pc' = "step" /\ step' = step + 1 /\ step \in Nat
    BY <1>6, <1>i DEF EndStep, RunTypeOK
  <2>2. QED
    BY <2>1 DEF GateKept, GateOpen
<1>7. ASSUME NEW n \in Nodes, SkipNode(n) PROVE GateKept'
  BY <1>7, <1>i DEF SkipNode, Taken, frame, GateKept
<1>8. ASSUME NEW n \in Nodes, InterruptNode(n) PROVE GateKept'
  BY <1>8 DEF InterruptNode, Return, GateKept
<1>9. ASSUME NEW n \in Nodes, NEW T \in SUBSET LeadsTo(n), Finishes(n, T) PROVE GateKept'
  BY <1>9, <1>i DEF Finishes, GateKept
<1>10. CASE UNCHANGED vars
  BY <1>10, <1>i DEF vars, GateKept, GateOpen
<1>11. QED
  BY <1>i, <1>1, <1>2, <1>3, <1>4, <1>5, <1>6, <1>7, <1>8, <1>9, <1>10, SendlessSteps

LEMMA ListedSteps ==
  ASSUME Sendless, ListedInv, [Next]_vars, NEW n \in InterruptBefore, pc = "nodes",
         values'[n] > values[n]
  PROVE  n \in offered
<1>t. RunTypeOK /\ FanInInv /\ NoSendsLeft /\ GateKept /\ n \in Nodes
  BY TypeParts, LimitAssumption DEF ListedInv, FanInInv
<1>v. values[n] \in Nat /\ ~(values[n] > values[n]) /\ ~(0 > values[n])
  BY <1>t DEF RunTypeOK
<1>1. ~Return
  BY <1>t, <1>v DEF Return, Nowhere
<1>2. values' # values
  BY <1>v
<1>3. \E m \in Nodes : \E T \in SUBSET LeadsTo(m) : Finishes(m, T)
  <2>1. ~(Finish \/ RecursionError \/ Crash \/ PauseBefore \/ PauseAfter)
    BY <1>1 DEF Finish, RecursionError, Crash, PauseBefore, PauseAfter
  <2>2. ~(StartStep \/ EndStep)
    BY <1>2 DEF StartStep, EndStep, channels
  <2>3. ~(Invoke \/ Resume \/ \E as \in UpdateAs : UpdateState(as))
    BY DEF Invoke, Resume, Enter, UpdateState
  <2>4. \A m \in Nodes : ~SkipNode(m) /\ ~InterruptNode(m)
    BY <1>1, <1>2 DEF SkipNode, InterruptNode, channels
  <2>5. ~UNCHANGED vars
    BY <1>2 DEF vars
  <2>6. QED
    BY <1>t, <2>1, <2>2, <2>3, <2>4, <2>5, SendlessSteps
<1>4. PICK m \in Nodes : m \in next_nodes /\ (values' = [values EXCEPT ![m] = @ + 1] \/ values' = values)
  BY <1>3 DEF Finishes
<1>5. n = m
  BY <1>2, <1>4, <1>t, <1>v DEF RunTypeOK
<1>6. QED
  BY <1>4, <1>5, <1>t DEF GateKept

\* ListedWasOffered, the action property of the run "review", for every graph without Sends
\* in which no waiting edge leads to a node of interrupt_before: such a node runs only in an
\* invocation whose caller was shown that it is next.
THEOREM ListedIsOffered ==
  ASSUME Sendless, ListedApart PROVE Spec => ListedWasOffered
<1>1. Init => ListedInv
  BY FanInInit DEF Init, ListedInv, NoSendsLeft, GateKept, FanInInv
<1>2. ListedInv /\ [Next]_vars => ListedInv'
  BY ListedNext
<1>3. ListedInv /\ [Next]_vars =>
        [\A n \in InterruptBefore : pc = "nodes" /\ values'[n] > values[n] => n \in offered]_vars
  BY ListedSteps
<1>4. QED
  BY <1>1, <1>2, <1>3, PTL DEF Spec, ListedWasOffered

=============================================================================
