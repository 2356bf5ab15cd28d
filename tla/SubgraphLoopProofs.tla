------------------------- MODULE SubgraphLoopProofs -------------------------
(***************************************************************************)
(* Proofs about SubgraphLoop, for every outer and inner graph.             *)
(***************************************************************************)
EXTENDS SubgraphLoop, PregelLoopProofs

-----------------------------------------------------------------------------
(* The inner loop.  Its graph has plain edges only, so that five things    *)
(* can happen in it.                                                       *)

InnerType ==
  [kind : Inner!Kinds \cup {"subgraph"}, next : SUBSET SubNodes,
   completed : SUBSET SubNodes, values : [SubNodes -> Nat],
   errors : [SubNodes -> Nat], step : Nat, asked : SUBSET (SubNodes \X Nat)]

InnerTypeOK ==
  /\ i_saved \in InnerType
  /\ i_pc \in {"idle", "step", "nodes"} /\ i_step \in Nat /\ i_base \in Nat
  /\ i_values \in [SubNodes -> Nat] /\ i_errors \in [SubNodes -> Nat]
  /\ i_next_nodes \cup i_new_next \cup i_completed \cup i_prev \subseteq SubNodes

InnerStops ==
  /\ i_pc = "step" /\ i_saved' = i_saved
  /\ Inner!Return

InnerStarts ==
  /\ i_pc = "step" /\ i_next_nodes # {}
  /\ i_pc' = "nodes"
  /\ i_new_next' = {} /\ i_prev' = i_completed
  /\ UNCHANGED <<i_saved, i_step, i_next_nodes, i_completed, i_values, i_errors, i_is_resuming,
                 i_answered, i_base>>

InnerRuns(n) ==
  /\ i_pc = "nodes" /\ n \in i_next_nodes
  /\ i_next_nodes' = i_next_nodes \ {n}
  /\ i_completed' = i_completed \cup {n}
  /\ i_values' = [i_values EXCEPT ![n] = @ + 1]
  /\ i_new_next' = i_new_next \cup Inner!Successors(n)
  /\ UNCHANGED <<i_saved, i_pc, i_step, i_prev, i_errors, i_is_resuming, i_answered, i_base>>

InnerAsks(n) ==
  /\ i_pc = "nodes" /\ n \in i_next_nodes
  /\ i_saved' = [kind |-> "interrupt", next |-> (i_next_nodes \cup i_new_next) \ i_completed,
                 completed |-> i_completed, values |-> i_values, errors |-> i_errors,
                 step |-> i_saved.step, asked |-> {<<n, Inner!Answers>>}]
  /\ Inner!Return

InnerCommits ==
  /\ i_pc = "nodes" /\ i_next_nodes = {}
  /\ i_saved' = [kind |-> "loop", next |-> i_new_next, completed |-> i_completed,
                 values |-> i_values, errors |-> i_errors, step |-> i_base + i_step + 1,
                 asked |-> {}]
  /\ i_pc' = "step"
  /\ i_step' = i_step + 1
  /\ i_next_nodes' = i_new_next
  /\ i_new_next' = {}
  /\ UNCHANGED <<i_completed, i_prev, i_values, i_errors, i_is_resuming, i_answered, i_base>>

LEMMA InnerSteps ==
  ASSUME Inner!LoopStep
  PROVE  \/ InnerStops \/ InnerStarts \/ InnerCommits
         \/ \E n \in SubNodes : InnerRuns(n) \/ InnerAsks(n)
<1>j. \A S : Inner!FanIn(S) = {}
  BY DEF Inner!FanIn
<1>1. CASE Inner!Finish \/ Inner!RecursionError
  BY <1>1 DEF Inner!Finish, Inner!RecursionError, InnerStops
<1>2. CASE Inner!PauseBefore
  BY <1>2 DEF Inner!PauseBefore, Inner!Held
<1>3. CASE Inner!StartStep
  BY <1>3, <1>j DEF Inner!StartStep, Inner!Due, Inner!channels, Inner!frame, InnerStarts
<1>4. ASSUME NEW n \in SubNodes, Inner!SkipNode(n) PROVE FALSE
  BY <1>4 DEF Inner!SkipNode, Inner!Available
<1>5. ASSUME NEW n \in SubNodes, Inner!RunNode(n) PROVE InnerRuns(n)
  <2>1. PICK res \in Inner!Results(n) : \E r \in Inner!NextNodes(n, res) :
          Inner!Complete(n, Inner!Join(Inner!ExtractRouting(n, res), r))
    BY <1>5 DEF Inner!RunNode
  <2>2. PICK r \in Inner!NextNodes(n, res) :
          Inner!Complete(n, Inner!Join(Inner!ExtractRouting(n, res), r))
    BY <2>1
  <2>3. res = [kind |-> "value", route |-> Inner!NoRoute]
    BY DEF Inner!Results
  <2>4. Inner!ExtractRouting(n, res) = Inner!NoRoute
    BY <2>3 DEF Inner!ExtractRouting
  <2>5. r = Inner!Join([next |-> Inner!Successors(n), sends |-> <<>>], Inner!NoRoute)
    BY <2>2, <2>3 DEF Inner!NextNodes
  <2>6. Inner!Join(Inner!ExtractRouting(n, res), r).next = Inner!Successors(n)
    BY <2>4, <2>5 DEF Inner!Join, Inner!NoRoute
  <2> QED  BY <1>5, <2>2, <2>6 DEF Inner!RunNode, Inner!Taken, Inner!Complete, Inner!frame, InnerRuns
<1>6. ASSUME NEW n \in SubNodes, Inner!HitNode(n) PROVE FALSE
  BY <1>6 DEF Inner!HitNode
<1>7. ASSUME NEW n \in SubNodes, Inner!FailNode(n) PROVE FALSE
  BY <1>7 DEF Inner!FailNode, Inner!HandOver
<1>8. ASSUME NEW n \in SubNodes, Inner!InterruptNode(n) PROVE InnerAsks(n)
  BY <1>8 DEF Inner!InterruptNode, Inner!Checkpoint, Inner!LeftAtInterrupt, InnerAsks
<1>9. CASE Inner!SendStep
  BY <1>9 DEF Inner!SendStep, Inner!StartBatch, Inner!SendDepthError, Inner!RunSend, Inner!FailSend,
              Inner!InterruptSend, Inner!NextSend
<1>10. CASE Inner!PauseAfter
  BY <1>10 DEF Inner!PauseAfter, Inner!StopAfter
<1>11. CASE Inner!EndStep
  BY <1>11, <1>j DEF Inner!EndStep, Inner!StepDone, Inner!NodesDone, Inner!StepCheckpoint,
    Inner!Checkpoint, Inner!NextStep, Inner!channels, Inner!frame, InnerCommits
<1>12. QED
  BY <1>1, <1>2, <1>3, <1>4, <1>5, <1>6, <1>7, <1>8, <1>9, <1>10, <1>11
  DEF Inner!LoopStep, Inner!NodeStep

-----------------------------------------------------------------------------
(* Types.                                                                  *)

PhaseTypeOK ==
  /\ phase \in {"out", "in", "returned", "raised"}
  /\ sub_input \in {"none", "mapped", "command"}
  /\ (phase = "in") = (i_pc # "idle")
  /\ kept \subseteq SubNodes

LEMMA SubTypeParts == SubTypeOK <=> TypeOK /\ InnerTypeOK /\ PhaseTypeOK
BY DEF SubTypeOK, InnerTypeOK, PhaseTypeOK, InnerType

LEMMA InnerNowhereType == Inner!Nowhere \in [SubNodes -> Nat]
BY DEF Inner!Nowhere

LEMMA InnerReturnType == InnerTypeOK /\ Inner!Return /\ i_saved' \in InnerType => InnerTypeOK'
BY InnerNowhereType DEF Inner!Return, InnerTypeOK

LEMMA InnerSuccessorsType == \A n \in SubNodes : Inner!Successors(n) \subseteq SubNodes
BY SubAssumption DEF Inner!Successors

LEMMA InnerStepType == InnerTypeOK /\ Inner!LoopStep => InnerTypeOK'
<1> SUFFICES ASSUME InnerTypeOK, Inner!LoopStep PROVE InnerTypeOK'
  OBVIOUS
<1>t. i_saved \in InnerType
  BY DEF InnerTypeOK
<1>1. CASE InnerStops
  BY <1>1, <1>t, InnerReturnType DEF InnerStops
<1>2. CASE InnerStarts
  BY <1>2 DEF InnerStarts, InnerTypeOK
<1>3. ASSUME NEW n \in SubNodes, InnerRuns(n) PROVE InnerTypeOK'
  BY <1>3, InnerSuccessorsType DEF InnerRuns, InnerTypeOK
<1>4. ASSUME NEW n \in SubNodes, InnerAsks(n) PROVE InnerTypeOK'
  <2>1. i_saved' \in InnerType
    BY <1>4 DEF InnerAsks, InnerTypeOK, InnerType, Inner!Kinds, Inner!Answers
  <2> QED  BY <1>4, <2>1, InnerReturnType DEF InnerAsks
<1>5. CASE InnerCommits
  <2>1. i_saved' \in InnerType
    BY <1>5 DEF InnerCommits, InnerTypeOK, InnerType, Inner!Kinds
  <2> QED  BY <1>5, <2>1 DEF InnerCommits, InnerTypeOK
<1>6. QED
  BY <1>1, <1>2, <1>3, <1>4, <1>5, InnerSteps

LEMMA NoInnerCheckpointType == Inner!NoCheckpoint \in InnerType
BY InnerNowhereType DEF Inner!NoCheckpoint, InnerType, Inner!Kinds

LEMMA EnterFromType ==
  ASSUME NEW next \in SUBSET SubNodes, NEW at \in Nat, NEW cp \in InnerType, NEW resuming,
         NEW value, EnterFrom(next, at, cp, resuming, value)
  PROVE  InnerTypeOK' /\ i_pc' = "step"
<1>1. i_saved' \in InnerType
  BY DEF EnterFrom, InnerType, Inner!Kinds
<1>2. QED
  BY <1>1 DEF EnterFrom, InnerTypeOK, InnerType

\* How the inner loop is entered.
Entered ==
  \/ ~answered /\ \E s \in SubStartSets : EnterFrom(s, 0, Inner!NoCheckpoint, FALSE, FALSE)
  \/ /\ answered /\ i_saved.kind = "none"
     /\ \E s \in SubStartSets : EnterFrom(s, 0, Inner!NoCheckpoint, FALSE, TRUE)
  \/ answered /\ i_saved.kind # "none" /\ EnterFrom(i_saved.next, i_saved.step, i_saved, TRUE, TRUE)

LEMMA EnteredType == InnerTypeOK /\ EnterSub => Entered /\ InnerTypeOK' /\ i_pc' = "step"
<1> SUFFICES ASSUME InnerTypeOK, EnterSub PROVE Entered /\ InnerTypeOK' /\ i_pc' = "step"
  OBVIOUS
<1>1. Entered
  BY DEF EnterSub, Entered
<1>2. \A s \in SubStartSets : s \in SUBSET SubNodes
  BY SubAssumption
<1>3. i_saved \in InnerType /\ i_saved.next \in SUBSET SubNodes /\ i_saved.step \in Nat
  BY DEF InnerTypeOK, InnerType
<1>4. QED
  BY <1>1, <1>2, <1>3, EnterFromType, NoInnerCheckpointType DEF Entered

LEMMA SubResultType == InnerTypeOK => SubResult \in InnerType
BY InnerNowhereType DEF SubResult, InnerTypeOK, InnerType

\* What the end of an inner invocation does to the outer loop.
LEMMA RaiseInterruptsType == TypeOK /\ RaiseInterrupts => TypeOK'
<1> SUFFICES ASSUME TypeOK, RaiseInterrupts PROVE TypeOK'
  OBVIOUS
<1>t. ThreadTypeOK /\ RunTypeOK
  BY TypeParts
<1>1. LeftAtInterrupt(SubNode) \in SUBSET Nodes /\ saved.step \in Nat /\ completed_nodes \in SUBSET Nodes
  BY DEF LeftAtInterrupt, TypeOK, CheckpointType
<1>2. Checkpoint("interrupt", LeftAtInterrupt(SubNode), completed_nodes, saved.step) \in CheckpointType
  BY <1>t, <1>1, CheckpointTypeLemma DEF Kinds
<1>3. SubQuestion \in SUBSET Question
  BY SubAssumption DEF SubQuestion, Question
<1>4. saved' \in CheckpointType
  BY <1>2, <1>3, AskedType DEF RaiseInterrupts
<1>5. ThreadTypeOK'
  BY <1>t, <1>4 DEF RaiseInterrupts, ThreadTypeOK, bounds
<1>6. RunTypeOK'
  BY ReturnType DEF RaiseInterrupts
<1>7. QED
  BY <1>5, <1>6 DEF TypeOK, ThreadTypeOK, RunTypeOK

LEMMA CompleteSubType == TypeOK /\ CompleteSub => TypeOK'
<1> SUFFICES ASSUME TypeOK, CompleteSub PROVE TypeOK'
  OBVIOUS
<1> DEFINE res == [kind |-> "value", route |-> NoRoute]
<1>1. res \in Results(SubNode) /\ SubNode \in Nodes
  BY SubAssumption DEF Results
<1>2. PICK r \in NextNodes(SubNode, res) : Complete(SubNode, r)
  BY DEF CompleteSub
<1>3. r \in Route
  BY <1>1, <1>2, ResultType
<1>4. QED
  BY <1>1, <1>2, <1>3, CompleteType, TypeParts DEF CompleteSub, Taken, TypeOK, bounds, frame

LEMMA FailSubType == TypeOK /\ FailSub => TypeOK'
<1> SUFFICES ASSUME TypeOK, FailSub PROVE TypeOK'
  OBVIOUS
<1>1. SubNode \in Nodes /\ ErrorHandler[SubNode] \in Nodes
  BY SubAssumption, GraphAssumption DEF FailSub
<1>2. QED
  BY <1>1 DEF FailSub, Taken, TypeOK, bounds, frame

\* Seen from the outer loop, everything else is a step of PregelLoop.
LEMMA SubSteps ==
  ASSUME [SubNext]_subvars
  PROVE  [Next]_vars \/ RaiseInterrupts \/ CompleteSub \/ FailSub
<1>1. CASE SubCaller
  BY <1>1 DEF SubCaller, Next
<1>2. CASE OuterStep
  BY <1>2 DEF OuterStep, Next, LoopStep, NodeStep
<1>3. CASE EnterSub \/ InnerStep \/ InnerRaises
  BY <1>3 DEF EnterSub, InnerStep, InnerRaises
<1>4. CASE SubCrash \/ SubRests
  BY <1>4 DEF SubCrash, SubRests, Next
<1>5. CASE UNCHANGED subvars
  BY <1>5 DEF subvars
<1>6. QED
  BY <1>1, <1>2, <1>3, <1>4, <1>5 DEF SubNext, SubStep

LEMMA OuterTypeNext == TypeOK /\ [SubNext]_subvars => TypeOK'
BY SubSteps, NextType, RaiseInterruptsType, CompleteSubType, FailSubType

LEMMA SubInitType == SubInit => SubTypeOK
<1>1. SubInit => TypeOK
  BY InitType DEF SubInit
<1>2. SubInit => InnerTypeOK /\ PhaseTypeOK
  BY NoInnerCheckpointType, InnerNowhereType DEF SubInit, InnerTypeOK, PhaseTypeOK
<1>3. QED
  BY <1>1, <1>2, SubTypeParts

LEMMA SubNextType == SubTypeOK /\ [SubNext]_subvars => SubTypeOK'
<1> SUFFICES ASSUME SubTypeOK, [SubNext]_subvars PROVE SubTypeOK'
  OBVIOUS
<1>t. TypeOK /\ InnerTypeOK /\ PhaseTypeOK
  BY SubTypeParts
<1>o. TypeOK'
  BY <1>t, OuterTypeNext
<1> SUFFICES InnerTypeOK' /\ PhaseTypeOK'
  BY <1>o DEF SubTypeOK, InnerTypeOK, PhaseTypeOK, InnerType
<1>1. CASE UNCHANGED <<phase, sub_input, inner, kept>>
  BY <1>1, <1>t DEF InnerTypeOK, PhaseTypeOK, inner
<1>2. CASE EnterSub
  <2>1. InnerTypeOK' /\ i_pc' = "step"
    BY <1>2, <1>t, EnteredType
  <2>2. sub_input' \in {"mapped", "command"} /\ phase' = "in"
    BY <1>2 DEF EnterSub
  <2>3. kept' \subseteq SubNodes
    BY <1>2, <1>t DEF EnterSub, PhaseTypeOK
  <2> QED  BY <2>1, <2>2, <2>3 DEF PhaseTypeOK
<1>3. CASE InnerStep
  <2>1. InnerTypeOK'
    BY <1>3, <1>t, InnerStepType DEF InnerStep
  <2>2. PhaseTypeOK'
    BY <1>3, <1>t DEF InnerStep, PhaseTypeOK
  <2> QED  BY <2>1, <2>2
<1>4. CASE InnerRaises
  <2>1. Inner!Return /\ i_saved' = i_saved /\ phase' = "raised" /\ UNCHANGED <<sub_input, kept>>
    BY <1>4 DEF InnerRaises, Inner!Crash
  <2>2. InnerTypeOK'
    BY <2>1, <1>t, InnerReturnType DEF InnerTypeOK
  <2> QED  BY <2>1, <2>2, <1>t DEF PhaseTypeOK, Inner!Return
<1>5. CASE RaiseInterrupts \/ FailSub
  <2>1. UNCHANGED inner /\ phase' = "out" /\ sub_input' = "none" /\ kept' \subseteq SubNodes
    BY <1>5, <1>t DEF RaiseInterrupts, FailSub, Left, InnerTypeOK, InnerType, PhaseTypeOK
  <2>2. i_pc = "idle"
    BY <1>5, <1>t DEF RaiseInterrupts, FailSub, PhaseTypeOK
  <2> QED  BY <2>1, <2>2, <1>t DEF inner, InnerTypeOK, PhaseTypeOK
<1>6. CASE CompleteSub
  <2>1. SubResult \in InnerType
    BY <1>t, SubResultType
  <2> QED  BY <1>6, <1>t, <2>1 DEF CompleteSub, KeepSubResult, Left, InnerTypeOK, PhaseTypeOK
<1>7. CASE SubCrash
  BY <1>7, <1>t, InnerNowhereType DEF SubCrash, Left, InnerTypeOK, PhaseTypeOK
<1>8. QED
  BY <1>1, <1>2, <1>3, <1>4, <1>5, <1>6, <1>7
  DEF SubNext, SubStep, SubCaller, OuterStep, SubRests, subvars

\* SubTypeOK, the invariant of the run "subgraph", for every outer and inner graph: both
\* loops and their two checkpoints keep their types, and only one of the loops moves.
THEOREM SubTypeCorrect == SubSpec => []SubTypeOK
<1>1. QED
  BY SubInitType, SubNextType, PTL DEF SubSpec

-----------------------------------------------------------------------------
(* The order of the inner graph's nodes.  In an inner graph that leads to  *)
(* every node once, the nodes that are next have not run and the others    *)
(* have run once; or the inner run is over and nothing is next.            *)

InOrder(next, done, vs) ==
  \/ next = {} /\ done = {}
  \/ /\ next \cap done = {}
     /\ \A n \in SubNodes : Inner!Successors(n) \cap (next \cup done) # {} => n \in done
     /\ \A n \in SubNodes : vs[n] = IF n \in done THEN 1 ELSE 0

\* The checkpoint in the subgraph's namespace.
SavedInOrder ==
  /\ InOrder(i_saved.next, i_saved.completed, i_saved.values)
  /\ i_saved.kind = "none" => i_saved = Inner!NoCheckpoint
  /\ \A q \in i_saved.asked : q[1] \in i_saved.next

\* The running inner loop.
RunInOrder ==
  /\ i_pc # "idle" => /\ InOrder(i_next_nodes \cup i_new_next, i_completed, i_values)
                      /\ i_next_nodes \cap i_new_next = {}
                      /\ i_saved.asked = {} /\ i_saved.kind # "none"
  /\ i_pc = "step" => /\ i_new_next = {} /\ i_saved.next = i_next_nodes
                      /\ i_saved.completed = i_completed /\ i_saved.values = i_values

\* The invocation of the inner loop, seen from the node that made it.
InvokedInOrder ==
  /\ phase # "out" => pc = "nodes" /\ SubNode \in next_nodes
  /\ kept \subseteq i_saved.completed
  /\ phase = "in" => kept \subseteq i_completed
  /\ phase = "returned" /\ i_saved.asked = {} => i_saved.next = {}
  /\ phase = "returned" => i_saved.kind # "none"

InnerInv == SubTypeOK /\ SavedInOrder /\ RunInOrder /\ InvokedInOrder

LEMMA InnerLeads ==
  ASSUME Inner!LeadsOnce
  PROVE  /\ \A n, m \in SubNodes : n # m => Inner!Successors(n) \cap Inner!Successors(m) = {}
         /\ \A n \in SubNodes : \A S \in SubStartSets : Inner!Successors(n) \cap S = {}
<1>1. \A n \in SubNodes : Inner!Successors(n) \subseteq Inner!LeadsTo(n)
  BY DEF Inner!LeadsTo
<1>2. \A n, m \in SubNodes : n # m => Inner!LeadsTo(n) \cap Inner!LeadsTo(m) = {}
  BY DEF Inner!LeadsOnce
<1>3. \A n \in SubNodes : Inner!LeadsTo(n) \cap (UNION SubStartSets) = {}
  BY DEF Inner!LeadsOnce
<1>4. \A S \in SubStartSets : S \subseteq UNION SubStartSets
  OBVIOUS
<1>5. QED
  BY <1>1, <1>2, <1>3, <1>4

\* A node that runs selects nodes that nothing else has selected.
LEMMA InnerRunsInOrder ==
  ASSUME Inner!LeadsOnce, InnerTypeOK, RunInOrder, NEW n \in SubNodes, InnerRuns(n)
  PROVE  RunInOrder'
<1> DEFINE succ == Inner!Successors(n)
<1>1. /\ i_next_nodes \cap i_new_next = {} /\ i_saved.asked = {} /\ i_saved.kind # "none"
      /\ (i_next_nodes \cup i_new_next) \cap i_completed = {}
      /\ \A m \in SubNodes : Inner!Successors(m) \cap ((i_next_nodes \cup i_new_next)
                                \cup i_completed) # {} => m \in i_completed
      /\ \A m \in SubNodes : i_values[m] = IF m \in i_completed THEN 1 ELSE 0
  BY DEF InnerRuns, RunInOrder, InOrder
<1>2. n \in i_next_nodes /\ n \notin i_completed /\ n \notin i_new_next
  BY <1>1 DEF InnerRuns
<1>3. succ \cap (i_next_nodes \cup i_new_next \cup i_completed) = {}
  BY <1>1, <1>2
<1>4. n \notin succ
  BY <1>2, <1>3
<1>5. /\ i_next_nodes' = i_next_nodes \ {n} /\ i_completed' = i_completed \cup {n}
      /\ i_new_next' = i_new_next \cup succ
      /\ i_saved' = i_saved /\ i_pc' = "nodes"
  BY DEF InnerRuns
<1>6. \A m \in SubNodes : Inner!Successors(m) \cap succ # {} => m = n
  BY InnerLeads
<1>7. \A m \in SubNodes : i_values'[m] = IF m \in i_completed' THEN 1 ELSE 0
  BY <1>1, <1>2 DEF InnerRuns, InnerTypeOK
<1> HIDE DEF succ
<1>8. (i_next_nodes' \cup i_new_next') \cap i_completed' = {}
  BY <1>1, <1>2, <1>3, <1>4, <1>5
<1>9. i_next_nodes' \cap i_new_next' = {}
  BY <1>1, <1>2, <1>3, <1>5
<1>10. ASSUME NEW m \in SubNodes,
              Inner!Successors(m) \cap ((i_next_nodes' \cup i_new_next') \cup i_completed') # {}
       PROVE  m \in i_completed'
  BY <1>1, <1>2, <1>5, <1>6, <1>10
<1>11. InOrder(i_next_nodes' \cup i_new_next', i_completed', i_values')
  BY <1>7, <1>8, <1>10 DEF InOrder
<1>12. QED
  BY <1>1, <1>5, <1>9, <1>11 DEF RunInOrder

LEMMA InnerStepInOrder ==
  ASSUME Inner!LeadsOnce, InnerTypeOK, SavedInOrder, RunInOrder, Inner!LoopStep
  PROVE  SavedInOrder' /\ RunInOrder'
<1>1. CASE InnerStops
  BY <1>1 DEF InnerStops, Inner!Return, SavedInOrder, RunInOrder, InOrder
<1>2. CASE InnerStarts
  BY <1>2 DEF InnerStarts, SavedInOrder, RunInOrder, InOrder
<1>3. ASSUME NEW n \in SubNodes, InnerRuns(n) PROVE SavedInOrder' /\ RunInOrder'
  <2>1. SavedInOrder'
    BY <1>3 DEF InnerRuns, SavedInOrder, InOrder
  <2>2. QED
    BY <1>3, <2>1, InnerRunsInOrder
<1>4. ASSUME NEW n \in SubNodes, InnerAsks(n) PROVE SavedInOrder' /\ RunInOrder'
  <2>1. /\ InOrder(i_next_nodes \cup i_new_next, i_completed, i_values)
        /\ n \in i_next_nodes
    BY <1>4 DEF InnerAsks, RunInOrder
  <2>2. (i_next_nodes \cup i_new_next) \ i_completed = i_next_nodes \cup i_new_next
    BY <2>1 DEF InOrder
  <2>3. /\ i_saved'.next = i_next_nodes \cup i_new_next /\ i_saved'.completed = i_completed
        /\ i_saved'.values = i_values /\ i_saved'.kind = "interrupt"
        /\ i_saved'.asked = {<<n, Inner!Answers>>}
    BY <1>4, <2>2 DEF InnerAsks
  <2>4. SavedInOrder'
    BY <2>1, <2>3 DEF SavedInOrder, InOrder
  <2>5. RunInOrder'
    BY <1>4 DEF InnerAsks, Inner!Return, RunInOrder
  <2>6. QED
    BY <2>4, <2>5
<1>5. CASE InnerCommits
  <2>1. InOrder(i_new_next, i_completed, i_values)
    BY <1>5 DEF InnerCommits, RunInOrder
  <2>2. /\ i_saved'.next = i_new_next /\ i_saved'.completed = i_completed
        /\ i_saved'.values = i_values /\ i_saved'.kind = "loop" /\ i_saved'.asked = {}
    BY <1>5 DEF InnerCommits
  <2>3. SavedInOrder'
    BY <2>1, <2>2 DEF SavedInOrder, InOrder
  <2>4. RunInOrder'
    BY <1>5, <2>1, <2>2 DEF InnerCommits, RunInOrder, InOrder
  <2>5. QED
    BY <2>3, <2>4
<1>6. QED
  BY <1>1, <1>2, <1>3, <1>4, <1>5, InnerSteps

\* An inner run begins in order: at a start set, or where the checkpoint says.
LEMMA EnterInOrder ==
  ASSUME Inner!LeadsOnce, SubTypeOK, SavedInOrder, RunInOrder, kept \subseteq i_saved.completed,
         EnterSub
  PROVE  SavedInOrder' /\ RunInOrder' /\ kept' \subseteq i_completed'
<1>t. InnerTypeOK
  BY SubTypeParts
<1>e. Entered
  BY <1>t, EnteredType
<1>k. kept' = (IF answered THEN kept ELSE {}) /\ kept' \subseteq i_saved.completed
  BY DEF EnterSub
<1>1. ASSUME NEW next, NEW at, NEW cp, NEW resuming, NEW value,
             cp \in InnerType, InOrder(next, cp.completed, cp.values),
             EnterFrom(next, at, cp, resuming, value)
      PROVE  SavedInOrder' /\ RunInOrder' /\ i_completed' = cp.completed
  <2>1. /\ i_saved'.next = next /\ i_saved'.completed = cp.completed
        /\ i_saved'.values = cp.values /\ i_saved'.asked = {} /\ i_saved'.kind = "input"
        /\ i_pc' = "step" /\ i_next_nodes' = next /\ i_new_next' = {}
        /\ i_completed' = cp.completed /\ i_values' = cp.values
    BY <1>1 DEF EnterFrom, InnerType
  <2>2. next \cup {} = next
    OBVIOUS
  <2>3. QED
    BY <1>1, <2>1, <2>2 DEF SavedInOrder, RunInOrder, InOrder
<1>2. ASSUME NEW S \in SubStartSets
      PROVE  InOrder(S, Inner!NoCheckpoint.completed, Inner!NoCheckpoint.values)
  <2>1. Inner!NoCheckpoint.completed = {} /\ Inner!NoCheckpoint.values = Inner!Nowhere
    BY DEF Inner!NoCheckpoint
  <2>2. \A n \in SubNodes : Inner!Successors(n) \cap S = {} /\ Inner!Nowhere[n] = 0
    BY InnerLeads DEF Inner!Nowhere
  <2>3. QED
    BY <2>1, <2>2 DEF InOrder
<1>3. CASE ~answered /\ \E S \in SubStartSets : EnterFrom(S, 0, Inner!NoCheckpoint, FALSE, FALSE)
  BY <1>3, <1>1, <1>2, <1>k, NoInnerCheckpointType
<1>4. CASE /\ answered /\ i_saved.kind = "none"
           /\ \E S \in SubStartSets : EnterFrom(S, 0, Inner!NoCheckpoint, FALSE, TRUE)
  <2>1. i_saved = Inner!NoCheckpoint
    BY <1>4 DEF SavedInOrder
  <2>2. QED
    BY <1>4, <1>1, <1>2, <1>k, <2>1, NoInnerCheckpointType DEF Inner!NoCheckpoint
<1>5. CASE EnterFrom(i_saved.next, i_saved.step, i_saved, TRUE, TRUE)
  <2>1. i_saved \in InnerType /\ InOrder(i_saved.next, i_saved.completed, i_saved.values)
    BY <1>t DEF InnerTypeOK, SavedInOrder
  <2>2. QED
    BY <1>5, <1>1, <1>k, <2>1
<1>6. QED
  BY <1>e, <1>3, <1>4, <1>5 DEF Entered

\* The steps that leave the subgraph's side alone.
OuterSide == SubCaller \/ OuterStep \/ SubRests \/ UNCHANGED subvars

LEMMA OuterSideSteps ==
  ASSUME OuterSide
  PROVE  [Next]_vars /\ UNCHANGED <<phase, sub_input, inner, kept>> /\ (phase = "out" \/ UNCHANGED vars)
<1>1. CASE SubCaller
  BY <1>1 DEF SubCaller, Next
<1>2. CASE OuterStep
  BY <1>2 DEF OuterStep, Next, LoopStep, NodeStep
<1>3. CASE SubRests
  BY <1>3 DEF SubRests, CallerRests
<1>4. CASE UNCHANGED subvars
  BY <1>4 DEF subvars
<1>5. QED
  BY <1>1, <1>2, <1>3, <1>4 DEF OuterSide

LEMMA SubSideSteps ==
  ASSUME [SubNext]_subvars
  PROVE  \/ OuterSide
         \/ EnterSub \/ InnerStep \/ InnerRaises
         \/ RaiseInterrupts \/ CompleteSub \/ FailSub \/ SubCrash
BY DEF SubNext, SubStep, OuterSide

LEMMA InnerInit == SubInit => InnerInv
<1> SUFFICES ASSUME SubInit PROVE SavedInOrder /\ RunInOrder /\ InvokedInOrder
  BY SubInitType DEF InnerInv
<1>1. i_saved.next = {} /\ i_saved.completed = {} /\ i_saved.asked = {} /\ kept = {}
  BY DEF SubInit, Inner!NoCheckpoint
<1>2. QED
  BY <1>1 DEF SubInit, SavedInOrder, RunInOrder, InvokedInOrder, InOrder

LEMMA InnerNext ==
  ASSUME Inner!LeadsOnce, InnerInv, [SubNext]_subvars
  PROVE  InnerInv'
<1>t. /\ SubTypeOK /\ SavedInOrder /\ RunInOrder /\ InvokedInOrder /\ SubTypeOK'
      /\ InnerTypeOK /\ PhaseTypeOK /\ TypeOK
  BY SubNextType, SubTypeParts DEF InnerInv
<1> SUFFICES SavedInOrder' /\ RunInOrder' /\ InvokedInOrder'
  BY <1>t DEF InnerInv
<1>1. CASE OuterSide
  <2>1. UNCHANGED <<phase, inner, kept>> /\ (phase = "out" \/ UNCHANGED <<pc, next_nodes>>)
    BY <1>1, OuterSideSteps DEF vars
  <2>2. QED
    BY <2>1, <1>t DEF inner, SavedInOrder, RunInOrder, InvokedInOrder
<1>2. CASE EnterSub
  <2>1. SavedInOrder' /\ RunInOrder' /\ kept' \subseteq i_completed'
    BY <1>2, <1>t, EnterInOrder DEF InvokedInOrder
  <2>2. phase' = "in" /\ pc' = "nodes" /\ SubNode \in next_nodes'
    BY <1>2 DEF EnterSub, SubCanRun, vars
  <2>3. i_pc' = "step"
    BY <1>2, <1>t, EnteredType
  <2>4. i_saved'.completed = i_completed'
    BY <2>1, <2>3 DEF RunInOrder
  <2>5. QED
    BY <2>1, <2>2, <2>4 DEF InvokedInOrder
<1>3. CASE InnerStep
  <2>1. SavedInOrder' /\ RunInOrder'
    BY <1>3, <1>t, InnerStepInOrder DEF InnerStep
  <2>2. /\ phase = "in" /\ pc' = pc /\ next_nodes' = next_nodes /\ kept' = kept
        /\ phase' = IF i_pc' # "idle" THEN "in"
                    ELSE IF i_next_nodes # {} /\ i_saved' = i_saved THEN "raised" ELSE "returned"
    BY <1>3 DEF InnerStep, vars
  <2>3. i_saved.kind # "none" /\ i_pc # "idle"
    BY <1>t, <2>2 DEF PhaseTypeOK, RunInOrder
  <2>4. ASSUME InnerStops PROVE InvokedInOrder'
    BY <2>2, <2>3, <2>4, <1>t DEF InnerStops, Inner!Return, InvokedInOrder, RunInOrder
  <2>5. ASSUME InnerStarts \/ InnerCommits \/ \E n \in SubNodes : InnerRuns(n)
        PROVE  InvokedInOrder'
    <3>1. /\ i_pc' # "idle" /\ i_completed \subseteq i_completed'
          /\ i_saved' = i_saved \/ i_saved'.completed = i_completed
      BY <2>5 DEF InnerStarts, InnerCommits, InnerRuns
    <3>2. QED
      BY <3>1, <2>2, <1>t DEF InvokedInOrder
  <2>6. ASSUME NEW n \in SubNodes, InnerAsks(n) PROVE InvokedInOrder'
    <3>1. /\ i_saved'.asked # {} /\ i_saved'.kind # "none" /\ i_pc' = "idle"
          /\ i_saved'.completed = i_completed
      BY <2>6 DEF InnerAsks, Inner!Return
    <3>2. QED
      BY <3>1, <2>2, <1>t DEF InvokedInOrder
  <2>7. InvokedInOrder'
    BY <1>3, <2>4, <2>5, <2>6, InnerSteps DEF InnerStep
  <2>8. QED
    BY <2>1, <2>7
<1>4. CASE InnerRaises
  <2>1. /\ i_saved' = i_saved /\ i_pc' = "idle" /\ phase = "in" /\ phase' = "raised"
        /\ UNCHANGED <<pc, next_nodes, kept>>
    BY <1>4 DEF InnerRaises, Inner!Crash, Inner!Return, vars
  <2>2. QED
    BY <2>1, <1>t DEF SavedInOrder, RunInOrder, InvokedInOrder
<1>5. CASE RaiseInterrupts \/ FailSub
  BY <1>5, <1>t DEF RaiseInterrupts, FailSub, Left, inner, SavedInOrder, RunInOrder,
    InvokedInOrder
<1>6. CASE CompleteSub
  <2>1. /\ i_saved'.next = {} /\ i_saved'.completed = {} /\ i_saved'.asked = {}
        /\ i_saved'.kind = "subgraph" /\ phase' = "out" /\ i_pc' = i_pc /\ i_pc = "idle"
        /\ kept' = {}
    BY <1>6, <1>t DEF CompleteSub, KeepSubResult, SubResult, Left, PhaseTypeOK, InnerTypeOK,
      InnerType
  <2>2. QED
    BY <2>1 DEF SavedInOrder, RunInOrder, InvokedInOrder, InOrder
<1>7. CASE SubCrash
  BY <1>7, <1>t DEF SubCrash, Left, SavedInOrder, RunInOrder, InvokedInOrder
<1>8. QED
  BY <1>1, <1>2, <1>3, <1>4, <1>5, <1>6, <1>7, SubSideSteps

-----------------------------------------------------------------------------
(* Questions.  The outer checkpoint holds the subgraph's question only     *)
(* while no loop runs, and no other node asks that question.  The          *)
(* invocation that resumes from it has the subgraph's node due until it    *)
(* enters the node, or the node has completed.                             *)

QuestionHeld ==
  /\ pc # "idle" => saved.asked = {}
  /\ saved.asked = SubQuestion => /\ i_saved.kind # "none" /\ i_saved.asked # {}
                                 /\ SubNode \in saved.next \cup saved.completed

QuestionInv == QuestionHeld /\ AnswerArrives

\* The questions that a step of the outer loop may leave: those of the other nodes.
LEMMA OuterQuestions ==
  ASSUME TypeOK, OuterSide
  PROVE  \/ saved' = saved /\ (pc' = "idle" \/ pc # "idle")
         \/ saved'.asked = {}
         \/ /\ pc' = "idle"
            /\ \E n \in Nodes \ {SubNode}, k \in Nat :
                 k \in Asks[n] /\ k > Answers /\ saved'.asked = {<<n, Answers>>}
<1> DEFINE stays == saved' = saved /\ (pc' = "idle" \/ pc # "idle")
           asks == /\ pc' = "idle"
                   /\ \E n \in Nodes \ {SubNode}, k \in Nat :
                        k \in Asks[n] /\ k > Answers /\ saved'.asked = {<<n, Answers>>}
<1>t. saved \in CheckpointType /\ batch \in Seq(Nodes) /\ Asks \in [Nodes -> SUBSET Nat]
  BY GraphAssumption DEF TypeOK
<1>1. ASSUME NEW next, NEW at, NEW resume, Enter(next, at, resume) PROVE saved'.asked = {}
  BY <1>1, <1>t DEF Enter, CheckpointType
<1>2. CASE CallerStep
  BY <1>2, <1>1 DEF CallerStep, Invoke, Resume, UpdateState
<1>3. ASSUME Finish \/ RecursionError \/ StartStep PROVE stays
  BY <1>3 DEF Finish, RecursionError, StartStep, Return
<1>4. CASE PauseBefore \/ PauseAfter \/ EndStep
  BY <1>4 DEF PauseBefore, PauseAfter, EndStep, StepCheckpoint, Checkpoint
<1>5. ASSUME NEW n \in Nodes \ {SubNode}, SkipNode(n) \/ RunNode(n) \/ HitNode(n) \/ FailNode(n)
      PROVE  stays
  BY <1>5 DEF SkipNode, RunNode, HitNode, FailNode, Taken
<1>6. ASSUME NEW n \in Nodes \ {SubNode}, InterruptNode(n) PROVE asks
  BY <1>6, <1>t DEF InterruptNode, Return, Checkpoint
<1>7. ASSUME StartBatch \/ SendDepthError \/ RunSend \/ FailSend PROVE stays
  BY <1>7 DEF StartBatch, SendDepthError, RunSend, FailSend, NextSend, NodesDone, Return
<1>8. ASSUME InterruptSend PROVE asks
  <2> DEFINE n == Head(batch)
  <2>1. n \in Nodes
    BY <1>8, <1>t, HeadTailProperties DEF InterruptSend
  <2>2. PICK k \in Asks[n] : k > Answers
    BY <1>8 DEF InterruptSend
  <2>3. k # 0 /\ k \in Nat
    BY <1>t, <2>1, <2>2 DEF Answers
  <2>4. n # SubNode
    BY <2>2, <2>3, SubAssumption
  <2>5. saved'.asked = {<<n, Answers>>} /\ pc' = "idle"
    BY <1>8 DEF InterruptSend, Return, Checkpoint
  <2>6. QED
    BY <2>1, <2>2, <2>3, <2>4, <2>5
<1>9. CASE OuterStep
  BY <1>9, <1>3, <1>4, <1>5, <1>6, <1>7, <1>8 DEF OuterStep, SendStep
<1>10. CASE SubRests \/ UNCHANGED subvars
  BY <1>10 DEF SubRests, CallerRests, vars, subvars
<1>11. QED
  BY <1>2, <1>9, <1>10 DEF OuterSide, SubCaller

LEMMA QuestionHeldNext ==
  ASSUME InnerInv, QuestionHeld, [SubNext]_subvars
  PROVE  QuestionHeld'
<1>t. TypeOK /\ InnerTypeOK /\ PhaseTypeOK /\ InvokedInOrder
  BY SubTypeParts DEF InnerInv
<1>q. SubQuestion # {} /\ \A n : n # SubNode => SubQuestion # {<<n, Answers>>}
  <2>1. \A n : n # SubNode => <<SubNode, 0>> # <<n, Answers>>
    OBVIOUS
  <2>2. \A x, y : x # y => {x} # {y}
    OBVIOUS
  <2>3. QED
    BY <2>1, <2>2 DEF SubQuestion
<1>1. CASE OuterSide
  <2>1. i_saved' = i_saved
    BY <1>1, OuterSideSteps DEF inner
  <2>2. saved' = saved \/ saved'.asked # SubQuestion
    BY <1>1, <1>t, <1>q, OuterQuestions
  <2>3. pc' # "idle" => saved'.asked = {}
    BY <1>1, <1>t, OuterQuestions DEF QuestionHeld
  <2>4. QED
    BY <2>1, <2>2, <2>3 DEF QuestionHeld
<1>2. ASSUME pc # "idle", saved' = saved PROVE QuestionHeld'
  BY <1>2, <1>q DEF QuestionHeld
<1>3. CASE EnterSub \/ InnerStep \/ InnerRaises
  <2>1. pc = "nodes" /\ saved' = saved
    BY <1>3, <1>t DEF EnterSub, SubCanRun, InnerStep, InnerRaises, InvokedInOrder, vars
  <2>2. QED
    BY <2>1, <1>2
<1>4. CASE CompleteSub \/ FailSub
  BY <1>4, <1>2 DEF CompleteSub, FailSub, Taken
<1>5. CASE SubCrash
  BY <1>5, <1>2 DEF SubCrash, Crash
<1>6. CASE RaiseInterrupts
  <2>1. i_saved' = i_saved /\ i_saved.asked # {} /\ i_saved.kind # "none" /\ pc' = "idle"
    BY <1>6, <1>t DEF RaiseInterrupts, SubInterrupts, inner, InvokedInOrder, Return
  <2>2. SubNode \in next_nodes
    BY <1>6, <1>t DEF RaiseInterrupts, InvokedInOrder
  <2>3. SubNode \in saved'.next \cup saved'.completed
    BY <1>6, <2>2 DEF RaiseInterrupts, Checkpoint, LeftAtInterrupt
  <2>4. QED
    BY <2>1, <2>3 DEF QuestionHeld
<1>7. QED
  BY <1>1, <1>3, <1>4, <1>5, <1>6, SubSideSteps

\* What an outer step does to the question that was pending when the caller resumed.
LEMMA OuterDue ==
  ASSUME TypeOK, OuterSide
  PROVE  \/ asked' = {}
         \/ /\ asked' = saved.asked
            /\ next_nodes' = saved.next /\ completed_nodes' = saved.completed
         \/ /\ asked' = asked /\ completed_nodes \subseteq completed_nodes'
            /\ SubNode \in next_nodes => SubNode \in next_nodes'
<1> DEFINE due == /\ asked' = asked /\ completed_nodes \subseteq completed_nodes'
                  /\ SubNode \in next_nodes => SubNode \in next_nodes'
           resumed == /\ asked' = saved.asked
                      /\ next_nodes' = saved.next /\ completed_nodes' = saved.completed
<1>1. CASE Invoke
  BY <1>1 DEF Invoke
<1>2. CASE Resume
  BY <1>2 DEF Resume, Enter
<1>3. ASSUME NEW as \in UpdateAs, UpdateState(as) PROVE due
  BY <1>3 DEF UpdateState, frame
<1>4. ASSUME Finish \/ RecursionError \/ PauseBefore \/ PauseAfter PROVE asked' = {}
  BY <1>4 DEF Finish, RecursionError, PauseBefore, PauseAfter, Return
<1>5. ASSUME StartStep PROVE due
  BY <1>5 DEF StartStep, Due, frame
<1>6. ASSUME EndStep PROVE due
  BY <1>6 DEF EndStep, StepDone, NodesDone, frame
<1>7. ASSUME NEW n \in Nodes \ {SubNode}, SkipNode(n) \/ RunNode(n) \/ HitNode(n) \/ FailNode(n)
      PROVE  due
  <2>1. next_nodes' = next_nodes \ {n} /\ asked' = asked
    BY <1>7 DEF SkipNode, RunNode, HitNode, FailNode, Taken, frame
  <2>2. completed_nodes \subseteq completed_nodes'
    BY <1>7 DEF SkipNode, RunNode, HitNode, FailNode, HandOver, Complete
  <2>3. QED
    BY <2>1, <2>2
<1>8. ASSUME NEW n \in Nodes \ {SubNode}, InterruptNode(n) PROVE asked' = {}
  BY <1>8 DEF InterruptNode, Return
<1>9. ASSUME SendDepthError \/ InterruptSend PROVE asked' = {}
  BY <1>9 DEF SendDepthError, InterruptSend, Return
<1>10. ASSUME StartBatch \/ RunSend \/ FailSend PROVE due
  <2>1. next_nodes' = next_nodes /\ asked' = asked
    BY <1>10 DEF StartBatch, RunSend, FailSend, NextSend, frame
  <2>2. completed_nodes \subseteq completed_nodes'
    BY <1>10 DEF StartBatch, RunSend, FailSend, HandOver, Complete
  <2>3. QED
    BY <2>1, <2>2
<1>11. CASE OuterStep
  BY <1>11, <1>4, <1>5, <1>6, <1>7, <1>8, <1>9, <1>10 DEF OuterStep, SendStep
<1>12. CASE SubRests \/ UNCHANGED subvars
  BY <1>12 DEF SubRests, CallerRests, vars, subvars
<1>13. QED
  BY <1>1, <1>2, <1>3, <1>11, <1>12 DEF OuterSide, SubCaller, CallerStep

LEMMA ArrivesNext ==
  ASSUME InnerInv, QuestionHeld, AnswerArrives, [SubNext]_subvars
  PROVE  AnswerArrives'
<1>t. /\ TypeOK /\ InnerTypeOK /\ PhaseTypeOK /\ RunInOrder /\ InvokedInOrder /\ SavedInOrder
      /\ SubQuestion # {} /\ SubQuestion' = SubQuestion
  BY SubTypeParts DEF InnerInv, SubQuestion
<1>0. ASSUME asked' = {} \/ SubNode \in completed_nodes' PROVE AnswerArrives'
  BY <1>0, <1>t DEF AnswerArrives
<1>1. CASE OuterSide /\ phase = "out"
  <2>1. i_saved' = i_saved /\ phase' = "out"
    BY <1>1, OuterSideSteps DEF inner
  <2>2. ASSUME asked' = SubQuestion, SubNode \notin completed_nodes'
        PROVE  SubNode \in next_nodes' /\ i_saved.asked # {}
    BY <1>1, <1>t, <2>2, OuterDue DEF AnswerArrives, QuestionHeld
  <2>3. QED
    BY <2>1, <2>2, <1>t DEF AnswerArrives
<1>2. CASE OuterSide /\ phase # "out"
  <2>1. UNCHANGED <<vars, phase, inner>>
    BY <1>2, OuterSideSteps
  <2>2. QED
    BY <2>1, <1>t DEF vars, inner, AnswerArrives
<1>3. CASE EnterSub
  <2>1. UNCHANGED <<asked, completed_nodes, answered>> /\ phase = "out" /\ phase' = "in"
    BY <1>3 DEF EnterSub, SubCanRun, vars
  <2>2. ASSUME asked = SubQuestion, SubNode \notin completed_nodes, answered
        PROVE  i_is_resuming' /\ i_answered'
    <3>1. i_saved.asked # {}
      BY <2>1, <2>2 DEF AnswerArrives
    <3>2. i_saved.kind # "none"
      BY <3>1, <1>t DEF SavedInOrder, Inner!NoCheckpoint
    <3>3. EnterFrom(i_saved.next, i_saved.step, i_saved, TRUE, TRUE)
      BY <1>3, <2>2, <3>2 DEF EnterSub
    <3>4. QED
      BY <3>3 DEF EnterFrom
  <2>3. QED
    BY <2>1, <2>2, <1>t DEF AnswerArrives
<1>4. CASE InnerStep
  <2>1. UNCHANGED <<asked, completed_nodes, answered>> /\ phase = "in" /\ phase' # "out"
        /\ (phase' = "in" => i_pc' # "idle") /\ Inner!LoopStep
    BY <1>4 DEF InnerStep, vars
  <2>2. i_pc' # "idle" => UNCHANGED <<i_is_resuming, i_answered>>
    BY <2>1, InnerSteps DEF InnerStops, InnerStarts, InnerCommits, InnerRuns, InnerAsks,
       Inner!Return
  <2>3. QED
    BY <2>1, <2>2, <1>t DEF AnswerArrives
<1>5. CASE InnerRaises
  BY <1>5, <1>t DEF InnerRaises, vars, AnswerArrives
<1>6. CASE RaiseInterrupts \/ SubCrash
  BY <1>6, <1>0 DEF RaiseInterrupts, SubCrash, Crash, Return
<1>7. CASE CompleteSub \/ FailSub
  BY <1>7, <1>0 DEF CompleteSub, Complete, FailSub
<1>8. QED
  BY <1>1, <1>2, <1>3, <1>4, <1>5, <1>6, <1>7, SubSideSteps

LEMMA QuestionNext ==
  ASSUME InnerInv, QuestionInv, [SubNext]_subvars
  PROVE  QuestionInv'
BY QuestionHeldNext, ArrivesNext DEF QuestionInv

LEMMA QuestionInit == SubInit => QuestionInv
<1> SUFFICES ASSUME SubInit PROVE QuestionInv
  OBVIOUS
<1>1. saved.asked = {} /\ asked = {} /\ SubQuestion # {}
  BY DEF SubInit, Init, NoCheckpoint, SubQuestion
<1>2. QED
  BY <1>1 DEF QuestionInv, QuestionHeld, AnswerArrives

\* QuestionReachesInner, for every outer graph and every inner graph that leads to every
\* node once: the subgraph's question is shown with the inner checkpoint saved at the
\* interrupt() inside it and with the subgraph's node next, the resume keeps the node due
\* and hands an answer to the inner graph; up to the first completion of the node in the
\* thread (_execute_subgraph, and next_for_checkpoint in the GraphInterrupt branch of _run).
THEOREM QuestionsReachInner == Inner!LeadsOnce /\ SubSpec => []QuestionReachesInner
<1> SUFFICES ASSUME Inner!LeadsOnce PROVE SubSpec => []QuestionReachesInner
  OBVIOUS
<1>1. SubInit => InnerInv /\ QuestionInv
  BY InnerInit, QuestionInit
<1>2. InnerInv /\ QuestionInv /\ [SubNext]_subvars => InnerInv' /\ QuestionInv'
  BY InnerNext, QuestionNext
<1>3. InnerInv /\ QuestionInv => QuestionReachesInner
  BY DEF InnerInv, SavedInOrder, QuestionInv, QuestionHeld, QuestionReachesInner, QuestionWaits,
         ShownState, SubgraphState
<1>4. QED
  BY <1>1, <1>2, <1>3, PTL DEF SubSpec

-----------------------------------------------------------------------------
(* Answers.  When the caller answers questions only and the subgraph is    *)
(* the only node that asks, whoever gives an answer finds a checkpoint in  *)
(* the subgraph's namespace to go on from.                                 *)

OnlySubAsks == \A n \in Nodes : Asks[n] \subseteq {0}

AnswerInv ==
  /\ saved.asked \in {{}, SubQuestion}
  /\ answered \/ retrying => i_saved.kind # "none"
  /\ phase = "in" /\ ~i_is_resuming => sub_input = "mapped"

\* An outer step passes an answer on, or takes one that is due.
LEMMA OuterAnswers ==
  ASSUME OnlyAnswers, OuterSide
  PROVE  answered' \/ retrying' => answered \/ retrying \/ saved.asked # {}
<1>1. CASE SubCaller
  BY <1>1 DEF SubCaller, AnswerIsDue
<1>2. CASE OuterStep
  <2>1. retrying' = retrying
    BY <1>2 DEF OuterStep
  <2>2. ASSUME NEW n, SkipNode(n) \/ RunNode(n) \/ HitNode(n) \/ FailNode(n) \/ InterruptNode(n)
        PROVE  answered' => answered
    BY <2>2 DEF SkipNode, RunNode, HitNode, FailNode, InterruptNode, Taken, Return, frame
  <2>3. SendStep => (answered' => answered)
    BY DEF SendStep, StartBatch, SendDepthError, RunSend, FailSend, InterruptSend, NextSend,
           Return, frame
  <2>4. Finish \/ RecursionError \/ PauseBefore \/ StartStep \/ PauseAfter \/ EndStep
          => (answered' => answered)
    BY DEF Finish, RecursionError, PauseBefore, StartStep, PauseAfter, EndStep, Return, frame
  <2>5. QED
    BY <1>2, <2>1, <2>2, <2>3, <2>4 DEF OuterStep
<1>3. CASE SubRests \/ UNCHANGED subvars
  BY <1>3 DEF SubRests, CallerRests, vars, subvars
<1>4. QED
  BY <1>1, <1>2, <1>3 DEF OuterSide

LEMMA AnswerNext ==
  ASSUME OnlyAnswers, OnlySubAsks, InnerInv, QuestionInv, AnswerInv, [SubNext]_subvars
  PROVE  AnswerInv'
<1>t. TypeOK /\ InnerTypeOK /\ PhaseTypeOK /\ RunInOrder
  BY SubTypeParts DEF InnerInv
<1>q. saved.asked # {} => i_saved.kind # "none"
  BY DEF AnswerInv, QuestionInv, QuestionHeld
<1>1. CASE OuterSide
  <2>1. UNCHANGED <<phase, sub_input, i_saved, i_is_resuming>>
    BY <1>1, OuterSideSteps DEF inner
  <2>2. saved'.asked \in {{}, SubQuestion}
    <3>1. \A n \in Nodes, k \in Nat : k \in Asks[n] => ~(k > Answers)
      BY DEF OnlySubAsks, Answers
    <3>2. QED
      BY <1>1, <1>t, <3>1, OuterQuestions DEF AnswerInv
  <2>3. answered' \/ retrying' => i_saved'.kind # "none"
    BY <1>1, <1>q, <2>1, OuterAnswers DEF AnswerInv
  <2>4. QED
    BY <2>1, <2>2, <2>3 DEF AnswerInv
<1>2. CASE EnterSub
  <2>1. UNCHANGED <<saved, answered, retrying>> /\ phase' = "in"
    BY <1>2 DEF EnterSub, vars
  <2>2. i_saved'.kind = "input"
    BY <1>2, <1>t, NoInnerCheckpointType DEF EnterSub, EnterFrom, InnerTypeOK, InnerType
  <2>3. ~i_is_resuming' => sub_input' = "mapped"
    BY <1>2 DEF EnterSub, EnterFrom, AnswerInv
  <2>4. QED
    BY <2>1, <2>2, <2>3 DEF AnswerInv
<1>3. CASE InnerStep
  <2>1. UNCHANGED <<saved, answered, retrying, sub_input>> /\ Inner!LoopStep
        /\ phase = "in" /\ (phase' = "in" => i_pc' # "idle") /\ i_saved.kind # "none"
    BY <1>3, <1>t DEF InnerStep, vars, PhaseTypeOK, RunInOrder
  <2>2. i_saved'.kind # "none" /\ (i_pc' # "idle" => i_is_resuming' = i_is_resuming)
    <3>1. CASE InnerStops
      BY <3>1, <2>1 DEF InnerStops, Inner!Return
    <3>2. CASE InnerStarts \/ InnerCommits \/ \E n \in SubNodes : InnerRuns(n)
      BY <3>2, <2>1 DEF InnerStarts, InnerCommits, InnerRuns
    <3>3. ASSUME NEW n \in SubNodes, InnerAsks(n)
          PROVE  i_saved'.kind # "none" /\ i_pc' = "idle"
      BY <3>3 DEF InnerAsks, Inner!Return
    <3>4. QED
      BY <2>1, <3>1, <3>2, <3>3, InnerSteps
  <2>3. QED
    BY <2>1, <2>2 DEF AnswerInv
<1>4. CASE InnerRaises
  BY <1>4 DEF InnerRaises, Inner!Crash, vars, AnswerInv
<1>5. CASE RaiseInterrupts
  <2>1. /\ saved'.asked = SubQuestion /\ answered' = FALSE /\ retrying' = retrying
        /\ i_saved' = i_saved /\ phase' = "out"
    BY <1>5 DEF RaiseInterrupts, Return, Left, inner, Checkpoint
  <2>2. QED
    BY <2>1 DEF AnswerInv
<1>6. CASE CompleteSub \/ FailSub
  <2>1. UNCHANGED <<saved, answered, retrying>> /\ phase' = "out"
    BY <1>6 DEF CompleteSub, FailSub, Taken, Left, frame
  <2>2. i_saved'.kind = "subgraph" \/ i_saved' = i_saved
    BY <1>6, <1>t DEF CompleteSub, FailSub, KeepSubResult, SubResult, InnerTypeOK, InnerType, inner
  <2>3. QED
    BY <2>1, <2>2 DEF AnswerInv
<1>7. CASE SubCrash
  BY <1>7 DEF SubCrash, Crash, Return, Left, AnswerInv
<1>8. QED
  BY <1>1, <1>2, <1>3, <1>4, <1>5, <1>6, <1>7, SubSideSteps

LEMMA AnswerInit == SubInit => AnswerInv
BY DEF SubInit, Init, NoCheckpoint, AnswerInv

\* The first half of InnerWorkKept needs nothing of the caller and of the outer graph:
\* what had completed when the subgraph last asked stays in its checkpoint and in every
\* inner run, over answers, crashes, failures and repetitions (_execute_subgraph resumes
\* from the subgraph's own checkpoint whenever there is an answer).
THEOREM InnerWorkStays == Inner!LeadsOnce /\ SubSpec => []WorkStays
<1> SUFFICES ASSUME Inner!LeadsOnce PROVE SubSpec => []WorkStays
  OBVIOUS
<1>1. SubInit => InnerInv
  BY InnerInit
<1>2. InnerInv /\ [SubNext]_subvars => InnerInv'
  BY InnerNext
<1>3. InnerInv => WorkStays
  <2> SUFFICES ASSUME InnerInv PROVE WorkStays
    OBVIOUS
  <2>1. /\ kept \subseteq i_saved.completed /\ kept \subseteq SubNodes
        /\ InOrder(i_saved.next, i_saved.completed, i_saved.values)
    BY SubTypeParts DEF InnerInv, InvokedInOrder, SavedInOrder, PhaseTypeOK
  <2>2. phase = "in" => /\ kept \subseteq i_completed
                        /\ InOrder(i_next_nodes \cup i_new_next, i_completed, i_values)
    BY SubTypeParts DEF InnerInv, InvokedInOrder, RunInOrder, PhaseTypeOK
  <2>3. \A n \in kept : i_saved.values[n] = 1
    BY <2>1 DEF InOrder
  <2>4. phase = "in" => \A n \in kept : i_values[n] = 1
    BY <2>1, <2>2 DEF InOrder
  <2>5. QED
    BY <2>1, <2>3, <2>4 DEF WorkStays
<1>4. QED
  BY <1>1, <1>2, <1>3, PTL DEF SubSpec

\* InnerWorkKept, for every inner graph that leads to every node once and every outer
\* graph in which only the subgraph asks, with a caller that answers questions only: the
\* inner work stays, and an inner run that starts from nothing has the input of the
\* subgraph's node (_execute_subgraph on resume).
THEOREM InnerWorkIsKept ==
  Inner!LeadsOnce /\ OnlyAnswers /\ OnlySubAsks /\ SubSpec => []InnerWorkKept
<1> SUFFICES ASSUME Inner!LeadsOnce, OnlyAnswers, OnlySubAsks
             PROVE  SubSpec => []InnerWorkKept
  OBVIOUS
<1> DEFINE Inv == InnerInv /\ QuestionInv /\ AnswerInv
<1>1. SubInit => Inv
  BY InnerInit, QuestionInit, AnswerInit
<1>2. Inv /\ [SubNext]_subvars => Inv'
  BY InnerNext, QuestionNext, AnswerNext
<1>3. Inv => FreshHasInput
  BY DEF AnswerInv, FreshHasInput
<1>4. WorkStays /\ FreshHasInput => InnerWorkKept
  BY DEF InnerWorkKept
<1>5. SubSpec => []WorkStays
  BY InnerWorkStays
<1> HIDE DEF Inv
<1>6. QED
  BY <1>1, <1>2, <1>3, <1>4, <1>5, PTL DEF SubSpec

-----------------------------------------------------------------------------
(* The end of the inner graph.  What has completed leads to what has       *)
(* completed or is next, so that an inner run with nothing next has run    *)
(* every node that its start leads to.                                     *)

\* Every node of the inner graph is reached from START, whatever its branches select.
InnerReaches ==
  \A S \in SUBSET SubNodes :
    /\ \E start \in SubStartSets : start \subseteq S
    /\ \A n \in S : Inner!Successors(n) \subseteq S
    => S = SubNodes

Whole(vs) == \A n \in SubNodes : vs[n] = 1

Led(next, done, vs) ==
  \/ next = {} /\ Whole(vs)
  \/ /\ \E start \in SubStartSets : start \subseteq next \cup done
     /\ \A n \in done : Inner!Successors(n) \subseteq next \cup done

LedInv ==
  /\ i_saved.kind # "none" => Led(i_saved.next, i_saved.completed, i_saved.values)
  /\ i_pc # "idle" => Led(i_next_nodes \cup i_new_next, i_completed, i_values)

LEMMA OverMeansWhole ==
  ASSUME InnerReaches, InnerInv, LedInv, i_saved.kind # "none", i_saved.next = {}
  PROVE  Whole(i_saved.values)
<1>1. /\ Led({}, i_saved.completed, i_saved.values) /\ i_saved.completed \in SUBSET SubNodes
      /\ InOrder({}, i_saved.completed, i_saved.values)
  BY SubTypeParts DEF LedInv, InnerInv, SavedInOrder, InnerTypeOK, InnerType
<1>2. CASE i_saved.completed = SubNodes
  BY <1>1, <1>2 DEF InOrder, Whole
<1>3. CASE i_saved.completed # SubNodes
  <2>1. {} \cup i_saved.completed = i_saved.completed
    OBVIOUS
  <2>2. QED
    BY <1>1, <1>3, <2>1 DEF Led, InnerReaches
<1>4. QED
  BY <1>2, <1>3

LEMMA InnerStepLed ==
  ASSUME InnerInv, LedInv, Inner!LoopStep
  PROVE  LedInv'
<1>t. /\ InnerTypeOK /\ RunInOrder /\ i_saved \in InnerType
      /\ i_completed \subseteq SubNodes
  BY SubTypeParts DEF InnerInv, InnerTypeOK
<1>1. CASE InnerStops
  BY <1>1 DEF InnerStops, Inner!Return, LedInv, Led, Whole
<1>2. CASE InnerStarts
  <2>1. i_next_nodes' \cup i_new_next' = i_next_nodes \cup i_new_next
    BY <1>2, <1>t DEF InnerStarts, RunInOrder
  <2>2. /\ UNCHANGED <<i_saved, i_completed, i_values>> /\ i_pc # "idle"
    BY <1>2 DEF InnerStarts
  <2>3. QED
    BY <2>1, <2>2 DEF LedInv, Led, Whole
<1>3. ASSUME NEW n \in SubNodes, InnerRuns(n) PROVE LedInv'
  <2> DEFINE there == (i_next_nodes \cup i_new_next) \cup i_completed
             succ  == Inner!Successors(n)
  <2>1. /\ i_saved' = i_saved /\ i_pc # "idle" /\ n \in i_next_nodes
        /\ i_completed' = i_completed \cup {n}
        /\ (i_next_nodes' \cup i_new_next') \cup i_completed' = there \cup succ
    BY <1>3 DEF InnerRuns
  <2>2. /\ \E start \in SubStartSets : start \subseteq there
        /\ \A m \in i_completed : Inner!Successors(m) \subseteq there
    BY <2>1 DEF LedInv, Led
  <2>3. \A m \in i_completed' : Inner!Successors(m) \subseteq there \cup succ
    BY <2>1, <2>2
  <2>4. \E start \in SubStartSets : start \subseteq there \cup succ
    BY <2>2
  <2> HIDE DEF there, succ
  <2>5. Led(i_next_nodes' \cup i_new_next', i_completed', i_values')
    BY <2>1, <2>3, <2>4 DEF Led
  <2>6. i_saved'.kind # "none" => Led(i_saved'.next, i_saved'.completed, i_saved'.values)
    BY <2>1 DEF LedInv
  <2>7. QED
    BY <2>5, <2>6 DEF LedInv
<1>4. ASSUME NEW n \in SubNodes, InnerAsks(n) PROVE LedInv'
  <2>1. InOrder(i_next_nodes \cup i_new_next, i_completed, i_values) /\ n \in i_next_nodes
    BY <1>4, <1>t DEF InnerAsks, RunInOrder
  <2>2. (i_next_nodes \cup i_new_next) \ i_completed = i_next_nodes \cup i_new_next
    BY <2>1 DEF InOrder
  <2>3. /\ i_saved'.next = i_next_nodes \cup i_new_next /\ i_saved'.completed = i_completed
        /\ i_saved'.values = i_values /\ i_pc' = "idle" /\ i_pc # "idle"
    BY <1>4, <2>2 DEF InnerAsks, Inner!Return
  <2>4. Led(i_saved'.next, i_saved'.completed, i_saved'.values)
    BY <2>3 DEF LedInv
  <2>5. QED
    BY <2>3, <2>4 DEF LedInv
<1>5. CASE InnerCommits
  <2>1. /\ i_saved'.next = i_new_next /\ i_saved'.completed = i_completed
        /\ i_saved'.values = i_values /\ i_next_nodes' = i_new_next /\ i_new_next' = {}
        /\ i_completed' = i_completed /\ i_values' = i_values /\ i_pc # "idle"
        /\ i_next_nodes = {}
    BY <1>5 DEF InnerCommits
  <2>2. i_next_nodes \cup i_new_next = i_new_next /\ i_next_nodes' \cup i_new_next' = i_new_next
    BY <2>1
  <2>3. Led(i_new_next, i_completed, i_values)
    BY <2>1, <2>2 DEF LedInv
  <2>4. QED
    BY <2>1, <2>2, <2>3 DEF LedInv
<1>6. QED
  BY <1>1, <1>2, <1>3, <1>4, <1>5, InnerSteps

LEMMA EnterLed ==
  ASSUME InnerInv, LedInv, EnterSub
  PROVE  LedInv'
<1>t. InnerTypeOK /\ i_saved \in InnerType
  BY SubTypeParts DEF InnerInv, InnerTypeOK
<1>1. ASSUME NEW next, NEW at, NEW cp, NEW resuming, NEW value, cp \in InnerType,
             Led(next, cp.completed, cp.values), EnterFrom(next, at, cp, resuming, value)
      PROVE  LedInv'
  <2>1. /\ i_saved'.next = next /\ i_saved'.completed = cp.completed
        /\ i_saved'.values = cp.values
        /\ i_next_nodes' = next /\ i_new_next' = {}
        /\ i_completed' = cp.completed /\ i_values' = cp.values
    BY <1>1 DEF EnterFrom, InnerType
  <2>2. next \cup {} = next
    OBVIOUS
  <2>3. QED
    BY <1>1, <2>1, <2>2 DEF LedInv
<1>2. ASSUME NEW S \in SubStartSets
      PROVE  Led(S, Inner!NoCheckpoint.completed, Inner!NoCheckpoint.values)
  BY DEF Inner!NoCheckpoint, Led
<1>3. CASE \/ \E S \in SubStartSets : EnterFrom(S, 0, Inner!NoCheckpoint, FALSE, FALSE)
           \/ \E S \in SubStartSets : EnterFrom(S, 0, Inner!NoCheckpoint, FALSE, TRUE)
  BY <1>3, <1>1, <1>2, NoInnerCheckpointType
<1>4. CASE i_saved.kind # "none" /\ EnterFrom(i_saved.next, i_saved.step, i_saved, TRUE, TRUE)
  BY <1>4, <1>1, <1>t DEF LedInv
<1>5. QED
  BY <1>t, <1>3, <1>4, EnteredType DEF Entered

LEMMA LedNext ==
  ASSUME InnerReaches, InnerInv, LedInv, [SubNext]_subvars
  PROVE  LedInv'
<1>t. InnerTypeOK /\ PhaseTypeOK /\ InvokedInOrder /\ i_saved \in InnerType
  BY SubTypeParts DEF InnerInv, InnerTypeOK
<1>0. ASSUME i_saved' = i_saved, i_pc' = "idle" PROVE LedInv'
  BY <1>0 DEF LedInv
<1>1. CASE OuterSide
  BY <1>1, OuterSideSteps DEF inner, LedInv
<1>2. CASE EnterSub
  BY <1>2, EnterLed
<1>3. CASE InnerStep
  BY <1>3, InnerStepLed DEF InnerStep
<1>4. CASE InnerRaises
  BY <1>4, <1>0 DEF InnerRaises, Inner!Crash, Inner!Return
<1>5. CASE RaiseInterrupts \/ FailSub
  BY <1>5 DEF RaiseInterrupts, FailSub, inner, LedInv
<1>6. CASE CompleteSub
  <2>1. Whole(i_saved.values)
    BY <1>6, <1>t, OverMeansWhole DEF CompleteSub, SubInterrupts, InvokedInOrder
  <2>2. i_saved'.next = {} /\ i_saved'.values = i_saved.values /\ i_pc' = "idle"
    BY <1>6, <1>t DEF CompleteSub, KeepSubResult, SubResult, InnerType, PhaseTypeOK
  <2>3. QED
    BY <2>1, <2>2 DEF LedInv, Led, Whole
<1>7. CASE SubCrash
  BY <1>7, <1>0 DEF SubCrash
<1>8. QED
  BY <1>1, <1>2, <1>3, <1>4, <1>5, <1>6, <1>7, SubSideSteps

\* The outer loop of a graph without Sends: the lemmas of PregelLoopProofs, and the steps
\* that end an inner invocation.
OuterInv == FanInInv /\ NoSendsLeft

LEMMA OuterNext ==
  ASSUME Sendless, OuterInv, [SubNext]_subvars
  PROVE  OuterInv'
<1>t. /\ FanInInv /\ NoSendsLeft /\ TypeOK /\ TypeOK' /\ FanInWaits /\ RoutesAvoidJoins
      /\ RunTypeOK
  BY OuterTypeNext, TypeParts DEF OuterInv, FanInInv
<1>1. CASE [Next]_vars
  BY <1>1, <1>t, FanInNext, SendlessSteps DEF OuterInv
<1>2. CASE RaiseInterrupts
  <2>1. ASSUME NEW j \in JoinNodes, j \in saved'.next PROVE Joined(j, saved'.completed)
    <3>1. j \in next_nodes \cup new_next /\ saved'.completed = completed_nodes
      BY <1>2, <2>1 DEF RaiseInterrupts, Checkpoint, LeftAtInterrupt
    <3>2. QED
      BY <1>t, <3>1 DEF FanInWaits, RoutesAvoidJoins
  <2>2. FanInWaits' /\ RoutesAvoidJoins'
    BY <1>2, <1>t, <2>1, FanInAtPause DEF RaiseInterrupts
  <2>3. QED
    BY <1>2, <1>t, <2>2 DEF RaiseInterrupts, Return, OuterInv, FanInInv, NoSendsLeft
<1>3. CASE CompleteSub
  <2> DEFINE res == [kind |-> "value", route |-> NoRoute]
  <2>1. res \in Results(SubNode) /\ SubNode \in Nodes
    BY SubAssumption DEF Results
  <2>2. PICK r \in NextNodes(SubNode, res) : Complete(SubNode, r)
    BY <1>3 DEF CompleteSub
  <2>3. /\ \A j \in JoinNodes : j \notin r.next
        /\ r.sends = <<>>
    BY <2>1, <2>2, RoutesAvoid, RoutesLead
  <2>4. /\ saved' = saved /\ next_nodes' = next_nodes \ {SubNode} /\ cache' = cache
        /\ batch' = batch
    BY <1>3 DEF CompleteSub, Taken
  <2>5. JoinNodes \cap new_next' = {} /\ completed_nodes \subseteq completed_nodes'
    BY <1>t, <2>2, <2>3, CompleteAvoidsJoins
  <2>6. FanInWaits'
    BY <1>t, <2>4, <2>5, FanInWithinStep
  <2>7. new_sends' = new_sends
    BY <1>t, <2>2, <2>3, CompleteFinishes
  <2>8. RoutesAvoidJoins'
    BY <1>t, <2>4, <2>5 DEF RoutesAvoidJoins
  <2>9. QED
    BY <1>t, <2>4, <2>6, <2>7, <2>8 DEF OuterInv, FanInInv, NoSendsLeft
<1>4. CASE FailSub
  <2>1. \A j \in JoinNodes : ErrorHandler[SubNode] # j
    BY JoinUnreachable, SubAssumption
  <2>2. /\ saved' = saved /\ next_nodes' = next_nodes \ {SubNode} /\ UNCHANGED <<cache, batch, new_sends>>
        /\ new_next' = new_next \cup {ErrorHandler[SubNode]}
        /\ completed_nodes' = completed_nodes \cup {SubNode}
    BY <1>4 DEF FailSub, Taken
  <2>3. FanInWaits'
    BY <1>t, <2>2, FanInWithinStep
  <2>4. RoutesAvoidJoins'
    BY <1>t, <2>1, <2>2 DEF RoutesAvoidJoins
  <2>5. QED
    BY <1>t, <2>2, <2>3, <2>4 DEF OuterInv, FanInInv, NoSendsLeft
<1>5. QED
  BY <1>1, <1>2, <1>3, <1>4, SubSteps

\* No step of the outer loop alone counts the subgraph as done.
LEMMA OnlyCompleteSub ==
  ASSUME OuterInv, OuterSide, pc = "nodes"
  PROVE  ~(values'[SubNode] > values[SubNode])
<1>t. /\ values \in [Nodes -> Nat] /\ SubNode \in Nodes /\ NoSendsLeft
      /\ values[SubNode] \in Nat
  BY SubAssumption DEF OuterInv, FanInInv, TypeOK
<1>1. ASSUME values' = values \/ values' = Nowhere PROVE ~(values'[SubNode] > values[SubNode])
  BY <1>1, <1>t DEF Nowhere
<1>2. CASE SubCaller
  BY <1>2 DEF SubCaller, CallerStep, Invoke, Resume, Enter, UpdateState
<1>3. CASE SubRests \/ UNCHANGED subvars
  BY <1>3, <1>1 DEF SubRests, CallerRests, vars, subvars
<1>4. CASE Finish \/ RecursionError \/ PauseBefore \/ PauseAfter
  BY <1>4, <1>1 DEF Finish, RecursionError, PauseBefore, PauseAfter, Return
<1>5. CASE StartStep \/ EndStep
  BY <1>5, <1>1 DEF StartStep, EndStep, channels
<1>6. ASSUME NEW n \in Nodes \ {SubNode}, RunNode(n) \/ HitNode(n)
      PROVE  ~(values'[SubNode] > values[SubNode])
  <2>1. values' = [values EXCEPT ![n] = @ + 1]
    BY <1>6 DEF RunNode, HitNode, Complete
  <2>2. values'[SubNode] = values[SubNode]
    BY <1>t, <2>1
  <2>3. QED
    BY <1>t, <2>2
<1>7. ASSUME NEW n \in Nodes \ {SubNode}, SkipNode(n) \/ FailNode(n) \/ InterruptNode(n)
      PROVE  ~(values'[SubNode] > values[SubNode])
  BY <1>7, <1>1 DEF SkipNode, FailNode, HandOver, InterruptNode, Return, channels
<1>8. ~SendStep
  BY <1>t DEF NoSendsLeft, SendStep, StartBatch, SendDepthError, RunSend, FailSend,
              InterruptSend, NextSend
<1>9. QED
  BY <1>2, <1>3, <1>4, <1>5, <1>6, <1>7, <1>8 DEF OuterSide, OuterStep

LEMMA DoneStep ==
  ASSUME InnerReaches, InnerInv, LedInv, OuterInv, [SubNext]_subvars, pc = "nodes",
         values'[SubNode] > values[SubNode]
  PROVE  Whole(i_saved.values)
<1>t. /\ values[SubNode] \in Nat /\ InvokedInOrder
  BY SubAssumption DEF OuterInv, FanInInv, TypeOK, InnerInv
<1>1. CASE OuterSide
  BY <1>1, OnlyCompleteSub
<1>2. ASSUME values' = values \/ values' = Nowhere PROVE FALSE
  BY <1>2, <1>t, SubAssumption DEF Nowhere
<1>3. CASE EnterSub \/ InnerStep \/ InnerRaises
  BY <1>3, <1>2 DEF EnterSub, InnerStep, InnerRaises, vars
<1>4. CASE RaiseInterrupts \/ FailSub \/ SubCrash
  BY <1>4, <1>2 DEF RaiseInterrupts, FailSub, SubCrash, Crash, Return
<1>5. CASE CompleteSub
  BY <1>5, <1>t, OverMeansWhole DEF CompleteSub, SubInterrupts, InvokedInOrder
<1>6. QED
  BY <1>1, <1>3, <1>4, <1>5, SubSideSteps

LEMMA DoneInit == SubInit => LedInv /\ OuterInv
<1> SUFFICES ASSUME SubInit PROVE LedInv /\ OuterInv
  OBVIOUS
<1>1. LedInv
  BY DEF SubInit, Inner!NoCheckpoint, LedInv
<1>2. OuterInv
  BY FanInInit DEF SubInit, Init, OuterInv, NoSendsLeft
<1>3. QED
  BY <1>1, <1>2

\* DoneMeansWhole, for every inner graph whose nodes are all reached from START, each in
\* one way, inside an outer graph without Sends: an interrupt inside the subgraph is never
\* taken for its end, over every interruption, answer, crash and repetition (the check of
\* the subgraph's pending writes in _execute_subgraph).
THEOREM DoneIsWhole ==
  Inner!LeadsOnce /\ InnerReaches /\ Sendless /\ SubSpec => DoneMeansWhole
<1> SUFFICES ASSUME Inner!LeadsOnce, InnerReaches, Sendless PROVE SubSpec => DoneMeansWhole
  OBVIOUS
<1> DEFINE Inv == InnerInv /\ LedInv /\ OuterInv
           Done == pc = "nodes" /\ values'[SubNode] > values[SubNode] =>
                     \A n \in SubNodes : i_saved.values[n] = 1
<1>1. SubInit => Inv
  BY InnerInit, DoneInit
<1>2. Inv /\ [SubNext]_subvars => Inv'
  BY InnerNext, LedNext, OuterNext
<1>3. Inv /\ [SubNext]_subvars => [Done]_subvars
  BY DoneStep DEF Whole
<1> HIDE DEF Inv
<1>4. QED
  BY <1>1, <1>2, <1>3, PTL DEF SubSpec, DoneMeansWhole

=============================================================================
