---------------------------- MODULE SubgraphLoop ----------------------------
(***************************************************************************)
(* A compiled graph as a node of another one: PregelLoop._execute_subgraph *)
(* of zerograph/pregel/_loop.py and its asynchronous twin.                 *)
(*                                                                         *)
(* Two instances of the engine of module PregelLoop.  The outer one is     *)
(* extended; the inner one has a namespace of its own in the checkpointer, *)
(* whose latest checkpoint is i_saved.  While the node SubNode runs, only  *)
(* the inner loop moves.  What it needs to know of the outer loop goes     *)
(* through the node's config: whether there is an answer, and whether the  *)
(* parent's checkpoint_id is still in it (then the inner loop looks for    *)
(* that id in its own namespace, finds nothing and starts afresh).         *)
(***************************************************************************)
EXTENDS PregelLoop

CONSTANTS
  SubNode,          \* the node of the outer graph that is a compiled graph
  SubNodes, SubStartSets, SubEdges, SubAsks, SubRecursionLimit,
  OnlyAnswers       \* the caller resumes with a value only to answer a question

ASSUME SubAssumption ==
  /\ SubNode \in Nodes
  /\ SubNode \notin Cached \cup Failing
  /\ Asks[SubNode] = {0} /\ Gotos[SubNode] = {} /\ Listed[SubNode] = {}
  /\ SubStartSets \subseteq SUBSET SubNodes
  /\ SubEdges \subseteq SubNodes \X SubNodes
  /\ SubAsks \in [SubNodes -> SUBSET Nat]
  /\ SubRecursionLimit \in Nat
  /\ OnlyAnswers \in BOOLEAN

VARIABLES
  phase,            \* "out": the outer loop moves; "in": the inner one; "returned", "raised"
  sub_input,        \* what the inner loop was invoked with: "mapped", "command" or "none"
  i_saved,          \* the latest checkpoint in the subgraph's namespace
  i_pc, i_step, i_next_nodes, i_new_next, i_completed, i_prev, i_values, i_errors,
  i_is_resuming, i_answered, i_base,
  kept,             \* history: the inner nodes that had completed when the subgraph last
                    \* asked, until it is done or started anew
  retrying          \* history: the invocation that got the last answer crashed

inner == <<i_saved, i_pc, i_step, i_next_nodes, i_new_next, i_completed, i_prev, i_values,
           i_errors, i_is_resuming, i_answered, i_base>>
subvars == <<vars, phase, sub_input, inner, kept, retrying>>

\* The inner graph: plain edges and interrupts.
Inner == INSTANCE PregelLoop WITH
  Nodes <- SubNodes, StartSets <- SubStartSets, Edges <- SubEdges, WaitingEdges <- {},
  Branches <- [n \in SubNodes |-> {}], Gotos <- [n \in SubNodes |-> {}],
  Listed <- [n \in SubNodes |-> {}], Asks <- SubAsks, Failing <- {},
  ErrorHandler <- [n \in SubNodes |-> NoNode], Needs <- [n \in SubNodes |-> {}],
  Cached <- {}, InterruptBefore <- {}, InterruptAfter <- {}, UpdateAs <- {},
  RecursionLimit <- SubRecursionLimit, MaxTurns <- 0, MaxCalls <- 0,
  saved <- i_saved, cache <- [n \in SubNodes |-> {}], turns <- 0, calls <- 0,
  pc <- i_pc, step <- i_step, next_nodes <- i_next_nodes, new_next <- i_new_next,
  new_sends <- <<>>, batch <- <<>>, send_depth <- 0, completed_nodes <- i_completed,
  prev_completed <- i_prev, values <- i_values, errors <- i_errors,
  is_resuming <- i_is_resuming, answered <- i_answered, base_step <- i_base,
  asked <- {}, offered <- {}

-----------------------------------------------------------------------------
(* The outer loop.                                                         *)

\* The caller's discipline: a resume value is for a question get_state shows, or for
\* the one whose answer was lost with a crash.
AnswerIsDue == saved.asked # {} \/ retrying

SubCaller ==
  /\ phase = "out"
  /\ CallerStep
  /\ OnlyAnswers /\ answered' => AnswerIsDue
  /\ retrying' = (answered' /\ retrying)
  /\ UNCHANGED <<phase, sub_input, inner, kept>>

\* A step of the outer loop that is not the subgraph node's.
OuterStep ==
  /\ phase = "out"
  /\ \/ Finish \/ RecursionError \/ PauseBefore \/ StartStep
     \/ \E n \in Nodes \ {SubNode} :
          SkipNode(n) \/ RunNode(n) \/ HitNode(n) \/ FailNode(n) \/ InterruptNode(n)
     \/ SendStep
     \/ PauseAfter \/ EndStep
  /\ UNCHANGED <<phase, sub_input, inner, kept, retrying>>

SubCanRun ==
  /\ phase = "out"
  /\ pc = "nodes"
  /\ SubNode \in next_nodes
  /\ Available(SubNode)

-----------------------------------------------------------------------------
(* The invocation of the inner loop.                                       *)

EnterFrom(next, at, cp, resuming, value) ==
  /\ i_saved' = [cp EXCEPT !.kind = "input", !.next = next, !.step = at, !.asked = {}]
  /\ i_pc' = "step"
  /\ i_step' = 0 /\ i_base' = at
  /\ i_next_nodes' = next /\ i_new_next' = {}
  /\ i_completed' = cp.completed /\ i_prev' = {}
  /\ i_values' = cp.values /\ i_errors' = cp.errors
  /\ i_is_resuming' = resuming /\ i_answered' = value

EnterSubAlwaysFresh ==
  /\ SubCanRun
  /\ \E s \in SubStartSets : EnterFrom(s, 0, Inner!NoCheckpoint, FALSE, answered)
  /\ sub_input' = "mapped"
  /\ phase' = "in"
  /\ kept' = IF answered THEN kept ELSE {}
  /\ UNCHANGED <<vars, retrying>>

\* Without an answer the subgraph gets the node's input and starts afresh; with one it
\* gets Command(resume=...) and goes on from its own latest checkpoint, if it has one.
EnterSub ==
  /\ SubCanRun
  /\ \/ /\ ~answered
        /\ \E s \in SubStartSets : EnterFrom(s, 0, Inner!NoCheckpoint, FALSE, FALSE)
        /\ sub_input' = "mapped"
     \/ /\ answered
        /\ \/ /\ i_saved.kind = "none"
              /\ \E s \in SubStartSets : EnterFrom(s, 0, Inner!NoCheckpoint, FALSE, TRUE)
           \/ /\ i_saved.kind # "none"
              /\ EnterFrom(i_saved.next, i_saved.step, i_saved, TRUE, TRUE)
        /\ sub_input' = "command"
  /\ phase' = "in"
  /\ kept' = IF answered THEN kept ELSE {}
  /\ UNCHANGED <<vars, retrying>>

\* A step of loop.invoke; the last one returns the channels, or raises.
InnerStep ==
  /\ phase = "in"
  /\ Inner!LoopStep
  /\ phase' = IF i_pc' # "idle" THEN "in"
              ELSE IF i_next_nodes # {} /\ i_saved' = i_saved THEN "raised" ELSE "returned"
  /\ UNCHANGED <<vars, sub_input, kept, retrying>>

\* A node of the inner graph raised.
InnerRaises ==
  /\ phase = "in"
  /\ Inner!Crash
  /\ phase' = "raised"
  /\ UNCHANGED <<vars, sub_input, kept, retrying>>

-----------------------------------------------------------------------------
(* Back in the outer loop.                                                 *)

Left == phase' = "out" /\ sub_input' = "none"

SubQuestionByAsker == i_saved.asked

SubQuestion == {<<SubNode, 0>>}

\* get_pending_writes in the subgraph's namespace, at the checkpoint saved last.
SubInterrupts == i_saved.asked

\* _save_subgraph_state_with: the result, in a checkpoint with nothing left to do.
SubResult ==
  [i_saved EXCEPT !.kind = "subgraph", !.next = {}, !.completed = {}, !.step = 1,
                  !.errors = Inner!Nowhere, !.asked = {}]

KeepSubResult ==
  /\ i_saved' = SubResult
  /\ UNCHANGED <<i_pc, i_step, i_next_nodes, i_new_next, i_completed, i_prev, i_values,
                 i_errors, i_is_resuming, i_answered, i_base>>

RaiseInterruptsAfterSaving ==
  /\ phase = "returned"
  /\ SubInterrupts # {}
  /\ saved' = [Checkpoint("interrupt", LeftAtInterrupt(SubNode), completed_nodes, saved.step)
                 EXCEPT !.asked = SubQuestion]
  /\ Return
  /\ Left
  /\ kept' = i_saved.completed
  /\ KeepSubResult
  /\ UNCHANGED <<cache, bounds, retrying>>

\* GraphInterrupt(sub_interrupts), raised by the node of the outer graph.
RaiseInterrupts ==
  /\ phase = "returned"
  /\ SubInterrupts # {}
  /\ saved' = [Checkpoint("interrupt", LeftAtInterrupt(SubNode), completed_nodes, saved.step)
                 EXCEPT !.asked = SubQuestion]
  /\ Return
  /\ Left
  /\ kept' = i_saved.completed
  /\ UNCHANGED <<cache, bounds, inner, retrying>>

CompleteSubAnyway ==
  /\ phase = "returned"
  /\ KeepSubResult
  /\ Taken(SubNode)
  /\ \E r \in NextNodes(SubNode, [kind |-> "value", route |-> NoRoute]) : Complete(SubNode, r)
  /\ Left
  /\ kept' = {}
  /\ UNCHANGED <<cache, retrying>>

CompleteSub ==
  /\ phase = "returned"
  /\ SubInterrupts = {}
  /\ KeepSubResult
  /\ Taken(SubNode)
  /\ \E r \in NextNodes(SubNode, [kind |-> "value", route |-> NoRoute]) : Complete(SubNode, r)
  /\ Left
  /\ kept' = {}
  /\ UNCHANGED <<cache, retrying>>

RetrySub ==
  /\ phase = "raised"
  /\ Left
  /\ UNCHANGED <<vars, inner, kept, retrying>>

\* The exception of the inner graph is the node's; its error handler is next.
FailSub ==
  /\ phase = "raised"
  /\ ErrorHandler[SubNode] # NoNode
  /\ Taken(SubNode)
  /\ errors' = [errors EXCEPT ![SubNode] = @ + 1]
  /\ new_next' = new_next \cup {ErrorHandler[SubNode]}
  /\ completed_nodes' = completed_nodes \cup {SubNode}
  /\ Left
  /\ UNCHANGED <<values, new_sends, cache, inner, kept, retrying>>

\* The invocation ends with an exception, or the process dies; both loops are gone.
SubCrash ==
  /\ Crash
  /\ Left
  /\ retrying' = (answered \/ retrying)
  /\ UNCHANGED <<i_saved, kept>>
  /\ i_pc' = "idle" /\ i_step' = 0 /\ i_base' = 0
  /\ i_next_nodes' = {} /\ i_new_next' = {} /\ i_completed' = {} /\ i_prev' = {}
  /\ i_values' = Inner!Nowhere /\ i_errors' = Inner!Nowhere
  /\ i_is_resuming' = FALSE /\ i_answered' = FALSE

-----------------------------------------------------------------------------
(* get_state(config, subgraphs=True).                                      *)

\* What _get_subgraph_states shows of the node: the config it builds has no
\* checkpoint_id, so that no pending write of the subgraph is found.
SubgraphState ==
  [next |-> i_saved.next, values |-> i_saved.values, interrupts |-> {}]

\* get_state of the outer graph, with the config of the invocation that ended.
ShownState ==
  [next |-> saved.next, interrupts |-> saved.asked,
   subgraphs |-> IF i_saved.kind = "none" THEN {} ELSE {SubgraphState}]

-----------------------------------------------------------------------------
SubInit ==
  /\ Init
  /\ phase = "out" /\ sub_input = "none"
  /\ kept = {} /\ retrying = FALSE
  /\ i_saved = Inner!NoCheckpoint
  /\ i_pc = "idle" /\ i_step = 0 /\ i_base = 0
  /\ i_next_nodes = {} /\ i_new_next = {} /\ i_completed = {} /\ i_prev = {}
  /\ i_values = Inner!Nowhere /\ i_errors = Inner!Nowhere
  /\ i_is_resuming = FALSE /\ i_answered = FALSE

SubStep == EnterSub \/ InnerStep \/ RaiseInterrupts \/ CompleteSub \/ FailSub

SubRests == CallerRests /\ UNCHANGED <<phase, sub_input, inner, kept, retrying>>

SubNext == SubCaller \/ OuterStep \/ SubStep \/ InnerRaises \/ SubCrash \/ SubRests

SubSpec == SubInit /\ [][SubNext]_subvars

\* One thread runs both loops; an exception without a handler leaves them.
SubFairSpec ==
  SubSpec /\ WF_subvars(OuterStep \/ SubStep \/ (phase = "raised" /\ SubCrash))

-----------------------------------------------------------------------------
(* Properties.                                                             *)

\* The type invariant of both loops and of the two checkpoints.
SubTypeOK ==
  /\ TypeOK
  /\ phase \in {"out", "in", "returned", "raised"}
  /\ sub_input \in {"none", "mapped", "command"}
  /\ i_saved \in [kind : Inner!Kinds \cup {"subgraph"}, next : SUBSET SubNodes,
                  completed : SUBSET SubNodes, values : [SubNodes -> Nat],
                  errors : [SubNodes -> Nat], step : Nat, asked : SUBSET (SubNodes \X Nat)]
  /\ i_pc \in {"idle", "step", "nodes"} /\ i_step \in Nat /\ i_base \in Nat
  /\ (phase = "in") = (i_pc # "idle")
  /\ i_values \in [SubNodes -> Nat] /\ i_errors \in [SubNodes -> Nat]
  /\ i_next_nodes \cup i_new_next \cup i_completed \cup i_prev \cup kept \subseteq SubNodes

\* While the outer graph waits for an answer to the subgraph's question, get_state shows
\* the inner checkpoint of that question with the asking node next, and the subgraph's own
\* node is next in the outer checkpoint; unless it had completed in an earlier step or turn
\* (LeftAtInterrupt takes completed nodes out of what is left, and no resume enters them).
QuestionWaits ==
  saved.asked = SubQuestion =>
    /\ ShownState.subgraphs # {}
    /\ i_saved.asked # {}
    /\ \A q \in i_saved.asked : q[1] \in SubgraphState.next
    /\ SubNode \in saved.next \cup saved.completed

\* The invocation that resumes from it keeps the node due, with the inner checkpoint of the
\* question, until the node is entered; and an answer is then given to the inner graph.
AnswerArrives ==
  asked = SubQuestion /\ SubNode \notin completed_nodes =>
    /\ phase = "out" => SubNode \in next_nodes /\ i_saved.asked # {}
    /\ phase = "in" /\ answered => i_is_resuming /\ i_answered

\* A question of the subgraph is shown with the inner checkpoint it was asked at, and its
\* answer gets there: up to the first completion of the subgraph's node in the thread.
QuestionReachesInner == QuestionWaits /\ AnswerArrives

\* The outer graph counts the subgraph as done only when every node of the inner graph
\* has run once: an interrupt inside it is never taken for the end of it, however the
\* invocations were interrupted, answered, crashed and repeated.
DoneMeansWhole ==
  [][ pc = "nodes" /\ values'[SubNode] > values[SubNode] =>
        \A n \in SubNodes : i_saved.values[n] = 1 ]_subvars

\* The inner nodes that had completed when the subgraph last asked have run once, in its
\* checkpoint and in a running inner loop: however often the answer is tried, crashes and is
\* tried again, until the subgraph is done, or a resume without an answer starts it anew.
WorkStays ==
  /\ kept \subseteq i_saved.completed
  /\ \A n \in kept : i_saved.values[n] = 1
  /\ phase = "in" => \A n \in kept : i_values[n] = 1

\* An inner run that starts from nothing has the input of the subgraph's node.
FreshHasInput == phase = "in" /\ ~i_is_resuming => sub_input = "mapped"

\* Answering a question of the subgraph neither repeats nor loses inner work, and is never
\* taken for the first call of it.
InnerWorkKept == WorkStays /\ FreshHasInput

\* Every invocation of the outer graph ends, whatever happens in the inner one.
SubInvocationEnds == (pc # "idle") ~> (pc = "idle")

=============================================================================
