----------------------------- MODULE PregelLoop -----------------------------
(***************************************************************************)
(* The superstep engine of zerograph/pregel/_loop.py: PregelLoop._run on   *)
(* one thread of one compiled graph with a checkpointer.                   *)
(*                                                                         *)
(* An invocation loads the thread's latest checkpoint, picks the nodes to  *)
(* start with, and repeats supersteps: the due nodes run one after the     *)
(* other, each seeing the updates of those before it; then the Send        *)
(* objects they returned run, batch by batch; then a checkpoint is saved.  *)
(* It may stop on the way: before or after a listed node, at an            *)
(* interrupt() inside a node, or with an exception.  What survives is the  *)
(* last checkpoint saved, and the caller goes on from there, with a new    *)
(* input or with a Command.                                                *)
(*                                                                         *)
(* The data of a state is abstracted to who wrote it: `values` counts, for *)
(* every node, the updates of that node which are in the channels, and     *)
(* `errors` its entries in the __error__ channel.  A node function is      *)
(* every choice of a result its kind of node may return.  next_nodes is    *)
(* list(set) of strings in the code, whose order changes from process to   *)
(* process: the model takes the nodes of a step in every order.            *)
(***************************************************************************)
EXTENDS Integers, FiniteSets, Sequences

CONSTANTS
  Nodes,            \* builder.nodes
  NoNode,           \* "no node": the absent error_handler_node
  StartSets,        \* the sets of nodes the edges and branches of START may select
  Edges,            \* builder.edges between nodes, as pairs
  WaitingEdges,     \* builder.waiting_edges, as records [starts, end]
  Branches,         \* what the conditional edges of a node may select; {}: it has none
  Gotos,            \* the Command(goto=...) results a node may return
  Listed,           \* the list results with Sends or Commands a node may return
  Asks,             \* how many interrupt() calls one execution of a node may make
  Failing,          \* the nodes that may raise an Exception
  ErrorHandler,     \* error_handler_node of a node, or NoNode
  Needs,            \* the nodes whose updates a node's input schema needs
  Cached,           \* the nodes with a cache_policy, in a graph compiled with a cache
  InterruptBefore, InterruptAfter,
  UpdateAs,         \* the nodes the caller may pass to update_state as as_node
  RecursionLimit,   \* config["recursion_limit"]
  MaxSendDepth,     \* constants.MAX_SEND_DEPTH
  Crashes,          \* may an exception or a killed process end an invocation?
  MaxTurns,         \* bound: invocations with a new input
  MaxCalls          \* bound: invocations and updates of the state altogether

Route == [next : SUBSET Nodes, sends : Seq(Nodes)]

\* The i-th interrupt() call (from 0) of an execution of a node.
Question == Nodes \X Nat

ASSUME GraphAssumption ==
  /\ NoNode \notin Nodes
  /\ StartSets \subseteq SUBSET Nodes
  /\ Edges \subseteq Nodes \X Nodes
  /\ WaitingEdges \subseteq [starts : SUBSET Nodes, end : Nodes]
  /\ Branches \in [Nodes -> SUBSET Route]
  /\ Gotos \in [Nodes -> SUBSET Route]
  /\ Listed \in [Nodes -> SUBSET Route]
  /\ Asks \in [Nodes -> SUBSET Nat]
  /\ ErrorHandler \in [Nodes -> Nodes \cup {NoNode}]
  /\ Needs \in [Nodes -> SUBSET Nodes]

ASSUME LimitAssumption ==
  /\ InterruptBefore \subseteq Nodes
  /\ InterruptAfter \subseteq Nodes
  /\ UpdateAs \subseteq Nodes
  /\ Crashes \in BOOLEAN
  /\ RecursionLimit \in Nat
  /\ MaxSendDepth \in Nat
  /\ MaxTurns \in Nat
  /\ MaxCalls \in Nat

VARIABLES
  saved,            \* the thread's latest checkpoint
  cache,            \* the results in the graph's cache, by node
  turns, calls,     \* invocations with an input, and calls altogether, so far
  pc,               \* "idle": no invocation; "step": top of the loop; "nodes": in a step
  step,
  next_nodes,       \* the nodes due in this step that have not been taken yet
  new_next,         \* the nodes selected for the next step
  new_sends,        \* the Sends returned in this step and not in a batch yet
  batch,            \* the Sends of the current batch that have not run yet
  send_depth,
  completed_nodes, prev_completed,
  values, errors,   \* the channels
  is_resuming,
  answered,         \* resume_value is not None
  base_step,
  asked,            \* history: the questions that were pending when the caller resumed
  offered           \* history: the nodes get_state showed as next when the caller resumed

channels == <<values, errors>>
sendq    == <<new_sends, batch, send_depth>>
bounds   == <<turns, calls>>
frame    == <<is_resuming, answered, base_step, asked, offered>>
vars == <<saved, cache, turns, calls, pc, step, next_nodes, new_next, new_sends,
          batch, send_depth, completed_nodes, prev_completed, values, errors,
          is_resuming, answered, base_step, asked, offered>>

-----------------------------------------------------------------------------
(* Routing.                                                                *)

NoRoute == [next |-> {}, sends |-> <<>>]

Join(r, s) == [next |-> r.next \cup s.next, sends |-> r.sends \o s.sends]

\* What a node function may return: a plain update, a Command with a goto, or a
\* list that holds Sends or Commands.
Results(n) ==
  [kind : {"value"}, route : {NoRoute}]
    \cup [kind : {"goto"}, route : Gotos[n]]
    \cup [kind : {"list"}, route : Listed[n]]

Successors(n) == {e[2] : e \in {d \in Edges : d[1] = n}}

ExtractRouting(n, res) ==
  IF res.kind = "list" /\ Branches[n] = {} THEN res.route ELSE NoRoute

\* The routes _get_next_nodes may return: a goto overrides the edges; a list result
\* stands for the answer of the conditional edges; otherwise the path functions answer.
NextNodes(n, res) ==
  LET direct  == [next |-> Successors(n), sends |-> <<>>]
      answers == IF Branches[n] = {} THEN {NoRoute}
                 ELSE IF res.kind = "list" THEN {res.route} ELSE Branches[n]
  IN IF res.kind = "goto" THEN {res.route} ELSE {Join(direct, a) : a \in answers}

FanInAnySource(next) ==
  {w.end : w \in {e \in WaitingEdges :
                    /\ e.end \notin next \cup completed_nodes
                    /\ e.starts \cap completed_nodes # {}}}

\* The targets of the waiting edges whose sources have all completed.
FanIn(next) ==
  {w.end : w \in {e \in WaitingEdges :
                    /\ e.end \notin next \cup completed_nodes
                    /\ e.starts \subseteq completed_nodes}}

-----------------------------------------------------------------------------
(* The thread's checkpoints.                                               *)

Nowhere == [n \in Nodes |-> 0]

NoCheckpoint ==
  [kind |-> "none", next |-> {}, completed |-> {}, values |-> Nowhere,
   errors |-> Nowhere, step |-> 0, asked |-> {}]

\* _checkpoint_from_channels and _save_checkpoint: everything the loop does not set
\* again is copied from the checkpoint before.
Checkpoint(kind, next, completed, at) ==
  [kind |-> kind, next |-> next, completed |-> completed, values |-> values,
   errors |-> errors, step |-> at, asked |-> {}]

\* The invocation is over: returned or raised.  Its local state is gone.
Return ==
  /\ pc' = "idle"
  /\ step' = 0 /\ base_step' = 0
  /\ next_nodes' = {} /\ new_next' = {}
  /\ new_sends' = <<>> /\ batch' = <<>> /\ send_depth' = 0
  /\ completed_nodes' = {} /\ prev_completed' = {}
  /\ values' = Nowhere /\ errors' = Nowhere
  /\ is_resuming' = FALSE /\ answered' = FALSE
  /\ asked' = {} /\ offered' = {}

-----------------------------------------------------------------------------
(* The caller.                                                             *)

RestoredFresh == IF saved.kind = "input" THEN saved.values ELSE Nowhere

\* _restore_channels
Restored == saved.values

\* The part of _run before the loop that both kinds of invocation share: the channels
\* and _completed_nodes are those of the checkpoint, and an initial checkpoint is saved.
Enter(next, at, resume) ==
  /\ pc = "idle"
  /\ calls < MaxCalls
  /\ calls' = calls + 1
  /\ saved' = [saved EXCEPT !.kind = "input", !.next = next, !.step = at, !.asked = {}]
  /\ pc' = "step"
  /\ step' = 0
  /\ base_step' = at
  /\ next_nodes' = next
  /\ completed_nodes' = saved.completed
  /\ values' = Restored
  /\ errors' = saved.errors
  /\ answered' = resume
  /\ UNCHANGED <<cache, new_next, sendq, prev_completed>>

\* invoke(input): a new input, or a Command on a thread that has no checkpoint.
Invoke ==
  /\ turns < MaxTurns
  /\ \E s \in StartSets, resume \in BOOLEAN :
       /\ resume => saved.kind = "none"
       /\ Enter(s, 0, resume)
  /\ turns' = turns + 1
  /\ is_resuming' = FALSE
  /\ asked' = {} /\ offered' = {}

ResumeCountingAnew ==
  /\ saved.kind # "none"
  /\ \E resume \in BOOLEAN : Enter(saved.next, 0, resume)
  /\ is_resuming' = TRUE
  /\ asked' = saved.asked /\ offered' = saved.next
  /\ UNCHANGED turns

\* invoke(Command(...)), with or without a resume value.
Resume ==
  /\ saved.kind # "none"
  /\ \E resume \in BOOLEAN : Enter(saved.next, saved.step, resume)
  /\ is_resuming' = TRUE
  /\ asked' = saved.asked /\ offered' = saved.next
  /\ UNCHANGED turns

\* update_state(config, values, as_node): the update is written as if as_node had
\* returned it, and the checkpoint's next nodes are those after as_node.  A path
\* function that fails stands for all its targets.
UpdateState(as) ==
  LET paths == Branches[as] \cup
                 {[next |-> UNION {b.next : b \in Branches[as]}, sends |-> <<>>]}
      done  == saved.completed \cup {as}
      joins == {w.end : w \in {e \in WaitingEdges : as \in e.starts /\ e.starts \subseteq done}}
  IN /\ pc = "idle"
     /\ calls < MaxCalls
     /\ calls' = calls + 1
     /\ \E p \in paths :
          saved' = [kind |-> "update",
                    next |-> ((Successors(as) \cup p.next
                                \cup {p.sends[i] : i \in DOMAIN p.sends}) \ {as}) \cup joins,
                    completed |-> done,
                    values |-> [saved.values EXCEPT ![as] = @ + 1],
                    errors |-> saved.errors,
                    step |-> saved.step,
                    asked |-> {}]
     /\ UNCHANGED <<cache, turns, pc, step, next_nodes, new_next, sendq, completed_nodes,
                    prev_completed, channels, frame>>

-----------------------------------------------------------------------------
(* The top of the loop.                                                    *)

Due == next_nodes \cup FanIn(next_nodes)

GateOpenForWholeResume == is_resuming

\* interrupt_before is not looked at in the first step of a resumed invocation.
GateOpen == is_resuming /\ step = 0

Held == IF GateOpen THEN {} ELSE Due \cap InterruptBefore

WithinAnyLimit == TRUE

WithinLimit == step < RecursionLimit

\* Nothing left to do: the loop ends and the invocation returns.
Finish ==
  /\ pc = "step"
  /\ next_nodes = {}
  /\ Return
  /\ UNCHANGED <<saved, cache, bounds>>

\* raise GraphRecursionError
RecursionError ==
  /\ pc = "step"
  /\ next_nodes # {}
  /\ ~WithinLimit
  /\ Return
  /\ UNCHANGED <<saved, cache, bounds>>

PauseBefore ==
  /\ pc = "step"
  /\ next_nodes # {}
  /\ WithinLimit
  /\ Held # {}
  /\ saved' = Checkpoint("before", Due, completed_nodes, saved.step)
  /\ Return
  /\ UNCHANGED <<cache, bounds>>

StartStep ==
  /\ pc = "step"
  /\ next_nodes # {}
  /\ WithinLimit
  /\ Held = {}
  /\ pc' = "nodes"
  /\ next_nodes' = Due
  /\ new_next' = {}
  /\ prev_completed' = completed_nodes
  /\ UNCHANGED <<saved, cache, bounds, step, sendq, completed_nodes, channels, frame>>

-----------------------------------------------------------------------------
(* The nodes of a step.                                                    *)

Available(n) == \A m \in Needs[n] : values[m] > 0

\* The values interrupt() can return in this invocation: Scratchpad.resume is
\* [resume_value] for every node of every step.
Answers == IF answered THEN 1 ELSE 0

\* A node's result reaches the channels and the sets for the next step.
Complete(n, route) ==
  /\ completed_nodes' = completed_nodes \cup {n}
  /\ values' = [values EXCEPT ![n] = @ + 1]
  /\ new_next' = new_next \cup route.next
  /\ new_sends' = new_sends \o route.sends
  /\ UNCHANGED errors

Store(n, res) ==
  cache' = IF n \in Cached THEN [cache EXCEPT ![n] = @ \cup {res}] ELSE cache

HandOverUnchecked(n) ==
  /\ n \in Failing
  /\ errors' = [errors EXCEPT ![n] = @ + 1]
  /\ new_next' = new_next \cup {ErrorHandler[n]}
  /\ completed_nodes' = completed_nodes \cup {n}
  /\ UNCHANGED <<values, new_sends, cache>>

\* An exception of a node that has an error handler.
HandOver(n) ==
  /\ n \in Failing
  /\ ErrorHandler[n] # NoNode
  /\ errors' = [errors EXCEPT ![n] = @ + 1]
  /\ new_next' = new_next \cup {ErrorHandler[n]}
  /\ completed_nodes' = completed_nodes \cup {n}
  /\ UNCHANGED <<values, new_sends, cache>>

\* The node leaves next_nodes; the rest of the step goes on.
Taken(n) ==
  /\ pc = "nodes"
  /\ n \in next_nodes
  /\ next_nodes' = next_nodes \ {n}
  /\ UNCHANGED <<saved, bounds, pc, step, batch, send_depth, prev_completed, frame>>

\* The node waits in its place for the channel.
SkipNodeForNow(n) ==
  /\ pc = "nodes" /\ n \in next_nodes
  /\ ~Available(n)
  /\ UNCHANGED vars

\* EmptyChannelError: the node is passed over.
SkipNode(n) ==
  /\ Taken(n)
  /\ ~Available(n)
  /\ UNCHANGED <<cache, new_next, new_sends, completed_nodes, channels>>

RunNode(n) ==
  /\ Taken(n)
  /\ Available(n)
  /\ \E k \in Asks[n], res \in Results(n) :
       /\ k <= Answers
       /\ \E r \in NextNodes(n, res) : Complete(n, Join(ExtractRouting(n, res), r))
       /\ Store(n, res)

\* A cache hit: the node does not run, and only _get_next_nodes routes.
HitNode(n) ==
  /\ Taken(n)
  /\ Available(n)
  /\ \E res \in cache[n] : \E r \in NextNodes(n, res) : Complete(n, r)
  /\ UNCHANGED cache

FailNode(n) ==
  /\ Taken(n)
  /\ Available(n)
  /\ HandOver(n)

LeftForgettingRest(n) == ({n} \cup new_next) \ completed_nodes

LeftForgettingAsker(n) == ((next_nodes \ {n}) \cup new_next) \ completed_nodes

\* What is left to do when node n calls interrupt() and there is no answer.
LeftAtInterrupt(n) == (next_nodes \cup new_next) \ completed_nodes

\* GraphInterrupt: a checkpoint with the interrupt is saved, and the call returns.
InterruptNode(n) ==
  /\ pc = "nodes"
  /\ n \in next_nodes
  /\ Available(n)
  /\ \E k \in Asks[n] : k > Answers
  /\ saved' = [Checkpoint("interrupt", LeftAtInterrupt(n), completed_nodes, saved.step)
                 EXCEPT !.asked = {<<n, Answers>>}]
  /\ Return
  /\ UNCHANGED <<cache, bounds>>

-----------------------------------------------------------------------------
(* The Sends of a step.                                                    *)

NodesDone == pc = "nodes" /\ next_nodes = {}

StartBatch ==
  /\ NodesDone
  /\ batch = <<>> /\ new_sends # <<>>
  /\ send_depth < MaxSendDepth
  /\ send_depth' = send_depth + 1
  /\ batch' = new_sends
  /\ new_sends' = <<>>
  /\ UNCHANGED <<saved, cache, bounds, pc, step, next_nodes, new_next, completed_nodes,
                 prev_completed, channels, frame>>

\* raise GraphRecursionError: the chain of Sends is too deep.
SendDepthError ==
  /\ NodesDone
  /\ batch = <<>> /\ new_sends # <<>>
  /\ send_depth >= MaxSendDepth
  /\ Return
  /\ UNCHANGED <<saved, cache, bounds>>

NextSend ==
  /\ NodesDone
  /\ batch # <<>>
  /\ batch' = Tail(batch)
  /\ UNCHANGED <<saved, bounds, pc, step, next_nodes, send_depth, prev_completed, frame>>

\* A Send target runs, or its cached result is taken; both are routed in full.
RunSend ==
  LET n == Head(batch)
  IN /\ NextSend
     /\ \E res \in Results(n) :
          \E k \in Asks[n] \cup (IF res \in cache[n] THEN {0} ELSE {}) :
            /\ k <= Answers
            /\ \E r \in NextNodes(n, res) : Complete(n, Join(ExtractRouting(n, res), r))
            /\ Store(n, res)

FailSend == NextSend /\ HandOver(Head(batch))

InterruptSend ==
  LET n    == Head(batch)
      done == completed_nodes \cup {n}
  IN /\ NodesDone
     /\ batch # <<>>
     /\ \E k \in Asks[n] : k > Answers
     /\ saved' = [Checkpoint("interrupt", new_next \ done, done, saved.step)
                    EXCEPT !.asked = {<<n, Answers>>}]
     /\ Return
     /\ UNCHANGED <<cache, bounds>>

-----------------------------------------------------------------------------
(* The end of a step.                                                      *)

StepDone == NodesDone /\ batch = <<>> /\ new_sends = <<>>

StopAfter == (completed_nodes \ prev_completed) \cap InterruptAfter

NextWithoutFanIn == new_next

NextStep == new_next \cup FanIn(new_next)

PauseAfter ==
  /\ StepDone
  /\ StopAfter # {}
  /\ saved' = Checkpoint("after", NextStep, completed_nodes, saved.step)
  /\ Return
  /\ UNCHANGED <<cache, bounds>>

StepForgettingDone ==
  Checkpoint("loop", NextStep, saved.completed, base_step + step + 1)

StepCheckpoint ==
  Checkpoint("loop", NextStep, completed_nodes, base_step + step + 1)

EndStep ==
  /\ StepDone
  /\ StopAfter = {}
  /\ saved' = StepCheckpoint
  /\ pc' = "step"
  /\ step' = step + 1
  /\ next_nodes' = NextStep
  /\ new_next' = {}
  /\ send_depth' = 0
  /\ UNCHANGED <<cache, bounds, new_sends, batch, completed_nodes, prev_completed,
                 channels, frame>>

-----------------------------------------------------------------------------
(* An exception that leaves _run, or the end of the process: a node raised and has no *)
(* handler, a result could not be applied, a Send target bubbled up.       *)

Crash ==
  /\ Crashes
  /\ pc # "idle"
  /\ Return
  /\ UNCHANGED <<saved, cache, bounds>>

Init ==
  /\ saved = NoCheckpoint
  /\ cache = [n \in Nodes |-> {}]
  /\ turns = 0 /\ calls = 0
  /\ pc = "idle"
  /\ step = 0 /\ base_step = 0
  /\ next_nodes = {} /\ new_next = {}
  /\ new_sends = <<>> /\ batch = <<>> /\ send_depth = 0
  /\ completed_nodes = {} /\ prev_completed = {}
  /\ values = Nowhere /\ errors = Nowhere
  /\ is_resuming = FALSE /\ answered = FALSE
  /\ asked = {} /\ offered = {}

NodeStep ==
  \E n \in Nodes : SkipNode(n) \/ RunNode(n) \/ HitNode(n) \/ FailNode(n) \/ InterruptNode(n)

SendStep == StartBatch \/ SendDepthError \/ RunSend \/ FailSend \/ InterruptSend

LoopStep ==
  \/ Finish \/ RecursionError \/ PauseBefore \/ StartStep
  \/ NodeStep \/ SendStep
  \/ PauseAfter \/ EndStep

CallerStep == Invoke \/ Resume \/ \E as \in UpdateAs : UpdateState(as)

\* The caller may leave the thread alone for good; a running invocation may not stop.
CallerRests == pc = "idle" /\ UNCHANGED vars

Next == LoopStep \/ CallerStep \/ Crash \/ CallerRests

Spec == Init /\ [][Next]_vars

\* The thread that runs _run goes on as long as it can; node functions return.
FairSpec == Spec /\ WF_vars(LoopStep)

-----------------------------------------------------------------------------
(* Properties.                                                             *)

Kinds == {"none", "input", "loop", "before", "after", "interrupt", "update"}

CheckpointType ==
  [kind : Kinds, next : SUBSET Nodes, completed : SUBSET Nodes, values : [Nodes -> Nat],
   errors : [Nodes -> Nat], step : Nat, asked : SUBSET Question]

\* The type invariant of the engine and of the thread's checkpoint.
TypeOK ==
  /\ saved \in CheckpointType
  /\ cache \in [Nodes -> SUBSET [kind : {"value", "goto", "list"}, route : Route]]
  /\ turns \in 0..MaxTurns /\ calls \in 0..MaxCalls
  /\ pc \in {"idle", "step", "nodes"}
  /\ step \in Nat /\ base_step \in Nat /\ send_depth \in 0..MaxSendDepth
  /\ next_nodes \in SUBSET Nodes /\ new_next \in SUBSET Nodes
  /\ new_sends \in Seq(Nodes) /\ batch \in Seq(Nodes)
  /\ completed_nodes \in SUBSET Nodes /\ prev_completed \in SUBSET Nodes
  /\ values \in [Nodes -> Nat] /\ errors \in [Nodes -> Nat]
  /\ is_resuming \in BOOLEAN /\ answered \in BOOLEAN
  /\ asked \in SUBSET Question /\ offered \in SUBSET Nodes

RouteTargets(routes) ==
  UNION {r.next \cup {r.sends[i] : i \in DOMAIN r.sends} : r \in routes}

RoutedNodes ==
  UNION {RouteTargets(Branches[n] \cup Gotos[n] \cup Listed[n]) : n \in Nodes}

EdgeTargets == {e[2] : e \in Edges}

Handlers == {ErrorHandler[n] : n \in Nodes}

OtherwiseReached == (UNION StartSets) \cup EdgeTargets \cup Handlers \cup RoutedNodes

\* The nodes that may follow a node, other than by a waiting edge.
LeadsTo(n) ==
  Successors(n) \cup RouteTargets(Branches[n] \cup Gotos[n] \cup Listed[n])
    \cup ({ErrorHandler[n]} \ {NoNode})

\* The nodes that only a waiting edge leads to.
JoinNodes == {w.end : w \in WaitingEdges} \ OtherwiseReached

Sendless ==
  \A n \in Nodes : \A r \in Branches[n] \cup Gotos[n] \cup Listed[n] : r.sends = <<>>

\* A graph without Sends that leads to every node in one way: from START, by waiting edges,
\* or from one other node.
LeadsOnce ==
  /\ Sendless
  /\ \A n, m \in Nodes : n # m => LeadsTo(n) \cap LeadsTo(m) = {}
  /\ \A n \in Nodes :
       LeadsTo(n) \cap ((UNION StartSets) \cup {w.end : w \in WaitingEdges}) = {}
  /\ (UNION StartSets) \cap {w.end : w \in WaitingEdges} = {}

Joined(j, done) == \E w \in WaitingEdges : w.end = j /\ w.starts \subseteq done

\* A fan-in node is due, or pending in the checkpoint, only when all sources of a
\* waiting edge to it have completed, whatever pauses, crashes, resumes and updates of
\* the state came between them (the waiting-edge checks of _run and update_state).
FanInWaits ==
  \A j \in JoinNodes :
    /\ j \in saved.next => Joined(j, saved.completed)
    /\ j \in next_nodes => Joined(j, completed_nodes)

\* No work is lost between checkpoints: what a completed node leads to has completed or
\* is next, and the loop never ends (next is empty) with a fan-in that is due.
NothingLost ==
  saved.kind # "none" =>
    /\ \E s \in StartSets : s \subseteq saved.completed \cup saved.next
    /\ \A n \in saved.completed :
         /\ saved.values[n] > 0 => Successors(n) \subseteq saved.completed \cup saved.next
         /\ saved.errors[n] > 0 => ErrorHandler[n] \in saved.completed \cup saved.next
    /\ \A w \in WaitingEdges :
         saved.next = {} /\ w.starts \subseteq saved.completed => w.end \in saved.completed

\* In a graph that leads to every node once (LeadsOnce), the checkpoint holds exactly one update (or
\* error entry) of each completed node and none of the others: neither a retry after a
\* crash, nor a resume in the middle of a step, applies an update twice or drops one.
EffectsOnce ==
  \A n \in Nodes :
    saved.values[n] + saved.errors[n] = IF n \in saved.completed THEN 1 ELSE 0

\* A node listed in interrupt_before never runs before the caller had the occasion to see
\* it: it was among the next nodes of the checkpoint this invocation resumed.
ListedWasOffered ==
  [][ \A n \in InterruptBefore :
        pc = "nodes" /\ values'[n] > values[n] => n \in offered ]_vars

\* No checkpoint loses an update that an earlier checkpoint of the thread holds, over
\* new inputs, resumes, pauses, crashes and updates of the state.
UpdatesKept ==
  [][ \A n \in Nodes : saved'.values[n] >= saved.values[n] ]_saved

\* Only a new input sets the step counter back: a resume goes on counting where the
\* interrupted invocation stopped (base_step).
ResumeKeepsStep == [][ turns' = turns => saved'.step >= saved.step ]_vars

\* One invocation commits at most RecursionLimit supersteps, over loops in the graph.
StepsWithinLimit ==
  pc # "idle" => saved.step <= base_step + RecursionLimit

\* An answer takes a node past the question it answers: the invocation does not stop at
\* that question again.  For a graph that leads to every node once.
EachResumeAdvances ==
  [][ answered /\ saved' # saved /\ saved'.kind = "interrupt" =>
        saved'.asked \cap asked = {} ]_vars

\* A node that interrupted is among the next nodes of its checkpoint, so that a resume
\* runs it again.
InterruptedNodeIsNext == \A q \in saved.asked : q[1] \in saved.next

\* When the loop has nothing left to do, a fan-in node has run as often as its sources.
JoinRunsEveryTurn ==
  saved.kind = "loop" /\ saved.next = {} =>
    \A w \in WaitingEdges : \A s \in w.starts : saved.values[w.end] >= saved.values[s]

\* What the caller of a thread may rely on, whatever the invocations do between two
\* checkpoints: module DurableThread, with the pending nodes and the records read off
\* the checkpoint.  For graphs without Sends that lead to every node once and skip none.
Thread == INSTANCE DurableThread WITH
            Leads   <- {e \in Nodes \X Nodes : e[2] \in LeadsTo(e[1])},
            MostRecords <- [n \in Nodes |-> 1],
            pending <- saved.next,
            records <- [n \in Nodes |-> saved.values[n] + saved.errors[n]]

ImplementsThread == Thread!Spec

\* Every invocation ends, in a graph with loops and with nested Sends.
InvocationEnds == (pc # "idle") ~> (pc = "idle")

=============================================================================
