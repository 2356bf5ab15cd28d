----------------------------- MODULE AsyncLoop -----------------------------
(***************************************************************************)
(* The asynchronous engine of zerograph/pregel/_loop.py: PregelLoop._arun  *)
(* and _arun_parallel_step.                                                *)
(*                                                                         *)
(* _arun is _run with awaits: module PregelLoop, whose actions are taken   *)
(* over as they are, gives the caller, the top of the loop, the nodes of a *)
(* step one after the other, the Sends and the end of a step.  What is     *)
(* added here is a step that runs its nodes as concurrent tasks, when      *)
(* max_concurrency and the step allow it, and the Sends that the branches  *)
(* of START return, which run in the first step (also in _run, which this  *)
(* is with MaxConcurrency = 1).                                            *)
(*                                                                         *)
(* A task reads the channels when it gets the semaphore, runs its node,    *)
(* and routes, all before any result of the step is in the channels.  When *)
(* all tasks have ended, their results are applied in one go.              *)
(***************************************************************************)
EXTENDS PregelLoop

CONSTANTS
  StartRoutes,      \* what the edges and branches of START may select, with Sends
  Early,            \* what the path functions of a node may answer without its update
  MaxConcurrency    \* config["max_concurrency"]

ASSUME AsyncAssumption ==
  /\ IsFiniteSet(Nodes)
  /\ StartRoutes \subseteq Route
  /\ StartSets = {r.next \cup {r.sends[i] : i \in DOMAIN r.sends} : r \in StartRoutes}
  /\ Early \in [Nodes -> SUBSET Route]
  /\ MaxConcurrency \in Nat \ {0}

VARIABLES
  send_inputs,      \* per node, the Sends of START whose argument is still to be run
  tasks             \* the tasks of a parallel step

avars == <<vars, send_inputs, tasks>>

\* How a task stands, and what run_single returns when it has ended.
Task(at, kind, route) == [at |-> at, kind |-> kind, route |-> route]

NoTasks == [n \in Nodes |-> Task("none", "none", NoRoute)]

NoSends == [n \in Nodes |-> 0]

Parallel == tasks # NoTasks

Local == send_inputs' = NoSends /\ tasks' = NoTasks

-----------------------------------------------------------------------------
(* The caller and the top of the loop.                                     *)

InvokeAsync ==
  /\ turns < MaxTurns
  /\ \E r \in StartRoutes, resume \in BOOLEAN :
       /\ resume => saved.kind = "none"
       /\ Enter(r.next \cup {r.sends[i] : i \in DOMAIN r.sends}, 0, resume)
       /\ send_inputs' = [n \in Nodes |-> Cardinality({i \in DOMAIN r.sends : r.sends[i] = n})]
  /\ turns' = turns + 1
  /\ is_resuming' = FALSE
  /\ asked' = {} /\ offered' = {}
  /\ tasks' = NoTasks

ResumeAsync == Resume /\ Local

CanParallel ==
  /\ MaxConcurrency > 1
  /\ Cardinality(Due) > 1
  /\ \A n \in Due : send_inputs[n] = 0

StartStepAsync ==
  /\ StartStep
  /\ tasks' = IF CanParallel
              THEN [n \in Nodes |-> IF n \in Due THEN Task("queued", "none", NoRoute) ELSE NoTasks[n]]
              ELSE NoTasks
  /\ UNCHANGED send_inputs

-----------------------------------------------------------------------------
(* A parallel step.                                                        *)

At(where) == {n \in Nodes : tasks[n].at = where}

Ended(kind) == {n \in At("done") : tasks[n].kind = kind}

\* _get_next_nodes in a task: the channels do not have the update of the task's node,
\* unless one of an earlier step.
RoutesInTask(n, res) ==
  LET direct  == [next |-> Successors(n), sends |-> <<>>]
      answers == IF res.kind = "list" THEN {res.route}
                 ELSE Early[n] \cup IF values[n] > 0 THEN Branches[n] ELSE {}
  IN IF res.kind = "goto" THEN {res.route}
     ELSE IF Branches[n] = {} THEN {direct}
     ELSE {Join(direct, a) : a \in answers}

TaskIs(n, task) ==
  /\ pc = "nodes"
  /\ tasks' = [tasks EXCEPT ![n] = task]
  /\ UNCHANGED <<saved, bounds, pc, step, next_nodes, new_next, sendq, completed_nodes,
                 prev_completed, channels, frame, send_inputs>>

HasSlotIfNoneReturns(n) ==
  n \in At("queued") /\ Cardinality(At("running") \cup At("done")) < MaxConcurrency

HasSlot(n) == n \in At("queued") /\ Cardinality(At("running")) < MaxConcurrency

\* The task gets the semaphore: it is passed over, finds a cached result, or runs.
StartTask(n) ==
  /\ HasSlot(n)
  /\ \/ ~Available(n) /\ TaskIs(n, Task("done", "skipped", NoRoute))
     \/ /\ Available(n)
        /\ \E res \in cache[n] : \E r \in RoutesInTask(n, res) :
             TaskIs(n, Task("done", "result", r))
     \/ Available(n) /\ TaskIs(n, Task("running", "none", NoRoute))
  /\ UNCHANGED cache

ReturnFromTask(n) ==
  /\ n \in At("running")
  /\ \E k \in Asks[n], res \in Results(n) :
       /\ k <= Answers
       /\ \E r \in RoutesInTask(n, res) :
            TaskIs(n, Task("done", "result", Join(ExtractRouting(n, res), r)))
       /\ Store(n, res)

InterruptTask(n) ==
  /\ n \in At("running")
  /\ \E k \in Asks[n] : k > Answers
  /\ TaskIs(n, Task("done", "interrupt", NoRoute))
  /\ UNCHANGED cache

FailTaskUnchecked(n) ==
  /\ n \in At("running") \cap Failing
  /\ TaskIs(n, Task("done", "handled", [next |-> {ErrorHandler[n]}, sends |-> <<>>]))
  /\ UNCHANGED cache

\* An exception: of a node with an error handler, or one that is kept for later.
FailTask(n) ==
  /\ n \in At("running") \cap Failing
  /\ TaskIs(n, IF ErrorHandler[n] = NoNode THEN Task("done", "error", NoRoute)
               ELSE Task("done", "handled", [next |-> {ErrorHandler[n]}, sends |-> <<>>]))
  /\ UNCHANGED cache

\* asyncio.gather has all results.
AllDone == Parallel /\ At("queued") \cup At("running") = {}

Finished == Ended("result") \cup Ended("handled")

NewValues == [n \in Nodes |-> values[n] + IF n \in Ended("result") THEN 1 ELSE 0]

NewErrorsDropped == errors

NewErrors == [n \in Nodes |-> errors[n] + IF n \in Ended("handled") THEN 1 ELSE 0]

Selected == UNION {tasks[n].route.next : n \in Finished}

LeftWithFinished == (next_nodes \cup Selected) \ completed_nodes

LeftForgettingAskers == Selected \ (completed_nodes \cup Finished)

\* What is left to do when tasks of the step asked questions.
LeftAtInterrupts == (Ended("interrupt") \cup Selected) \ (completed_nodes \cup Finished)

\* The Sends of the tasks, in the order of the results.
SentInOrder(order) ==
  LET sent[i \in 0..Cardinality(Finished)] ==
        IF i = 0 THEN new_sends ELSE sent[i - 1] \o tasks[order[i]].route.sends
  IN sent[Cardinality(Finished)]

\* All updates of the step reach the channels, and all its routes the next step.
Gather ==
  /\ AllDone
  /\ Ended("interrupt") \cup Ended("error") = {}
  /\ next_nodes' = {}
  /\ tasks' = NoTasks
  /\ completed_nodes' = completed_nodes \cup Finished
  /\ values' = NewValues /\ errors' = NewErrors
  /\ new_next' = Selected
  /\ \E order \in {f \in [1..Cardinality(Finished) -> Finished] : \A n \in Finished : \E i \in DOMAIN f : f[i] = n} :
       new_sends' = SentInOrder(order)
  /\ UNCHANGED <<saved, cache, bounds, pc, step, batch, send_depth, prev_completed, frame,
                 send_inputs>>

\* The questions of a step are put_writes of one task id and one channel: of several the
\* last one stays.  An exception of another task is logged, and its node forgotten.
GatherInterrupts ==
  /\ AllDone
  /\ \E last \in Ended("interrupt") :
       saved' = [kind |-> "interrupt", next |-> LeftAtInterrupts,
                 completed |-> completed_nodes \cup Finished,
                 values |-> NewValues, errors |-> NewErrors,
                 step |-> saved.step, asked |-> {<<last, Answers>>}]
  /\ Return /\ Local
  /\ UNCHANGED <<cache, bounds>>

\* raise first_error: nothing of the step is saved.
GatherError ==
  /\ AllDone
  /\ Ended("interrupt") = {} /\ Ended("error") # {}
  /\ Return /\ Local
  /\ UNCHANGED <<saved, cache, bounds>>

-----------------------------------------------------------------------------
(* The Sends of START: the node runs once per argument.                    *)

TakenForSends(n) ==
  /\ ~Parallel
  /\ send_inputs[n] > 0
  /\ Taken(n)
  /\ send_inputs' = [send_inputs EXCEPT ![n] = 0]
  /\ UNCHANGED tasks

NoResult == [kind |-> "none", route |-> NoRoute]

\* The runs that succeed; of the others the exception is logged.
Good(ran) == {i \in DOMAIN ran : ran[i] # NoResult}

LastGood(ran) == CHOOSE i \in Good(ran) : \A j \in Good(ran) : j <= i

\* Where the results lead by themselves.
RoutedBy(n, ran) ==
  LET routed[i \in 0..Len(ran)] ==
        IF i = 0 THEN NoRoute
        ELSE IF i \in Good(ran) THEN Join(routed[i - 1], ExtractRouting(n, ran[i]))
        ELSE routed[i - 1]
  IN routed[Len(ran)]

\* Some of the runs succeed.  The edges and path functions are looked at once, with the
\* last result.
RunInitialSends(n) ==
  /\ TakenForSends(n)
  /\ \E ran \in [1..send_inputs[n] ->
                   Results(n) \cup IF n \in Failing THEN {NoResult} ELSE {}], k \in Asks[n] :
       /\ Good(ran) # {}
       /\ k <= Answers
       /\ values' = [values EXCEPT ![n] = @ + Cardinality(Good(ran))]
       /\ \E r \in NextNodes(n, ran[LastGood(ran)]) :
            LET route == Join(RoutedBy(n, ran), r)
            IN /\ new_next' = new_next \cup route.next
               /\ new_sends' = new_sends \o route.sends
  /\ completed_nodes' = completed_nodes \cup {n}
  /\ UNCHANGED <<errors, cache>>

\* All of them fail: the error handler is next.
FailInitialSends(n) == TakenForSends(n) /\ HandOver(n)

\* GraphBubbleUp, or the last error of a node without a handler: it leaves _arun, also
\* when it is a GraphInterrupt, and nothing is saved.
RaiseInitialSend(n) ==
  /\ ~Parallel
  /\ pc = "nodes" /\ n \in next_nodes /\ send_inputs[n] > 0
  /\ (\E k \in Asks[n] : k > Answers) \/ (n \in Failing /\ ErrorHandler[n] = NoNode)
  /\ Return /\ Local
  /\ UNCHANGED <<saved, cache, bounds>>

-----------------------------------------------------------------------------

AsyncInit == Init /\ send_inputs = NoSends /\ tasks = NoTasks

TaskStep ==
  \E n \in Nodes : StartTask(n) \/ ReturnFromTask(n) \/ InterruptTask(n) \/ FailTask(n)

GatherStep == Gather \/ GatherInterrupts \/ GatherError

InitialSendStep ==
  \E n \in Nodes : RunInitialSends(n) \/ FailInitialSends(n) \/ RaiseInitialSend(n)

\* A step whose nodes run one after the other.
SequentialStep ==
  /\ ~Parallel
  /\ \/ /\ \E n \in Nodes :
             /\ send_inputs[n] = 0
             /\ SkipNode(n) \/ RunNode(n) \/ HitNode(n) \/ FailNode(n)
        /\ UNCHANGED send_inputs
     \/ \E n \in Nodes : send_inputs[n] = 0 /\ InterruptNode(n) /\ send_inputs' = NoSends
  /\ UNCHANGED tasks

SendStepAsync ==
  \/ (StartBatch \/ RunSend \/ FailSend) /\ UNCHANGED <<send_inputs, tasks>>
  \/ (SendDepthError \/ InterruptSend) /\ Local

AsyncLoopStep ==
  \/ (Finish \/ RecursionError \/ PauseBefore \/ PauseAfter) /\ Local
  \/ StartStepAsync
  \/ TaskStep \/ GatherStep
  \/ InitialSendStep \/ SequentialStep \/ SendStepAsync
  \/ EndStep /\ UNCHANGED <<send_inputs, tasks>>

\* The coroutine is cancelled, or an exception leaves it: the tasks are cancelled with it.
Cancelled == Crash /\ Local

AsyncNext ==
  \/ AsyncLoopStep
  \/ InvokeAsync \/ ResumeAsync \/ Cancelled
  \/ CallerRests /\ UNCHANGED <<send_inputs, tasks>>

AsyncSpec == AsyncInit /\ [][AsyncNext]_avars

AsyncFairSpec == AsyncSpec /\ WF_avars(AsyncLoopStep)

-----------------------------------------------------------------------------
(* Properties.                                                             *)

\* The type invariant of the engine with its tasks.
AsyncTypeOK ==
  /\ TypeOK
  /\ send_inputs \in [Nodes -> Nat]
  /\ tasks \in [Nodes -> [at : {"none", "queued", "running", "done"},
                          kind : {"none", "skipped", "result", "handled", "interrupt", "error"},
                          route : Route]]

\* A node that asked in a parallel step runs again after the answer, and a node whose
\* result is in the state does not (_arun after the gather).
AskersStayNext ==
  [][ AllDone /\ saved' # saved =>
        Ended("interrupt") \subseteq saved'.next /\ saved'.next \cap Finished = {} ]_avars

\* The arguments that START may send to a node, and the records one run may leave.
SendsTo(n, r) == Cardinality({i \in DOMAIN r.sends : r.sends[i] = n})

Arguments(n) == ({1} \cup {SendsTo(n, r) : r \in StartRoutes}) \ {0}

MostRecords == [n \in Nodes |-> CHOOSE k \in Arguments(n) : \A j \in Arguments(n) : j <= k]

\* In a graph that leads to every node once, a completed node has left at least one
\* record, and at most one per argument it was sent; no other node has left any: a task
\* that was cancelled, asked or was passed over has no effect, and one that ended has it
\* once, whatever the order in which the tasks of a step end.
RecordsPerArgument ==
  \A n \in Nodes :
    saved.values[n] + saved.errors[n] \in
      IF n \in saved.completed THEN 1..MostRecords[n] ELSE {0}

\* The asynchronous engine keeps the promises of DurableThread too.
AsyncThread == INSTANCE DurableThread WITH
                 Leads    <- {e \in Nodes \X Nodes : e[2] \in LeadsTo(e[1])},
                 MostRecords <- MostRecords,
                 pending  <- saved.next,
                 records  <- [n \in Nodes |-> saved.values[n] + saved.errors[n]]

AsyncImplementsThread == AsyncThread!Spec

\* All questions of a parallel step are in the checkpoint for the caller to see.
AllQuestionsShown ==
  [][ AllDone /\ saved' # saved => \A n \in Ended("interrupt") : <<n, Answers>> \in saved'.asked ]_avars

\* Every asynchronous invocation ends, also when tasks wait for the semaphore.
AsyncInvocationEnds == (pc # "idle") ~> (pc = "idle")

=============================================================================
