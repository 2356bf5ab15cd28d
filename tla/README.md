# ZeroGraph in TLA+

TLA+ models of the execution engine of ZeroGraph (`zerograph/`) and of what it
is built on, their model checking with TLC and proofs about them with TLAPS.
Paths below are relative to the root of the repository; `_loop.py` is
`zerograph/pregel/_loop.py`.

    tlc -config MCPregelLoop_review.cfg MCPregelLoop     # likewise the other .cfg files
    tlapm PregelLoopProofs.tla                           # likewise the other proofs

| module | what it is | checked by | proofs |
| --- | --- | --- | --- |
| `PregelLoop` | the synchronous superstep engine on one thread with a checkpointer | `MCPregelLoop` | `PregelLoopProofs` |
| `DurableThread` | abstract specification: what a thread promises its caller | implemented by `PregelLoop` and `AsyncLoop` | `PregelLoopProofs`, `AsyncLoopProofs` |
| `AsyncLoop` | the asynchronous engine: parallel steps, initial Sends; extends `PregelLoop` | `MCAsyncLoop` | `AsyncLoopProofs` |
| `SubgraphLoop` | a graph that is a node of another one; extends `PregelLoop` and contains an instance of it | `MCSubgraphLoop` | `SubgraphLoopProofs` |
| `NodeCall` | one call of a node: attempts, timeouts, questions | `MCNodeCall` | `NodeCallProofs` |
| `CheckpointStore` | both savers under concurrent callers of one thread | `MCCheckpointStore` | `CheckpointStoreProofs` |
| `NewestCheckpoint` | abstract specification of a thread's latest checkpoint | implemented by `CheckpointStore` | `CheckpointStoreProofs` |
| `Channels` | the channel classes | `MCChannels` | `ChannelsProofs` |
| `GraphBuilder` | the builder, `validate` and `compile` | `MCGraphBuilder` | `GraphBuilderProofs` |
| `TaskFuture` | the future of a `@task` call, between threads and coroutines | `MCTaskFuture` | `TaskFutureProofs` |

## 1. Inventory

**Superstep engine** (`_loop.py`, class `PregelLoop`). A compiled graph runs in
supersteps. State: the channels, `next_nodes`, `completed_nodes`, the Sends of
the step, `_step`; between invocations only what the checkpoint holds
(`channel_values`, `_next_nodes`, `_completed_nodes`, `_step`). Operations:
`invoke`/`stream` with an input or a `Command`, `get_state`,
`get_state_history`, `update_state`, and the asynchronous twins. It calls node
functions, path functions of conditional edges, the checkpoint saver and the
cache; nodes call back through a context variable (`interrupt()`,
`get_config()`). Hard: what is saved when a step stops halfway (interrupt,
exception, killed process), what a resume skips or repeats, fan-in over several
steps and invocations, loops, nested Sends, limits. Correct means: fan-in
targets wait, no work and no update is lost, none is applied twice, pauses
happen where the caller asked for them, every invocation ends.

**Asynchronous engine** (`_arun`, `_arun_parallel_step`). The same loop with
tasks: the nodes of a step run concurrently on the channels as they were when
the step began, as many at a time as the semaphore admits; afterwards the results are
applied in one go. Hard: order of results, an interrupt or an exception of one
node while others run, cancellation. Correct means the same promises as the
synchronous engine, and that a node that asked is asked again and no other.

**Node call** (`_call_node`, `_call_with_timeout`, `_acall_node`). Retry with
back-off and timeouts, the latter in a thread that is not stopped. Hard: a late
result and its side effects against a retry, questions of attempts that failed.
Correct means that one attempt at a time runs, that the last one answers, and that
every call ends.

**Subgraphs** (`_execute_subgraph`, `_get_subgraph_states`). A compiled graph as a
node: the outer loop invokes the inner one, with a checkpoint namespace of its
own in the same saver, maps input and result, and turns the inner interrupts into
one of its own node. Hard: two loops and two checkpoints that are saved one after
the other; answers that must reach the right question; crashes between them.

**Interrupts and commands** (`types.py`). `interrupt()` counts its calls in a
scratchpad and returns the resume value or raises `GraphInterrupt`;
`Command(resume, goto, update, graph)`.

**Checkpoint savers** (`checkpoint/memory.py`, `checkpoint/sqlite.py`). State:
checkpoints per thread and namespace, pending writes per checkpoint.
Operations: `put`, `put_writes`, `get_tuple`, `list`, `delete_thread`, under a
lock. Hard: which checkpoint is the latest when clocks tie or step back,
eviction, writes of evicted checkpoints, concurrent invocations of one thread, a
crash between `put` and `put_writes`.

**Channels** (`channels/`). Last value, reducers, topics, ephemeral values,
barriers, messages; `update`, `consume`, `finish`, `get`, `copy`, `checkpoint`,
`from_checkpoint`. Hard: every invocation works on copies or on restored
channels, so that what a class forgets to save shows much later; calls that
raise half-way.

**Graph builder** (`graph/state.py`). Collects nodes, edges, waiting edges and
branches, validates, compiles. Sequential. Hard: any order of calls, schemas that
share keys, calls that raise after half of their work, and an engine that passes
over a node it does not find. `batch`/`abatch` run invocations concurrently.

**Functional API** (`func.py`). `_TaskFuture` runs a task at most once for
synchronous and asynchronous callers; a lock, an `_executing` flag and an event.
Hard: lost wake-ups, a cancelled executor, double execution.

**Result cache** (`cache.py`), **store** (`store.py`): dictionaries under a lock,
the cache with LRU order and expiry.

**Prebuilt agents** (`prebuilt/`): graphs built on the engine, with routers.
**LLM adapter, visualization, constants, errors**: no state of their own.

`PROJECT.json` lists all of them with their status, and under "hazards" every
place where the code is hard to test, with the properties that cover it.

## 2. What is modelled

### PregelLoop

One thread, one compiled graph with a checkpointer, invocations one after the
other through `_run`. The graph is the CONSTANTS: `Nodes`, `Edges`,
`WaitingEdges`, `StartSets` (the sets of nodes the edges and branches of START
may select), `Branches` (what path functions may answer), `Gotos` and `Listed`
(the routing results of node functions), `Asks` (the numbers of `interrupt()`
calls of an execution), `Failing`, `ErrorHandler`, `Needs` (the channels of an
input schema), `Cached`, the two interrupt lists and the limits.

| state | code |
| --- | --- |
| `saved` | the thread's latest checkpoint: `_next_nodes`, `_completed_nodes`, `channel_values` (`values`, `errors`), `_step`; `asked` is its `INTERRUPT` write |
| `pc` | where `_run` is: not running, at the top of its loop, in a step |
| `next_nodes`, `new_next`, `new_sends`, `batch`, `send_depth`, `completed_nodes`, `prev_completed`, `step`, `base_step`, `is_resuming`, `answered` | the local variables of `_run` of the same names (`batch`: the slice of `new_sends` in progress; `answered`: `resume_value is not None`) |
| `values`, `errors` | the channels, see below |
| `cache` | results stored per node |
| `asked`, `offered` | history, for the properties only |

| actions | code |
| --- | --- |
| `Invoke`, `Resume` | `_run` up to the loop (`_loop.py:414-476`), `_get_start_nodes` |
| `UpdateState` | `update_state` (329-398) |
| `Finish`, `RecursionError`, `PauseBefore`, `StartStep` | top of the loop (478-518): nothing to do, the limit, waiting edges, `interrupt_before` |
| `SkipNode`, `RunNode`, `HitNode`, `FailNode`, `InterruptNode` | one node of the step (518-765): channel not available, run, cache hit, exception with a handler, `GraphInterrupt` |
| `StartBatch`, `RunSend`, `FailSend`, `InterruptSend`, `SendDepthError` | the Sends of the step (767-860) |
| `PauseAfter`, `EndStep` | end of the step (862-913) |
| `Crash` | an exception that leaves `_run`, or the end of the process |
| `CallerRests` | no call is under way and none need follow |

Each node runs in one action: in `_run` nodes run one after the other in one
thread, and nothing else sees the local state. The checkpoint is a single
register because `_load_checkpoint` of a config without `checkpoint_id` takes the
thread's latest one.

Data is abstracted to what the properties tell apart. A checkpoint and the
channels hold, for each node, the number of its updates that are in them
(`values`) and of its entries in `__error__` (`errors`). A result is its routing:
a plain value, a goto, or a list with Sends. `next_nodes` is `list(set)` of
strings in the code, in an order that changes with the hash seed: the model
takes the nodes of a step in every order. Cache keys are left out: a lookup may
find any result stored for the node.

### DurableThread

What the caller of a thread relies on: pending nodes and a record per node; a new
input replaces the pending nodes, and otherwise some pending nodes leave a
record, the others stay pending, and what becomes pending follows from those
that ran or is a fan-in whose sources all have records. An advance may have nothing run
in it: when a step pauses at its first node, the checkpoint already has the fan-ins that
the waiting edges made due at the top of the loop. `PregelLoop` implements it (`ImplementsThread`) with pending nodes
`saved.next` and records `values + errors`; invocations, pauses, retries and
crashes are stuttering steps or nothing at all. `AsyncLoop`
implements it too, with as many records of a node as START may send it arguments.

### AsyncLoop

`_arun` is `_run` with awaits, so the module extends `PregelLoop` and takes its
actions for the caller, the top of the loop, steps of one node, Sends and the end
of a step. It adds two things. `tasks`: a step of several nodes under
`max_concurrency` runs them as tasks of `_arun_parallel_step`, each waiting for the
semaphore, running, or done with what `run_single` returned. `send_inputs`: Sends
that the branches of START return run in the first step, once per argument (the
same code is in `_run`, which is `MaxConcurrency = 1`).

| actions | code |
| --- | --- |
| `InvokeAsync`, `ResumeAsync`, `StartStepAsync` | `_arun` up to the choice between a parallel and a sequential step |
| `StartTask` | a task gets the semaphore: channel missing, cache hit, or the node is called |
| `ReturnFromTask`, `InterruptTask`, `FailTask` | the end of `run_single`; routes are computed here, on channels without any update of the step |
| `Gather`, `GatherInterrupts`, `GatherError` | after `asyncio.gather`: apply all, or save the questions, or raise the first error |
| `RunInitialSends`, `FailInitialSends`, `RaiseInitialSend` | the arguments of one node, some of which may fail |
| `Cancelled` | the coroutine is cancelled or an exception leaves it |

`Early` is what a path function may answer before its node's own update is in the
channels; the sequential step knows no such thing.

### NodeCall

One call of a node by the engine, of any kind in `Calls`: synchronous or
asynchronous, plain function or coroutine, with or without a timeout and a retry
policy. `body` says where the function of each attempt is; `left` are attempts that
timed out, `counter` is the interrupt counter of the scratchpad, which all
attempts share. `StartAttempt`, `AttemptEnds`, `TimeOut`, `WakeUp`, `CancelCall` are
the engine's side; `PickUp`, `FunctionEnds`, `Ask` the function's. A thread that was
given up stays "running" until its function ends. `ctx.run` of the one copied
context fails while another thread is in it ("busy").

### SubgraphLoop

`PregelLoop` for the outer graph and, with variables of its own (`i_...`), for the
inner one. `phase` says which of the two moves. `EnterSub` is `_execute_subgraph`
up to the inner invocation: with a resume value of the outer invocation it goes on
from the inner checkpoint, otherwise it starts with the node's input. `InnerStep`
and `InnerRaises` are the inner loop; `RaiseInterrupts`, `CompleteSub` and `FailSub` what
the outer one makes of its end; `SubCrash` the end of both. `ShownState` is
`get_state(subgraphs=True)`. `kept` and `retrying` are history: `kept` holds the inner
nodes that had completed when the subgraph last asked, over answers, crashes and
repeated answers, and is emptied when the node is done or the inner graph starts anew.

### CheckpointStore

Both savers, chosen by `saver`, and the invocations of two clients on one thread, of
a graph or of an `@entrypoint`. A checkpoint is named by its `ts`; `_save_checkpoint`
stamps it (`TakeStamp`) and stores it in another step (`MemoryPut`, `SqlitePut`), and
interrupts follow in a third (`MemoryPutWrites`, `SqlitePutWrites`,
`SqlitePutWritesFails`). State: `stored`, `parent`, `trail` (the checkpoints whose
updates are in it), `writes`, and for SQLite `tx`, the connection whose transaction is
open. `Call` loads what the caller's config names: nothing in particular, the id
the last invocation left there, or any from the history. `Crash` may come at any
point, deletion of the thread too. `List` and `StateHistory` are operators. `NewestCheckpoint`
is the promise about the latest checkpoint, implemented with `head <- Latest`.

### Channels

One channel of any class under any order of `Update`, `Consume` and `Finish`, replaced
at any time by a copy of itself (`Copy`) or by what a checkpoint gives back
(`Restore`). `twin` gets the same calls and is never replaced; `log` is the history of
calls. `UpdateOf`, `ConsumeOf`, `FinishOf`, `Available`, `Get`, `CopyOf`, `Checkpoint` and
`FromCheckpoint` are the methods of the classes. Values are lists: `operator.add` is
the reducer, and a topic flattens them.

### GraphBuilder

`StateGraph` from `__init__` to `compile`: `AddNode`, `AddEdge`, `AddWaitingEdge`,
`AddConditionalEdges`, `AddSequence`, `SetNodeDefaults`, `Compile` (with `Valid`, which is
`validate`); the three schemas of the graph (state, input, output) are added by `Init`.
State: `nodes` with schema, destinations and error handler, `edges`,
`waiting_edges`, `branches`, `schemas`, `channels`; `app` holds what the compiled graph
gets as copies. An `AddNode` whose schema clashes raises after it has registered the
node, the schema and some of its channels (`raised` is the history of that). An
`add_sequence` that raises at its second element leaves the first as a node
(`StopSequence`). Other calls that raise change nothing and are left out.

### TaskFuture

One `_TaskFuture` (`func.py:22-123`) and everybody who asks it for the result:
`Threads` call `result()`, `Coros` call `aresult()`, each on the event loop that
`LoopOf` gives, and a loop is a thread of its own.

| state | code |
| --- | --- |
| `lock` | `_lock`, when a thread holds it from one step to the next: only in `result()` |
| `executing`, `outcome` | `_executing`; `_done`, `_result` and `_exception`, which change together |
| `event`, `event_loop`, `woken` | `_event`, the loop it is bound to, and the waiters it has woken |
| `is_async` | is the task a coroutine function? |
| `pc`, `got` | where each caller is, and the result it holds |
| `started` | history: who started the function |

| actions | code |
| --- | --- |
| `Acquire`, `Refuse`, `RunHere`, `Settle`, `Return` | `result()` (38-68): all with the lock held |
| `Schedule`, `Look` | `aresult()` up to the release of the lock (70-85); from `Schedule` on the coroutine stands in `lock.acquire()` and its loop with it |
| `Start`, `EndFunction`, `Publish`, `Notify` | the executor (87-113): the function, the section that records the outcome, and after it the event |
| `OpenEvent`, `AwaitEvent`, `Wake`, `Collect` | the others (115-123): create the event, wait, and read the outcome |
| `Cancel` | `CancelledError` at one of the two awaits, which no handler catches |

The sections of `aresult()` under the lock contain nothing that blocks, so each is
one action that needs the lock free. Between them, and between the second one and
`if self._event is not None`, other threads run. A coroutine keeps its loop from
one await to the next (`LoopFree`), so coroutines of one loop interleave only
where the code awaits. `event.set()` wakes the waiters of the executor's own loop
for certain and those of another loop perhaps: it only appends to that loop's
queue, and the loop may sleep on.

## 3. Runs

| run | instance | properties |
| --- | --- | --- |
| `review` | `{a, b}` fan in to `c`, `c` leads to `d`, which routes to `e` or stops; `q` runs beside them and asks, `a` asks, `d` may; `a` and `b` may fail, `b` has the error handler `h`; `d` in `interrupt_before`, `b` in `interrupt_after` | `TypeOK`, `FanInWaits`, `NothingLost`, `EffectsOnce`, `InterruptedNodeIsNext`, `ListedWasOffered`, `ImplementsThread` |
| `agent` | model `m` answers with a Send to tool `t`, a goto or nothing; `t` leads back, may return Sends to itself, ask, fail (`h`), is cached and in `interrupt_before`; `update_state` as `m` | `StepsWithinLimit`, `UpdatesKept`, `ResumeKeepsStep`, `InvocationEnds` |
| `turns` | `{a, b}` fan in to `c`, two inputs | `JoinRunsEveryTurn` violated |
| `multistep` | one node with two questions | `EachResumeAdvances` violated |
| `parallel` | START leads to `{a, b, d}`, to `{e, g}`, or sends one or two arguments to `s`; two places for up to three tasks; questions, failures with and without a handler, a cache, a fan-in, both interrupt lists | `AsyncTypeOK`, `RecordsPerArgument`, `AskersStayNext`, `AsyncImplementsThread`, `AsyncInvocationEnds` |
| `together` | two nodes that ask in one step | `AllQuestionsShown` violated |
| `subgraph` | `b` leads to the subgraph `s` (`i`, `j`, `k` in a row, `j` may ask), `s` to `c` or, when it raises, to `h`; two inputs; crashes; an inner limit that a whole run exceeds | `SubTypeOK`, `QuestionReachesInner`, `InnerWorkKept`, `DoneMeansWhole`, `SubInvocationEnds` |
| `calls` | every kind of call, with 0 or 3 attempts | `TypeOK`, `LastAttemptAnswers`, `QuestionsEndTheCall`, `OneAttemptAtATime`, `CallEnds` |
| `savers` | two clients, three checkpoints, two of which fit into the memory saver | `StoreTypeOK`, `HeadMovesForward`, `PagesCoverHistory`, `ParentsAreHonest`, `QuestionsKept`, `FreshCallsLoseNothing` |
| `channels` | every class, four calls with three values, two at most in a call | `RestoreInvisible`, `ReadsAsPromised` |
| `builder` | two names, five schemas that share keys, four calls | `ChannelsAsDeclared`, `CompiledIsWhole` |
| `callers` | threads `t1`, `t2`, coroutines `c1`, `c2` of one loop and `c3` of another, with cancellation | `TypeOK`, `RunsOnce`, `OneVerdict`, `CallersEnd` |

Deadlock is checked except where the system may stop: all calls of `callers` have
ended (that none stops earlier is `CallersEnd`), or the calls of `builder` are used up.

What the properties say:

- `FanInWaits`: a node that only waiting edges lead to is due or pending only
  when all sources of one of them have completed, over pauses, crashes, resumes.
- `NothingLost`: in every checkpoint, what a completed node leads to has
  completed or is next, and the loop does not end with a fan-in that is due.
- `EffectsOnce`: in a graph that leads to each node once, a checkpoint holds
  exactly one update of each completed node and none of others; retries after a
  crash and resumes in the middle of a step neither repeat nor drop one.
- `InterruptedNodeIsNext`: the node that asked is next in its checkpoint.
- `ListedWasOffered`: a node in `interrupt_before` runs only when the checkpoint
  that was resumed showed it as next, in graphs where listed nodes follow an
  ordinary edge.
- `StepsWithinLimit`, `ResumeKeepsStep`: an invocation commits at most
  `recursion_limit` supersteps, and only a new input sets the count back.
- `UpdatesKept`: no checkpoint has lost an update an earlier one holds.
- `InvocationEnds`, `AsyncInvocationEnds`, `SubInvocationEnds`, `CallEnds`: every
  invocation and every call of a node ends, with loops, nested Sends, tasks that
  wait for the semaphore, an inner loop, and functions that hang if there is a
  timeout that can reach them.
- `RecordsPerArgument`: what `EffectsOnce` says, for parallel steps and Sends of START.
- `AskersStayNext`: after a parallel step with questions, the nodes that asked are
  next and those that ended are not.
- `QuestionReachesInner`, up to the first completion of the subgraph's node: while the
  outer graph waits for an answer at the node, the node is next, and the inner
  checkpoint is the one of the question and shows the asker as next (`QuestionWaits`);
  the resume keeps the node due until it is entered, and hands an answer to the inner
  graph (`AnswerArrives`). Of later completions it says only that the inner checkpoint
  is the right one: there the code drops the node, see the divergence on answers.
- `InnerWorkKept`: the inner nodes that had completed when the subgraph asked are
  neither repeated nor lost by an answer, a crash or a repeated answer (`WorkStays`), and
  an inner run that starts from nothing has the node's input (`FreshHasInput`). A resume
  without an answer does start the inner graph anew, as the code does, with the input.
- `DoneMeansWhole`: the outer graph takes the subgraph for done only when every
  inner node has run exactly once.
- `LastAttemptAnswers`, `QuestionsEndTheCall`, `OneAttemptAtATime`: a node's result is
  that of its last attempt, never a late one; a question ends the call; the
  function never runs twice at once, though threads cannot be stopped.
- `HeadMovesForward`: the latest checkpoint is replaced by newer ones only, also
  when one is stored after a newer one and when the memory saver evicts.
- `PagesCoverHistory`: paging with `before` and `limit` shows each checkpoint once.
- `ParentsAreHonest`: the parent shown for a checkpoint is one it was made from.
- `QuestionsKept`: a stored checkpoint keeps its own questions and gets no others.
- `FreshCallsLoseNothing`: calls that do not overlap and name the thread only build
  on each other, for graphs and entrypoints, however few checkpoints are kept.
- `RestoreInvisible`: copies and restarts of a channel cannot be told by reading it.
- `ReadsAsPromised`: what a channel reads, told from its calls alone: last value,
  fold since the last Overwrite, published values, all names seen since the last
  `consume`, and for the AfterFinish classes only once `finish` came after the writes
  and, for a last value, if it was written since the last `consume`.
- `ChannelsAsDeclared`: as long as no call has raised, the channels follow from the
  declarations and not from the order in which schemas came.
- `CompiledIsWhole`: what compiles has every node a run can get to, an entry, the
  listed nodes, the error channel when a handler may run, and the input channels of
  its nodes.
- `RunsOnce`: a task's function starts at most once. Threads exclude each other by
  the lock, coroutines each other and the threads by `_executing`.
- `OneVerdict`: whoever gets an answer gets the same one, the task's outcome.
- `CallersEnd`: every call ends or is refused, unless it waits for an executor that
  was cancelled or runs on another loop. So no wake-up is lost within a loop, and
  a blocked loop goes on.

Bounds. `review`: one input and 7 calls: start, answers to `q` and `a`, pause after `b`,
pause before `d`, answer to `d`, and a retry between them; `q` puts a question beside a
fan-in that is due. `agent`: 2 inputs, 3 calls, `RecursionLimit` 2 and
`MaxSendDepth` 2, the least with which a loop, a nested Send and each limit are
met, the second time after a resume. `parallel`: one input and 6 calls; three
tasks for two places are the least with which one waits; two arguments are the least
of which one may fail and the other not. `subgraph`: two inputs and four calls, so
that a second turn finds the inner checkpoint of the first. `calls`: three
attempts, so that there is one between the first and the last; three questions.
`savers`: three stamps over two clients put an old one, a late one and a new one
in any order; `MaxPerThread` 2 makes the third evict. `channels`: a name or value
written, finished or consumed, and written again needs three calls; that a value which
was consumed does not come back takes a fourth (update, `finish`, `consume`, `finish`).
Two values per call are what the guards are about, and `MaxItems` 3 leaves one for
another call. `builder`: a node, a second one with its edge,
and a compile are three calls; the fourth lets anything come between or after them.
`callers`: two callers of each kind, so that any may come before, during
and after another's execution, and a third coroutine to be a foreign loop's; each
makes one call, as a future has no memory of calls that have ended. The limits of
the engine are parameters of the code, and nothing in it depends on their size.

Fairness. Of the engines only the loop's own steps, weakly (`LoopStep`,
`AsyncLoopStep`, `OuterStep` and `SubStep`): the thread inside `_run` or the event loop goes on, and node
functions return. Callers, crashes and updates of the state are not fair. Nothing
else is needed: the loop stops at `recursion_limit` and at `MAX_SEND_DEPTH`. In
`SubgraphLoop` an inner exception leaves the outer loop when the node has no
handler; that is the program's next step and fair, a crash at any other time is
not. In `NodeCall` the engine is fair, and a function only when no timeout can reach
it: then it has to return by itself. In `TaskFuture` every caller is weakly fair:
threads and loops are scheduled, and the task's function returns. Weak fairness is
enough for the lock because each call takes it a bounded number of times. `Cancel`
is not fair. The other modules have safety properties only.

### Where the docs say something else

Each was reproduced with the program itself. Three have a run:

1. `turns`. `docs/tutorials/basic-graph.md:135`: the target of a fan-in runs once
   its sources have completed. From the second input of a thread on it never
   does: `completed_nodes` comes from the checkpoint (`_loop.py:475`), also for a
   new input, and the waiting-edge checks leave out completed targets.
2. `multistep`. `docs/tutorials/interrupt-resume.md:96-108`: a node with two
   `interrupt()` calls completes with the second answer. The second answer is
   returned to the first call and the second call interrupts again, however often
   one resumes (`types.py:209-213`).
3. `together`. `CHANGELOG.md:58`: interrupts of a parallel step are all returned.
   They are written under one task id and one channel, of which a saver keeps one
   value (`memory.py:146`): `get_state` shows the last question only.

The others follow from the modules or were met while writing them; they have no
run.

- Answers. `interrupt-resume.md:94`: each resume advances to the next `interrupt()`
  only. The answer goes to every `interrupt()` that is the first of its node in the
  resumed invocation (`_loop.py:646`). A subgraph takes an answer to any other
  node for its own and then starts without its input (`_loop.py:1983`;
  `subgraphs.md:38`). `interrupt-resume.md:88-90`, and `subgraphs.md:127` of subgraphs: the
  checkpoint of a question is resumed at the node that asked. If that node, a subgraph
  or a plain one, had completed in an earlier step or turn, it is taken out of what is
  left (`_loop.py:707`): nothing is next, and the resume ends without running it.
- Resuming with None. `interrupt-resume.md:40,116`: `invoke(None, config)` goes on after a
  pause. Only a `Command` does (`_loop.py:416`); None starts again from START (`Invoke`).
  After `interrupt_after` the paused node runs twice; before a node of
  `interrupt_before` the thread pauses again each time and never enters it.
- Pauses. `interrupt-resume.md:46-51`: a listed node is not entered before a pause. A
  fan-in target that becomes due in the first step of a resume is (`_loop.py:496`).
  An inner pause at `interrupt_before` is not seen by the outer graph, which goes on.
- Retries. `error-handling.md:7` and its last example: a node with a timeout is
  retried. All attempts enter one copied context (`_loop.py:1745`); while the thread
  that timed out is in it, the next attempt fails with a RuntimeError and the
  function does not run. This is also why `OneAttemptAtATime` holds. With
  `max_attempts=0` a node does not run at all.
- Configs. `checkpointing.md:27,37`: calls with one thread_id continue one state.
  `_save_checkpoint` writes the checkpoint_id into the caller's config
  (`_loop.py:2495`): its next call goes on from there, and what another caller has
  done since is lost. An evicted checkpoint_id starts anew without a word.
- Futures. `CHANGELOG.md:50` counts `_TaskFuture` among the thread-safe classes. The
  waiter's event is looked at and set outside the lock and from another thread
  (`func.py:101,111`): a waiter on another loop may not be woken (`Stranded` in
  `CallersEnd`). The comment at `func.py:71-73` says that the lock is held for
  nanoseconds; `result()` holds it while the task runs, and the event loop of an
  `aresult()` stops for that time.
- Channels. `docs/api/channels.md:31`: an EphemeralValue is cleared after its step. The
  engine calls `update([v])` once per write and never `update([])`, `consume` or `finish`
  (`_loop.py:2177-2188`): it is not cleared, AfterFinish channels never open, and
  LastValue's guard against two writes of a step never fires. A channel instance in
  an annotation loses its parameters (`state.py:794-802`).
- Builder. An `add_node` that raises leaves its node and part of its schema behind,
  and the same schema is then accepted unchecked (`state.py:160-179,313`); an
  `add_sequence` that raises leaves the nodes before the one refused.
  `set_node_defaults(error_handler=h)` makes `h` its own handler. The engine reads the
  builder live, also what is added after `compile`.
- SQLite. A `put_writes` that fails half-way leaves its transaction open: other
  threads are locked out, and the next commit of that thread publishes the half
  (`sqlite.py:281-310`). With ":memory:" each thread has a database of its own.
- Errors. The exception of a node without a handler is only logged when another
  node of its parallel step interrupts (`_loop.py:1066-1090`). `Command(graph=PARENT)`
  is not caught by anybody (`_loop.py:2145`; `subgraphs.md:163-174`).

## 4. Proofs

`PregelLoopProofs` proves for every graph, every limit and every bound that
satisfies `GraphAssumption` and `LimitAssumption` (the graph's parts have the
right types; nothing about its shape):

- `TypeCorrect`: `Spec => []TypeOK`. `TypeOK` is inductive. The lemmas before it
  give the types of the operators (`JoinType`, `ResultType`, `CheckpointTypeLemma`,
  ...) and of the parts that actions share (`CompleteType`, `StoreType`,
  `HandOverType`, `EnterType`, `ReturnType`).
- `FanInCorrect`: `Spec => []FanInWaits`. `FanInWaits` alone is not inductive: a
  node could have been selected for the next step by a route, or be selected
  by a cached result that the node never returned. `FanInInv` adds that routes
  avoid the join nodes (`RoutesAvoidJoins`: those selected so far do, and the
  cache holds only results of the node). `completed_nodes` only grows within an
  invocation, so a target that was due stays justified.
- `StepsBounded`, `StepNeverBack`: `StepsWithinLimit` and `ResumeKeepsStep`, from
  `StepInv`: `saved.step = base_step + step` while an invocation runs, `step` at
  most the limit at the top of the loop and below it inside a step.
- `NoUpdateLost`: `UpdatesKept`, from `ChannelsInv`: a running invocation holds
  at least the updates of its checkpoint. `EveryStepGrows` is the step argument:
  whatever is saved is the channels, and the channels only grow.
- `ListedIsOffered`: `ListedWasOffered`, in graphs without Sends (`Sendless`) in which no
  waiting edge leads to a listed node (`ListedApart`); without the latter it is false, see
  the divergence on pauses. `ListedInv`: the first step of a resumed invocation has the
  nodes that were shown, and no other step has a listed node.

The other four are about graphs that lead to each node in one way, on a thread with one
input that nobody updates from outside: `OneWay` is `LeadsOnce`, no `update_state`, at
most one turn. Where two ways lead to a node, or in a second turn, the code does run it
twice, and `_completed_nodes` drops an interrupt of the second run (see the hazards).
That leaves out loops; `TypeOK`, `FanInWaits` and the bounds above are proved for them, too.

- `EachNodeOnce`: `EffectsOnce`. `OnceInv`: a node that is pending or selected has not
  run, and what leads to it has (`Orderly`); so nodes selected in a step are new, and a
  node that runs has no record yet (`CountInv`, which counts up to a bound per node, so
  that the proofs about the asynchronous engine can use it).
- `AskerIsNext`: `InterruptedNodeIsNext`. `LeftAtInterrupt` takes the completed nodes
  away, and the asker is not among them.
- `WorkIsKept`: `NothingLost`, for nodes without gotos, which override edges, and without
  input schemas, for want of which nodes are passed over (`Straight`). `KeptInv` says the
  same of the running invocation.
- `EngineImplementsThread`: `ImplementsThread`, for nodes without input schemas
  (`Unskipped`). `RunFollows` relates the running invocation to its checkpoint: what has
  completed since was pending or due in it, and what is selected follows from that; every
  save is then an `Advance` with those nodes. The attempt to prove it with an
  `Advance` of at least one node showed that nothing need have run (above).

The graph of the run `review` satisfies all of these hypotheses.

`AsyncLoopProofs` proves the same of the asynchronous engine. The steps that it shares
with `_run` are taken from `PregelLoopProofs`; the others are reduced to what they do to
the thread: a gathered step and the arguments of one node from START complete a set of
nodes at once. What the gathering order and the list of Sends compute are recursive
functions over an interval; that each has a value, of the right type, is shown by the
least number for which it would not have (`RecursionSolved`, `Stays`).

- `AsyncTypeCorrect`, `AsyncLosesNoUpdate` (`UpdatesKept` and `ResumeKeepsStep`),
  `AsyncStepsBounded`: in every graph, from `CountersInv`.
- `AsyncFanInCorrect`: `FanInWaits`, in every graph whose path functions answer before
  their node's update is in the channels only what they may answer with it
  (`EarlyWithin`). `TasksInv`: a step of tasks has not touched the channels before it is
  gathered, and what a task found is where its node leads.
- `EveryAskerAsksAgain`, `RecordsOfTasks`: `AskersStayNext` and `RecordsPerArgument`, for
  graphs with `OneWay` and `EarlyWithin`, the second also with `SendsBounded` (path
  functions of START return a bounded number of Sends). Invariants: `AsyncOnce`, which is
  `OnceInv` with `TasksInv`, and `AsyncCounts`.
- `AsyncEngineImplementsThread`: `AsyncImplementsThread`, if moreover no node has an input
  schema and nodes that fail have handlers (`Handled`). Without the latter the proof fails
  for a reason: the exception of a node beside one that asks is only logged, its node
  leaves the thread's pending nodes without a record (see "Errors" above).

The run `parallel` goes beyond these hypotheses: it has Sends of nodes, a node that is passed
over, one that fails without a handler, and an edge into a fan-in target.

`CheckpointStoreProofs` proves for any number of clients, checkpoints and stamps and any
limit of the memory saver (`StoreAssumption`), for both savers:

- `StoreTypeCorrect`, `QuestionsStay`, `HistoryIsHonest`, `FreshCallsKeepAll`: `StoreTypeOK`,
  `QuestionsKept`, `ParentsAreHonest` and `FreshCallsLoseNothing`, from one invariant,
  `StoreInv`. Between its stamp and its put a checkpoint is named nowhere
  (`StampsAreFresh`), so that storing it late gives nobody another parent or question.
  A call holds the updates of the checkpoint that its config names
  (`CallsBuildOnParents`); pending writes are where they belong (`WritesInPlace`); and when
  calls come one after the other, the running one holds every update and has the newest
  stamp (`FreshCallsAreUpToDate`), so that eviction never takes what the next one loads.
- `PagesAreComplete`: `PagesCoverHistory`. A listing is the one sequence of the ids that
  falls strictly (`OneListing`, `ListingExists`); what is older than an entry is the rest
  of the listing (`RestOfListing`), so that a page is the next part of it.
- `StoreImplementsNewest`: `HeadMovesForward`, every step of `CheckpointStore` being one of
  `NewestCheckpoint` with `head <- Latest` or leaving the head alone (`HeadStep`).

`GraphBuilderProofs` proves for any schemas, names and numbers of calls
(`BuilderAssumption`: schemas are lists of annotated keys, no key twice):

- `DeclaredChannels`: `ChannelsAsDeclared`. `BuilderInv`: a schema in use agrees with the
  channels, in that adding it would not raise, as long as none has raised. Channels are added
  and never replaced, `__error__` by `compile` included, so a schema that agreed goes on to.
- `WhatCompilesIsWhole`: `CompiledIsWhole`. What `validate` looks at covers every kind of
  exit (`ExitsAreValid`), so the nodes that are there, START and END are closed under
  exits, and whatever a run can get to is among them.

`SubgraphLoopProofs` proves about every pair of an outer and an inner graph
(`GraphAssumption` for both), over any number of inputs, answers and crashes:

- `SubTypeCorrect`: `SubTypeOK`. The outer loop's steps are those of `PregelLoopProofs`; the
  inner graph has plain edges, so that its loop has five kinds of steps (`InnerSteps`).
- `QuestionsReachInner`: `QuestionReachesInner`, for inner graphs that lead to each node once
  (`Inner!LeadsOnce`). The property speaks of two checkpoints that are written one after
  the other, and is not inductive. `InnerInv` says of the inner checkpoint and of the
  running inner loop that what is next has not run, and what leads to it has (`InOrder`),
  and how far the inner invocation is, seen from the outer node; `QuestionHeld` that the
  outer checkpoint holds the subgraph's question only between invocations, with the inner
  question still in place; `OuterDue` that the outer loop keeps a node due until it has
  run. The condition that the node has not completed before cannot be dropped: the
  checkpoint of a question leaves completed nodes out (`LeftAtInterrupt`, `_loop.py:707`).
- `InnerWorkStays`: `WorkStays`, in the same graphs and for any caller, since what had
  completed at the question is within what any later inner run has completed (`InOrder`).
- `InnerWorkIsKept`: `InnerWorkKept`, if moreover callers give values to answer questions only
  (`OnlyAnswers`) and no outer node but the subgraph asks (`OnlySubAsks`). Without these
  `FreshHasInput` is false, see the divergence on answers: the answer to another question
  is taken for the subgraph's. `AnswerInv`: whoever gives an answer finds an inner
  checkpoint to go on from, also after a crash between the inner and the outer save.
- `DoneIsWhole`: `DoneMeansWhole`, for inner graphs whose nodes are all reached from any
  start (`InnerReaches`), in outer graphs without Sends. `LedInv`: an inner start and the
  successors of what has completed are completed or next, so that when nothing is next
  the completed nodes are closed under edges, hence all.

The graphs of the run `subgraph` satisfy all of these hypotheses.

`TaskFutureProofs` proves for any set of threads and coroutines on any loops, with
cancellation, from `CallerAssumption` (nobody is both, and nobody is the value
that stands for none):

- `FutureTypeCorrect`: `Spec => []TypeOK`, which is inductive.
- `AtMostOnce`, `SameVerdict`: `RunsOnce` and `OneVerdict`, neither of which is
  inductive. `Ownership` says who has the task in hand (a thread by the lock, one
  coroutine by the flag, a cancelled one for ever) and that whoever started the
  function has it in hand until there is an outcome; `Verdict` says of callers on
  their way to an answer that the outcome they are going to read is there.

`ChannelsProofs` proves for any values, names and batches, and any number of calls:

- `RestoreIsInvisible`: `Spec => []RestoreInvisible`. `copy` and
  `from_checkpoint(checkpoint())` rebuild a channel from its class, its option and what
  they save, which is all of it only for channels that the calls can produce: a
  MISSING channel is as new, only the AfterFinish classes are ever finished, and
  only when they have something to finish. That is `ChannelOK`; every call keeps it
  (`UpdateOK`, `ConsumeOK`, `FinishOK`), and for such channels the copy and the restored
  one are the channel itself (`CopyIsSame`, `RestoredIsSame`). So channel and twin are
  equal (`TwinInv`), whatever is called.
- `PromisesKept`: `Spec => []ReadsAsPromised`, for all classes. `HeldInv` says what the fields
  of the channel are, told from the calls: those of a value by the place of the last call
  that wrote it (`KeptLast`, `KeptTillRead`), those of a barrier by the names since it was
  last consumed (`BarrierKept`), those of a topic and a reducer by all that has been
  written (`TopicKept`, `Reduced`). The last two are recursive: `FlattenSeq` and `FoldLeft`
  are shown to be what is reached by joining or reducing one value after the other
  (`Flattened`, `FoldSteps`), by the least number at which they would not be, and one
  call more then adds what it wrote (`WrittenMore`). The proof needs that an Overwrite
  drops what came before it (`FromOverwriteMore`), and that a call with two Overwrites stops
  at the second (`AcceptedPart`).

  The attempt to prove it found that `ReadsAsPromised` had been stated wrongly for
  LastValueAfterFinish, where three calls are too few to see it: after update, finish
  and consume, another finish must not show the value again. It is now stated so, and the
  run `channels` has four calls.

`NodeCallProofs` proves for every kind of call and retry policy, any number of attempts
and of questions (`CallAssumption`: the bounds are numbers, `max_attempts` is at most
the bound, and `retry_on` lists failures):

- `CallTypeCorrect`, `OnlyTheLastAnswers`, `QuestionsAreNotRetried`, `NeverTwiceAtOnce`:
  `TypeOK`, `LastAttemptAnswers`, `QuestionsEndTheCall` and `OneAttemptAtATime`, from one
  invariant, `CallInv`. Attempts after the current one have not begun (`Ahead`); those
  before it have failed or were given up (`Behind`), so a question can only be that of
  the current attempt, or of one that nobody waits for. Where functions run in threads,
  a thread starts one only if nobody is in the context; elsewhere only the current
  attempt can run, and giving it up ends it (`Alone`).

Only model-checked: the properties that say that something ends (`InvocationEnds`,
`AsyncInvocationEnds`, `SubInvocationEnds`, `CallEnds`, `CallersEnd`), which are liveness
under fairness, out of TLAPS' reach. Every invariant and every other action property
of the passing runs is stated by a theorem, several for a narrower class of graphs than
the run has, as said above. Theorems of the library whose parameter is an operator,
induction among them, cannot be used; where data is recursive the proofs argue by the
least number instead (`LeastNumber`, `Stays`).

## 5. Not modelled

In the engines: labels of a `path_map`; `update_state` without `as_node`, which only
changes data; a bare Send result of a node with branches; stream modes;
`Command(graph=PARENT)`. `PregelLoop`, `AsyncLoop` and `SubgraphLoop` save a checkpoint and
its interrupts in one step and know one invocation of the thread at a time, from
its latest checkpoint: what lies between the two, older checkpoints and
overlapping invocations are the subject of `CheckpointStore`. A node runs in one
action of the loops: what happens inside is `NodeCall`. `SubgraphLoop` has one level,
plain edges inside, and callers who answer questions of the subgraph only
(`OnlyAnswers`); for others see the divergences above.

In `NodeCall`: the length of pauses, injected arguments. In `CheckpointStore`: what
values are serialised to, namespaces, two checkpoints with the same `ts`, the row order
within a batch, the death of a process inside an open SQLite transaction (SQLite rolls
it back). In `Channels`: `add_messages`. In `GraphBuilder`: `context_schema`, the
inference from annotations, schemas without annotations, sequences of more than two,
`batch` and `abatch`.

In `TaskFuture`: a task whose function asks for the result of the same future or of
another one; a plain function that returns a coroutine object; two threads that
change the waiters' queue of the event in the same instant; the wrapper `@task`.

No module: the result cache and the key-value store, whose calls are single sections
under a lock (`PregelLoop` lets a lookup find any stored result or none); the prebuilt
agents, which are graphs around calls of a language model; the LLM adapter, the
visualization, constants and errors, which keep no state.

## 6. Plan

All modules of the plan are written, and all invariants and action properties of the
passing runs are proved. To follow are, in this order:

1. The proofs about `AsyncLoop` for steps with Sends of nodes and for nodes that are passed
   over, which only `parallel` has.
2. `RecordsPerArgument` and `EffectsOnce` for graphs that lead to a node in several ways, of
   which one invocation takes only one.
3. `DurableThread` with an inner graph: that the outer graph of `SubgraphLoop` implements it.
