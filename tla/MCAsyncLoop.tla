---------------------------- MODULE MCAsyncLoop ----------------------------
(***************************************************************************)
(* Graphs for checking AsyncLoop with TLC.                                 *)
(*                                                                         *)
(* Parallel: START leads to {a, b, d}, or sends two arguments to s, or     *)
(* both to s and d, or leads to {e, g}; {a, b} fan in to c, s leads to c.  *)
(* a, d and s ask; b and s may fail and have the handler h, e may fail and *)
(* has none; b is cached; g is passed over until e has sent to it, and may *)
(* send to itself once too often.  Three tasks share two places of the     *)
(* semaphore.                                                              *)
(***************************************************************************)
EXTENDS AsyncLoop

CONSTANTS a, b, c, d, e, g, h, s

None == [n \in Nodes |-> {}]
Once == [n \in Nodes |-> {0}]
NoHandlers == [n \in Nodes |-> NoNode]

To(next)    == [next |-> next, sends |-> <<>>]
SendTo(seq) == [next |-> {}, sends |-> seq]

ParallelNodes  == {a, b, c, d, e, g, h, s}
ParallelRoutes == {To({a, b, d}), To({e, g}), [next |-> {d}, sends |-> <<s>>], SendTo(<<s, s>>)}
ParallelSets   == {{a, b, d}, {e, g}, {d, s}, {s}}
ParallelEdges  == {<<s, c>>}
ParallelJoins  == {[starts |-> {a, b}, end |-> c]}
ParallelBranches == [None EXCEPT ![e] = {SendTo(<<g>>)}, ![g] = {NoRoute, SendTo(<<g>>)}]
ParallelAsks   == [Once EXCEPT ![a] = {1}, ![d] = {0, 1}, ![s] = {0, 1}]
ParallelNeeds  == [None EXCEPT ![g] = {e}]
ParallelHandlers == [NoHandlers EXCEPT ![b] = h, ![s] = h]

(* Two questions in one step.                                              *)
QuestionNodes  == {a, d}
QuestionRoutes == {To({a, d})}
QuestionSets   == {{a, d}}
QuestionAsks   == [n \in Nodes |-> {1}]

=============================================================================
