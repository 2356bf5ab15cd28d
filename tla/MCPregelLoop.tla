---------------------------- MODULE MCPregelLoop ----------------------------
(***************************************************************************)
(* Graphs for checking PregelLoop with TLC.                                *)
(*                                                                         *)
(* Review: {a, b} fan in to c, c leads to d, and d routes to e or stops;   *)
(* a, d and q, which runs beside the others, ask; b may fail and has the   *)
(* error handler h.  The shape of the human-in-the-loop examples of        *)
(* docs/tutorials/interrupt-resume.md and basic-graph.md.                  *)
(*                                                                         *)
(* Agent: m routes to its tool t with Sends or stops, t leads back to m;   *)
(* the shape of prebuilt/react_agent.py.                                   *)
(***************************************************************************)
EXTENDS PregelLoop

CONSTANTS a, b, c, d, e, h, m, q, t

None == [n \in Nodes |-> {}]
Once == [n \in Nodes |-> {0}]
NoHandlers == [n \in Nodes |-> NoNode]

To(next)    == [next |-> next, sends |-> <<>>]
SendTo(seq) == [next |-> {}, sends |-> seq]

ReviewNodes    == {a, b, c, d, e, h, q}
ReviewStart    == {{a, b, q}}
ReviewEdges    == {<<c, d>>}
ReviewWaiting  == {[starts |-> {a, b}, end |-> c]}
ReviewBranches == [None EXCEPT ![d] = {NoRoute, To({e})}]
ReviewAsks     == [Once EXCEPT ![a] = {1}, ![d] = {0, 1}, ![q] = {1, 2}]
ReviewHandlers == [NoHandlers EXCEPT ![b] = h]
ReviewBefore   == {d}
ReviewAfter    == {b}

AgentNodes    == {m, t, h}
AgentStart    == {{m}}
AgentEdges    == {<<t, m>>}
AgentBranches == [None EXCEPT ![m] = {NoRoute, SendTo(<<t>>)}]
AgentGotos    == [None EXCEPT ![m] = {To({t})}]
AgentListed   == [None EXCEPT ![t] = {SendTo(<<t>>)}]
AgentAsks     == [Once EXCEPT ![t] = {0, 1}]
AgentHandlers == [NoHandlers EXCEPT ![t] = h]
AgentNeeds    == [None EXCEPT ![h] = {t}]

(* Two turns of a plain fan-in.                                            *)
FanInNodes == {a, b, c}
FanInStart == {{a, b}}

(* Two questions of one node.                                              *)
MultiStepNodes == {a}
MultiStepStart == {{a}}
MultiStepAsks  == [n \in Nodes |-> {2}]

=============================================================================
