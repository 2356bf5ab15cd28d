--------------------------- MODULE MCSubgraphLoop ---------------------------
(***************************************************************************)
(* b leads to the subgraph s, which leads to c; h handles the errors of s. *)
(* Inside, i leads to j, which may ask a question, and j to k: the shape   *)
(* of docs/tutorials/subgraphs.md.  A run from i to k is longer than       *)
(* SubRecursionLimit allows; one that was interrupted at j is not.         *)
(***************************************************************************)
EXTENDS SubgraphLoop

CONSTANTS b, s, c, h, i, j, k

None == [n \in Nodes |-> {}]
Once == [n \in Nodes |-> {0}]
OuterNodes    == {b, s, c, h}
OuterStart    == {{b}}
OuterEdges    == {<<b, s>>, <<s, c>>}
OuterHandlers == [[n \in Nodes |-> NoNode] EXCEPT ![s] = h]

InnerNodes == {i, j, k}
InnerStart == {{i}}
InnerEdges == {<<i, j>>, <<j, k>>}
InnerAsks  == [n \in SubNodes |-> IF n = j THEN {0, 1} ELSE {0}]

=============================================================================
