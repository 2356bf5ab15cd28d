---------------------------- MODULE GraphBuilder ----------------------------
(***************************************************************************)
(* StateGraph, the builder of a graph: the calls that add schemas, nodes,  *)
(* edges and branches, in any order, validate() and compile().             *)
(*                                                                         *)
(* A schema declares keys; each key becomes a channel when the first       *)
(* schema with it is added.  An add_node call registers the node before it *)
(* adds the schema of its input, so that a call that raises because two    *)
(* schemas disagree leaves the node, the schema and some of its channels   *)
(* behind; an add_sequence call that raises leaves the nodes before the    *)
(* one that was refused.  Other calls that raise change nothing, and are   *)
(* left out.                                                               *)
(*                                                                         *)
(* The compiled graph gets copies of the channels, and the builder itself: *)
(* the engine reads nodes, edges and schemas from it at every step, also   *)
(* what is added after compile().                                          *)
(***************************************************************************)
EXTENDS Integers, Sequences, FiniteSets

CONSTANTS
  Bases,           \* the names given to nodes
  MaxNumber,       \* bound: on the numbers that add_sequence puts after a name
  Annotations,     \* schema -> sequence of <<key, annotation>>
  StateSchema,
  InputSchemas,    \* schemas of the graph's input
  OutputSchemas,   \* schemas of the graph's output
  NodeSchemas,     \* schemas of the nodes' inputs
  Ends,            \* declared destinations and ends of path maps, with None for no such thing
  ErrorHandlers,   \* what add_node and set_node_defaults may be given as error_handler
  Listings,        \* what compile() may be given as interrupt_before and interrupt_after
  MaxCalls         \* bound: calls of the builder

\* A node's name and the number added to it, 0 for none.
Names == Bases \X (0 .. MaxNumber)
START == <<"START", 0>>
END   == <<"END", 0>>

\* "" where the caller gives no error handler; no path_map.
None  == <<"", 0>>
NoMap == {None}

Schemas == DOMAIN Annotations

Annotation == [meta : {"none", "reducer", "channel"}, class : STRING, detail : STRING]

\* The annotations of a schema are a dict, so that it has a key once.
ASSUME BuilderAssumption ==
  /\ Annotations \in [Schemas -> Seq(STRING \X Annotation)]
  /\ \A schema \in Schemas : \A i, j \in DOMAIN Annotations[schema] :
       Annotations[schema][i][1] = Annotations[schema][j][1] => i = j
  /\ StateSchema \in Schemas /\ InputSchemas \cup OutputSchemas \cup NodeSchemas \subseteq Schemas
  /\ Ends \subseteq Names \cup {END, None} /\ ErrorHandlers \subseteq Names
  /\ {"START", "END", ""} \cap Bases = {}
  /\ Listings \subseteq SUBSET Names
  /\ MaxNumber \in Nat /\ MaxCalls \in Nat

VARIABLES
  nodes,           \* name -> [schema, ends, handler]
  edges,           \* of <<start, end>>
  waiting_edges,   \* of <<set of starts, end>>
  branches,        \* of [source, path, ends], with NoMap where there is no path_map
  schemas,         \* the schemas that have been added
  channels,        \* key -> channel
  app,             \* the channels and interrupt lists of the compiled graph, or {}
  raised,          \* the nodes left behind by an add_node call that raised
  calls            \* how many calls there have been

vars == <<nodes, edges, waiting_edges, branches, schemas, channels, app, raised, calls>>

Added == DOMAIN nodes

(***************************************************************************)
(* Schemas and channels.  An annotation is [meta, class, detail]: a plain  *)
(* type, a type with a reducer, or a type with a channel class or one of   *)
(* its instances, of which only the class is used.  detail is the function *)
(* of a reducer, and otherwise the type, which only a LastValue is         *)
(* compared by.                                                            *)
(***************************************************************************)

GetChannel(annotation) ==
  CASE annotation.meta = "channel" ->
         [class |-> annotation.class,
          detail |-> IF annotation.class = "LastValue" THEN annotation.detail ELSE "default"]
    [] annotation.meta = "reducer" -> [class |-> "BinaryOperatorAggregate",
                                       detail |-> annotation.detail]
    [] annotation.meta = "none"    -> [class |-> "LastValue", detail |-> annotation.detail]

KeysOf(schema) == {Annotations[schema][i][1] : i \in DOMAIN Annotations[schema]}

ClashOfTypes(existing, channel) ==
  /\ channel.class = "LastValue" /\ existing.class = "LastValue"
  /\ existing.detail # channel.detail

\* A LastValue is taken for any channel that is there, unless that is a LastValue of
\* another type.
Clash(existing, channel) ==
  IF channel.class = "LastValue"
  THEN existing.class = "LastValue" /\ existing.detail # channel.detail
  ELSE existing # channel

\* How many keys of the schema are added before one that raises.
Agreed(schema, chans) ==
  LET declared == Annotations[schema]
      ok(i) == declared[i][1] \in DOMAIN chans =>
                 ~Clash(chans[declared[i][1]], GetChannel(declared[i][2]))
  IN CHOOSE n \in 0 .. Len(declared) :
       /\ \A i \in 1 .. n : ok(i)
       /\ n < Len(declared) => ~ok(n + 1)

\* What the first n keys of a schema add.
WithKeys(schema, n, chans) ==
  LET declared == Annotations[schema]
      first(key) == CHOOSE i \in 1 .. n : declared[i][1] = key
      fresh == {declared[i][1] : i \in 1 .. n} \ DOMAIN chans
  IN [key \in DOMAIN chans \cup fresh |->
        IF key \in fresh THEN GetChannel(declared[first(key)][2]) ELSE chans[key]]

\* _add_schema: the channels it leaves, and whether it returned.
AddSchema(schema, chans, known) ==
  LET n == Agreed(schema, chans)
  IN IF schema \in known THEN [channels |-> chans, ok |-> TRUE]
     ELSE [channels |-> WithKeys(schema, n, chans),
           ok |-> n = Len(Annotations[schema])]

(***************************************************************************)
(* The calls of the builder.                                               *)
(***************************************************************************)

\* __init__, with schemas of the input and the output that agree with that of the state.
Init ==
  \E input \in InputSchemas \cup {StateSchema}, output \in OutputSchemas \cup {StateSchema} :
    LET state == AddSchema(StateSchema, <<>>, {})
        both  == AddSchema(input, state.channels, {StateSchema})
        all   == AddSchema(output, both.channels, {StateSchema, input})
    IN /\ both.ok /\ all.ok
       /\ channels = all.channels
       /\ schemas = {StateSchema, input, output}
       /\ nodes = <<>> /\ edges = {} /\ waiting_edges = {} /\ branches = {}
       /\ app = {} /\ raised = {} /\ calls = 0

Called == calls < MaxCalls /\ calls' = calls + 1

NewNode(schema, ends, handler) == [schema |-> schema, ends |-> ends, handler |-> handler]

\* add_node: a callable, the schema of its input, declared destinations, an error handler.
AddNode(name, schema, ends, handler) ==
  LET added == AddSchema(schema, channels, schemas)
  IN /\ Called
     /\ name \notin Added
     /\ nodes' = [n \in Added \cup {name} |->
                    IF n = name THEN NewNode(schema, ends, handler) ELSE nodes[n]]
     /\ schemas' = schemas \cup {schema}
     /\ channels' = added.channels
     /\ raised' = IF added.ok THEN raised ELSE raised \cup {name}
     /\ UNCHANGED <<edges, waiting_edges, branches, app>>

\* add_edge with one start, also as set_entry_point and set_finish_point.
AddEdge(start, end) ==
  /\ Called
  /\ start \in Added \cup {START}
  /\ end \in Added \cup {END}
  /\ edges' = edges \cup {<<start, end>>}
  /\ UNCHANGED <<nodes, waiting_edges, branches, schemas, channels, app, raised>>

\* add_edge with a list of starts.
AddWaitingEdge(starts, end) ==
  /\ Called
  /\ starts \subseteq Added
  /\ end \in Added \cup {END}
  /\ waiting_edges' = waiting_edges \cup {<<starts, end>>}
  /\ UNCHANGED <<nodes, edges, branches, schemas, channels, app, raised>>

\* add_conditional_edges, also as set_conditional_entry_point: one branch for each path
\* function of a source.  Neither the source nor the ends are looked up.
AddConditionalEdges(source, path, ends) ==
  /\ Called
  /\ \A b \in branches : <<b.source, b.path>> # <<source, path>>
  /\ branches' = branches \cup {[source |-> source, path |-> path, ends |-> ends]}
  /\ UNCHANGED <<nodes, edges, waiting_edges, schemas, channels, app, raised>>

\* The first of base, base_1, base_2, ... that no node has.
FreeName(base, taken) ==
  LET free == {n \in 0 .. MaxNumber + Cardinality(taken) : <<base, n>> \notin taken}
  IN <<base, CHOOSE n \in free : \A m \in free : n <= m>>

\* add_sequence with two callables.
AddSequence(first, second) ==
  LET a == FreeName(first, Added)
      b == FreeName(second, Added \cup {a})
  IN /\ Called
     /\ {a, b} \subseteq Names
     /\ nodes' = [n \in Added \cup {a, b} |->
                    IF n \in {a, b} THEN NewNode(StateSchema, {}, None) ELSE nodes[n]]
     /\ edges' = edges \cup {<<a, b>>}
     /\ UNCHANGED <<waiting_edges, branches, schemas, channels, app, raised>>

\* add_sequence with a second element that add_node refuses, as it does None.
StopSequence(first) ==
  LET a == FreeName(first, Added)
  IN /\ Called
     /\ a \in Names
     /\ nodes' = [n \in Added \cup {a} |->
                    IF n = a THEN NewNode(StateSchema, {}, None) ELSE nodes[n]]
     /\ UNCHANGED <<edges, waiting_edges, branches, schemas, channels, app, raised>>

\* set_node_defaults with an error handler, for the nodes that have none: for that node, too.
SetNodeDefaults(handler) ==
  /\ Called
  /\ nodes' = [n \in Added |->
                 IF nodes[n].handler = None THEN [nodes[n] EXCEPT !.handler = handler]
                 ELSE nodes[n]]
  /\ UNCHANGED <<edges, waiting_edges, branches, schemas, channels, app, raised>>

(***************************************************************************)
(* validate and compile.                                                   *)
(***************************************************************************)

Sources ==
  {e[1] : e \in edges} \cup (UNION {e[1] : e \in waiting_edges})
    \cup {b.source : b \in branches} \cup {n \in Added : nodes[n].ends # {}}

Targets ==
  {e[2] : e \in edges} \cup {e[2] : e \in waiting_edges}
    \cup (UNION {b.ends : b \in {c \in branches : c.ends # NoMap}})
    \cup (UNION {nodes[n].ends : n \in Added})

Handlers == {nodes[n].handler : n \in Added} \ {None}

ValidButHandlers(listed) ==
  /\ Sources \subseteq Added \cup {START}
  /\ START \in Sources
  /\ Targets \subseteq Added \cup {END}
  /\ listed \subseteq Added

Valid(listed) ==
  /\ Sources \subseteq Added \cup {START}
  /\ START \in Sources
  /\ Targets \subseteq Added \cup {END}
  /\ listed \subseteq Added
  /\ Handlers \subseteq Added

\* The channel of the error handlers, if there are any.
WithError(chans) ==
  IF Handlers = {} \/ "__error__" \in DOMAIN chans THEN chans
  ELSE [key \in DOMAIN chans \cup {"__error__"} |->
          IF key = "__error__" THEN [class |-> "LastValue", detail |-> "dict"]
          ELSE chans[key]]

Compile(listed) ==
  /\ Called
  /\ Valid(listed)
  /\ channels' = WithError(channels)
  /\ app' = {[channels |-> channels', listed |-> listed]}
  /\ UNCHANGED <<nodes, edges, waiting_edges, branches, schemas, raised>>

\* Bound: destinations and path maps have one entry, a waiting edge two starts, and a node one
\* branch.
Next ==
  \/ \E name \in Bases \X {0}, schema \in NodeSchemas, end \in Ends,
        handler \in ErrorHandlers \cup {None} :
       AddNode(name, schema, {end} \ {None}, handler)
  \/ \E start, end \in Names \cup {START, END} : AddEdge(start, end)
  \/ \E starts \in SUBSET Names, end \in Names \cup {END} :
       Cardinality(starts) = 2 /\ AddWaitingEdge(starts, end)
  \/ \E source \in (Bases \X {0}) \cup {START}, end \in Ends :
       AddConditionalEdges(source, "route", {end})
  \/ \E first, second \in Bases : AddSequence(first, second)
  \/ \E first \in Bases : StopSequence(first)
  \/ \E handler \in ErrorHandlers : SetNodeDefaults(handler)
  \/ \E listed \in Listings : Compile(listed)

Spec == Init /\ [][Next]_vars

(***************************************************************************)
(* Properties.                                                             *)
(***************************************************************************)

\* Where the engine may go from a node or from START.
Exits(name) ==
  {e[2] : e \in {f \in edges : f[1] = name}}
    \cup {e[2] : e \in {f \in waiting_edges : name \in f[1]}}
    \cup (UNION {b.ends \ {None} : b \in {c \in branches : c.source = name}})
    \cup (IF name \in Added THEN nodes[name].ends \cup ({nodes[name].handler} \ {None}) ELSE {})

\* Where a run can get to: the least set with START and the exits of its members.
Reached ==
  LET all    == Names \cup {START, END}
      closed == {S \in SUBSET all : START \in S /\ \A n \in S : Exits(n) \subseteq S}
  IN {n \in all : \A S \in closed : n \in S}

\* The compiled graph has an entry, all nodes a run can get to, and their channels.
CompiledWhole ==
  LET compiled == CHOOSE a \in app' : TRUE
  IN /\ Exits(START) # {} \/ \E b \in branches : b.source = START
     /\ Reached \subseteq Added \cup {START, END}
     /\ compiled.listed \subseteq Added
     /\ (\E n \in Reached \cap Added : nodes[n].handler # None) =>
          "__error__" \in DOMAIN compiled.channels
     /\ raised = {} =>
          \A n \in Reached \cap Added :
            KeysOf(nodes[n].schema) \subseteq DOMAIN compiled.channels

\* Whatever calls a graph is put together from, if it compiles then every node that a run
\* can get to, along edges, fan-ins, mapped branches, declared destinations and error
\* handlers, is there to be run; the graph can be entered; the nodes to pause at are there;
\* a failing node finds the channel for its error, and, unless a call has raised, every node
\* the channels of its input.  (The engine skips a node that it does not find, or that has an
\* input without a channel, and says nothing.)
CompiledIsWhole == [][(\E listed \in Listings : Compile(listed)) => CompiledWhole]_vars

\* As long as no call has raised, the channels are those of the declarations, in whatever
\* order the schemas came: every key of every schema in use has a channel, a key that some
\* schema gives a reducer is reduced with it, also where others declare a plain type, and the
\* declarations of a key that holds its last value agree in its type.
ChannelsAsDeclared ==
  raised = {} =>
    \A schema \in schemas : \A i \in DOMAIN Annotations[schema] :
      LET key        == Annotations[schema][i][1]
          annotation == Annotations[schema][i][2]
      IN /\ key \in DOMAIN channels
         /\ annotation.meta = "reducer" =>
              channels[key] = [class |-> "BinaryOperatorAggregate", detail |-> annotation.detail]
         /\ GetChannel(annotation).class = "LastValue" /\ channels[key].class = "LastValue" =>
              channels[key].detail = annotation.detail

=============================================================================
