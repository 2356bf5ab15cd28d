------------------------- MODULE GraphBuilderProofs -------------------------
(***************************************************************************)
(* Proofs about GraphBuilder, for all schemas, names and numbers of calls. *)
(*                                                                         *)
(* A channel agrees with an annotation if a schema that declares it could  *)
(* still be added.  A schema that was added without an exception agrees    *)
(* with the channels, and goes on agreeing, because channels are added and *)
(* never replaced.                                                         *)
(***************************************************************************)
EXTENDS GraphBuilder, TLAPS, NaturalsInduction, WellFoundedInduction, SequenceTheorems

-----------------------------------------------------------------------------
(* Adding a schema.                                                        *)

\* A channel agrees with an annotation if a schema with it could be added.
Agrees(chans, key, annotation) == key \in DOMAIN chans /\ ~Clash(chans[key], GetChannel(annotation))

AllAgree(schema, chans) ==
  \A i \in DOMAIN Annotations[schema] :
    Agrees(chans, Annotations[schema][i][1], Annotations[schema][i][2])

\* Channels are added and never replaced.
Keeps(chans, more) ==
  DOMAIN chans \subseteq DOMAIN more /\ \A key \in DOMAIN chans : more[key] = chans[key]

LEMMA AgreeLater ==
  ASSUME NEW schema, NEW chans, NEW more, AllAgree(schema, chans), Keeps(chans, more)
  PROVE  AllAgree(schema, more)
BY DEF AllAgree, Agrees, Keeps

LEMMA SchemaType ==
  ASSUME NEW schema \in Schemas
  PROVE  /\ Len(Annotations[schema]) \in Nat
         /\ DOMAIN Annotations[schema] = 1..Len(Annotations[schema])
<1>1. Annotations[schema] \in Seq(STRING \X Annotation)
  BY BuilderAssumption
<1>2. QED
  BY <1>1, LenProperties

LEMMA LeastNumber ==
  ASSUME NEW S \in SUBSET Nat, S # {}
  PROVE  \E i \in S : \A j \in S : i <= j
<1> DEFINE less == {ss \in Nat \X Nat : ss[1] < ss[2]}
<1>1. IsWellFoundedOn(less, Nat)
  BY NatLessThanWellFounded DEF OpToRel
<1>2. PICK i \in S : \A j \in S : <<j, i>> \notin less
  <2> HIDE DEF less
  <2> QED  BY <1>1, WFMin
<1>3. \A j \in S : ~(j < i)
  BY <1>2
<1>4. QED
  BY <1>3

\* _add_schema goes through the keys until one raises: those before it do not.
LEMMA AgreedAre ==
  ASSUME NEW schema \in Schemas, NEW chans
  PROVE  /\ Agreed(schema, chans) \in 0..Len(Annotations[schema])
         /\ \A i \in 1..Agreed(schema, chans) :
              LET key == Annotations[schema][i][1]
              IN key \in DOMAIN chans => Agrees(chans, key, Annotations[schema][i][2])
<1> DEFINE declared == Annotations[schema]
           ok(i) == declared[i][1] \in DOMAIN chans =>
                      ~Clash(chans[declared[i][1]], GetChannel(declared[i][2]))
           Stops(n) == (\A i \in 1..n : ok(i)) /\ (n < Len(declared) => ~ok(n + 1))
           Raising == {n \in 0..Len(declared) : n < Len(declared) => ~ok(n + 1)}
<1>1. Len(declared) \in Nat
  BY SchemaType
<1> HIDE DEF ok, declared
<1>2. PICK n \in Raising : \A m \in Raising : n <= m
  <2>1. Len(declared) \in Raising
    BY <1>1
  <2>2. Raising \in SUBSET Nat
    BY <1>1
  <2> HIDE DEF Raising
  <2> QED  BY <2>1, <2>2, LeastNumber
<1>3. \A i \in 1..n : ok(i)
  <2> SUFFICES ASSUME NEW i \in 1..n PROVE ok(i)
    OBVIOUS
  <2>1. i - 1 \in 0..Len(declared) /\ i - 1 < Len(declared) /\ ~(n <= i - 1) /\ (i - 1) + 1 = i
    BY <1>1
  <2> QED  BY <1>2, <2>1
<1>4. n \in 0..Len(declared) /\ Stops(n)
  BY <1>2, <1>3
<1>5. Agreed(schema, chans) = CHOOSE m \in 0..Len(declared) : Stops(m)
  BY DEF Agreed, declared, ok
<1> HIDE DEF Stops
<1>6. Agreed(schema, chans) \in 0..Len(declared) /\ Stops(Agreed(schema, chans))
  BY <1>4, <1>5
<1>7. QED
  BY <1>6 DEF Stops, ok, declared, Agrees

LEMMA KeysAreKept ==
  ASSUME NEW schema, NEW n, NEW chans
  PROVE  Keeps(chans, WithKeys(schema, n, chans))
BY DEF Keeps, WithKeys

LEMMA OwnChannelAgrees == ASSUME NEW annotation PROVE ~Clash(GetChannel(annotation), GetChannel(annotation))
BY DEF Clash

\* A schema that is added without an exception agrees with the channels it leaves.
LEMMA WholeSchemaAgrees ==
  ASSUME NEW schema \in Schemas, NEW chans, Agreed(schema, chans) = Len(Annotations[schema])
  PROVE  AllAgree(schema, WithKeys(schema, Len(Annotations[schema]), chans))
<1> DEFINE declared == Annotations[schema]
           N == Len(declared)
           left == WithKeys(schema, N, chans)
<1> SUFFICES ASSUME NEW i \in 1..N PROVE Agrees(left, declared[i][1], declared[i][2])
  BY SchemaType DEF AllAgree
<1>1. CASE declared[i][1] \in DOMAIN chans
  BY <1>1, AgreedAre, KeysAreKept DEF Agrees, Keeps
<1>2. CASE declared[i][1] \notin DOMAIN chans
  <2>1. \A j \in 1..N : declared[j][1] = declared[i][1] => j = i
    <3>1. \A j, k \in DOMAIN Annotations[schema] :
             Annotations[schema][j][1] = Annotations[schema][k][1] => j = k
      BY BuilderAssumption
    <3> QED  BY <3>1, SchemaType
  <2>2. (CHOOSE j \in 1..N : declared[j][1] = declared[i][1]) = i
    BY <2>1
  <2>3. declared[i][1] \in DOMAIN left /\ left[declared[i][1]] = GetChannel(declared[i][2])
    BY <1>2, <2>2 DEF WithKeys
  <2> QED  BY <2>3, OwnChannelAgrees DEF Agrees
<1>3. QED
  BY <1>1, <1>2

LEMMA SchemaAdded ==
  ASSUME NEW schema \in Schemas, NEW chans, NEW known
  PROVE  /\ Keeps(chans, AddSchema(schema, chans, known).channels)
         /\ schema \notin known /\ AddSchema(schema, chans, known).ok =>
              AllAgree(schema, AddSchema(schema, chans, known).channels)
<1>1. CASE schema \in known
  BY <1>1 DEF AddSchema, Keeps
<1>2. CASE schema \notin known
  BY <1>2, KeysAreKept, WholeSchemaAgrees DEF AddSchema
<1>3. QED
  BY <1>1, <1>2

-----------------------------------------------------------------------------
(* The invariant.  A schema in use agrees with the channels, as long as    *)
(* the call that added it did not raise.                                   *)

BuilderInv ==
  /\ Added \subseteq Names
  /\ schemas \subseteq Schemas /\ StateSchema \in schemas
  /\ \A n \in Added : nodes[n].schema \in schemas
  /\ raised = {} => \A schema \in schemas : AllAgree(schema, channels)

LEMMA BuilderInit == Init => BuilderInv
<1> SUFFICES ASSUME Init PROVE BuilderInv
  OBVIOUS
<1> DEFINE state == AddSchema(StateSchema, <<>>, {})
           both(input) == AddSchema(input, state.channels, {StateSchema})
           all(input, output) == AddSchema(output, both(input).channels, {StateSchema, input})
<1>1. PICK input \in InputSchemas \cup {StateSchema}, output \in OutputSchemas \cup {StateSchema} :
        /\ both(input).ok /\ all(input, output).ok
        /\ channels = all(input, output).channels
        /\ schemas = {StateSchema, input, output}
  BY DEF Init
<1>2. StateSchema \in Schemas /\ input \in Schemas /\ output \in Schemas
  BY BuilderAssumption
<1>3. AllAgree(StateSchema, state.channels)
  <2>1. \A i \in 1..Len(Annotations[StateSchema]) : Annotations[StateSchema][i][1] \notin DOMAIN <<>>
    OBVIOUS
  <2>2. Agreed(StateSchema, <<>>) = Len(Annotations[StateSchema])
    <3> DEFINE N == Len(Annotations[StateSchema])
    <3>1. N \in Nat
      BY <1>2, SchemaType
    <3>2. Agreed(StateSchema, <<>>) = CHOOSE n \in 0..N : n < N => FALSE
      BY <2>1, <3>1 DEF Agreed
    <3> HIDE DEF N
    <3>3. \E n \in 0..N : n < N => FALSE
      BY <3>1
    <3>4. \A n \in 0..N : (n < N => FALSE) => n = N
      BY <3>1
    <3>5. (CHOOSE n \in 0..N : n < N => FALSE) = N
      BY <3>3, <3>4
    <3> QED  BY <3>2, <3>5 DEF N
  <2>3. state.ok
    BY <2>2 DEF AddSchema
  <2> QED  BY <1>2, <2>3, SchemaAdded
<1> HIDE DEF state
<1> DEFINE chans == both(input).channels
<1>4. AllAgree(StateSchema, chans)
  BY <1>1, <1>2, <1>3, SchemaAdded, AgreeLater
<1>5. AllAgree(input, chans)
  BY <1>1, <1>2, <1>3, <1>4, SchemaAdded
<1>6. all(input, output) = AddSchema(output, chans, {StateSchema, input})
  OBVIOUS
<1> HIDE DEF chans, all
<1>7. AllAgree(StateSchema, channels) /\ AllAgree(input, channels)
  BY <1>1, <1>2, <1>4, <1>5, <1>6, SchemaAdded, AgreeLater
<1>8. AllAgree(output, channels)
  BY <1>1, <1>2, <1>5, <1>6, <1>7, SchemaAdded
<1>9. /\ schemas \subseteq Schemas /\ StateSchema \in schemas
      /\ \A schema \in schemas : AllAgree(schema, channels)
  BY <1>1, <1>2, <1>7, <1>8
<1>10. Added = {}
  BY DEF Init, Added
<1>11. QED
  BY <1>9, <1>10 DEF BuilderInv

LEMMA ErrorIsAdded == ASSUME NEW chans PROVE Keeps(chans, WithError(chans))
BY DEF Keeps, WithError

LEMMA BuilderNext == BuilderInv /\ [Next]_vars => BuilderInv'
<1> SUFFICES ASSUME BuilderInv, [Next]_vars PROVE BuilderInv'
  OBVIOUS
<1> USE DEF BuilderInv
<1>1. ASSUME NEW name \in Bases \X {0}, NEW schema \in NodeSchemas, NEW ends,
             NEW handler, AddNode(name, schema, ends, handler)
      PROVE  BuilderInv'
  <2> DEFINE added == AddSchema(schema, channels, schemas)
  <2>1. /\ nodes' = [n \in Added \cup {name} |->
                       IF n = name THEN NewNode(schema, ends, handler) ELSE nodes[n]]
        /\ schemas' = schemas \cup {schema}
        /\ channels' = added.channels
        /\ raised' = IF added.ok THEN raised ELSE raised \cup {name}
    BY <1>1 DEF AddNode
  <2>2. schema \in Schemas /\ name \in Names
    <3>1. NodeSchemas \subseteq Schemas
      BY BuilderAssumption
    <3>2. MaxNumber \in Nat
      BY BuilderAssumption
    <3>3. 0 \in 0..MaxNumber
      BY <3>2
    <3> QED  BY <3>1, <3>3 DEF Names
  <2>3. Added' = Added \cup {name}
    BY <2>1 DEF Added
  <2>4. \A n \in Added' : nodes'[n].schema \in schemas'
    BY <2>1, <2>3 DEF NewNode
  <2>5. ASSUME raised' = {}, NEW old \in schemas' PROVE AllAgree(old, channels')
    <3>1. added.ok /\ raised = {}
      BY <2>1, <2>5
    <3>2. Keeps(channels, channels') /\ (schema \notin schemas => AllAgree(schema, channels'))
      BY <2>1, <2>2, <3>1, SchemaAdded
    <3> HIDE DEF added
    <3> QED  BY <2>1, <2>5, <3>1, <3>2, AgreeLater
  <2> HIDE DEF added
  <2> QED  BY <2>1, <2>2, <2>3, <2>4, <2>5
<1>2. ASSUME NEW start, NEW end, AddEdge(start, end) PROVE BuilderInv'
  BY <1>2 DEF AddEdge, Added, AllAgree
<1>3. ASSUME NEW starts, NEW end, AddWaitingEdge(starts, end) PROVE BuilderInv'
  BY <1>3 DEF AddWaitingEdge, Added
<1>4. ASSUME NEW source, NEW path, NEW ends, AddConditionalEdges(source, path, ends)
      PROVE  BuilderInv'
  BY <1>4 DEF AddConditionalEdges, Added
<1>5. ASSUME NEW first, NEW second, AddSequence(first, second) PROVE BuilderInv'
  <2> DEFINE a == FreeName(first, Added)
             b == FreeName(second, Added \cup {a})
  <2>1. /\ {a, b} \subseteq Names
        /\ nodes' = [n \in Added \cup {a, b} |->
                       IF n \in {a, b} THEN NewNode(StateSchema, {}, None) ELSE nodes[n]]
        /\ UNCHANGED <<schemas, channels, raised>>
    BY <1>5 DEF AddSequence
  <2> HIDE DEF a, b
  <2>2. Added' = Added \cup {a, b}
    BY <2>1 DEF Added
  <2>3. \A n \in Added' : nodes'[n].schema \in schemas'
    BY <2>1, <2>2 DEF NewNode
  <2> QED  BY <2>1, <2>2, <2>3
<1>6. ASSUME NEW handler, SetNodeDefaults(handler) PROVE BuilderInv'
  <2>1. /\ nodes' = [n \in Added |-> IF nodes[n].handler = None
                                     THEN [nodes[n] EXCEPT !.handler = handler] ELSE nodes[n]]
        /\ UNCHANGED <<schemas, channels, raised>>
    BY <1>6 DEF SetNodeDefaults
  <2>2. Added' = Added
    BY <2>1 DEF Added
  <2>3. \A n \in Added : nodes'[n].schema = nodes[n].schema
    BY <2>1
  <2> QED  BY <2>1, <2>2, <2>3
<1>7. ASSUME NEW listed, Compile(listed) PROVE BuilderInv'
  <2>1. channels' = WithError(channels) /\ UNCHANGED <<nodes, schemas, raised>>
    BY <1>7 DEF Compile
  <2>2. Keeps(channels, channels')
    BY <2>1, ErrorIsAdded
  <2> QED  BY <2>1, <2>2, AgreeLater DEF Added
<1>8. ASSUME NEW first, StopSequence(first) PROVE BuilderInv'
  <2> DEFINE a == FreeName(first, Added)
  <2>1. /\ a \in Names
        /\ nodes' = [n \in Added \cup {a} |->
                       IF n = a THEN NewNode(StateSchema, {}, None) ELSE nodes[n]]
        /\ UNCHANGED <<schemas, channels, raised>>
    BY <1>8 DEF StopSequence
  <2> HIDE DEF a
  <2>2. Added' = Added \cup {a}
    BY <2>1 DEF Added
  <2>3. \A n \in Added' : nodes'[n].schema \in schemas'
    BY <2>1, <2>2 DEF NewNode
  <2> QED  BY <2>1, <2>2, <2>3
<1>9. CASE UNCHANGED vars
  BY <1>9 DEF vars, Added
<1>10. QED
  BY <1>1, <1>2, <1>3, <1>4, <1>5, <1>6, <1>7, <1>8, <1>9 DEF Next

\* ChannelsAsDeclared, the invariant of the run "builder", for all schemas and any calls:
\* add_node in any order gives the channels that the schemas declare, until a call raises.
THEOREM DeclaredChannels == Spec => []ChannelsAsDeclared
<1>1. BuilderInv => ChannelsAsDeclared
  <2> SUFFICES ASSUME BuilderInv, raised = {}, NEW schema \in schemas,
                      NEW i \in DOMAIN Annotations[schema]
               PROVE  LET key        == Annotations[schema][i][1]
                          annotation == Annotations[schema][i][2]
                      IN /\ key \in DOMAIN channels
                         /\ annotation.meta = "reducer" =>
                              channels[key] = [class |-> "BinaryOperatorAggregate",
                                               detail |-> annotation.detail]
                         /\ GetChannel(annotation).class = "LastValue" /\ channels[key].class = "LastValue" =>
                              channels[key].detail = annotation.detail
    BY DEF ChannelsAsDeclared
  <2>1. Agrees(channels, Annotations[schema][i][1], Annotations[schema][i][2])
    BY DEF BuilderInv, AllAgree
  <2>2. Annotations[schema][i][2].meta \in {"none", "reducer", "channel"}
    <3>1. schema \in Schemas
      BY DEF BuilderInv
    <3>2. /\ Annotations[schema] \in Seq(STRING \X Annotation)
          /\ i \in 1..Len(Annotations[schema])
      BY <3>1, SchemaType, BuilderAssumption
    <3>3. Annotations[schema][i] \in STRING \X Annotation
      BY <3>2, ElementOfSeq
    <3>4. QED
      BY <3>3 DEF Annotation
  <2> DEFINE key        == Annotations[schema][i][1]
             annotation == Annotations[schema][i][2]
             channel    == GetChannel(annotation)
  <2>3. key \in DOMAIN channels /\ ~Clash(channels[key], channel)
    BY <2>1 DEF Agrees
  <2>4. channel.class = "LastValue" => channel.detail = annotation.detail
    BY <2>2 DEF GetChannel
  <2>5. annotation.meta = "reducer" =>
          channel = [class |-> "BinaryOperatorAggregate", detail |-> annotation.detail]
    BY DEF GetChannel
  <2>6. QED
    BY <2>3, <2>4, <2>5 DEF Clash
<1>2. QED
  BY <1>1, BuilderInit, BuilderNext, PTL DEF Spec

-----------------------------------------------------------------------------
(* What compiles is whole.                                                 *)

\* The four kinds of exits.
LEMMA ExitsAre ==
  ASSUME NEW name, NEW n
  PROVE  n \in Exits(name) <=>
           \/ \E e \in edges : e[1] = name /\ n = e[2]
           \/ \E e \in waiting_edges : name \in e[1] /\ n = e[2]
           \/ \E b \in branches : b.source = name /\ n \in b.ends \ {None}
           \/ name \in Added /\ n \in nodes[name].ends \cup ({nodes[name].handler} \ {None})
<1> DEFINE own == IF name \in Added THEN nodes[name].ends \cup ({nodes[name].handler} \ {None}) ELSE {}
           byEdge   == {e[2] : e \in {f \in edges : f[1] = name}}
           byJoin   == {e[2] : e \in {f \in waiting_edges : name \in f[1]}}
           byBranch == UNION {b.ends \ {None} : b \in {c \in branches : c.source = name}}
<1>1. n \in own <=> name \in Added /\ n \in nodes[name].ends \cup ({nodes[name].handler} \ {None})
  OBVIOUS
<1>2. n \in byEdge <=> \E e \in edges : e[1] = name /\ n = e[2]
  OBVIOUS
<1>3. n \in byJoin <=> \E e \in waiting_edges : name \in e[1] /\ n = e[2]
  OBVIOUS
<1>4. n \in byBranch <=> \E b \in branches : b.source = name /\ n \in b.ends \ {None}
  OBVIOUS
<1>5. Exits(name) = byEdge \cup byJoin \cup byBranch \cup own
  BY DEF Exits
<1> HIDE DEF own, byEdge, byJoin, byBranch
<1>6. QED
  BY <1>1, <1>2, <1>3, <1>4, <1>5

\* validate() looks at whatever an exit can lead to.
LEMMA ExitsAreValid ==
  ASSUME NEW listed, Valid(listed), NEW name
  PROVE  Exits(name) \subseteq Added \cup {END}
<1>1. Targets \subseteq Added \cup {END} /\ Handlers \subseteq Added
  BY DEF Valid
<1>2. \A b \in branches : b.ends \ {None} \subseteq Targets
  BY DEF Targets, NoMap
<1>3. \A e \in edges \cup waiting_edges : e[2] \in Targets
  BY DEF Targets
<1>4. ASSUME NEW n \in Added
      PROVE  nodes[n].ends \subseteq Targets /\ {nodes[n].handler} \ {None} \subseteq Handlers
  <2>1. nodes[n].ends \in {nodes[m].ends : m \in Added}
    OBVIOUS
  <2>2. UNION {nodes[m].ends : m \in Added} \subseteq Targets
    BY DEF Targets
  <2>3. nodes[n].handler \in {nodes[m].handler : m \in Added}
    OBVIOUS
  <2> QED  BY <2>1, <2>2, <2>3 DEF Handlers
<1>5. QED
  BY <1>1, <1>2, <1>3, <1>4, ExitsAre

LEMMA ReachedIsThere ==
  ASSUME Added \subseteq Names, NEW listed, Valid(listed)
  PROVE  Reached \subseteq Added \cup {START, END}
<1> DEFINE there == Added \cup {START, END}
<1>1. there \in SUBSET (Names \cup {START, END}) /\ START \in there
  OBVIOUS
<1>2. \A n \in there : Exits(n) \subseteq there
  BY ExitsAreValid
<1> HIDE DEF there
<1>3. Reached \subseteq there
  BY <1>1, <1>2 DEF Reached
<1>4. QED
  BY <1>3 DEF there

LEMMA StartHasExit ==
  ASSUME NEW listed, Valid(listed)
  PROVE  Exits(START) # {} \/ \E b \in branches : b.source = START
<1>1. START \in Sources
  BY DEF Valid
<1>2. \/ \E e \in edges : e[1] = START
      \/ \E e \in waiting_edges : START \in e[1]
      \/ \E b \in branches : b.source = START
      \/ START \in Added /\ nodes[START].ends # {}
  <2>1. \/ START \in {e[1] : e \in edges}
        \/ START \in UNION {e[1] : e \in waiting_edges}
        \/ START \in {b.source : b \in branches}
        \/ START \in {n \in Added : nodes[n].ends # {}}
    BY <1>1 DEF Sources
  <2> QED  BY <2>1
<1>3. QED
  BY <1>2, ExitsAre

LEMMA CompileIsWhole ==
  ASSUME BuilderInv, NEW listed, Compile(listed)
  PROVE  CompiledWhole
<1> DEFINE graph == [channels |-> channels', listed |-> listed]
<1>1. Valid(listed) /\ channels' = WithError(channels) /\ app' = {graph}
  BY DEF Compile
<1>2. (CHOOSE a \in app' : TRUE) = graph
  BY <1>1
<1>3. graph.listed \subseteq Added
  BY <1>1 DEF Valid
<1>4. ASSUME NEW n \in Added, nodes[n].handler # None PROVE "__error__" \in DOMAIN graph.channels
  <2>1. Handlers # {}
    BY <1>4 DEF Handlers
  <2> QED  BY <1>1, <2>1 DEF WithError
<1>5. ASSUME raised = {}, NEW n \in Added PROVE KeysOf(nodes[n].schema) \subseteq DOMAIN graph.channels
  <2>1. AllAgree(nodes[n].schema, channels)
    BY <1>5 DEF BuilderInv
  <2>2. Keeps(channels, channels')
    BY <1>1, ErrorIsAdded
  <2> QED  BY <2>1, <2>2 DEF AllAgree, Agrees, Keeps, KeysOf
<1> HIDE DEF graph
<1>6. Exits(START) # {} \/ \E b \in branches : b.source = START
  BY <1>1, StartHasExit
<1>7. Reached \subseteq Added \cup {START, END}
  BY <1>1, ReachedIsThere DEF BuilderInv
<1>8. QED
  BY <1>2, <1>3, <1>4, <1>5, <1>6, <1>7 DEF CompiledWhole

\* CompiledIsWhole, the property of the run "builder", for all schemas and any calls: from
\* what validate() looks at follows that a run finds every node, handler, listed node and
\* input channel it may come to.
THEOREM WhatCompilesIsWhole == Spec => CompiledIsWhole
<1>1. BuilderInv /\ [Next]_vars => [(\E listed \in Listings : Compile(listed)) => CompiledWhole]_vars
  BY CompileIsWhole
<1>2. QED
  BY <1>1, BuilderInit, BuilderNext, PTL DEF Spec, CompiledIsWhole

=============================================================================
