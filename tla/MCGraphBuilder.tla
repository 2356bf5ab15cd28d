--------------------------- MODULE MCGraphBuilder ---------------------------
(***************************************************************************)
(* Values for checking GraphBuilder with TLC: two names, and schemas that  *)
(* agree with the state's, that declare a key of it as a plain type, that  *)
(* declare one with a reducer it does not have, and that give the key of   *)
(* another schema another type, which agrees or not by which comes first.  *)
(***************************************************************************)
EXTENDS GraphBuilder

Plain(type)       == [meta |-> "none", class |-> "", detail |-> type]
Reduced(function) == [meta |-> "reducer", class |-> "", detail |-> function]
Chan(class, type) == [meta |-> "channel", class |-> class, detail |-> type]

FiveSchemas ==
  [State  |-> <<<<"topic", Plain("str")>>, <<"log", Reduced("add")>>>>,
   Input  |-> <<<<"log", Plain("list")>>, <<"user", Plain("str")>>>>,
   Notes  |-> <<<<"notes", Reduced("add")>>, <<"news", Chan("Topic", "list")>>>>,
   Retype |-> <<<<"user", Chan("LastValue", "int")>>, <<"news", Plain("list")>>>>,
   Clash  |-> <<<<"notes", Plain("list")>>, <<"topic", Reduced("add")>>, <<"more", Plain("str")>>>>]

OneHandler == {<<"b", 0>>}
OneEnd     == {None, <<"b", 0>>}
NoneOrOne  == {{}, {<<"b", 0>>}}

=============================================================================
