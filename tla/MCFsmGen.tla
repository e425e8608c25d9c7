------------------------------ MODULE MCFsmGen ------------------------------
(* Three machines and every way they can refer to each other, and a few    *)
(* workspaces with aliases, context structs, twins and nothing at all.     *)
EXTENDS FsmGen

Machines == {"A", "B", "C"}

Machine(name, context, paths, fields) ==
  [name |-> name, context |-> context,
   states |-> <<[paths |-> {}, fields |-> {}], [paths |-> paths, fields |-> fields]>>]

Plain(name, refs) == Machine(name, <<>>, {<<n, "Event">> : n \in refs}, {})

Graphs == {g \in [Machines -> SUBSET Machines] : \A n \in Machines : n \notin g[n]}

NoAliases == <<>>
NoStructs == <<>>

GraphWorkspaces ==
  {[files |-> <<<<Plain("A", g["A"]), Plain("B", g["B"])>>, <<Plain("C", g["C"])>>>>,
    aliases |-> NoAliases, structs |-> NoStructs] : g \in Graphs}

(* A reaches B through two aliases; C through a field of its context, the  *)
(* type of which is qualified; an alias of two names for each other; and a *)
(* module and an alias of A in lower case, which are no references.        *)
APaths == {<<"Bx", "E">>, <<"L1", "E">>, <<"m", "B">>, <<"low", "E">>}
Lower == {"m", "low"}

Aliased ==
  [files |-> <<<<Machine("A", <<"Ctx">>, APaths, {"c", "n"})>>,
               <<Plain("B", {}), Plain("C", {})>>>>,
   aliases |-> (<<"Bx">> :> <<"By">>) @@ (<<"By">> :> <<"B">>)
                 @@ (<<"L1">> :> <<"L2">>) @@ (<<"L2">> :> <<"L1">>)
                 @@ (<<"low">> :> <<"A">>),
   structs |-> (<<"Ctx">> :> (("c" :> <<"m", "C">>) @@ ("n" :> <<"u32">>)))]

(* A's context holds an A.                                                 *)
SelfContained ==
  [files |-> <<<<Machine("A", <<"Ctx">>, {}, {"a"}), Plain("B", {"A"})>>>>,
   aliases |-> NoAliases, structs |-> (<<"Ctx">> :> ("a" :> <<"A">>))]

Twins ==
  [files |-> <<<<Plain("A", {"B"})>>, <<Plain("A", {"C"})>>, <<Plain("B", {}), Plain("C", {})>>>>,
   aliases |-> NoAliases, structs |-> NoStructs]

Empty == [files |-> <<<<>>, <<>>>>, aliases |-> NoAliases, structs |-> NoStructs]

AllWorkspaces == GraphWorkspaces \cup {Aliased, SelfContained, Twins, Empty}

Table(mode, breakdown, guards) == [mode |-> mode, breakdown |-> breakdown, guards |-> guards]

SomeSettings ==
  {[config |-> Unset, guards |-> Unset],
   [config |-> Table("Hierarchical", "Both", TRUE), guards |-> FALSE],
   [config |-> Table(Unset, "None", Unset), guards |-> Unset],
   [config |-> Table("Simple", Unset, FALSE), guards |-> TRUE],
   [config |-> Table("Simple", "Nested", FALSE), guards |-> Unset]}

Leftovers == {<<"A", "A">>, <<"Gone", "Gone">>}
Notes == {<<"notes.md">>}
=============================================================================
