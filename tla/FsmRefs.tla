------------------------------- MODULE FsmRefs -------------------------------
(***************************************************************************)
(* Which machines a machine refers to, as the diagram generator sees it:   *)
(* SubFsmExtractor, collect_referenced_fsms and resolve_type.              *)
(*                                                                         *)
(* A type text is its sequence of path segments.  A definition is          *)
(*   [name, context, states], a state [paths, fields]:                     *)
(* the multi-segment paths in its hooks and the fields they touch.  A      *)
(* workspace holds `aliases` and `structs`, each keyed by type text.       *)
(***************************************************************************)
EXTENDS Naturals, Sequences, FiniteSets, SequencesExt

CONSTANT LowerCase    \* the path segments that begin with no upper-case letter

NotAMachine == LowerCase \cup {"Self", "Transition", "Option", "Result", "String"}

(* Follow aliases until there is none or the next one was seen before.     *)
ResolveType(aliases, type) ==
  LET Follow[current \in {type} \cup Range(aliases), seen \in SUBSET Range(aliases)] ==
        IF current \in DOMAIN aliases /\ aliases[current] \notin seen
          THEN Follow[aliases[current], seen \cup {aliases[current]}]
          ELSE current
  IN  Follow[type, {}]

(* The first segments of the paths in a state's hooks, as resolved: those  *)
(* that look like a type and are no other type everybody uses.             *)
Explicit(ws, def, state) ==
  {ResolveType(ws.aliases, <<first>>) :
     first \in {Head(p) : p \in {q \in state.paths : Len(q) > 1}}
                 \ (NotAMachine \cup {def.name})}

(* The base names of the types of the context fields a state touches.      *)
Contextual(ws, def, state) ==
  LET context == ResolveType(ws.aliases, def.context)
      Touched == IF context \in DOMAIN ws.structs
                   THEN state.fields \cap DOMAIN ws.structs[context] ELSE {}
  IN  {<<Last(ResolveType(ws.aliases, ws.structs[context][f]))>> : f \in Touched}

(* collect_referenced_fsms_in_state                                        *)
ReferencedInState(ws, def, state) ==
  Explicit(ws, def, state) \cup (IF def.context = <<>> THEN {} ELSE Contextual(ws, def, state))

(* collect_referenced_fsms                                                 *)
Referenced(ws, def) ==
  UNION {ReferencedInState(ws, def, def.states[s]) : s \in DOMAIN def.states}

(* all_fsms: of definitions with one name, the last found wins.            *)
Definition(found, name) ==
  found[CHOOSE i \in DOMAIN found :
          /\ found[i].name = name
          /\ \A j \in DOMAIN found : found[j].name = name => j <= i]

Names(found) == {found[i].name : i \in DOMAIN found}

(* The machines of `found` that a definition refers to, by name.           *)
Children(ws, found, def) == {n \in Names(found) : <<n>> \in Referenced(ws, def)}

(* Mutant: only the machines a definition refers to itself.                *)
SubFsmsOneLevel(ws, found, def) == Children(ws, found, def)

(* collect_all_subfsms follows references from machine to machine until it *)
(* discovers nothing new: the least set that is closed under Children.     *)
SubFsms(ws, found, def) ==
  {n \in Names(found) :
     \A S \in SUBSET Names(found) :
       /\ Children(ws, found, def) \subseteq S
       /\ \A m \in S : Children(ws, found, Definition(found, m)) \subseteq S
       => n \in S}

(* The definitions no definition refers to.                                *)
Roots(ws, found) ==
  {i \in DOMAIN found : \A j \in DOMAIN found : <<found[i].name>> \notin Referenced(ws, found[j])}
=============================================================================
