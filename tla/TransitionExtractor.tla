------------------------- MODULE TransitionExtractor -------------------------
(***************************************************************************)
(* How fsm-gen reads transitions out of a process hook: TransitionExtractor *)
(* and the function registry it follows calls through.                     *)
(*                                                                         *)
(* A syntax node is a record of one shape, whatever it is:                 *)
(*   kind   "arm", "if", "iflet", "call", "path", "record", or a node the  *)
(*          extractor only walks through: "match", "block", "stmt", "ret"  *)
(*   text   the pattern of an arm, the condition of an if                  *)
(*   guard  the guard of an arm, "" without one                            *)
(*   path   the segments of a path, of a call's callee, of a record        *)
(*   kids   the nodes inside, in order; of an if its then and else branch  *)
(* A type is [kind, segs, kids]: what it is, the names in its path, the    *)
(* types inside.  A function is [name, owner, ret, body].                  *)
(***************************************************************************)
EXTENDS Naturals, Sequences, FiniteSets, SequencesExt

(* The state names the workspace uses; segment names are capitalised       *)
(* exactly when they are one of these, a type's or Self.                   *)
CONSTANTS Capitalised

Label(events, guards) == [events |-> events, guards |-> guards]
NoLabel == Label(<< >>, << >>)

(* push_event, push_guard: no text, no fragment.                           *)
PushEvent(label, text) ==
  IF text = "" THEN label ELSE [label EXCEPT !.events = Append(@, text)]
PushGuard(label, text) ==
  IF text = "" THEN label ELSE [label EXCEPT !.guards = Append(@, text)]

(* format_label_for_mermaid, as the fragments it writes.                   *)
FormatLabel(label) ==
  IF label = NoLabel THEN <<"*">>
  ELSE label.events \o
       (IF label.guards = << >> THEN << >> ELSE <<"[ if">> \o label.guards \o <<"]">>)

-----------------------------------------------------------------------------
(* The node's descendants, itself included.                                *)
Descendants(node) ==
  LET RECURSIVE Down(_)
      Down(n) == {n} \cup UNION {Down(n.kids[i]) : i \in DOMAIN n.kids}
  IN  Down(node)

(* type_mentions_transition: a path segment anywhere in it, generic        *)
(* arguments, references, tuples, arrays and slices included; nothing is   *)
(* looked for in other kinds of types.                                     *)
TypeMentionsTransition(type) ==
  LET RECURSIVE Mentions(_)
      Mentions(t) ==
        /\ t.kind \in {"path", "tuple", "ref", "paren", "array", "slice"}
        /\ \/ t.kind = "path" /\ "Transition" \in Range(t.segs)
           \/ \E i \in DOMAIN t.kids : Mentions(t.kids[i])
  IN  Mentions(type)

IsTransitionToCall(node) ==
  /\ node.kind = "call"
  /\ IsSuffix(<<"Transition", "To">>, node.path)

(* The variant path an argument of Transition::To names, if it names one:  *)
(* a path, a tuple or a struct constructor with a capitalised last segment. *)
VariantPath(arg) ==
  IF arg.kind \in {"path", "call", "record"} /\ Last(arg.path) \in Capitalised
    THEN {arg.path} ELSE {}

(* The paths in the Transition::To calls below a node (analyze_function).  *)
TransitionTargets(node) ==
  UNION {VariantPath(call.kids[1]) :
           call \in {n \in Descendants(node) : IsTransitionToCall(n) /\ n.kids # << >>}}

(* FunctionRegistry: what is known of each function, by its short name.    *)
Lookup(functions, name) == SelectSeq(functions, LAMBDA f : f.name = name)

(* Mutant: of definitions with one name, the first is taken.               *)
LookupFirst(functions, name) ==
  LET found == Lookup(functions, name)
  IN  IF Len(found) > 0 THEN {found[1]} ELSE {}

LookupUnambiguous(functions, name) ==
  LET found == Lookup(functions, name)
  IN  IF Len(found) = 1 THEN {found[1]} ELSE {}

-----------------------------------------------------------------------------
(* The extractor of one state: `fsm` and `source`, the option and the      *)
(* registry it was made with, what it has collected and the functions it   *)
(* has followed.                                                           *)
Extractor(fsm, source, include_guards, functions) ==
  [fsm |-> fsm, source |-> source, include_guards |-> include_guards,
   functions |-> functions, transitions |-> {}, visited |-> {}]

Emit(x, target, label) ==
  [x EXCEPT !.transitions = @ \cup
     {[source |-> x.source, target |-> target, label |-> label]}]

(* follow_function: once per state and name; the targets that say Self or  *)
(* this machine, under the label of the call.                              *)
FollowFunction(x, name, label) ==
  LET known == {f \in LookupUnambiguous(x.functions, name) : TypeMentionsTransition(f.ret)}
      ours == {p \in UNION {TransitionTargets(f.body) : f \in known} :
                 Len(p) > 1 /\ p[1] \in {"Self", x.fsm}}
      shown == IF label = NoLabel THEN Label(<<"(via)", name>>, << >>) ELSE label
  IN  IF name \in x.visited THEN x
      ELSE [x EXCEPT !.visited = @ \cup {name},
                     !.transitions = @ \cup
                       {[source |-> x.source, target |-> Last(p), label |-> shown] :
                          p \in {q \in ours : Last(q) \notin {x.fsm, "Self"}}}]

(* The target state of a Transition::To call (extract_target_state).       *)
TargetStates(x, call) ==
  IF call.kids = << >> THEN {}
  ELSE {Last(p) : p \in VariantPath(call.kids[1])} \ {x.fsm, "Self"}

(* The label below a node, for its children.                               *)
LabelBelow(x, node, label) ==
  CASE node.kind = "arm" ->
         LET named == PushEvent(label, node.text)
         IN  IF x.include_guards THEN PushGuard(named, node.guard) ELSE named
    [] node.kind = "if" /\ x.include_guards -> PushGuard(label, node.text)
    [] node.kind = "iflet" /\ x.include_guards -> PushEvent(label, node.text)
    [] OTHER -> label

(* What a call adds before its children are walked.                        *)
VisitCall(x, call, label) ==
  IF IsTransitionToCall(call)
    THEN LET targets == TargetStates(x, call)
         IN  IF targets = {} THEN x ELSE Emit(x, CHOOSE t \in targets : TRUE, label)
    ELSE IF call.path = << >> THEN x ELSE FollowFunction(x, Last(call.path), label)

(* Mutant: current_label is not restored after an arm or an if.            *)
ExtractLeavesLabel(x0, root) ==
  LET RECURSIVE Walk(_, _)
      Walk(acc, node) ==
        LET below == LabelBelow(acc[1], node, acc[2])
            here == IF node.kind = "call" THEN VisitCall(acc[1], node, acc[2]) ELSE acc[1]
        IN  FoldLeft(Walk, <<here, below>>, node.kids)
  IN  Walk(<<x0, NoLabel>>, root)[1].transitions

(* Mutant: the else branch of an if is not walked.                         *)
ExtractThenOnly(x0, root) ==
  LET RECURSIVE Walk(_, _, _)
      Walk(x, node, label) ==
        LET below == LabelBelow(x, node, label)
            here == IF node.kind = "call" THEN VisitCall(x, node, label) ELSE x
            kids == IF node.kind = "if" THEN <<node.kids[1]>> ELSE node.kids
        IN  FoldLeft(LAMBDA acc, kid : Walk(acc, kid, below), here, kids)
  IN  Walk(x0, root, NoLabel).transitions

(* extract: the transitions of a hook.                                     *)
Extract(x0, root) ==
  LET RECURSIVE Walk(_, _, _)
      Walk(x, node, label) ==
        LET below == LabelBelow(x, node, label)
            here == IF node.kind = "call" THEN VisitCall(x, node, label) ELSE x
        IN  FoldLeft(LAMBDA acc, kid : Walk(acc, kid, below), here, node.kids)
  IN  Walk(x0, root, NoLabel).transitions
=============================================================================
