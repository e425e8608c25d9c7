------------------------------- MODULE Drawing -------------------------------
(***************************************************************************)
(* One invocation of state_machine! from its tokens to its diagram: the    *)
(* parser of MacroParser, then generate_mermaid_simple with the extractor  *)
(* of TransitionExtractor.  FsmGen has the files around it.                *)
(*                                                                         *)
(* What the source means is stated apart: a declaration, rendered to the   *)
(* tokens, and the answers its process hooks may give.                     *)
(***************************************************************************)
EXTENDS MacroParser, TransitionExtractor

CONSTANTS
  Sources,      \* [declared, functions, include_guards]: what is drawn
  Events,       \* the events that are dispatched; "_" matches them all
  Conditions    \* the texts of conditions, true or false as they may be

VARIABLES
  source,    \* the one of Sources that is drawn
  at,        \* the state whose node comes next
  nodes,     \* the nodes by state name
  edges,     \* all_edges
  drawn      \* the edges of the diagram

vars == <<parserVars, source, at, nodes, edges, drawn>>

-----------------------------------------------------------------------------
(* The tokens of a declaration.  `form` is how a state is written: as the  *)
(* macro wants it, with fields, its arrow as two tokens, or broken: without *)
(* its process hook, its arrow, its body.                                  *)
NoTree == [kind |-> "path", text |-> "", guard |-> "", path |-> << >>, kids |-> << >>]
Tok(kind) == [kind |-> kind, text |-> kind, tree |-> NoTree]
Word(text) == [kind |-> "id", text |-> text, tree |-> NoTree]
Tree(tree) == [kind |-> "tree", text |-> "", tree |-> tree]

HookTokens(hook, tree) == <<Word(hook), Tok(":"), Tok("{"), Tree(tree), Tok("}")>>

StateTokens(s) ==
  LET fields == <<Tok("{"), Word("x"), Tok(":"), Word("T"), Tok("}")>>
      hooks == HookTokens("entry", NoTree)
                 \o (IF s.form = "noprocess" THEN << >> ELSE HookTokens("process", s.process))
      body == <<Tok("{")>> \o hooks \o <<Tok("}")>>
  IN  <<Word(s.name)>>
        \o (IF s.form = "fields" THEN fields ELSE << >>)
        \o (CASE s.form = "pair" -> <<Tok("="), Tok(">")>>
              [] s.form = "noarrow" -> << >>
              [] OTHER -> <<Tok("=>")>>)
        \o (IF s.form = "nobody" THEN << >> ELSE body)

MacroTokens(d) ==
  LET close == IF d.open = "{" THEN "}" ELSE ")"
      list == [i \in DOMAIN d.states |->
                 StateTokens(d.states[i])
                   \o (IF i < Len(d.states) \/ d.trailing THEN <<Tok(",")>> ELSE << >>)]
  IN  <<Tok(d.open)>>
        \o (IF d.named THEN <<Word("Name"), Tok(":"), Word("Machine"), Tok(",")>> ELSE << >>)
        \o <<Word("Context"), Tok(":")>> \o d.context \o <<Tok(",")>>
        \o <<Word("Event"), Tok(":"), Word("Evt"), Tok(",")>>
        \o <<Word("States"), Tok(":"), Tok("{")>> \o FlattenSeq(list) \o <<Tok("}")>>
        \o <<Tok(close)>>

-----------------------------------------------------------------------------
Init ==
  /\ source \in Sources
  /\ ParserInit(MacroTokens(source.declared))
  /\ at = 1 /\ nodes = {} /\ edges = {} /\ drawn = {}

Parse == ParserNext /\ UNCHANGED <<source, at, nodes, edges, drawn>>

(* generate_mermaid_simple: a node, and the transitions of its hook.       *)
DrawState ==
  /\ phase = "parsed" /\ at <= Len(states)
  /\ nodes' = nodes \cup {states[at].name}
  /\ edges' = edges \cup
       Extract(Extractor(name[1], states[at].name, source.include_guards,
                         source.functions), states[at].process)
  /\ at' = at + 1
  /\ UNCHANGED <<parserVars, source, drawn>>

(* The edges both of whose ends are nodes.                                 *)
DrawEdges ==
  /\ phase = "parsed" /\ at > Len(states)
  /\ drawn' = {[t EXCEPT !.label = FormatLabel(@)] :
                 t \in {e \in edges : {e.source, e.target} \subseteq nodes}}
  /\ phase' = "drawn"
  /\ UNCHANGED <<tokens, pos, name, context, states, error, source, at, nodes, edges>>

Next == Parse \/ DrawState \/ DrawEdges

Spec == Init /\ [][Next]_vars /\ WF_vars(Next)

-----------------------------------------------------------------------------
(* What a run of a hook answers to event e when the conditions in v hold:  *)
(* `to` the machine and state of the To, empty for None; `returned` whether *)
(* a return ended the hook; `label` the arms and ifs it stands under;      *)
(* `direct` if the To is written in the hook, `seen` if it also names its  *)
(* state, or stands in a function that resolves: one definition of that    *)
(* name, a Transition type, a path through Self or the machine.            *)
Nowhere(label) ==
  [to |-> << >>, returned |-> FALSE, label |-> label, direct |-> FALSE, seen |-> FALSE]

Qualified(owner, path) ==
  <<IF Len(path) > 1 /\ path[1] # "Self" THEN path[1] ELSE owner, Last(path)>>

(* The function a call means: in its own impl, in another's, or free.      *)
Meant(machine, functions, call) ==
  LET owner == IF Len(call.path) = 1 THEN "free"
               ELSE IF call.path[1] = "Self" THEN machine ELSE call.path[1]
  IN  {f \in Range(functions) : f.name = Last(call.path) /\ f.owner = owner}

Outcomes(machine, functions, hook, e, v) ==
  LET RECURSIVE Run(_, _), RunFrom(_, _, _)
      Run(n, l) ==
        CASE n.kind = "match" ->
               LET fits == {i \in DOMAIN n.kids :
                              /\ n.kids[i].text \in {e, "_"}
                              /\ n.kids[i].guard \in v \cup {""}}
               IN  IF fits = {} THEN {Nowhere(l)} ELSE Run(n.kids[Min(fits)], l)
          [] n.kind = "arm" ->
               Run(n.kids[1], PushGuard(PushEvent(l, n.text), n.guard))
          [] n.kind \in {"if", "iflet"} ->
               LET under == IF n.kind = "if" THEN PushGuard(l, n.text) ELSE PushEvent(l, n.text)
                   branch == IF n.text \in v \cup {e} THEN 1 ELSE 2
               IN  IF branch \in DOMAIN n.kids THEN Run(n.kids[branch], under)
                   ELSE {Nowhere(l)}
          [] n.kind = "ret" -> {[o EXCEPT !.returned = TRUE] : o \in Run(n.kids[1], l)}
          [] n.kind = "stmt" ->
               {IF o.returned THEN o ELSE Nowhere(l) : o \in Run(n.kids[1], l)}
          [] n.kind = "block" -> RunFrom(n.kids, 1, l)
          [] IsTransitionToCall(n) /\ n.kids[1].kind = "if" ->
               {[Nowhere(l) EXCEPT !.to = Qualified(machine, a.path), !.direct = TRUE] :
                  a \in Range(n.kids[1].kids)}
          [] IsTransitionToCall(n) /\ n.kids[1].kind # "if" ->
               {[Nowhere(l) EXCEPT !.to = Qualified(machine, p), !.direct = TRUE, !.seen = TRUE] :
                  p \in VariantPath(n.kids[1])}
          [] n.kind = "call" /\ ~IsTransitionToCall(n) ->
               {Nowhere(l)} \cup
               UNION {{[Nowhere(l) EXCEPT
                          !.to = Qualified(f.owner, p),
                          !.seen = /\ Cardinality({i \in DOMAIN functions :
                                                     functions[i].name = f.name}) = 1
                                   /\ TypeMentionsTransition(f.ret)
                                   /\ p[1] \in {"Self", machine}] :
                         p \in TransitionTargets(f.body)} :
                      f \in Meant(machine, functions, n)}
          [] OTHER -> {Nowhere(l)}
      RunFrom(kids, i, l) ==
        LET here == Run(kids[i], l)
        IN  IF i = Len(kids) THEN here
            ELSE UNION {IF o.returned THEN {o} ELSE RunFrom(kids, i + 1, l) : o \in here}
  IN  Run(hook, NoLabel)

Answers(s) ==
  UNION {Outcomes("Machine", source.functions, s.process, e, v) :
           e \in Events, v \in SUBSET Conditions}

Declared == source.declared.states
Readable(form) == form \in {"plain", "fields", "pair"}

-----------------------------------------------------------------------------
(* The parser reads what is declared: every state that is written as the   *)
(* macro wants it, in order and each with its own hook, whatever stands    *)
(* next to it; the context type, if no comma is in it; an error names the  *)
(* first state without a process hook and is reported only if no state is  *)
(* usable.  (A state without a body or an arrow is dropped silently.)      *)
ParsesDeclaration ==
  phase \in {"parsed", "drawn", "failed"} =>
    LET usable == SelectSeq(Declared, LAMBDA s : Readable(s.form))
        broken == SelectSeq(Declared, LAMBDA s : s.form = "noprocess")
        type == source.declared.context
    IN  /\ states = [i \in DOMAIN usable |->
                       [name |-> usable[i].name, process |-> usable[i].process]]
        /\ name = IF source.declared.named THEN <<"Machine">> ELSE << >>
        /\ error = IF broken = << >> THEN << >> ELSE <<broken[1].name>>
        /\ phase = "failed" <=> name = << >> \/ usable = << >>
        /\ (\A i \in DOMAIN type : type[i].text \notin {",", "Event", "States"}) =>
             context = [i \in DOMAIN type |-> type[i].text]

(* Every move between two states that were read is an edge: each To that   *)
(* names its state, in the hook or in a function that resolves, wherever   *)
(* it stands among arms, branches, returns and discarded values.           *)
EveryMoveDrawn ==
  phase = "drawn" =>
    \A s \in Range(states) : \A o \in Answers(s) :
      o.seen /\ o.to[1] = "Machine" /\ o.to[2] \in nodes =>
        \E d \in drawn : d.source = s.name /\ d.target = o.to[2]

(* Every edge is a move the source hook can answer, in hooks that discard  *)
(* no transition: nothing is drawn to states that were not read, from a    *)
(* function of doubtful name, or from a machine's hook to another's state. *)
EdgesSound ==
  phase = "drawn" =>
    /\ \A d \in drawn : {d.source, d.target} \subseteq nodes
    /\ \A s \in Range(states) :
         (\A n \in Descendants(s.process) : n.kind # "stmt" \/ n.kids[1].kind = "if") =>
           \A d \in {x \in drawn : x.source = s.name} :
             \E o \in Answers(s) : o.to = <<"Machine", d.target>>

(* The label of a To written in the hook lists the patterns and conditions *)
(* it stands under and none of its neighbours': with include_guards as the *)
(* source nests them, without it the patterns of match arms alone.         *)
LabelsRetrace ==
  phase = "drawn" =>
    \A s \in Range(states) :
      LET lets == {n.text : n \in {m \in Descendants(s.process) : m.kind = "iflet"}}
          Shown(l) == IF source.include_guards THEN l
                      ELSE Label(SelectSeq(l.events, LAMBDA p : p \notin lets), << >>)
      IN  \A o \in Answers(s) :
            o.direct /\ o.seen /\ o.to[1] = "Machine" /\ o.to[2] \in nodes =>
              [source |-> s.name, target |-> o.to[2], label |-> FormatLabel(Shown(o.label))]
                \in drawn

(* Whatever name, key or brace an invocation lacks, among the forms        *)
(* enumerated, the cursor reaches the end of its tokens.                   *)
EveryMacroEnds == <>(phase \in {"drawn", "failed"})
=============================================================================
