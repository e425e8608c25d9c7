------------------------------ MODULE MCDrawing ------------------------------
(* Invocations in every form the parser distinguishes, and hooks built from *)
(* every kind of answer in every kind of position.                         *)
EXTENDS Drawing, TLC

Node(kind, text, guard, path, kids) ==
  [kind |-> kind, text |-> text, guard |-> guard, path |-> path, kids |-> kids]
Path(p) == Node("path", "", "", p, << >>)
Record(p) == Node("record", "", "", p, << >>)
Call(p, args) == Node("call", "", "", p, args)
Arm(pattern, guard, body) == Node("arm", pattern, guard, << >>, <<body>>)
Match(arms) == Node("match", "", "", << >>, arms)
If(cond, branches) == Node("if", cond, "", << >>, branches)
IfLet(pattern, branches) == Node("iflet", pattern, "", << >>, branches)
Block(kids) == Node("block", "", "", << >>, kids)
Stmt(kid) == Node("stmt", "", "", << >>, <<kid>>)
Return(kid) == Node("ret", "", "", << >>, <<kid>>)
To(arg) == Call(<<"Transition", "To">>, <<arg>>)
None == Path(<<"Transition", "None">>)

Names == {"Machine", "Door", "Self", "Transition", "None", "To", "A", "B", "C"}

Type(segs, kids) == [kind |-> "path", segs |-> segs, kids |-> kids]
Plain == Type(<<"Transition">>, <<Type(<<"Self">>, << >>)>>)
Function(n, owner, ret, body) == [name |-> n, owner |-> owner, ret |-> ret, body |-> body]

(* A method with two answers inside a Result, a free function, two of one  *)
(* name, one behind an alias of the type, one that only calls another, one *)
(* of another machine, one that returns a state.                           *)
Helpers == <<
  Function("pick", "Machine", Type(<<"Result">>, <<Plain>>),
           Block(<<Stmt(If("g", <<Return(To(Path(<<"Self", "B">>)))>>)),
                   To(Path(<<"Self", "A">>))>>)),
  Function("hop", "free", [kind |-> "ref", segs |-> << >>, kids |-> <<Plain>>],
           If("g", <<To(Record(<<"Machine", "A">>)), To(Path(<<"B">>))>>)),
  Function("twin", "Door", Plain, To(Path(<<"Self", "B">>))),
  Function("twin", "Machine", Plain, To(Path(<<"Self", "A">>))),
  Function("step", "Machine", Type(<<"Step">>, << >>), To(Path(<<"Self", "B">>))),
  Function("delegate", "Machine", Plain, Call(<<"Self", "pick">>, << >>)),
  Function("advance", "Door", Plain, To(Path(<<"Self", "A">>))),
  Function("make", "Machine", Type(<<"Machine">>, << >>), Path(<<"Self", "A">>))>>

Answer == {
  To(Path(<<"Self", "B">>)), To(Record(<<"Machine", "A">>)),
  To(Call(<<"Self", "B">>, <<Path(<<"x">>)>>)), To(Path(<<"Self", "C">>)),
  To(Call(<<"Self", "make">>, << >>)),
  To(If("h", <<Path(<<"Self", "A">>), Path(<<"Self", "B">>)>>)),
  Call(<<"Self", "pick">>, << >>), Call(<<"hop">>, << >>), Call(<<"Self", "twin">>, << >>),
  Call(<<"Self", "step">>, << >>), Call(<<"Self", "delegate">>, << >>), None}

(* Where two answers may stand.                                            *)
Hooks ==
  UNION {{Match(<<Arm("E1", "", x), Arm("_", "", y)>>),
          Match(<<Arm("E1", "g", x), Arm("E1", "", y), Arm("_", "", None)>>),
          Match(<<Arm("E1", "", If("g", <<x, If("h", <<y, None>>)>>)), Arm("_", "", None)>>),
          Block(<<Stmt(If("g", <<Return(x)>>)), y>>),
          IfLet("E1", <<x, y>>),
          Block(<<Stmt(x), y>>)} : x, y \in Answer}
    \cup {Block(<<Stmt(Call(<<"Door", "advance">>, << >>)), y>>) : y \in Answer}

Moves == Match(<<Arm("E1", "", To(Path(<<"Self", "B">>))), Arm("_", "", None)>>)

State(n, form, process) == [name |-> n, form |-> form, process |-> process]
Declaration(open, named, type, trailing, list) ==
  [open |-> open, named |-> named, context |-> type, trailing |-> trailing, states |-> list]

Types == {
  <<Word("Ctx")>>,
  <<Word("Map"), Tok("<"), Word("K"), Tok(","), Word("V"), Tok(">")>>,
  <<Word("Ctx"), Tok("<"), Word("States"), Tok(">")>>}
Forms == {"plain", "fields", "pair", "noprocess", "noarrow", "nobody"}

(* Every form of two states in every kind of invocation.                   *)
Written ==
  {[declared |-> Declaration(open, named, type, trailing,
                             <<State("A", f, Moves), State("B", g, Moves)>>),
    functions |-> << >>, include_guards |-> TRUE] :
     open \in {"{", "("}, named \in BOOLEAN, type \in Types, trailing \in BOOLEAN,
     f, g \in Forms}

(* Every hook in a state of a machine written as it should be.             *)
Hooked ==
  {[declared |-> Declaration("{", TRUE, <<Word("Ctx")>>, TRUE,
                             <<State("A", "plain", hook), State("B", "plain", Moves)>>),
    functions |-> Helpers, include_guards |-> guards] :
     hook \in Hooks, guards \in BOOLEAN}

AllSources == Written \cup Hooked
TwoEvents == {"E1", "E2"}
TwoConditions == {"g", "h"}
=============================================================================
