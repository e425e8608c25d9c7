----------------------------- MODULE MacroParser -----------------------------
(***************************************************************************)
(* parse_macro_body: the cursor that reads a state_machine! invocation,    *)
(* one turn of its loops after another.  A token is [kind, text, tree]; a  *)
(* closure is one token inside its braces, which holds its syntax tree.    *)
(* Token trees are balanced, and so are the ones read here.                *)
(***************************************************************************)
EXTENDS Naturals, Sequences, FiniteSets, SequencesExt

VARIABLES
  tokens,    \* the tokens of the invocation
  pos,       \* the cursor
  phase,     \* the loop it is in: "top" or "states"; then "parsed", "failed"
  name, context,   \* what was read: a sequence of texts, empty for None
  states,    \* the StateDefinitions read, [name, process]
  error      \* first_state_error: the state it names, or none

parserVars == <<tokens, pos, phase, name, context, states, error>>

AtEnd(i) == i > Len(tokens)
Kind(i) == IF AtEnd(i) THEN "end" ELSE tokens[i].kind
Text(i) == IF AtEnd(i) THEN "" ELSE tokens[i].text

(* Cursor::eat and eat_fat_arrow, as where the cursor is afterwards.       *)
Eat(i, kind) == IF Kind(i) = kind THEN i + 1 ELSE i
EatFatArrow(i) ==
  IF Kind(i) = "=" /\ Kind(i + 1) = ">" THEN i + 2 ELSE Eat(i, "=>")

Count(kind, i, j) == Cardinality({k \in i..j : tokens[k].kind = kind})

(* Mutant: the first closing brace ends the span.                          *)
BracesToFirst(i) ==
  IF Kind(i) # "{" THEN i
  ELSE 1 + Min({j \in i..Len(tokens) : tokens[j].kind = "}"})

(* consume_balanced_braces: past the brace that closes the one at i.       *)
AfterBraces(i) ==
  IF Kind(i) # "{" THEN i
  ELSE 1 + Min({j \in i..Len(tokens) : Count("{", i, j) = Count("}", i, j)})

(* parse_state_body_hooks: the tree of a hook that stands between the      *)
(* braces at i and j, outside any inner ones.                              *)
HookIn(i, j, hook) ==
  LET at == {k \in (i + 1)..(j - 3) :
               /\ tokens[k].text = hook /\ Kind(k + 1) = ":"
               /\ Count("{", i, k) = Count("}", i, k) + 1}
  IN  IF at = {} THEN << >> ELSE <<tokens[Max(at) + 3].tree>>

-----------------------------------------------------------------------------
ParserInit(source) ==
  /\ tokens = source
  /\ pos = IF source # << >> /\ source[1].kind = "{" THEN 2 ELSE 1
  /\ phase = "top"
  /\ name = << >> /\ context = << >> /\ states = << >> /\ error = << >>

AtTop == phase = "top" /\ Kind(pos) \notin {"end", "}"}

ReadName ==
  /\ AtTop /\ Text(pos) = "Name"
  /\ IF Kind(pos + 1) = ":" /\ ~AtEnd(pos + 2)
       THEN name' = <<Text(pos + 2)>> /\ pos' = pos + 3
       ELSE name' = name /\ pos' = Eat(pos + 1, ":")
  /\ UNCHANGED <<tokens, phase, context, states, error>>

(* A type ends at a comma, also at one inside its generic arguments.       *)
ReadContext ==
  /\ AtTop /\ Text(pos) = "Context"
  /\ IF Kind(pos + 1) = ":"
       THEN LET stop == Min({i \in (pos + 2)..(Len(tokens) + 1) :
                                   \/ Kind(i) \in {"end", ","}
                                   \/ Text(i) \in {"Event", "States"}})
            IN  /\ context' = [k \in 1..(stop - pos - 2) |-> Text(pos + 1 + k)]
                /\ pos' = stop
       ELSE context' = context /\ pos' = pos + 1
  /\ UNCHANGED <<tokens, phase, name, states, error>>

(* Mutant: without a block the cursor waits where it is.                   *)
OpenStatesWaits ==
  /\ AtTop /\ Text(pos) = "States"
  /\ IF Kind(pos + 1) = ":" /\ Kind(pos + 2) = "{"
       THEN phase' = "states" /\ pos' = pos + 3
       ELSE phase' = phase /\ pos' = pos
  /\ UNCHANGED <<tokens, name, context, states, error>>

OpenStates ==
  /\ AtTop /\ Text(pos) = "States"
  /\ IF Kind(pos + 1) = ":" /\ Kind(pos + 2) = "{"
       THEN phase' = "states" /\ pos' = pos + 3
       ELSE phase' = phase /\ pos' = Eat(pos + 1, ":")
  /\ UNCHANGED <<tokens, name, context, states, error>>

SkipToken ==
  /\ AtTop /\ Text(pos) \notin {"Name", "Context", "States"}
  /\ pos' = pos + 1
  /\ UNCHANGED <<tokens, phase, name, context, states, error>>

(* One state: its name, perhaps fields, perhaps an arrow, perhaps a body.  *)
(* Without a body nothing is read and nothing is reported.                 *)
ReadState ==
  /\ phase = "states" /\ Kind(pos) \notin {"end", "}"}
  /\ \E fields \in {AfterBraces(pos + 1)} : \E body \in {EatFatArrow(fields)} :
     \E end \in {AfterBraces(body)} : \E process \in {HookIn(body, end, "process")} :
       /\ pos' = Eat(end, ",")
       /\ states' = states \o [i \in DOMAIN process |->
                                 [name |-> Text(pos), process |-> process[i]]]
       /\ error' = IF error = << >> /\ end > body /\ process = << >>
                     THEN <<Text(pos)>> ELSE error
  /\ UNCHANGED <<tokens, phase, name, context>>

CloseStates ==
  /\ phase = "states" /\ Kind(pos) \in {"end", "}"}
  /\ phase' = "top"
  /\ pos' = Eat(pos, "}")
  /\ UNCHANGED <<tokens, name, context, states, error>>

(* Ok(FsmDefinition), or MissingName, StateMissingProcessBlock(error), or  *)
(* EmptyStates.                                                            *)
Finish ==
  /\ phase = "top" /\ Kind(pos) \in {"end", "}"}
  /\ phase' = IF name = << >> \/ states = << >> THEN "failed" ELSE "parsed"
  /\ UNCHANGED <<tokens, pos, name, context, states, error>>

ParserNext ==
  ReadName \/ ReadContext \/ OpenStates \/ SkipToken
    \/ ReadState \/ CloseStates \/ Finish
=============================================================================
