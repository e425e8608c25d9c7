------------------------------- MODULE FsmGen -------------------------------
(***************************************************************************)
(* One run of the fsm-gen command: configuration, scan of the workspace,   *)
(* removal of the diagrams of earlier runs, then for every root machine    *)
(* its diagram and the diagrams of its sub-machines.  Every file operation *)
(* is a step and may fail.  The text of a diagram is abstracted to the set *)
(* of definitions drawn in it.                                             *)
(***************************************************************************)
EXTENDS FsmRefs

CONSTANTS
  Workspaces,   \* the workspaces considered: [files, aliases, structs]
  Settings,     \* the configuration files and arguments considered
  OldDiagrams,  \* .mermaid files an earlier run left under the output
  OtherFiles,   \* the other files under the output directory
  StackDepth,   \* calls of populate_builder_hierarchical the stack can hold
  Unset         \* a key or an argument that is not given, or nothing at all

(* The paths a run may write: <root>/<root>.mermaid and, in the directory  *)
(* of a breakdown, <root>/<dir>/<machine>.mermaid.                         *)
Definitions == UNION {UNION {Range(w.files[f]) : f \in DOMAIN w.files} : w \in Workspaces}
MachineNames == {d.name : d \in Definitions}
DiagramPaths ==
  {<<n, n>> : n \in MachineNames} \cup
  MachineNames \X {"breakdown", "breakdown_flat", "breakdown_nested"} \X MachineNames
Diagrams == [def : Definitions, path : DiagramPaths, nested : BOOLEAN]

ASSUME WorkspaceAssumption == \A w \in Workspaces : w.files \in Seq(Seq(Definitions))
ASSUME OutputAssumption == OtherFiles \cap (OldDiagrams \cup DiagramPaths) = {}
ASSUME DepthAssumption == StackDepth \in Nat \ {0}
ASSUME SettingsAssumption ==
  \A s \in Settings :
    s.config # Unset => /\ s.config.mode \in {"Simple", "Hierarchical", Unset}
                        /\ s.config.breakdown \in {"None", "Flat", "Nested", "Both", Unset}
ASSUME UnsetAssumption == Unset \notin Diagrams

VARIABLES
  ws,        \* the workspace this run scans
  settings,  \* its configuration file and arguments
  phase,     \* what main is doing
  options,   \* mode, breakdown and guards, once settled
  unread,    \* files not scanned yet
  found,     \* finder.found_fsms
  disk,      \* files under the output directory: path -> definitions drawn
  unclean,   \* files the clean-up has yet to visit
  stuck,     \* history: old diagrams whose removal failed
  roots,     \* root definitions still to be generated
  current,   \* the diagram under construction
  todo,      \* the other diagrams of the same root
  stack,     \* open calls of populate_builder_hierarchical
  drawn      \* definitions drawn so far in the current diagram

run == <<ws, settings>>
cleaning == <<unclean, stuck>>
drawing == <<current, stack, drawn>>
vars == <<run, phase, options, unread, found, disk, cleaning, roots, todo, drawing>>

Init ==
  /\ ws \in Workspaces
  /\ settings \in Settings
  /\ phase = "config"
  /\ options = Unset
  /\ unread = 1..Len(ws.files)
  /\ found = <<>>
  /\ disk = [p \in OldDiagrams \cup OtherFiles |-> {}]
  /\ unclean = {} /\ stuck = {}
  /\ roots = {} /\ todo = {}
  /\ current = Unset /\ stack = <<>> /\ drawn = {}

Given(value, default) == IF value = Unset THEN default ELSE value

(* serde: without a [mermaid] table the default of MermaidConfig, in a     *)
(* table without the key the default of bool.                              *)
GuardsInConfig(config) ==
  IF config = Unset THEN TRUE ELSE Given(config.guards, FALSE)

GuardsOption(config, arg) == Given(arg, GuardsInConfig(config))

(* The configuration is read and parsed, and the source path exists.       *)
ReadConfig ==
  /\ phase = "config"
  /\ LET config == settings.config
     IN  options' =
           [mode |-> IF config = Unset THEN "Hierarchical"
                     ELSE Given(config.mode, "Hierarchical"),
            breakdown |-> IF config = Unset THEN "Flat"
                          ELSE Given(config.breakdown, "Flat"),
            guards |-> GuardsOption(config, settings.guards)]
  /\ phase' = "scan"
  /\ UNCHANGED <<run, unread, found, disk, cleaning, roots, todo, drawing>>

(* process_file: the well-formed macros of a file are recorded.  An entry  *)
(* WalkDir cannot visit is passed over without an error.                   *)
ScanFile(f) ==
  /\ phase = "scan"
  /\ f \in unread
  /\ unread' = unread \ {f}
  /\ found' \in {found \o ws.files[f], found}
  /\ UNCHANGED <<run, phase, options, disk, cleaning, roots, todo, drawing>>

NothingFound ==
  /\ phase = "scan"
  /\ unread = {} /\ found = <<>>
  /\ phase' = "done"
  /\ UNCHANGED <<run, options, unread, found, disk, cleaning, roots, todo, drawing>>

(* Mutant: the output is cleaned before the sources are scanned.           *)
CleanUnscanned ==
  /\ phase = "scan"
  /\ unclean' = DOMAIN disk
  /\ phase' = "clean"
  /\ UNCHANGED <<run, options, unread, found, disk, stuck, roots, todo, drawing>>

StartClean ==
  /\ phase = "scan"
  /\ unread = {} /\ found # <<>>
  /\ unclean' = DOMAIN disk
  /\ phase' = "clean"
  /\ UNCHANGED <<run, options, unread, found, disk, stuck, roots, todo, drawing>>

(* Mutant: the clean-up visits files and removes none.                     *)
RemoveNothing(p) ==
  /\ phase = "clean"
  /\ p \in unclean
  /\ unclean' = unclean \ {p}
  /\ UNCHANGED <<run, phase, options, unread, found, disk, stuck, roots, todo, drawing>>

(* clean_stale_diagrams visits a file: remove_file if it is a .mermaid one,*)
(* with its error ignored.                                                 *)
CleanFile(p) ==
  /\ phase = "clean"
  /\ p \in unclean
  /\ unclean' = unclean \ {p}
  /\ \/ /\ p \notin OtherFiles
        /\ disk' = Restrict(disk, DOMAIN disk \ {p})
        /\ UNCHANGED stuck
     \/ /\ p \notin OtherFiles
        /\ stuck' = stuck \cup {p}
        /\ UNCHANGED disk
     \/ /\ p \in OtherFiles
        /\ UNCHANGED <<disk, stuck>>
  /\ UNCHANGED <<run, phase, options, unread, found, roots, todo, drawing>>

(* create_dir_all of the output, and the roots are identified.             *)
FindRoots ==
  /\ phase = "clean"
  /\ unclean = {}
  /\ roots' = Roots(ws, found)
  /\ phase' = "generate"
  /\ UNCHANGED <<run, options, unread, found, disk, cleaning, todo, drawing>>

-----------------------------------------------------------------------------
(* A diagram to write, of one level or with the sub-machines nested.       *)
Diagram(def, path, nested) == [def |-> def, path |-> path, nested |-> nested]

(* save_breakdown: one diagram for each discovered sub-machine.            *)
Breakdown(def, dir, nested) ==
  {Diagram(Definition(found, n), <<def.name, dir, n>>, nested) :
     n \in SubFsms(ws, found, def)}

Breakdowns(def) ==
  CASE options.breakdown = "None" -> {}
    [] options.breakdown = "Flat" -> Breakdown(def, "breakdown", FALSE)
    [] options.breakdown = "Nested" -> Breakdown(def, "breakdown", TRUE)
    [] options.breakdown = "Both" ->
         Breakdown(def, "breakdown_flat", FALSE) \cup Breakdown(def, "breakdown_nested", TRUE)

Idle == phase = "generate" /\ current = Unset /\ todo = {}

(* Mutant: the roots are generated from the last one to the first.         *)
NextRootBackwards(r) ==
  /\ Idle
  /\ r \in roots /\ \A i \in roots : i <= r
  /\ roots' = roots \ {r}
  /\ current' = Diagram(found[r], <<found[r].name, found[r].name>>, options.mode = "Hierarchical")
  /\ todo' = Breakdowns(found[r])
  /\ UNCHANGED <<run, phase, options, unread, found, disk, cleaning, stack, drawn>>

(* The next root in the order of found_fsms: its own diagram comes first.  *)
NextRoot(r) ==
  /\ Idle
  /\ r \in roots /\ \A i \in roots : r <= i
  /\ roots' = roots \ {r}
  /\ current' = Diagram(found[r], <<found[r].name, found[r].name>>, options.mode = "Hierarchical")
  /\ todo' = Breakdowns(found[r])
  /\ UNCHANGED <<run, phase, options, unread, found, disk, cleaning, stack, drawn>>

(* The next diagram of a breakdown: a HashSet's order, flat before nested. *)
NextDiagram(d) ==
  /\ phase = "generate" /\ current = Unset
  /\ d \in todo
  /\ d.nested => \A e \in todo : e.nested
  /\ current' = d
  /\ todo' = todo \ {d}
  /\ UNCHANGED <<run, phase, options, unread, found, disk, cleaning, roots, stack, drawn>>

(* Mutant: the references of the outermost machine are used in every call. *)
CallOfOutermost(def) ==
  [def |-> def,
   calls |-> {c \in (DOMAIN current.def.states) \X Names(found) :
                <<c[2]>> \in ReferencedInState(ws, current.def, current.def.states[c[1]])}]

(* A call of populate_builder_hierarchical, and the calls it will make.    *)
CallOf(def) ==
  [def |-> def,
   calls |-> {c \in (DOMAIN def.states) \X Names(found) :
                <<c[2]>> \in ReferencedInState(ws, def, def.states[c[1]])}]

Top == stack[Len(stack)]

(* generate_mermaid_simple, or the outer call of the hierarchical one.     *)
StartDrawing ==
  /\ current # Unset /\ stack = <<>> /\ drawn = {}
  /\ drawn' = {current.def}
  /\ stack' = IF current.nested THEN <<CallOf(current.def)>> ELSE <<>>
  /\ UNCHANGED <<run, phase, options, unread, found, disk, cleaning, roots, todo, current>>

(* Mutant: the reference is not used up, and its machine is drawn again.   *)
DescendAgain(call) ==
  /\ stack # <<>> /\ call \in Top.calls
  /\ Len(stack) < StackDepth
  /\ LET sub == Definition(found, call[2])
     IN  /\ drawn' = drawn \cup {sub}
         /\ stack' = Append(stack, CallOf(sub))
  /\ UNCHANGED <<run, phase, options, unread, found, disk, cleaning, roots, todo, current>>

(* A state refers to a known machine, which is drawn inside it.  Calls are *)
(* not remembered: a machine that refers to itself is drawn again.         *)
Descend(call) ==
  /\ stack # <<>> /\ call \in Top.calls
  /\ Len(stack) < StackDepth
  /\ LET sub == Definition(found, call[2])
         rest == [stack EXCEPT ![Len(stack)].calls = @ \ {call}]
     IN  /\ drawn' = drawn \cup {sub}
         /\ stack' = Append(rest, CallOf(sub))
  /\ UNCHANGED <<run, phase, options, unread, found, disk, cleaning, roots, todo, current>>

Overflow ==
  /\ stack # <<>> /\ Top.calls # {}
  /\ Len(stack) >= StackDepth
  /\ phase' = "crashed"
  /\ stack' = <<>>
  /\ UNCHANGED <<run, options, unread, found, disk, cleaning, roots, todo, current, drawn>>

Return ==
  /\ stack # <<>> /\ Top.calls = {}
  /\ stack' = Front(stack)
  /\ UNCHANGED <<run, phase, options, unread, found, disk, cleaning, roots, todo, current, drawn>>

(* create_dir_all and fs::write                                            *)
Write ==
  /\ phase = "generate"
  /\ stack = <<>> /\ drawn # {}
  /\ disk' = [p \in DOMAIN disk \cup {current.path} |->
                IF p = current.path THEN drawn ELSE disk[p]]
  /\ current' = Unset
  /\ drawn' = {}
  /\ UNCHANGED <<run, phase, options, unread, found, cleaning, roots, todo, stack>>

Finish ==
  /\ Idle /\ roots = {}
  /\ phase' = "done"
  /\ UNCHANGED <<run, options, unread, found, disk, cleaning, roots, todo, drawing>>

(* A `?` of main: the configuration, a source file, a directory or a       *)
(* diagram cannot be read, created, built or written.                      *)
Fail ==
  /\ \/ phase = "config"
     \/ phase = "scan" /\ unread # {}
     \/ phase = "clean" /\ unclean = {}
     \/ phase = "generate" /\ current # Unset
  /\ phase' = "failed"
  /\ stack' = <<>>
  /\ UNCHANGED <<run, options, unread, found, disk, cleaning, roots, todo, current, drawn>>

(* What an uninterrupted run does next.                                    *)
Proceed ==
  \/ ReadConfig \/ (\E f \in unread : ScanFile(f)) \/ NothingFound
  \/ StartClean \/ (\E p \in unclean : CleanFile(p)) \/ FindRoots
  \/ (\E r \in roots : NextRoot(r)) \/ (\E d \in todo : NextDiagram(d))
  \/ (phase = "generate" /\ StartDrawing)
  \/ (stack # <<>> /\ \E call \in Top.calls : Descend(call))
  \/ Overflow \/ Return \/ Write \/ Finish

Next == Proceed \/ Fail

(* A process that is not interrupted runs on.                              *)
Spec == Init /\ [][Next]_vars /\ WF_vars(Proceed)

-----------------------------------------------------------------------------
Ended == phase \in {"done", "failed", "crashed"}

Drawn(n) == \E p \in DOMAIN disk : Definition(found, n) \in disk[p]

Acyclic == \A n \in Names(found) : n \notin SubFsms(ws, found, Definition(found, n))

UniqueNames == \A i, j \in DOMAIN found : found[i].name = found[j].name => i = j

(* "Touches nothing else": no run, complete or not, removes or changes a   *)
(* file that is not a diagram; and one that ends before it has seen every  *)
(* source leaves the diagrams of the last run in place.                    *)
FilesSurvive ==
  /\ \A p \in OtherFiles : p \in DOMAIN disk /\ disk[p] = {}
  /\ (unread # {} \/ phase \in {"config", "scan"}) => OldDiagrams \subseteq DOMAIN disk

(* After a complete run that found machines, every diagram is of this run, *)
(* except the old ones that could not be removed.                          *)
NothingStale ==
  (phase = "done" /\ found # <<>>) =>
    \A p \in DOMAIN disk \ (OtherFiles \cup stuck) : disk[p] # {}

(* When no machine contains itself and names are unique, every machine of  *)
(* the workspace is drawn in some diagram, across files, aliases and       *)
(* context structs; unless the options ask for root machines only.         *)
AcyclicAllDrawn ==
  (phase = "done" /\ Acyclic /\ UniqueNames
     /\ (options.mode = "Hierarchical" \/ options.breakdown # "None"))
    => \A n \in Names(found) : Drawn(n)

(* Of several definitions with one name the last is what a root's own      *)
(* diagram shows in the end.                                               *)
LastDefinitionDrawn ==
  phase = "done" =>
    \A i \in Roots(ws, found) :
      LET n == found[i].name IN Definition(found, n) \in disk[<<n, n>>]

(* The stack overflows only when a machine contains itself.                *)
CrashOnlyOnCycle == phase = "crashed" => ~Acyclic

(* Every run ends.                                                         *)
Terminates == <>Ended

-----------------------------------------------------------------------------
(* A sentence of HOW_TO.md the code does not keep.                         *)

(* "scans your entire source tree and produces diagrams in a single pass,  *)
(* correctly resolving hierarchies even across different files"            *)
EveryMachineDrawn ==
  (phase = "done" /\ options.mode = "Hierarchical") => \A n \in Names(found) : Drawn(n)
=============================================================================
