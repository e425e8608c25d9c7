---------------------------- MODULE FsmLifecycle ----------------------------
(***************************************************************************)
(* One instance of a generated enum as the sequential arm of               *)
(* state_machine! drives it: init, then dispatch after dispatch, hook by   *)
(* hook.  `&mut self` makes every call exclusive.  A hook may panic; a     *)
(* caller that catches the panic keeps the instance and may dispatch again.*)
(***************************************************************************)
EXTENDS FiniteSets

CONSTANTS
  States,       \* the variants
  Moves,        \* <<s, t>> when some `process` block of s returns To(t)
  HookPanics,   \* whether hooks may panic (and somebody catches the panic)
  None

ASSUME LifecycleAssumption ==
  /\ Moves \subseteq States \X States
  /\ HookPanics \in BOOLEAN
  /\ None \notin States

VARIABLES
  self,     \* the variant `*self` holds
  phase,    \* the hook that runs, or where the instance is between calls
  new,      \* `new_state`, from on_process to the update
  inside,   \* history: variants whose entry hook ran and whose exit did not
  panicked  \* history: whether a hook has panicked

vars == <<self, phase, new, inside, panicked>>

Init ==
  /\ self \in States
  /\ phase = "created"
  /\ new = None
  /\ inside = {}
  /\ panicked = FALSE

(* init(): on_entry of the initial state, once, before the first dispatch. *)
CallInit ==
  /\ phase = "created"
  /\ phase' = "init"
  /\ UNCHANGED <<self, new, inside, panicked>>

InitEntry ==
  /\ phase = "init"
  /\ inside' = inside \cup {self}
  /\ phase' = "ready"
  /\ UNCHANGED <<self, new, panicked>>

(* dispatch(ctx, event)                                                    *)
Dispatch ==
  /\ phase = "ready"
  /\ phase' = "process"
  /\ UNCHANGED <<self, new, inside, panicked>>

(* on_process returns Transition::None: no hook runs.                      *)
ProcessStay ==
  /\ phase = "process"
  /\ phase' = "ready"
  /\ UNCHANGED <<self, new, inside, panicked>>

(* on_process returns Transition::To(s), possibly to the variant itself.   *)
ProcessTo(s) ==
  /\ phase = "process"
  /\ <<self, s>> \in Moves
  /\ new' = s
  /\ phase' = "exit"
  /\ UNCHANGED <<self, inside, panicked>>

(* Mutant: the exit hook is skipped.                                       *)
SkipExit ==
  /\ phase = "exit"
  /\ phase' = "entry"
  /\ UNCHANGED <<self, new, inside, panicked>>

(* Mutant: the order of the comment at fsm.rs:529, update before entry.    *)
ExitAndUpdate ==
  /\ phase = "exit"
  /\ inside' = inside \ {self}
  /\ self' = new
  /\ phase' = "entry"
  /\ UNCHANGED <<new, panicked>>

(* self.on_exit(ctx)                                                       *)
Exit ==
  /\ phase = "exit"
  /\ inside' = inside \ {self}
  /\ phase' = "entry"
  /\ UNCHANGED <<self, new, panicked>>

(* Mutant: new_state survives the update.                                  *)
EntryKeepsNew ==
  /\ phase = "entry"
  /\ inside' = inside \cup {new}
  /\ self' = new
  /\ phase' = "ready"
  /\ UNCHANGED <<new, panicked>>

(* new_state.on_entry(ctx); *self = new_state                              *)
Entry ==
  /\ phase = "entry"
  /\ inside' = inside \cup {new}
  /\ self' = new
  /\ new' = None
  /\ phase' = "ready"
  /\ UNCHANGED panicked

(* A hook panics: init or dispatch unwinds, new_state is dropped, and *self *)
(* stays.                                                                  *)
Panic ==
  /\ HookPanics
  /\ phase \in {"init", "process", "exit", "entry"}
  /\ new' = None
  /\ phase' = "ready"
  /\ panicked' = TRUE
  /\ UNCHANGED <<self, inside>>

Next ==
  \/ CallInit \/ InitEntry
  \/ Dispatch \/ ProcessStay \/ (\E s \in States : ProcessTo(s))
  \/ Exit \/ Entry \/ Panic

Spec == Init /\ [][Next]_vars

(* An instance whose init() has returned.                                  *)
InitReady ==
  /\ self \in States
  /\ phase = "ready"
  /\ new = None
  /\ inside = {self}
  /\ panicked = FALSE

ReadySpec == InitReady /\ [][Next]_vars

-----------------------------------------------------------------------------
(* The values the variables range over; new_state exists from on_process to *)
(* the update.                                                              *)
TypeOK ==
  /\ self \in States
  /\ phase \in {"created", "init", "ready", "process", "exit", "entry"}
  /\ new \in States \cup {None}
  /\ new # None <=> phase \in {"exit", "entry"}
  /\ inside \subseteq States
  /\ panicked \in BOOLEAN

(* Entry and exit hooks alternate: a variant's process and exit hooks run  *)
(* between its entry and its exit, also over self-transitions, and between *)
(* two dispatches exactly the current variant has been entered; until a    *)
(* hook panics.                                                            *)
HooksBracketed ==
  ~panicked =>
    /\ phase \in {"ready", "process", "exit"} => inside = {self}
    /\ phase = "entry" => inside = {}

(* Even with panics two variants are never entered at once.                *)
AtMostOneInside == \A s, t \in inside : s = t

(* A panic cannot leave the instance in a variant whose entry hook did not *)
(* complete: *self changes only together with a finished entry.            *)
SwitchOnlyAfterEntry == [][self' # self => inside' = {self'}]_vars
=============================================================================
