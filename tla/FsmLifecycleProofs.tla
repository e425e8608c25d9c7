------------------------- MODULE FsmLifecycleProofs -------------------------
(***************************************************************************)
(* Theorems about the sequential arm, for every machine: any variants and  *)
(* any transitions between them.                                           *)
(*                                                                         *)
(* What the three properties share is which variants count as entered at   *)
(* each phase: before init none, during the entry hook of a transition     *)
(* none, otherwise the current one, or after a panic possibly none.        *)
(***************************************************************************)
EXTENDS FsmLifecycle, TLAPS

EnteredIsCurrent ==
  /\ inside \subseteq {self}
  /\ phase \in {"created", "init", "entry"} => inside = {}
  /\ ~panicked /\ phase \in {"ready", "process", "exit"} => inside = {self}

IInv == TypeOK /\ EnteredIsCurrent

LEMMA InitIInv == Init => IInv
BY DEF Init, IInv, TypeOK, EnteredIsCurrent, LifecycleAssumption

LEMMA StepIInv == IInv /\ [Next]_vars => IInv'
<1> SUFFICES ASSUME IInv, [Next]_vars PROVE IInv'
  OBVIOUS
<1> USE LifecycleAssumption DEF IInv, TypeOK, EnteredIsCurrent
<1>1. CASE CallInit \/ InitEntry
  BY <1>1 DEF CallInit, InitEntry
<1>2. CASE Dispatch \/ ProcessStay
  BY <1>2 DEF Dispatch, ProcessStay
<1>3. ASSUME NEW s \in States, ProcessTo(s) PROVE IInv'
  BY <1>3 DEF ProcessTo
<1>4. CASE Exit
  BY <1>4 DEF Exit
<1>5. CASE Entry
  BY <1>5 DEF Entry
<1>6. CASE Panic
  BY <1>6 DEF Panic
<1>7. CASE UNCHANGED vars
  BY <1>7 DEF vars
<1> QED
  BY <1>1, <1>2, <1>3, <1>4, <1>5, <1>6, <1>7 DEF Next

THEOREM Invariance == Spec => []IInv
  BY InitIInv, StepIInv, PTL DEF Spec

(* new_state exists exactly from on_process to the update, and the phases  *)
(* and variants are what they may be.                                      *)
THEOREM TypeCorrect == Spec => []TypeOK
<1>1. IInv => TypeOK
  BY DEF IInv
<1> QED
  BY Invariance, <1>1, PTL

(* Entry and exit hooks bracket each stay in a variant, until a hook of the *)
(* machine panics.                                                         *)
THEOREM HooksBracket == Spec => []HooksBracketed
<1>1. IInv => HooksBracketed
  BY DEF IInv, EnteredIsCurrent, HooksBracketed
<1> QED
  BY Invariance, <1>1, PTL

(* No two variants are entered at once, whatever hooks panic.              *)
THEOREM OneEntered == Spec => []AtMostOneInside
<1>1. IInv => AtMostOneInside
  BY DEF IInv, EnteredIsCurrent, AtMostOneInside
<1> QED
  BY Invariance, <1>1, PTL

(* *self changes only to a variant whose entry hook has just finished.     *)
THEOREM SwitchEntered == Spec => SwitchOnlyAfterEntry
<1>1. IInv /\ [Next]_vars => [self' # self => inside' = {self'}]_vars
  <2> SUFFICES ASSUME IInv, Next, self' # self PROVE inside' = {self'}
    OBVIOUS
  <2>1. Entry
    BY DEF Next, CallInit, InitEntry, Dispatch, ProcessStay, ProcessTo, Exit, Panic
  <2> QED
    BY <2>1 DEF Entry, IInv, EnteredIsCurrent
<1> QED
  BY Invariance, <1>1, PTL DEF Spec, SwitchOnlyAfterEntry

(* The same of an instance whose init() has returned, which is what the    *)
(* instances of the concurrent arm are mapped to.                          *)
THEOREM ReadyBracket == ReadySpec => []HooksBracketed /\ []AtMostOneInside
<1>1. InitReady => IInv
  BY DEF InitReady, IInv, TypeOK, EnteredIsCurrent, LifecycleAssumption
<1>2. IInv => HooksBracketed /\ AtMostOneInside
  BY DEF IInv, EnteredIsCurrent, HooksBracketed, AtMostOneInside
<1> QED
  BY StepIInv, <1>1, <1>2, PTL DEF ReadySpec
=============================================================================
