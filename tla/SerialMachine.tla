---------------------------- MODULE SerialMachine ----------------------------
(***************************************************************************)
(* What `dispatch` promises to whoever calls it, with no flag, no queue    *)
(* and no threads: every submitted event is, at some later point, either   *)
(* handled by one indivisible transition of one machine instance, or       *)
(* discarded without touching any machine.  Nothing is handled twice.      *)
(*                                                                         *)
(* ConcurrentDispatch implements this machine (run `refinement`).          *)
(***************************************************************************)
EXTENDS Sequences, Functions

CONSTANTS
  Instances,   \* the values of the generated enum that exist
  States,      \* the variants of the enum
  Moves,       \* <<s, t>> when some `process` block of s returns To(t)
  Events       \* every event that may ever be submitted

VARIABLES
  state,       \* state[i]: the variant instance i is in
  pending,     \* submitted, neither handled nor discarded
  handled,     \* the events handled, in order
  discarded    \* the events given up

vars == <<state, pending, handled, discarded>>

Init ==
  /\ state \in [Instances -> States]
  /\ pending = {}
  /\ handled = <<>>
  /\ discarded = {}

Submit(e) ==
  /\ e \notin pending \cup discarded \cup Range(handled)
  /\ pending' = pending \cup {e}
  /\ UNCHANGED <<state, handled, discarded>>

(* One whole transition: the decision is taken on the state it replaces.   *)
Handle(e, i) ==
  /\ e \in pending
  /\ pending' = pending \ {e}
  /\ handled' = Append(handled, e)
  /\ \E s \in States :
       /\ s = state[i] \/ <<state[i], s>> \in Moves
       /\ state' = [state EXCEPT ![i] = s]
  /\ UNCHANGED discarded

Discard(e) ==
  /\ e \in pending
  /\ pending' = pending \ {e}
  /\ discarded' = discarded \cup {e}
  /\ UNCHANGED <<state, handled>>

Next ==
  \E e \in Events :
    \/ Submit(e)
    \/ \E i \in Instances : Handle(e, i)
    \/ Discard(e)

Spec == Init /\ [][Next]_vars
=============================================================================
