------------------------ MODULE MCConcurrentDispatch ------------------------
(* Small instances of ConcurrentDispatch for TLC.                          *)
EXTENDS ConcurrentDispatch, TLC

CONSTANTS t1, t2, t3, m1, m2, Off, On, Fault

(* One shared instance, or two instances of one enum.                      *)
OneInstance == {m1}
Shared == [c \in Callers |-> m1]
TwoInstances == {m1, m2}
Apart == [c \in Callers |-> IF c = t1 THEN m1 ELSE m2]

(* A two-variant machine, and one whose transitions form a directed cycle, *)
(* so that an update computed from a stale state is not one of the Moves.  *)
TwoStates == {Off, On}
Toggle == {<<Off, On>>, <<On, Off>>}
ThreeStates == {Off, On, Fault}
Cycle == {<<Off, On>>, <<On, Fault>>, <<Fault, Off>>}
StartOff == {Off}

Symmetry == Permutations(Callers)
=============================================================================
