--------------------------- MODULE MCMutexDispatch ---------------------------
(* Three threads behind mutexes: all at one machine, or two at one and the *)
(* third at another instance of the same enum.                             *)
EXTENDS MutexDispatch

CONSTANTS t1, t2, t3, m1, m2, Off, On

OneInstance == {m1}
TwoInstances == {m1, m2}
Shared == [c \in Callers |-> m1]
Apart == [c \in Callers |-> IF c = t3 THEN m2 ELSE m1]
TwoStates == {Off, On}
Toggle == {<<Off, On>>, <<On, Off>>}
StartOff == {Off}
OneState == {Off}
ToItself == {<<Off, Off>>}
=============================================================================
