---------------------------- MODULE MCDropMonitor ----------------------------
(* Three threads that share one two-variant machine and overflow its queue *)
(* of two, watched by a task that reads and resets the drop counter.       *)
EXTENDS DropMonitor, TLC

CONSTANTS t1, t2, t3, m1, Off, On

OneInstance == {m1}
Shared == [c \in Callers |-> m1]
TwoStates == {Off, On}
Toggle == {<<Off, On>>, <<On, Off>>}
StartOff == {Off}

Symmetry == Permutations(Callers)
=============================================================================
