---------------------------- MODULE MCIsrDispatch ----------------------------
(* The main loop, a low and a high priority handler, one machine.          *)
EXTENDS IsrDispatch

CONSTANTS main, low, high, m1, Off, On

Levels == [c \in Callers |-> CASE c = main -> 0 [] c = low -> 1 [] c = high -> 2]
OneInstance == {m1}
Shared == [c \in Callers |-> m1]
TwoStates == {Off, On}
Toggle == {<<Off, On>>, <<On, Off>>}
StartOff == {Off}
=============================================================================
