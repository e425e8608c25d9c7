---------------------------- MODULE ExampleHooks ----------------------------
(***************************************************************************)
(* The vocabulary in which the machines of examples/ are written.  A state *)
(* is one value: the machine it belongs to, the variant, and the fields    *)
(* the variant carries that anything reads again.  What a state's block    *)
(* does is a record of its three hooks, each a function of the context:    *)
(* `entry` and `exit` give the new context, `process` also the answer.     *)
(* An event is a sequence, its name and then what it carries.              *)
(***************************************************************************)
EXTENDS Naturals, Sequences

CONSTANTS MaxRetries   \* max_retries of the WiFi and the connection context

ASSUME RetriesAssumption == MaxRetries \in Nat \ {0}

Holding(machine, variant, fields) ==
  [of |-> machine, in |-> variant, data |-> fields]
Variant(machine, variant) == Holding(machine, variant, << >>)

(* Transition::None and Transition::To(s), with the context as the process *)
(* hook leaves it.                                                         *)
Stay(c) == [to |-> << >>, ctx |-> c]
GoTo(s, c) == [to |-> <<s>>, ctx |-> c]

(* A block with all three hooks, and one that only reacts: the macro's     *)
(* empty defaults for a missing entry or exit hook.                        *)
Block(entry, process, exit) ==
  [entry |-> entry, process |-> process, exit |-> exit]
Reacts(c, process) == Block(c, process, c)

(* The names of the events a machine takes that carry nothing.             *)
Plainly(names) == {<<n>> : n \in names}
=============================================================================
