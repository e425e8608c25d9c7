----------------------------- MODULE IsrDispatch -----------------------------
(***************************************************************************)
(* dispatch on one core: the main loop and the interrupt handlers that     *)
(* preempt it.  A frame runs until it returns or a handler of a higher     *)
(* priority preempts it, and resumes only when that handler has returned.  *)
(* Critical sections mask interrupts: each is one step already.            *)
(***************************************************************************)
EXTENDS ConcurrentDispatch

CONSTANT Priority   \* Priority[c]: 0 for the main loop, more for handlers

ASSUME PriorityAssumption == Priority \in [Callers -> Nat]

VARIABLE stack      \* the frames inside dispatch, the running one last

isrVars == <<vars, stack>>

Running == stack[Len(stack)]

Preempts(c) == stack # <<>> => Priority[c] > Priority[Running]

IsrInit == Init /\ stack = <<>>

(* The main loop, or a handler that fires now, calls dispatch.             *)
Fire(c) ==
  /\ Preempts(c)
  /\ Call(c)
  /\ stack' = Append(stack, c)

(* Mutant: a preempted frame keeps running, as a thread would.             *)
RunAnyFrame ==
  \E c \in Range(stack) :
    /\ Advance(c)
    /\ stack' = IF pc'[c] = "idle" THEN SelectSeq(stack, LAMBDA d : d # c) ELSE stack

(* The running frame takes a step; a frame that returns is popped.         *)
Run ==
  /\ stack # <<>>
  /\ Advance(Running)
  /\ stack' = IF pc'[Running] = "idle" THEN SubSeq(stack, 1, Len(stack) - 1) ELSE stack

IsrNext == Run \/ \E c \in Callers : Fire(c)

(* The core executes; interrupts need not fire.                            *)
IsrSpec == IsrInit /\ [][IsrNext]_isrVars
IsrFairSpec == IsrSpec /\ WF_isrVars(Run)

-----------------------------------------------------------------------------
(* A frame is on the stack exactly while it is inside dispatch, once, and  *)
(* each frame preempted the one below it.                                  *)
StackOK ==
  /\ stack \in Seq(Callers)
  /\ Range(stack) = {c \in Callers : pc[c] # "idle"}
  /\ \A i, j \in 1..Len(stack) : i < j => Priority[stack[i]] < Priority[stack[j]]

(* On one core a handler that found the flag set enqueues while it is      *)
(* still set: the holder it preempted cannot have released it in between.  *)
(* Among threads this fails; here only the holder's own release strands.   *)
PushUnderFlag == \A c \in Callers : pc[c] = "push" => active

(* Frames above the holder never run hooks: they enqueue and return.       *)
OnlyEnqueueAboveHolder ==
  \A i, j \in 1..Len(stack) :
    (i < j /\ pc[stack[i]] \in Holding) => pc[stack[j]] \in {"cas", "push", "count"}

(* Preemption keeps the protocol of dispatch in order: the stack is what   *)
(* runs, pushes come under the flag, frames above the holder only enqueue. *)
IsrInv == StackOK /\ PushUnderFlag /\ OnlyEnqueueAboveHolder
=============================================================================
