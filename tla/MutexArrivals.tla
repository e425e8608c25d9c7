---------------------------- MODULE MutexArrivals ----------------------------
(***************************************************************************)
(* MutexDispatch with a history of who came to fsm.lock() while another    *)
(* thread was inside a dispatch of the same machine, for what the          *)
(* repository says becomes of that thread's event.                         *)
(***************************************************************************)
EXTENDS MutexDispatch

VARIABLE metBusy    \* the threads that came during a dispatch

ArrivalInit == MutexInit /\ metBusy = {}

(* fsm.lock() is called, and will wait: an event of its machine is being   *)
(* handled.                                                                *)
ArriveBusy(c) ==
  /\ stage[c] = "free"
  /\ calls[c] < MaxCalls
  /\ \E d \in Callers : Target[d] = Target[c] /\ pc[d] \in Hooks
  /\ metBusy' = metBusy \cup {c}
  /\ UNCHANGED mutexVars

(* The threads go on; one that came waits for the machine, until it is     *)
(* done with it.                                                           *)
GoOn ==
  /\ MutexNext
  /\ \A c \in metBusy : stage'[c] # "reading"
  /\ metBusy' = {c \in metBusy : \/ stage'[c] = stage[c]
                                 \/ stage'[c] \in {"locking", "inside"}}

ArrivalSpec ==
  ArrivalInit
    /\ [][(\E c \in Callers : ArriveBusy(c)) \/ GoOn]_<<mutexVars, metBusy>>

(* tests/concurrent_tests.rs of a thread that tries "to dispatch while     *)
(* thread1 is active": its events "should be queued and processed in       *)
(* order".  So the thread would not be the one that handles them.          *)
QueuedWhenBusy ==
  \A c \in metBusy : pc[c] \in Hooks => event[c].from # c
=============================================================================
