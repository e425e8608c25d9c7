---------------------------- MODULE MutexDispatch ----------------------------
(***************************************************************************)
(* How the repository's threads use the concurrent machine: an             *)
(* Arc<Mutex<Machine>> and an Arc<Mutex<Context>> per instance, locked in  *)
(* that order around every dispatch (examples/concurrent_threads.rs,       *)
(* examples/concurrent_isr.rs and the concurrency tests, where several     *)
(* instances of one enum share its statics); the statistics at the end     *)
(* lock the context alone.  std's Mutex is poisoned when its guard is      *)
(* dropped while its thread panics; lock().unwrap() then panics in the     *)
(* next thread, and `if let Ok` passes over it.                            *)
(***************************************************************************)
EXTENDS ConcurrentDispatch

ASSUME NobodyAssumption == None \notin Callers

VARIABLES
  fsmLock,    \* fsmLock[i]: the caller that holds the machine's mutex
  ctxLock,    \* ctxLock[i]: the caller that holds the context's mutex
  poisoned,   \* <<"fsm", i>> and <<"ctx", i>> when that mutex is poisoned
  stage       \* where thread c is in its use of the two mutexes

locks == <<fsmLock, ctxLock, poisoned>>
mutexVars == <<vars, locks, stage>>

Outside == {"free", "ended"}
Stages == Outside \cup {"locking", "inside", "leaving", "unwinding", "reading"}

FsmOf(c) == fsmLock[Target[c]]
CtxOf(c) == ctxLock[Target[c]]
FsmPoisoned(c) == <<"fsm", Target[c]>> \in poisoned
CtxPoisoned(c) == <<"ctx", Target[c]>> \in poisoned

MoveTo(c, where) == stage' = [stage EXCEPT ![c] = where]
TakeFsm(c) == fsmLock' = [fsmLock EXCEPT ![Target[c]] = c]
TakeCtx(c) == ctxLock' = [ctxLock EXCEPT ![Target[c]] = c]
GiveFsm(c) == fsmLock' = [fsmLock EXCEPT ![Target[c]] = None]
GiveCtx(c) == ctxLock' = [ctxLock EXCEPT ![Target[c]] = None]

MutexInit ==
  /\ Init
  /\ fsmLock = [i \in Instances |-> None]
  /\ ctxLock = [i \in Instances |-> None]
  /\ poisoned = {}
  /\ stage = [c \in Callers |-> "free"]

(* fsm.lock() returns: with the guard, also where `if let Ok` is about to  *)
(* pass over a poisoned one; unwrap() of a poisoned one ends the thread.   *)
LockFsm(c) ==
  /\ stage[c] = "free"
  /\ calls[c] < MaxCalls
  /\ FsmOf(c) = None
  /\ \/ TakeFsm(c) /\ MoveTo(c, "locking")
     \/ FsmPoisoned(c) /\ MoveTo(c, "ended") /\ UNCHANGED fsmLock
  /\ UNCHANGED <<vars, ctxLock, poisoned>>

(* Mutant: into_inner() in place of unwrap(): a poisoned lock is used.     *)
LockCtxPoisoned(c) ==
  /\ stage[c] = "locking"
  /\ CtxOf(c) = None
  /\ TakeCtx(c)
  /\ MoveTo(c, "inside")
  /\ UNCHANGED <<vars, fsmLock, poisoned>>

(* Mutant: the context is taken while somebody else has it.                *)
LockCtxUnchecked(c) ==
  /\ stage[c] = "locking"
  /\ TakeCtx(c)
  /\ MoveTo(c, IF CtxPoisoned(c) THEN "leaving" ELSE "inside")
  /\ UNCHANGED <<vars, fsmLock, poisoned>>

(* ctx.lock() returns, with the machine's guard held.  A poisoned context  *)
(* is passed over; only `if let Ok` gets to one, for the machine is then   *)
(* poisoned too (Poisoning).                                               *)
LockCtx(c) ==
  /\ stage[c] = "locking"
  /\ CtxOf(c) = None
  /\ TakeCtx(c)
  /\ MoveTo(c, IF CtxPoisoned(c) THEN "leaving" ELSE "inside")
  /\ UNCHANGED <<vars, fsmLock, poisoned>>

(* fsm_guard.dispatch(&mut ctx_guard, event)                               *)
GuardedCall(c) ==
  /\ stage[c] = "inside"
  /\ Call(c)
  /\ UNCHANGED <<locks, stage>>

GuardedAdvance(c) ==
  /\ Advance(c)
  /\ UNCHANGED <<locks, stage>>

(* In a debug build the branch for a full queue then panics: the thread    *)
(* unwinds with both guards, though its dispatch held no flag.             *)
GuardedOverflow(c) ==
  /\ Count(c)
  /\ MoveTo(c, "unwinding")
  /\ UNCHANGED <<locks>>

(* A hook panics, and the thread unwinds.                                  *)
GuardedPanic(c) ==
  /\ Panic(c)
  /\ MoveTo(c, "unwinding")
  /\ UNCHANGED <<locks>>

(* The scope of the guards ends after no, one or several dispatches, or a  *)
(* poisoned lock was passed over.                                          *)
Leaves(c) == stage[c] = "leaving" \/ (stage[c] = "inside" /\ At(c, "idle"))

(* The context's guard is dropped, before the machine's at the end of a    *)
(* scope and when unwinding.                                               *)
DropCtx(c) ==
  /\ CtxOf(c) = c
  /\ \/ /\ Leaves(c)
        /\ MoveTo(c, IF FsmOf(c) = c THEN "leaving" ELSE "free")
        /\ UNCHANGED poisoned
     \/ /\ stage[c] = "unwinding"
        /\ poisoned' = poisoned \cup {<<"ctx", Target[c]>>}
        /\ UNCHANGED stage
  /\ GiveCtx(c)
  /\ UNCHANGED <<vars, fsmLock>>

(* The machine's guard is dropped: where the code says so, before the      *)
(* context's (tests/concurrent_tests.rs); otherwise after it.              *)
DropFsm(c) ==
  /\ FsmOf(c) = c
  /\ \/ /\ Leaves(c)
        /\ MoveTo(c, IF CtxOf(c) = c THEN "leaving" ELSE "free")
        /\ UNCHANGED poisoned
     \/ /\ stage[c] = "unwinding" /\ CtxOf(c) # c
        /\ MoveTo(c, "ended")
        /\ poisoned' = poisoned \cup {<<"fsm", Target[c]>>}
  /\ GiveFsm(c)
  /\ UNCHANGED <<vars, ctxLock>>

(* The context alone is locked to read the statistics.  It is the last     *)
(* thing a thread does, and a poisoned context leaves it nothing to do.    *)
Read(c) ==
  /\ stage[c] = "free"
  /\ CtxOf(c) = None
  /\ IF CtxPoisoned(c) THEN MoveTo(c, "ended") /\ UNCHANGED ctxLock
                       ELSE MoveTo(c, "reading") /\ TakeCtx(c)
  /\ UNCHANGED <<vars, fsmLock, poisoned>>

(* Mutant: the reader wants the machine too, in the opposite order.        *)
ReadThenWantFsm(c) ==
  /\ stage[c] = "reading"
  /\ FsmOf(c) = None
  /\ GiveCtx(c)
  /\ MoveTo(c, "ended")
  /\ UNCHANGED <<vars, fsmLock, poisoned>>

DoneReading(c) ==
  /\ stage[c] = "reading"
  /\ GiveCtx(c)
  /\ MoveTo(c, "ended")
  /\ UNCHANGED <<vars, fsmLock, poisoned>>

MutexStep(c) ==
  \/ LockCtx(c) \/ GuardedAdvance(c) \/ GuardedOverflow(c)
  \/ DropCtx(c) \/ DropFsm(c) \/ DoneReading(c)

MutexNext ==
  \E c \in Callers :
    \/ LockFsm(c) \/ GuardedCall(c) \/ GuardedPanic(c)
    \/ Read(c) \/ MutexStep(c)

MutexSpec == MutexInit /\ [][MutexNext]_mutexVars

(* Threads are scheduled, hooks return, guards go out of scope; std's      *)
(* Mutex promises no order of those that wait for it.                      *)
MutexFairness == \A c \in Callers : WF_mutexVars(MutexStep(c))
MutexFairSpec == MutexSpec /\ MutexFairness

-----------------------------------------------------------------------------
(* The mutexes and the stages agree: a context is held either behind its   *)
(* machine's mutex, or by a reader, or by a thread on its way out.         *)
LocksOK ==
  /\ fsmLock \in [Instances -> Callers \cup {None}]
  /\ ctxLock \in [Instances -> Callers \cup {None}]
  /\ poisoned \subseteq {"fsm", "ctx"} \X Instances
  /\ stage \in [Callers -> Stages]
  /\ \A c \in Callers :
       /\ stage[c] \in Outside => FsmOf(c) # c /\ CtxOf(c) # c
       /\ stage[c] = "locking" => FsmOf(c) = c /\ CtxOf(c) # c
       /\ stage[c] = "inside" => FsmOf(c) = c /\ CtxOf(c) = c
       /\ stage[c] = "leaving" => FsmOf(c) = c \/ CtxOf(c) = c
       /\ stage[c] = "unwinding" => FsmOf(c) = c
       /\ stage[c] = "reading" => FsmOf(c) # c /\ CtxOf(c) = c

(* Whoever unwinds poisons the context first and keeps the machine until   *)
(* it has; so no thread ever works on a machine that a panic left.         *)
Poisoning ==
  /\ \A i \in Instances : <<"fsm", i>> \in poisoned => <<"ctx", i>> \in poisoned
  /\ \A i \in Instances :
       <<"ctx", i>> \in poisoned =>
         \/ <<"fsm", i>> \in poisoned
         \/ \E c \in Callers : Target[c] = i /\ stage[c] = "unwinding"
  /\ \A c \in Callers :
       /\ stage[c] = "unwinding" => CtxOf(c) = c \/ CtxPoisoned(c)
       /\ stage[c] = "inside" => ~FsmPoisoned(c)

(* dispatch runs with both guards held, and at most one thread per         *)
(* instance is inside: `&mut self` and `&mut ctx` are exclusive.           *)
DispatchGuarded ==
  /\ \A c \in Callers : pc[c] # "idle" => stage[c] = "inside"
  /\ \A c, d \in Callers :
       (pc[c] # "idle" /\ pc[d] # "idle" /\ Target[c] = Target[d]) => c = d

(* Whoever is inside dispatch is alone there, however guards are taken,    *)
(* dropped and poisoned.                                                   *)
MutexInv == LocksOK /\ Poisoning /\ DispatchGuarded

(* A machine is broken once a panic has unwound through its guards.        *)
Broken(i) ==
  \/ <<"fsm", i>> \in poisoned
  \/ \E c \in Callers : Target[c] = i /\ stage[c] = "unwinding"

(* The mutex of one's own machine never leaves anything for the flag to    *)
(* do: a thread that finds it set owes that to another instance, where a   *)
(* thread is inside or which a panic broke.  In particular nobody meets    *)
(* the flag that a panic of its own machine's hooks left set.              *)
ContendedOnlyAcross ==
  \A c \in Callers :
    (At(c, "cas") /\ active) =>
      \E i \in Instances \ {Target[c]} :
        Broken(i) \/ \E d \in Callers : Target[d] = i /\ pc[d] \in Holding

(* With one instance, then, the compare_exchange never fails: no event is  *)
(* queued, none can be stranded or dropped.                                *)
NeverContended ==
  /\ queue = <<>> /\ lost = {} /\ stranded = {}
  /\ \A c \in Callers : pc[c] \notin {"push", "count"}

(* Taking the machine, then the context, cannot deadlock with the readers  *)
(* of the context: every machine is free again and again.                  *)
GuardsAreDropped == \A i \in Instances : []<>(fsmLock[i] = None)

=============================================================================
