------------------------ MODULE MutexDispatchProofs ------------------------
(***************************************************************************)
(* Theorems about the threads that lock the machine, then the context,     *)
(* around dispatch: for every number of threads, instances and calls, with *)
(* hooks that panic or not.                                                *)
(***************************************************************************)
EXTENDS MutexDispatch, ConcurrentDispatchProofs

(* The locking protocol only restricts who calls dispatch when, so all that*)
(* is proved of ConcurrentDispatch holds here.                             *)
LEMMA MutexNextIsNext == MutexNext => [Next]_vars
<1> SUFFICES ASSUME NEW c \in Callers,
                    \/ LockFsm(c) \/ GuardedCall(c) \/ GuardedPanic(c)
                    \/ Read(c) \/ MutexStep(c)
             PROVE  [Next]_vars
  BY DEF MutexNext
<1>1. CASE LockFsm(c) \/ Read(c) \/ LockCtx(c) \/ DropCtx(c) \/ DropFsm(c) \/ DoneReading(c)
  BY <1>1 DEF LockFsm, Read, LockCtx, DropCtx, DropFsm, DoneReading
<1>2. CASE GuardedCall(c) \/ GuardedAdvance(c) \/ GuardedOverflow(c) \/ GuardedPanic(c)
  BY <1>2 DEF GuardedCall, GuardedAdvance, GuardedOverflow, GuardedPanic, Advance, Next
<1> QED
  BY <1>1, <1>2 DEF MutexStep

THEOREM MutexInvariance == MutexSpec => []IInv
<1>1. MutexInit => IInv
  BY InitIInv DEF MutexInit
<1>2. IInv /\ [MutexNext]_mutexVars => IInv'
  <2>1. UNCHANGED mutexVars => UNCHANGED vars
    BY DEF mutexVars
  <2> QED
    BY <2>1, MutexNextIsNext, TypeStep, LockStep DEF IInv
<1> QED
  BY <1>1, <1>2, PTL DEF MutexSpec

-----------------------------------------------------------------------------
(* Who is inside dispatch holds both guards; the guards are exclusive, and *)
(* neither poisoning nor a reader comes in between.                        *)
OnlyInside == \A c \in Callers : pc[c] # "idle" => stage[c] = "inside"

LEMMA InsideAlone == LocksOK /\ OnlyInside => DispatchGuarded
BY DEF LocksOK, OnlyInside, DispatchGuarded, FsmOf

LEMMA InitMutexInv == MutexInit => MutexInv
<1> SUFFICES ASSUME MutexInit PROVE MutexInv
  OBVIOUS
<1> USE NobodyAssumption, ShapeAssumption DEF MutexInit, Init
<1>1. LocksOK
  BY DEF LocksOK, Stages, Outside, FsmOf, CtxOf
<1>2. Poisoning
  BY DEF Poisoning
<1>3. DispatchGuarded
  BY DEF DispatchGuarded
<1> QED
  BY <1>1, <1>2, <1>3 DEF MutexInv

(* The steps of the mutexes themselves: dispatch is where it was, and only *)
(* c's instance and c's stage change.                                      *)
LockAction(c) ==
  \/ LockFsm(c) \/ LockCtx(c) \/ Read(c) \/ DoneReading(c) \/ DropCtx(c) \/ DropFsm(c)

LEMMA LockActionStep ==
  ASSUME LocksOK, Poisoning, OnlyInside, NEW c \in Callers, LockAction(c)
  PROVE  LocksOK' /\ Poisoning' /\ OnlyInside'
<1> USE NobodyAssumption, ShapeAssumption DEF LockAction, Leaves, MoveTo, TakeFsm,
      TakeCtx, GiveFsm, GiveCtx, FsmPoisoned, CtxPoisoned, FsmOf, CtxOf, At
<1>1. /\ UNCHANGED vars
      /\ \A d \in Callers \ {c} : stage'[d] = stage[d]
  BY DEF LocksOK, LockFsm, LockCtx, Read, DoneReading, DropCtx, DropFsm
<1>2. OnlyInside'
  BY <1>1 DEF OnlyInside, LocksOK, LockFsm, LockCtx, Read, DoneReading, DropCtx, DropFsm,
     vars, code
<1>3. CASE LockFsm(c)
  <2>1. LocksOK'
    BY <1>3 DEF LockFsm, LocksOK, Stages, Outside
  <2>2. Poisoning'
    BY <1>3 DEF LockFsm, LocksOK, Poisoning
  <2> QED
    BY <1>2, <2>1, <2>2
<1>4. CASE LockCtx(c)
  <2>1. LocksOK'
    BY <1>4 DEF LockCtx, LocksOK, Stages, Outside
  <2>2. Poisoning'
    BY <1>4 DEF LockCtx, LocksOK, Poisoning
  <2> QED
    BY <1>2, <2>1, <2>2
<1>5. CASE Read(c)
  <2>1. LocksOK'
    BY <1>5 DEF Read, LocksOK, Stages, Outside
  <2>2. Poisoning'
    BY <1>5 DEF Read, LocksOK, Poisoning
  <2> QED
    BY <1>2, <2>1, <2>2
<1>6. CASE DoneReading(c)
  <2>1. LocksOK'
    BY <1>6 DEF DoneReading, LocksOK, Stages, Outside
  <2>2. Poisoning'
    BY <1>6 DEF DoneReading, LocksOK, Poisoning
  <2> QED
    BY <1>2, <2>1, <2>2
<1>7. CASE DropCtx(c)
  <2>1. LocksOK'
    BY <1>7 DEF DropCtx, LocksOK, Stages, Outside
  <2>2. Poisoning'
    BY <1>7 DEF DropCtx, LocksOK, Poisoning
  <2> QED
    BY <1>2, <2>1, <2>2
<1>8. CASE DropFsm(c)
  <2>1. LocksOK'
    BY <1>8 DEF DropFsm, LocksOK, Stages, Outside
  <2>2. Poisoning'
    BY <1>8 DEF DropFsm, LocksOK, Poisoning
  <2> QED
    BY <1>2, <2>1, <2>2
<1> QED
  BY <1>3, <1>4, <1>5, <1>6, <1>7, <1>8

(* The steps of dispatch: one thread that is inside moves, or unwinds.     *)
LEMMA InsideStep ==
  ASSUME IInv, OnlyInside, NEW c \in Callers,
         GuardedCall(c) \/ GuardedAdvance(c) \/ GuardedOverflow(c) \/ GuardedPanic(c)
  PROVE  /\ stage[c] = "inside"
         /\ \A d \in Callers \ {c} : pc'[d] = pc[d]
         /\ \/ UNCHANGED stage
            \/ pc'[c] = "idle" /\ stage' = [stage EXCEPT ![c] = "unwinding"]
<1>1. CASE GuardedCall(c)
  BY <1>1 DEF GuardedCall, Call, Goto, IInv, TypeOK
<1>2. CASE GuardedAdvance(c)
  <2>1. pc[c] # "idle" /\ \A d \in Callers \ {c} : pc'[d] = pc[d]
    BY <1>2 DEF GuardedAdvance, Advance, Acquire, Busy, ProcessStay, ProcessTo, Finish,
       Exit, Entry, Pop, PopEmpty, Release, Push, PushFull, Count, At, Goto, IInv, TypeOK
  <2> QED
    BY <1>2, <2>1 DEF GuardedAdvance, OnlyInside
<1>3. CASE GuardedOverflow(c)
  BY <1>3 DEF GuardedOverflow, Count, At, Goto, MoveTo, IInv, TypeOK, OnlyInside
<1>4. CASE GuardedPanic(c)
  BY <1>4 DEF GuardedPanic, Panic, Hooks, Goto, MoveTo, IInv, TypeOK, OnlyInside
<1> QED
  BY <1>1, <1>2, <1>3, <1>4

LEMMA MutexInvStep == IInv /\ MutexInv /\ [MutexNext]_mutexVars => MutexInv'
<1> SUFFICES ASSUME IInv, LocksOK, Poisoning, OnlyInside, [MutexNext]_mutexVars
             PROVE  LocksOK' /\ Poisoning' /\ OnlyInside'
  <2>1. (LocksOK /\ OnlyInside => DispatchGuarded)'
    BY InsideAlone, PTL
  <2> QED
    BY <2>1 DEF MutexInv, DispatchGuarded, OnlyInside
<1>1. ASSUME NEW c \in Callers, LockAction(c) PROVE LocksOK' /\ Poisoning' /\ OnlyInside'
  BY <1>1, LockActionStep
<1>2. ASSUME NEW c \in Callers,
             GuardedCall(c) \/ GuardedAdvance(c) \/ GuardedOverflow(c) \/ GuardedPanic(c)
      PROVE  LocksOK' /\ Poisoning' /\ OnlyInside'
  <2>1. /\ stage[c] = "inside"
        /\ \A d \in Callers \ {c} : pc'[d] = pc[d]
        /\ \/ UNCHANGED stage
           \/ pc'[c] = "idle" /\ stage' = [stage EXCEPT ![c] = "unwinding"]
    BY <1>2, InsideStep
  <2>2. UNCHANGED locks
    BY <1>2 DEF GuardedCall, GuardedAdvance, GuardedOverflow, GuardedPanic
  <2>3. LocksOK'
    BY <2>1, <2>2 DEF locks, LocksOK, Stages, Outside, FsmOf, CtxOf
  <2>4. Poisoning'
    BY <2>1, <2>2 DEF locks, LocksOK, Poisoning, FsmOf, CtxOf, FsmPoisoned, CtxPoisoned
  <2>5. OnlyInside'
    BY <2>1 DEF OnlyInside, LocksOK
  <2> QED
    BY <2>3, <2>4, <2>5
<1>3. ASSUME UNCHANGED mutexVars PROVE LocksOK' /\ Poisoning' /\ OnlyInside'
  BY <1>3 DEF mutexVars, locks, vars, code, LocksOK, Poisoning, OnlyInside, FsmOf, CtxOf,
     FsmPoisoned, CtxPoisoned
<1> QED
  BY <1>1, <1>2, <1>3 DEF MutexNext, MutexStep, LockAction

(* At most one thread per instance is inside dispatch, and only with both  *)
(* guards; no thread works on a machine that a panic left half-changed;    *)
(* however guards are taken, dropped and poisoned.                         *)
THEOREM MutexExclusion == MutexSpec => []MutexInv
BY MutexInvariance, InitMutexInv, MutexInvStep, PTL DEF MutexSpec

-----------------------------------------------------------------------------
(* Who has set the flag: a thread that is inside, or one whose panic broke *)
(* its machine, which stays broken.                                        *)
FlagOwner ==
  active => \/ \E d \in Callers : pc[d] \in Holding
            \/ \E i \in Instances : Broken(i)

LEMMA BrokenStays ==
  ASSUME IInv, MutexInv, MutexNext, NEW i \in Instances, Broken(i)
  PROVE  Broken(i)'
<1>1. PICK c \in Callers : \/ LockAction(c) \/ GuardedCall(c) \/ GuardedAdvance(c)
                           \/ GuardedOverflow(c) \/ GuardedPanic(c)
  BY DEF MutexNext, MutexStep, LockAction
<1>2. CASE LockAction(c)
  BY <1>2 DEF LockAction, LockFsm, LockCtx, Read, DoneReading, DropCtx, DropFsm, Leaves,
     MoveTo, Broken, MutexInv, LocksOK
<1>3. CASE GuardedCall(c) \/ GuardedAdvance(c) \/ GuardedOverflow(c) \/ GuardedPanic(c)
  <2>1. OnlyInside
    BY DEF MutexInv, DispatchGuarded, OnlyInside
  <2>2. \A d \in Callers : stage[d] = "unwinding" => stage'[d] = "unwinding"
    BY <1>3, <2>1, InsideStep DEF MutexInv, LocksOK
  <2>3. poisoned' = poisoned
    BY <1>3 DEF GuardedCall, GuardedAdvance, GuardedOverflow, GuardedPanic, locks
  <2> QED
    BY <2>2, <2>3 DEF Broken
<1> QED
  BY <1>1, <1>2, <1>3

LEMMA FlagOwnerStep == IInv /\ MutexInv /\ FlagOwner /\ [MutexNext]_mutexVars => FlagOwner'
<1> SUFFICES ASSUME IInv, MutexInv, FlagOwner, [MutexNext]_mutexVars, active'
             PROVE  (\E d \in Callers : pc'[d] \in Holding) \/ \E i \in Instances : Broken(i)'
  BY DEF FlagOwner
<1>1. CASE UNCHANGED mutexVars
  BY <1>1 DEF mutexVars, locks, vars, code, FlagOwner, Broken
<1>2. CASE MutexNext /\ \E i \in Instances : Broken(i)
  BY <1>2, BrokenStays
<1>3. CASE MutexNext /\ ~ \E i \in Instances : Broken(i)
  <2>1. PICK c \in Callers : \/ LockAction(c) \/ GuardedCall(c) \/ GuardedAdvance(c)
                             \/ GuardedOverflow(c) \/ GuardedPanic(c)
    BY <1>3 DEF MutexNext, MutexStep, LockAction
  <2>2. active => \E d \in Callers : pc[d] \in Holding
    BY <1>3 DEF FlagOwner
  <2>3. CASE LockAction(c)
    BY <2>2, <2>3 DEF LockAction, LockFsm, LockCtx, Read, DoneReading, DropCtx, DropFsm,
       vars, code
  <2>4. CASE GuardedCall(c)
    BY <2>2, <2>4 DEF GuardedCall, Call, At, Goto, IInv, TypeOK, Holding, Draining, Hooks
  <2>5. CASE GuardedAdvance(c)
    BY <2>2, <2>5 DEF GuardedAdvance, Advance, Acquire, Busy, ProcessStay, ProcessTo, Finish,
       Exit, Entry, Pop, PopEmpty, Release, Push, PushFull, Count, At, Goto, IInv, TypeOK,
       Holding, Draining, Hooks
  <2>6. CASE GuardedOverflow(c) \/ GuardedPanic(c)
    <3>1. stage'[c] = "unwinding" /\ Target[c] \in Instances
      BY <2>6, ShapeAssumption DEF GuardedOverflow, GuardedPanic, MoveTo, MutexInv, LocksOK
    <3> QED
      BY <3>1 DEF Broken
  <2> QED
    BY <2>1, <2>3, <2>4, <2>5, <2>6
<1> QED
  BY <1>1, <1>2, <1>3

LEMMA AcrossLemma == IInv /\ MutexInv /\ FlagOwner => ContendedOnlyAcross
<1> SUFFICES ASSUME IInv, MutexInv, FlagOwner, NEW c \in Callers, At(c, "cas"), active
             PROVE  \E i \in Instances \ {Target[c]} :
                      Broken(i) \/ \E d \in Callers : Target[d] = i /\ pc[d] \in Holding
  BY DEF ContendedOnlyAcross
<1>1. stage[c] = "inside"
  BY DEF At, MutexInv, DispatchGuarded
<1>2. CASE \E d \in Callers : pc[d] \in Holding
  <2>1. PICK d \in Callers : pc[d] \in Holding
    BY <1>2
  <2>2. Target[d] # Target[c]
    BY <2>1 DEF At, MutexInv, DispatchGuarded, Holding, Draining, Hooks
  <2> QED
    BY <2>1, <2>2, ShapeAssumption
<1>3. CASE \E i \in Instances : Broken(i)
  <2>1. PICK i \in Instances : Broken(i)
    BY <1>3
  <2>2. i # Target[c]
    BY <1>1, <2>1 DEF Broken, MutexInv, Poisoning, LocksOK, FsmOf, FsmPoisoned
  <2> QED
    BY <2>1, <2>2
<1> QED
  BY <1>2, <1>3 DEF FlagOwner

(* A thread behind the mutex of its machine finds the flag set only by     *)
(* another instance of the enum, never by its own machine, and never meets *)
(* the flag that a panic of its own machine left set.                      *)
THEOREM OwnMachineNeverBusy == MutexSpec => [](FlagOwner /\ ContendedOnlyAcross)
<1>1. MutexInit => FlagOwner
  BY DEF MutexInit, Init, FlagOwner
<1> QED
  BY <1>1, MutexInvariance, MutexExclusion, FlagOwnerStep, AcrossLemma, PTL DEF MutexSpec

-----------------------------------------------------------------------------
(* One instance of the enum, as in the examples.                           *)
OneMachine == \A i, j \in Instances : i = j

LEMMA NeverContendedStep ==
  ASSUME IInv, NeverContended, ContendedOnlyAcross, OneMachine, [MutexNext]_mutexVars
  PROVE  NeverContended'
<1>1. CASE UNCHANGED vars
  BY <1>1 DEF NeverContended, vars, code, history
<1>2. ASSUME NEW c \in Callers, Call(c) PROVE NeverContended'
  BY <1>2 DEF Call, Goto, NeverContended, IInv, TypeOK, history
<1>3. ASSUME NEW c \in Callers, Panic(c) PROVE NeverContended'
  BY <1>3 DEF Panic, Goto, NeverContended, IInv, TypeOK
<1>4. ASSUME NEW c \in Callers, Advance(c) PROVE NeverContended'
  <2>1. ~Busy(c)
    BY ShapeAssumption DEF Busy, ContendedOnlyAcross, OneMachine
  <2>2. ~Push(c) /\ ~PushFull(c) /\ ~Count(c) /\ ~Pop(c)
    BY DEF Push, PushFull, Count, Pop, At, NeverContended
  <2>3. UNCHANGED <<queue, lost>>
    BY <1>4, <2>1, <2>2 DEF Advance, Acquire, ProcessStay, ProcessTo, Finish, Exit, Entry,
       PopEmpty, Release, history
  <2>4. stranded' = {}
    <3>1. Queued = {}
      BY DEF NeverContended, Queued, Range
    <3> QED
      BY <1>4, <2>1, <2>2, <3>1 DEF Advance, Acquire, ProcessStay, ProcessTo, Exit, Entry,
         PopEmpty, Release, history, NeverContended
  <2>5. pc'[c] \notin {"push", "count"} /\ \A d \in Callers \ {c} : pc'[d] = pc[d]
    BY <1>4, <2>1, <2>2 DEF Advance, Acquire, ProcessStay, ProcessTo, Finish, Exit, Entry,
       PopEmpty, Release, Goto, IInv, TypeOK
  <2> QED
    BY <2>3, <2>4, <2>5 DEF NeverContended
<1>5. [Next]_vars
  BY MutexNextIsNext DEF mutexVars
<1> QED
  BY <1>1, <1>2, <1>3, <1>4, <1>5 DEF Next

(* Behind the mutex of the one machine no event is ever queued, stranded or*)
(* refused: the machinery for a busy dispatch is never used.               *)
THEOREM MutexKeepsQueueEmpty == OneMachine => (MutexSpec => []NeverContended)
<1> SUFFICES ASSUME OneMachine PROVE MutexSpec => []NeverContended
  OBVIOUS
<1>1. MutexInit => NeverContended
  BY DEF MutexInit, Init, NeverContended
<1>2. IInv /\ NeverContended /\ ContendedOnlyAcross /\ [MutexNext]_mutexVars
        => NeverContended'
  BY NeverContendedStep
<1> QED
  BY MutexInvariance, OwnMachineNeverBusy, <1>1, <1>2, PTL DEF MutexSpec

-----------------------------------------------------------------------------
(* Threads behind mutexes are callers of dispatch like any other: each of  *)
(* their steps is one of ConcurrentDispatch, or invisible to it.           *)
THEOREM MutexRefinesDispatch == MutexSpec => Spec
<1>1. MutexInit => Init
  BY DEF MutexInit
<1>2. [MutexNext]_mutexVars => [Next]_vars
  <2>1. UNCHANGED mutexVars => UNCHANGED vars
    BY DEF mutexVars
  <2> QED
    BY <2>1, MutexNextIsNext
<1> QED
  BY <1>1, <1>2, PTL DEF MutexSpec, Spec

(* So what is promised of dispatch is promised of the examples' threads:   *)
(* every event accounted for once, a caller's events in their order, the   *)
(* macro's sequence of hooks, and no hook after one that panicked.         *)
THEOREM MutexKeepsDispatch ==
  MutexSpec => /\ []ExactlyOnce /\ []OvertakenOnlyIfStranded
               /\ ImplementsSerial /\ ImplementsLifecycle /\ FailStop
BY MutexRefinesDispatch, NoEventLostOrRepeated, HandledInOrder, SerialRefinement,
   LifecycleRefinement, PanicStops
=============================================================================
