------------------------- MODULE DropMonitorProofs -------------------------
(***************************************************************************)
(* Theorems about DropMonitor, for every number of callers and periods and *)
(* every width of the counter.                                             *)
(*                                                                         *)
(* That no increment of DROPPED_EVENTS wraps is part of the argument, not  *)
(* an assumption: as long as fewer events were refused than the counter    *)
(* has values, what is in it and what is about to be added is among them.  *)
(* For that the value read must not exceed the counter before the reset,   *)
(* nor what was reported in all.  Callers need not be finite in number:    *)
(* those about to count are, at each moment.                               *)
(***************************************************************************)
EXTENDS DropMonitor, ConcurrentDispatchProofs, FiniteSetTheorems

Uncounted == {c \in Callers : pc[c] = "count"}
Unread == IF loaded THEN dropped - seen ELSE dropped

MonitorTypes ==
  /\ IsFiniteSet(lost) /\ IsFiniteSet(Uncounted)
  /\ loaded \in BOOLEAN /\ seen \in Nat /\ reported \in Nat /\ forgotten \in Int

Balanced ==
  Cardinality(lost) < CounterSize =>
    /\ Cardinality(lost) = reported + forgotten + Unread + Cardinality(Uncounted)
    /\ forgotten >= 0
    /\ seen <= reported
    /\ loaded => seen <= dropped

(* The protocol of dispatch does not look at the counter.                  *)
ProtocolInv == IInv /\ ExactlyOnce

LEMMA ProtocolStep ==
  ProtocolInv /\ [MonitorNext]_<<vars, monitorVars>> => ProtocolInv'
<1> SUFFICES ASSUME ProtocolInv, [MonitorNext]_<<vars, monitorVars>> PROVE ProtocolInv'
  OBVIOUS
<1>1. CASE [Next]_vars
  BY <1>1, TypeStep, LockStep, EventsStep DEF ProtocolInv, IInv
<1>2. CASE ResetDroppedCount
  <2>1. /\ UNCHANGED <<active, queue, fsm, pc, event, next, calls, log, lost, aborted, stranded>>
        /\ dropped' \in 0..(CounterSize - 1)
    BY <1>2, SizeAssumption DEF ResetDroppedCount, history
  <2>2. TypeOK'
    BY <2>1 DEF ProtocolInv, IInv, TypeOK
  <2>3. LockInv'
    BY <2>1 DEF ProtocolInv, IInv, LockInv, MutualExclusion, HolderHasFlag, NoLostUpdate,
                CarriesEvent
  <2>4. ExactlyOnce'
    BY <2>1 DEF ProtocolInv, ExactlyOnce, NothingLost, NothingTwice, Issued, InHand, Queued,
                Handled
  <2> QED
    BY <2>2, <2>3, <2>4 DEF ProtocolInv, IInv
<1> QED
  BY <1>1, <1>2 DEF MonitorNext, DroppedEventsCount, monitorVars

LEMMA MonitoredProtocol == MonitorSpec => []ProtocolInv
<1>1. MonitorInit => ProtocolInv
  BY InitIInv, InitOnce DEF MonitorInit, ProtocolInv
<1> QED
  BY ProtocolStep, <1>1, PTL DEF MonitorSpec

(* The callers about to count, after a step of caller c.                   *)
LEMMA UncountedLemma ==
  ASSUME IInv, NEW c \in Callers, Call(c) \/ Advance(c) \/ Panic(c)
  PROVE  /\ PushFull(c) => Uncounted' = Uncounted \cup {c} /\ c \notin Uncounted
         /\ Count(c) => Uncounted' = Uncounted \ {c} /\ c \in Uncounted
         /\ ~PushFull(c) /\ ~Count(c) => Uncounted' = Uncounted
<1> USE DEF IInv, TypeOK, At, Goto
<1>1. \A d \in Callers \ {c} : pc'[d] = pc[d]
  BY DEF Call, Panic, Advance, Acquire, Busy, ProcessStay, ProcessTo, Exit, Entry, Finish,
         Pop, PopEmpty, Release, Push, PushFull, Count
<1>2. PushFull(c) => pc[c] = "push" /\ pc'[c] = "count"
  BY DEF PushFull
<1>3. Count(c) => pc[c] = "count" /\ pc'[c] = "idle"
  BY DEF Count
<1>4. ~PushFull(c) /\ ~Count(c) => pc[c] # "count" /\ pc'[c] # "count"
  BY DEF Call, Panic, Advance, Acquire, Busy, ProcessStay, ProcessTo, Exit, Entry, Finish,
         Pop, PopEmpty, Release, Push, Hooks
<1> QED
  BY <1>1, <1>2, <1>3, <1>4 DEF Uncounted

(* What a step of a caller does to the refused events and to the counter.  *)
LEMMA CallerStep ==
  ASSUME ProtocolInv, MonitorTypes, Balanced, UNCHANGED monitorVars,
         NEW c \in Callers, Call(c) \/ Advance(c) \/ Panic(c)
  PROVE  MonitorTypes' /\ Balanced'
<1> USE DEF monitorVars
<1>0. dropped \in Nat /\ CounterSize \in Nat /\ CounterSize > 0
  BY SizeAssumption DEF ProtocolInv, IInv, TypeOK
<1>1. Cardinality(lost) \in Nat /\ Cardinality(Uncounted) \in Nat
  BY FS_CardinalityType DEF MonitorTypes
<1>2. CASE PushFull(c)
  <2>1. lost' = lost \cup {event[c]} /\ event[c] \notin lost /\ dropped' = dropped
    <3>1. event[c] # None
      BY <1>2 DEF PushFull, At, ProtocolInv, IInv, LockInv, CarriesEvent
    <3>2. event[c] \in InHand
      BY <3>1 DEF InHand
    <3> QED
      BY <1>2, <3>2 DEF PushFull, ProtocolInv, ExactlyOnce, NothingTwice
  <2>2. Uncounted' = Uncounted \cup {c} /\ c \notin Uncounted
    BY <1>2, UncountedLemma DEF ProtocolInv
  <2>3. IsFiniteSet(lost') /\ Cardinality(lost') = Cardinality(lost) + 1
    BY <2>1, FS_AddElement DEF MonitorTypes
  <2>4. IsFiniteSet(Uncounted') /\ Cardinality(Uncounted') = Cardinality(Uncounted) + 1
    BY <2>2, FS_AddElement DEF MonitorTypes
  <2> QED
    BY <1>0, <1>1, <2>1, <2>3, <2>4 DEF MonitorTypes, Balanced, Unread
<1>3. CASE Count(c)
  <2>1. lost' = lost /\ dropped' = (dropped + 1) % CounterSize
    BY <1>3 DEF Count, history
  <2>2. Uncounted' = Uncounted \ {c} /\ c \in Uncounted
    BY <1>3, UncountedLemma DEF ProtocolInv
  <2>3. IsFiniteSet(Uncounted') /\ Cardinality(Uncounted') = Cardinality(Uncounted) - 1
    BY <2>2, FS_RemoveElement DEF MonitorTypes
  <2>4. Cardinality(Uncounted') \in Nat
    BY <2>3, FS_CardinalityType
  <2>5. Cardinality(lost) < CounterSize => dropped' = dropped + 1
    <3>1. Cardinality(lost) < CounterSize => dropped + 1 < CounterSize
      BY <1>0, <1>1, <2>3, <2>4 DEF MonitorTypes, Balanced, Unread
    <3> QED
      BY <1>0, <2>1, <3>1
  <2> QED
    BY <1>0, <1>1, <2>1, <2>3, <2>4, <2>5 DEF MonitorTypes, Balanced, Unread
<1>4. CASE ~PushFull(c) /\ ~Count(c)
  <2>1. lost' = lost /\ dropped' = dropped
    BY <1>4 DEF Call, Panic, Advance, Acquire, Busy, ProcessStay, ProcessTo, Exit, Entry, Finish,
                Pop, PopEmpty, Release, Push, history
  <2>2. Uncounted' = Uncounted
    BY <1>4, UncountedLemma DEF ProtocolInv
  <2> QED
    BY <2>1, <2>2 DEF MonitorTypes, Balanced, Unread
<1> QED
  BY <1>2, <1>3, <1>4

LEMMA BalanceStep ==
  ProtocolInv /\ MonitorTypes /\ Balanced /\ [MonitorNext]_<<vars, monitorVars>>
    => MonitorTypes' /\ Balanced'
<1> SUFFICES ASSUME ProtocolInv, MonitorTypes, Balanced, [MonitorNext]_<<vars, monitorVars>>
             PROVE  MonitorTypes' /\ Balanced'
  OBVIOUS
<1>0. dropped \in Nat
  BY SizeAssumption DEF ProtocolInv, IInv, TypeOK
<1>1. CASE Next /\ UNCHANGED monitorVars
  BY <1>1, CallerStep DEF Next
<1>2. CASE DroppedEventsCount \/ ResetDroppedCount
  <2>1. lost' = lost /\ Uncounted' = Uncounted
    BY <1>2 DEF DroppedEventsCount, ResetDroppedCount, vars, code, history, Uncounted
  <2>2. Cardinality(lost) \in Nat /\ Cardinality(Uncounted) \in Nat
    BY FS_CardinalityType DEF MonitorTypes
  <2>3. CASE DroppedEventsCount
    <3>1. dropped' = dropped
      BY <2>3 DEF DroppedEventsCount, vars, code
    <3> QED
      BY <1>0, <2>1, <2>2, <2>3, <3>1 DEF DroppedEventsCount, MonitorTypes, Balanced, Unread
  <2>4. CASE ResetDroppedCount
    <3>1. /\ loaded /\ loaded' = FALSE /\ seen' = 0 /\ reported' = reported /\ dropped' = 0
          /\ forgotten' = forgotten + (dropped - seen)
      BY <2>4 DEF ResetDroppedCount
    <3>2. MonitorTypes'
      <4>1. (loaded \in BOOLEAN)'
        BY <3>1
      <4>2. (seen \in Nat /\ reported \in Nat /\ forgotten \in Int)'
        BY <1>0, <3>1 DEF MonitorTypes
      <4> QED
        BY <2>1, <4>1, <4>2 DEF MonitorTypes
    <3>3. Balanced'
      BY <1>0, <2>1, <2>2, <3>1 DEF MonitorTypes, Balanced, Unread
    <3> QED
      BY <3>2, <3>3
  <2> QED
    BY <1>2, <2>3, <2>4
<1>3. CASE UNCHANGED <<vars, monitorVars>>
  BY <1>3 DEF vars, code, history, monitorVars, MonitorTypes, Balanced, Unread, Uncounted
<1> QED
  BY <1>1, <1>2, <1>3 DEF MonitorNext

(* No refused event is reported in two periods, and none goes missing but  *)
(* between a read of the counter and the reset that follows it; as long as *)
(* the counter has not wrapped.                                            *)
THEOREM EveryDropAccounted == MonitorSpec => []DropsAccounted
<1>1. MonitorInit => MonitorTypes /\ Balanced
  <2> SUFFICES ASSUME MonitorInit PROVE MonitorTypes /\ Balanced
    OBVIOUS
  <2>1. lost = {} /\ Uncounted = {} /\ dropped = 0
    BY DEF MonitorInit, Init, Uncounted
  <2>2. IsFiniteSet(lost) /\ Cardinality(lost) = 0
    BY <2>1, FS_EmptySet
  <2>3. IsFiniteSet(Uncounted) /\ Cardinality(Uncounted) = 0
    BY <2>1, FS_EmptySet
  <2>4. loaded \in BOOLEAN
    BY DEF MonitorInit
  <2>5. MonitorTypes
    BY <2>2, <2>3, <2>4 DEF MonitorInit, MonitorTypes
  <2>6. Balanced
    BY <2>1, <2>2, <2>3 DEF MonitorInit, Balanced, Unread
  <2> QED
    BY <2>5, <2>6
<1>2. Balanced => DropsAccounted
  BY DEF Balanced, DropsAccounted, Unread, Uncounted
<1> QED
  BY MonitoredProtocol, BalanceStep, <1>1, <1>2, PTL DEF MonitorSpec

-----------------------------------------------------------------------------
(* The monitor and the protocol of dispatch.  A reset of the counter is no *)
(* step of ConcurrentDispatch, so what is proved of that is proved again,  *)
(* with the reset a step that changes nothing but dropped.                 *)
ProtocolVars == <<active, queue, fsm, pc, event, next, calls, history>>

LEMMA MonitorCases ==
  [MonitorNext]_<<vars, monitorVars>> =>
    [Next]_vars \/ (UNCHANGED ProtocolVars /\ dropped' = 0)
BY DEF MonitorNext, DroppedEventsCount, ResetDroppedCount, monitorVars, ProtocolVars

(* However often the counter is read and reset, the flag is exclusive and  *)
(* its holder is the one inside, and no event is lost or handled twice.    *)
THEOREM MonitoredExclusion == MonitorSpec => []TypeOK /\ []LockInv /\ []ExactlyOnce
<1>1. ProtocolInv => TypeOK /\ LockInv /\ ExactlyOnce
  BY DEF ProtocolInv, IInv
<1> QED
  BY MonitoredProtocol, <1>1, PTL

(* Nor does a reset change the order in which events are handled.          *)
THEOREM MonitoredOrder == MonitorSpec => []OvertakenOnlyIfStranded
<1>1. MonitorInit => OrderInv
  BY InitOrder DEF MonitorInit
<1>2. ProtocolInv /\ OrderInv /\ [MonitorNext]_<<vars, monitorVars>> => OrderInv'
  <2>1. UNCHANGED ProtocolVars /\ OrderInv => OrderInv'
    BY DEF ProtocolVars, history, OrderInv, OwnIsLatest, FreeFlagStrands, QueueInOrder,
       PassedIsStranded, OvertakenOnlyIfStranded, InHooks, Queued, Handled
  <2> QED
    BY <2>1, MonitorCases, OrderStep DEF ProtocolInv
<1>3. OrderInv => OvertakenOnlyIfStranded
  BY DEF OrderInv
<1> QED
  BY MonitoredProtocol, <1>1, <1>2, <1>3, PTL DEF MonitorSpec

(* A reset does not revive a machine a panic stopped.                      *)
THEOREM MonitoredFailStop == MonitorSpec => FailStop
<1>1. ProtocolInv /\ [MonitorNext]_<<vars, monitorVars>> =>
        [Wedged => (Wedged' /\ UNCHANGED <<fsm, log>>)]_vars
  <2>1. UNCHANGED ProtocolVars /\ Wedged => Wedged' /\ UNCHANGED <<fsm, log>>
    BY DEF ProtocolVars, history, Wedged
  <2> QED
    BY <2>1, MonitorCases, PanicStep DEF ProtocolInv
<1> QED
  BY MonitoredProtocol, <1>1, PTL DEF MonitorSpec, FailStop

(* And no hook is run, skipped or repeated because of it.                  *)
THEOREM MonitoredLifecycle == MonitorSpec => ImplementsLifecycle
<1>1. MonitorInit => NextHeld /\ \A i \in Instances : Lifecycle(i)!InitReady
  BY InitLifecycle DEF MonitorInit
<1>2. ProtocolInv /\ NextHeld /\ [MonitorNext]_<<vars, monitorVars>> => NextHeld'
  <2>1. UNCHANGED ProtocolVars /\ NextHeld => NextHeld'
    BY DEF ProtocolVars, NextHeld
  <2> QED
    BY <2>1, MonitorCases, NextHeldStep DEF ProtocolInv
<1>3. ProtocolInv /\ ProtocolInv' /\ NextHeld /\ [MonitorNext]_<<vars, monitorVars>> =>
        [aborted' = {} => \A i \in Instances : [Lifecycle(i)!Next]_(Lifecycle(i)!vars)]_vars
  <2> SUFFICES ASSUME ProtocolInv, ProtocolInv', UNCHANGED ProtocolVars, NEW i \in Instances
               PROVE  UNCHANGED Lifecycle(i)!vars
    BY MonitorCases, HooksStep DEF ProtocolInv
  <2>1. fsm'[i] = fsm[i] /\ \A d \in Callers : InHook(i, d)' <=> InHook(i, d)
    BY DEF ProtocolVars, InHook
  <2>2. \A d \in Callers : InHook(i, d) => pc'[d] = pc[d] /\ next'[d] = next[d]
    BY DEF ProtocolVars
  <2> QED
    BY <2>1, <2>2, Unseen DEF ProtocolInv
<1> QED
  BY MonitoredProtocol, <1>1, <1>2, <1>3, PTL DEF MonitorSpec, ImplementsLifecycle
=============================================================================
