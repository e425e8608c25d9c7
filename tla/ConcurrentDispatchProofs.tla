---------------------- MODULE ConcurrentDispatchProofs ----------------------
(***************************************************************************)
(* Theorems about ConcurrentDispatch, for every number of callers,         *)
(* instances, variants and events and every queue capacity.                *)
(*                                                                         *)
(* TypeOK alone is not inductive: that `*self = new_state` stores a        *)
(* variant needs NoLostUpdate, which needs mutual exclusion, which needs   *)
(* that whoever is inside holds the flag.  IInv is their conjunction.      *)
(*                                                                         *)
(* In turn: types and exclusion, what becomes of each event, the serial    *)
(* machine the callers see, panics, the order of events, and the order of  *)
(* the hooks of each instance.                                             *)
(***************************************************************************)
EXTENDS ConcurrentDispatch, TLAPS

IInv == TypeOK /\ LockInv

LEMMA InitIInv == Init => IInv
<1> SUFFICES ASSUME Init PROVE IInv
  OBVIOUS
<1> USE DEF Init
<1>1. TypeOK
  <2>1. fsm \in [Instances -> States]
    BY ShapeAssumption
  <2>2. 0 \in 0..(CounterSize - 1) /\ 0 \in 0..MaxCalls
    BY SizeAssumption
  <2>3. "idle" \in Steps
    BY DEF Steps
  <2>4. queue \in Seq(Event) /\ log \in Seq(Event)
    OBVIOUS
  <2>5. /\ pc \in [Callers -> Steps]
        /\ event \in [Callers -> Event \cup {None}]
        /\ next \in [Callers -> States \cup {None}]
        /\ calls \in [Callers -> 0..MaxCalls]
    BY <2>2, <2>3
  <2> QED
    BY <2>1, <2>2, <2>4, <2>5 DEF TypeOK
<1>2. LockInv
  BY DEF LockInv, MutualExclusion, HolderHasFlag, NoLostUpdate, CarriesEvent,
         Holding, Draining, Hooks
<1> QED
  BY <1>1, <1>2 DEF IInv

LEMMA TypeStep == IInv /\ [Next]_vars => TypeOK'
<1> SUFFICES ASSUME IInv, [Next]_vars PROVE TypeOK'
  OBVIOUS
<1> USE ShapeAssumption, SizeAssumption
    DEF IInv, TypeOK, At, Goto, Steps, Holding, Draining, Hooks, history
<1>1. ASSUME NEW c \in Callers, Call(c) PROVE TypeOK'
  <2>1. calls[c] + 1 \in 1..MaxCalls
    BY <1>1 DEF Call
  <2>2. [from |-> c, num |-> calls[c] + 1] \in Event
    BY <2>1 DEF Event
  <2> QED
    BY <1>1, <2>1, <2>2 DEF Call
<1>2. ASSUME NEW c \in Callers, Acquire(c) PROVE TypeOK'
  BY <1>2 DEF Acquire
<1>3. ASSUME NEW c \in Callers, Busy(c) PROVE TypeOK'
  BY <1>3 DEF Busy
<1>4. ASSUME NEW c \in Callers, ProcessStay(c) PROVE TypeOK'
  <2>1. event[c] \in Event
    BY <1>4 DEF ProcessStay, LockInv, CarriesEvent
  <2> QED
    BY <1>4, <2>1 DEF ProcessStay, Finish
<1>5. ASSUME NEW c \in Callers, NEW s \in States, ProcessTo(c, s) PROVE TypeOK'
  BY <1>5 DEF ProcessTo
<1>6. ASSUME NEW c \in Callers, Exit(c) PROVE TypeOK'
  BY <1>6 DEF Exit
<1>7. ASSUME NEW c \in Callers, Entry(c) PROVE TypeOK'
  <2>1. event[c] \in Event
    BY <1>7 DEF Entry, LockInv, CarriesEvent
  <2>2. next[c] \in States
    BY <1>7 DEF Entry, LockInv, NoLostUpdate
  <2> QED
    BY <1>7, <2>1, <2>2 DEF Entry, Finish
<1>8. ASSUME NEW c \in Callers, Pop(c) PROVE TypeOK'
  <2>1. Head(queue) \in Event /\ Tail(queue) \in Seq(Event)
    BY <1>8 DEF Pop
  <2> QED
    BY <1>8, <2>1 DEF Pop
<1>9. ASSUME NEW c \in Callers, PopEmpty(c) PROVE TypeOK'
  BY <1>9 DEF PopEmpty
<1>10. ASSUME NEW c \in Callers, Release(c) PROVE TypeOK'
  <2>1. Queued \in SUBSET Event
    BY DEF Queued, Range
  <2> QED
    BY <1>10, <2>1 DEF Release
<1>11. ASSUME NEW c \in Callers, Push(c) PROVE TypeOK'
  <2>1. event[c] \in Event
    BY <1>11 DEF Push, LockInv, CarriesEvent
  <2> QED
    BY <1>11, <2>1 DEF Push
<1>12. ASSUME NEW c \in Callers, PushFull(c) PROVE TypeOK'
  <2>1. event[c] \in Event
    BY <1>12 DEF PushFull, LockInv, CarriesEvent
  <2> QED
    BY <1>12, <2>1 DEF PushFull
<1>13. ASSUME NEW c \in Callers, Count(c) PROVE TypeOK'
  <2>1. (dropped + 1) % CounterSize \in 0..(CounterSize - 1)
    OBVIOUS
  <2> QED
    BY <1>13, <2>1 DEF Count
<1>14. ASSUME NEW c \in Callers, Panic(c) PROVE TypeOK'
  <2>1. event[c] \in Event
    BY <1>14 DEF Panic, LockInv, CarriesEvent
  <2> QED
    BY <1>14, <2>1 DEF Panic
<1>15. ASSUME UNCHANGED vars PROVE TypeOK'
  BY <1>15 DEF vars, code
<1> QED
  BY <1>1, <1>2, <1>3, <1>4, <1>5, <1>6, <1>7, <1>8, <1>9, <1>10, <1>11,
     <1>12, <1>13, <1>14, <1>15 DEF Next, Advance

(* Each action moves the pc of its own caller: the conjuncts of LockInv    *)
(* survive because no other caller is inside when one enters or updates.   *)
LEMMA LockStep == IInv /\ [Next]_vars => LockInv'
<1> SUFFICES ASSUME IInv, [Next]_vars PROVE LockInv'
  OBVIOUS
<1> USE ShapeAssumption, NoneAssumption
    DEF IInv, TypeOK, LockInv, MutualExclusion, HolderHasFlag, NoLostUpdate,
        CarriesEvent, At, Goto, Steps, Holding, Draining, Hooks, history
<1>1. ASSUME NEW c \in Callers, Call(c) PROVE LockInv'
  <2>1. [from |-> c, num |-> calls[c] + 1] \in Event
    BY <1>1, SizeAssumption DEF Call, Event
  <2> QED
    BY <1>1, <2>1 DEF Call
<1>2. ASSUME NEW c \in Callers, Acquire(c) PROVE LockInv'
  BY <1>2 DEF Acquire
<1>3. ASSUME NEW c \in Callers, Busy(c) PROVE LockInv'
  BY <1>3 DEF Busy
<1>4. ASSUME NEW c \in Callers, ProcessStay(c) PROVE LockInv'
  <2>1. \A d \in Callers \ {c} : pc'[d] = pc[d] /\ event'[d] = event[d]
    BY <1>4 DEF ProcessStay, Finish
  <2>2. pc'[c] = "pop" /\ event'[c] = None
    BY <1>4 DEF ProcessStay, Finish
  <2>3. active' = active /\ fsm' = fsm /\ next' = next
    BY <1>4 DEF ProcessStay
  <2>4. CarriesEvent'
    BY <2>1, <2>2
  <2>5. NoLostUpdate'
    BY <2>1, <2>2, <2>3
  <2>6. MutualExclusion' /\ HolderHasFlag'
    BY <1>4, <2>1, <2>2, <2>3 DEF ProcessStay
  <2> QED
    BY <2>4, <2>5, <2>6
<1>5. ASSUME NEW c \in Callers, NEW s \in States, ProcessTo(c, s) PROVE LockInv'
  <2>1. \A d \in Callers \ {c} : pc'[d] = pc[d] /\ next'[d] = next[d]
    BY <1>5 DEF ProcessTo
  <2>2. pc'[c] = "exit" /\ next'[c] = s /\ <<fsm[Target[c]], s>> \in Moves
    BY <1>5 DEF ProcessTo
  <2>3. active' = active /\ fsm' = fsm /\ event' = event /\ pc[c] = "process"
    BY <1>5 DEF ProcessTo
  <2>4. NoLostUpdate'
    BY <2>1, <2>2, <2>3
  <2>5. CarriesEvent'
    BY <2>1, <2>2, <2>3
  <2>6. MutualExclusion' /\ HolderHasFlag'
    BY <2>1, <2>2, <2>3
  <2> QED
    BY <2>4, <2>5, <2>6
<1>6. ASSUME NEW c \in Callers, Exit(c) PROVE LockInv'
  BY <1>6 DEF Exit
<1>7. ASSUME NEW c \in Callers, Entry(c) PROVE LockInv'
  <2>1. \A d \in Callers \ {c} : pc[d] \notin Holding
    BY <1>7 DEF Entry
  <2>2. \A d \in Callers \ {c} : pc'[d] = pc[d] /\ event'[d] = event[d]
    BY <1>7 DEF Entry, Finish
  <2>3. pc'[c] = "pop" /\ event'[c] = None /\ active' = active
    BY <1>7 DEF Entry, Finish
  <2>4. pc'[c] \notin {"exit", "entry"} /\ \A d \in Callers \ {c} : pc'[d] \notin {"exit", "entry"}
    BY <2>1, <2>2, <2>3
  <2>5. NoLostUpdate'
    BY <2>4
  <2>6. MutualExclusion' /\ HolderHasFlag'
    BY <1>7, <2>1, <2>2, <2>3 DEF Entry
  <2>7. CarriesEvent'
    BY <2>2, <2>3
  <2> QED
    BY <2>5, <2>6, <2>7
<1>8. ASSUME NEW c \in Callers, Pop(c) PROVE LockInv'
  <2>1. Head(queue) \in Event
    BY <1>8 DEF Pop
  <2> QED
    BY <1>8, <2>1 DEF Pop
<1>9. ASSUME NEW c \in Callers, PopEmpty(c) PROVE LockInv'
  BY <1>9 DEF PopEmpty
<1>10. ASSUME NEW c \in Callers, Release(c) PROVE LockInv'
  BY <1>10 DEF Release
<1>11. ASSUME NEW c \in Callers, Push(c) PROVE LockInv'
  BY <1>11 DEF Push
<1>12. ASSUME NEW c \in Callers, PushFull(c) PROVE LockInv'
  BY <1>12 DEF PushFull
<1>13. ASSUME NEW c \in Callers, Count(c) PROVE LockInv'
  BY <1>13 DEF Count
<1>14. ASSUME NEW c \in Callers, Panic(c) PROVE LockInv'
  BY <1>14 DEF Panic
<1>15. ASSUME UNCHANGED vars PROVE LockInv'
  BY <1>15 DEF vars, code
<1> QED
  BY <1>1, <1>2, <1>3, <1>4, <1>5, <1>6, <1>7, <1>8, <1>9, <1>10, <1>11,
     <1>12, <1>13, <1>14, <1>15 DEF Next, Advance

(* The invariant holds in every reachable state.                           *)
THEOREM Invariance == Spec => []IInv
<1>1. IInv /\ [Next]_vars => IInv'
  BY TypeStep, LockStep DEF IInv
<1> QED
  BY InitIInv, <1>1, PTL DEF Spec

(* Every variable keeps its type: in particular the variant stored by the  *)
(* update is one of the machine's, and events never leak out of a frame.   *)
THEOREM TypeCorrect == Spec => []TypeOK
<1>1. IInv => TypeOK
  BY DEF IInv
<1> QED
  BY Invariance, <1>1, PTL

(* No two callers run hooks at the same time, and no update is lost.       *)
THEOREM Exclusion == Spec => []LockInv
<1>1. IInv => LockInv
  BY DEF IInv
<1> QED
  BY Invariance, <1>1, PTL

-----------------------------------------------------------------------------
(* Appending to a sequence, and taking its head off, as sets of elements.  *)
LEMMA AppendLemma ==
  ASSUME NEW S, NEW s \in Seq(S), NEW e \in S
  PROVE  /\ Range(Append(s, e)) = Range(s) \cup {e}
         /\ (IsInjective(s) /\ e \notin Range(s)) => IsInjective(Append(s, e))
<1> DEFINE t == Append(s, e)
<1>1. /\ DOMAIN t = DOMAIN s \cup {Len(s) + 1}
      /\ t[Len(s) + 1] = e
      /\ \A i \in DOMAIN s : t[i] = s[i]
      /\ Len(s) + 1 \notin DOMAIN s
  OBVIOUS
<1> HIDE DEF t
<1>2. Range(t) = Range(s) \cup {e}
  BY <1>1 DEF Range
<1>3. ASSUME IsInjective(s), e \notin Range(s) PROVE IsInjective(t)
  BY <1>1, <1>3 DEF Range, IsInjective
<1> QED
  BY <1>2, <1>3 DEF t

LEMMA TailLemma ==
  ASSUME NEW S, NEW s \in Seq(S), s # <<>>
  PROVE  /\ Range(s) = {Head(s)} \cup Range(Tail(s))
         /\ IsInjective(s) => IsInjective(Tail(s)) /\ Head(s) \notin Range(Tail(s))
<1> DEFINE t == Tail(s)
<1>1. /\ Head(s) = s[1] /\ 1 \in DOMAIN s
      /\ \A i \in DOMAIN t : t[i] = s[i + 1] /\ i + 1 \in DOMAIN s /\ i + 1 # 1 /\ i \in Int
      /\ \A j \in DOMAIN s : j # 1 => j - 1 \in DOMAIN t /\ t[j - 1] = s[j]
  OBVIOUS
<1> HIDE DEF t
<1>2. Range(s) = {Head(s)} \cup Range(t)
  <2>1. ASSUME NEW j \in DOMAIN s PROVE s[j] \in {Head(s)} \cup Range(t)
    BY <1>1, <2>1 DEF Range
  <2>2. ASSUME NEW i \in DOMAIN t PROVE t[i] \in Range(s)
    BY <1>1, <2>2 DEF Range
  <2>3. Head(s) \in Range(s)
    BY <1>1 DEF Range
  <2> QED
    BY <2>1, <2>2, <2>3 DEF Range
<1>3. ASSUME IsInjective(s) PROVE IsInjective(t) /\ Head(s) \notin Range(t)
  <2>1. ASSUME NEW i \in DOMAIN t, NEW j \in DOMAIN t, t[i] = t[j] PROVE i = j
    <3>1. s[i + 1] = s[j + 1] /\ i + 1 \in DOMAIN s /\ j + 1 \in DOMAIN s
      BY <1>1, <2>1
    <3>2. i + 1 = j + 1
      BY <1>3, <3>1 DEF IsInjective
    <3> QED
      BY <1>1, <3>2
  <2>2. ASSUME NEW i \in DOMAIN t, t[i] = Head(s) PROVE FALSE
    <3>1. s[i + 1] = s[1] /\ i + 1 \in DOMAIN s /\ 1 \in DOMAIN s
      BY <1>1, <2>2
    <3> QED
      BY <1>1, <1>3, <3>1 DEF IsInjective
  <2> QED
    BY <2>1, <2>2 DEF IsInjective, Range
<1> QED
  BY <1>2, <1>3 DEF t

(* A caller takes an event into its hand, or gives it away.                *)
LEMMA TakeLemma ==
  ASSUME IInv, NothingTwice, NEW c \in Callers, NEW e \in Event,
         event[c] = None, e \notin InHand,
         event' = [event EXCEPT ![c] = e]
  PROVE  /\ InHand' = InHand \cup {e}
         /\ \A d, f \in Callers : event'[d] = event'[f] => d = f \/ event'[d] = None
<1> USE NoneAssumption DEF IInv, TypeOK, InHand
<1>1. event'[c] = e /\ \A d \in Callers \ {c} : event'[d] = event[d]
  OBVIOUS
<1>2. \A d \in Callers : event[d] # e
  OBVIOUS
<1> QED
  BY <1>1, <1>2 DEF NothingTwice

LEMMA GiveLemma ==
  ASSUME IInv, NothingTwice, NEW c \in Callers, event[c] # None,
         event' = [event EXCEPT ![c] = None]
  PROVE  /\ InHand' = InHand \ {event[c]}
         /\ event[c] \in InHand /\ event[c] \in Event
         /\ \A d, f \in Callers : event'[d] = event'[f] => d = f \/ event'[d] = None
<1> USE DEF IInv, TypeOK, InHand
<1>1. event'[c] = None /\ \A d \in Callers \ {c} : event'[d] = event[d]
  OBVIOUS
<1>2. \A d \in Callers \ {c} : event[d] # event[c]
  BY DEF NothingTwice
<1>3. event[c] \in InHand /\ event[c] \in Event
  OBVIOUS
<1>4. InHand' = InHand \ {event[c]}
  BY <1>1, <1>2
<1> QED
  BY <1>1, <1>3, <1>4 DEF NothingTwice

(* Caller c enters dispatch with event e, which was nowhere before: its    *)
(* number is beyond those issued.                                          *)
Fresh(c, e) ==
  /\ e \notin InHand \cup Queued \cup Handled \cup lost \cup aborted
  /\ InHand' = InHand \cup {e}
  /\ Issued' = Issued \cup {e}
  /\ \A d, f \in Callers : event'[d] = event'[f] => d = f \/ event'[d] = None

LEMMA FreshLemma ==
  ASSUME IInv, ExactlyOnce, NEW c \in Callers, Call(c)
  PROVE  \E e \in Event : Fresh(c, e)
<1> DEFINE e == [from |-> c, num |-> calls[c] + 1]
<1>1. e \in Event
  BY SizeAssumption DEF Call, Event, IInv, TypeOK
<1>2. Issued' = Issued \cup {e} /\ e \notin Issued
  <2>1. calls'[c] = calls[c] + 1 /\ \A d \in Callers \ {c} : calls'[d] = calls[d]
    BY DEF Call, IInv, TypeOK
  <2>2. calls \in [Callers -> Int] /\ calls[c] \in Int
    BY DEF IInv, TypeOK
  <2>3. ASSUME NEW f \in Event PROVE f.num \in Int /\ f.from \in Callers
    BY DEF Event
  <2>4. ASSUME NEW f \in Event PROVE f = e <=> f.from = c /\ f.num = calls[c] + 1
    BY <2>2 DEF Event
  <2>5. ASSUME NEW f \in Event
        PROVE f.num <= calls'[f.from] <=> f.num <= calls[f.from] \/ f = e
    <3>1. CASE f.from = c
      BY <2>1, <2>2, <2>3, <2>4, <3>1
    <3>2. CASE f.from # c
      BY <2>1, <2>3, <2>4, <3>2
    <3> QED
      BY <3>1, <3>2
  <2>6. e \notin Issued
    BY <2>2 DEF Issued
  <2> HIDE DEF e
  <2> QED
    BY <1>1, <2>5, <2>6 DEF Issued
<1>3. event[c] = None /\ event' = [event EXCEPT ![c] = e]
  BY DEF Call, At, IInv, LockInv, CarriesEvent, Hooks
<1> HIDE DEF e
<1>4. e \notin InHand \cup Queued \cup Handled \cup lost \cup aborted
  BY <1>2 DEF ExactlyOnce, NothingLost
<1>5. /\ InHand' = InHand \cup {e}
      /\ \A d, f \in Callers : event'[d] = event'[f] => d = f \/ event'[d] = None
  BY <1>1, <1>3, <1>4, TakeLemma DEF ExactlyOnce
<1> QED
  BY <1>1, <1>2, <1>4, <1>5 DEF Fresh

LEMMA InitOnce == Init => ExactlyOnce
BY SizeAssumption DEF Init, ExactlyOnce, NothingLost, NothingTwice, InHand, Queued,
   Handled, Issued, Event, Range, IsInjective

(* Each step moves at most one event from one place to another.            *)
LEMMA EventsStep == IInv /\ ExactlyOnce /\ [Next]_vars => ExactlyOnce'
<1> SUFFICES ASSUME IInv, NothingLost, NothingTwice, [Next]_vars PROVE ExactlyOnce'
  BY DEF ExactlyOnce
<1> USE DEF ExactlyOnce
<1>0. queue \in Seq(Event) /\ log \in Seq(Event)
  BY DEF IInv, TypeOK
<1>1. ASSUME NEW c \in Callers, Call(c) PROVE ExactlyOnce'
  <2>1. PICK e \in Event : Fresh(c, e)
    BY <1>1, FreshLemma DEF ExactlyOnce
  <2>2. UNCHANGED <<queue, log, lost, aborted>>
    BY <1>1 DEF Call, history
  <2> QED
    BY <2>1, <2>2 DEF Fresh, NothingLost, NothingTwice, Queued, Handled
<1>2. ASSUME UNCHANGED <<event, queue, log, lost, aborted, calls>> PROVE ExactlyOnce'
  BY <1>2 DEF NothingLost, NothingTwice, Queued, Handled, InHand, Issued
<1>3. ASSUME NEW c \in Callers, event[c] # None, Finish(c),
             UNCHANGED <<queue, lost, aborted, calls>>
      PROVE  ExactlyOnce'
  <2>1. /\ InHand' = InHand \ {event[c]}
        /\ event[c] \in InHand /\ event[c] \in Event
        /\ \A d, f \in Callers : event'[d] = event'[f] => d = f \/ event'[d] = None
    BY <1>3, GiveLemma DEF Finish
  <2>2. event[c] \notin Handled
    BY <2>1 DEF NothingTwice
  <2>3. Handled' = Handled \cup {event[c]} /\ IsInjective(log)'
    BY <1>0, <1>3, <2>1, <2>2, AppendLemma DEF Finish, Handled, NothingTwice
  <2>4. Queued' = Queued /\ Issued' = Issued
    BY <1>3 DEF Queued, Issued
  <2> QED
    BY <1>3, <2>1, <2>3, <2>4 DEF NothingLost, NothingTwice
<1>4. ASSUME NEW c \in Callers, Pop(c) PROVE ExactlyOnce'
  <2>1. /\ Range(queue) = {Head(queue)} \cup Range(Tail(queue))
        /\ IsInjective(Tail(queue)) /\ Head(queue) \notin Range(Tail(queue))
        /\ Head(queue) \in Event
    BY <1>0, <1>4, TailLemma DEF Pop, NothingTwice
  <2>2. event[c] = None /\ event' = [event EXCEPT ![c] = Head(queue)]
    BY <1>4 DEF Pop, At, IInv, LockInv, CarriesEvent, Hooks
  <2>3. Queued = Queued' \cup {Head(queue)} /\ Head(queue) \notin Queued'
    BY <1>4, <2>1 DEF Pop, Queued
  <2>4. Head(queue) \notin InHand
    BY <2>3 DEF NothingTwice
  <2>5. /\ InHand' = InHand \cup {Head(queue)}
        /\ \A d, f \in Callers : event'[d] = event'[f] => d = f \/ event'[d] = None
    BY <2>1, <2>2, <2>4, TakeLemma
  <2>6. /\ IsInjective(queue)' /\ UNCHANGED <<log, lost, aborted>>
        /\ Handled' = Handled /\ Issued' = Issued
    BY <1>4, <2>1 DEF Pop, history, Handled, Issued
  <2> QED
    BY <2>3, <2>5, <2>6 DEF NothingLost, NothingTwice
<1>5. ASSUME NEW c \in Callers, Push(c) PROVE ExactlyOnce'
  <2>1. event[c] # None
    BY <1>5 DEF Push, At, IInv, LockInv, CarriesEvent
  <2>2. /\ InHand' = InHand \ {event[c]}
        /\ event[c] \in InHand /\ event[c] \in Event
        /\ \A d, f \in Callers : event'[d] = event'[f] => d = f \/ event'[d] = None
    BY <1>5, <2>1, GiveLemma DEF Push
  <2>3. event[c] \notin Queued
    BY <2>2 DEF NothingTwice
  <2>4. Queued' = Queued \cup {event[c]} /\ IsInjective(queue)'
    BY <1>0, <1>5, <2>2, <2>3, AppendLemma DEF Push, Queued, NothingTwice
  <2>5. UNCHANGED <<log, lost, aborted>> /\ Handled' = Handled /\ Issued' = Issued
    BY <1>5 DEF Push, Handled, Issued
  <2> QED
    BY <2>2, <2>4, <2>5 DEF NothingLost, NothingTwice
<1>6. ASSUME NEW c \in Callers, event[c] # None,
             event' = [event EXCEPT ![c] = None],
             UNCHANGED <<queue, log, calls>>,
             \/ lost' = lost \cup {event[c]} /\ aborted' = aborted
             \/ aborted' = aborted \cup {event[c]} /\ lost' = lost
      PROVE  ExactlyOnce'
  <2>1. /\ InHand' = InHand \ {event[c]}
        /\ event[c] \in InHand
        /\ \A d, f \in Callers : event'[d] = event'[f] => d = f \/ event'[d] = None
    BY <1>6, GiveLemma
  <2>2. Queued' = Queued /\ Handled' = Handled /\ Issued' = Issued
    BY <1>6 DEF Queued, Handled, Issued
  <2>3. IsInjective(queue)' /\ IsInjective(log)'
    BY <1>6 DEF NothingTwice
  <2> QED
    BY <1>6, <2>1, <2>2, <2>3 DEF NothingLost, NothingTwice
<1>7. ASSUME NEW c \in Callers, ProcessStay(c) \/ Entry(c) PROVE ExactlyOnce'
  <2>1. event[c] # None
    BY <1>7 DEF ProcessStay, Entry, At, IInv, LockInv, CarriesEvent, Hooks
  <2> QED
    BY <1>3, <1>7, <2>1 DEF ProcessStay, Entry
<1>8. ASSUME NEW c \in Callers, PushFull(c) \/ Panic(c) PROVE ExactlyOnce'
  <2>1. event[c] # None
    BY <1>8 DEF PushFull, Panic, At, IInv, LockInv, CarriesEvent
  <2> QED
    BY <1>6, <1>8, <2>1 DEF PushFull, Panic
<1>9. ASSUME NEW c \in Callers,
             \/ Acquire(c) \/ Busy(c) \/ (\E s \in States : ProcessTo(c, s))
             \/ Exit(c) \/ PopEmpty(c) \/ Release(c) \/ Count(c)
      PROVE  ExactlyOnce'
  BY <1>2, <1>9 DEF Acquire, Busy, ProcessTo, Exit, PopEmpty, Release, Count, history
<1>10. ASSUME UNCHANGED vars PROVE ExactlyOnce'
  BY <1>2, <1>10 DEF vars, code, history
<1> QED
  BY <1>1, <1>4, <1>5, <1>7, <1>8, <1>9, <1>10 DEF Next, Advance

(* No event vanishes between the callers, the queue and the log, and none  *)
(* is handled twice, whatever the interleaving of pushes, pops, releases   *)
(* and panics.                                                             *)
THEOREM NoEventLostOrRepeated == Spec => []ExactlyOnce
  BY Invariance, InitOnce, EventsStep, PTL DEF Spec

-----------------------------------------------------------------------------
(* What SerialMachine sees of each step.                                   *)
LEMMA SerialStep ==
  IInv /\ ExactlyOnce /\ [Next]_vars => [Serial!Next]_(Serial!vars)
<1> SUFFICES ASSUME IInv, ExactlyOnce, [Next]_vars
             PROVE  Serial!Next \/ UNCHANGED Serial!vars
  OBVIOUS
<1>0. queue \in Seq(Event)
  BY DEF IInv, TypeOK
<1>1. ASSUME NEW c \in Callers, Call(c) PROVE Serial!Next
  <2>1. PICK e \in Event : Fresh(c, e)
    BY <1>1, FreshLemma
  <2>2. UNCHANGED <<fsm, queue, log, lost, aborted>>
    BY <1>1 DEF Call, history
  <2>3. Serial!Submit(e)
    BY <2>1, <2>2 DEF Fresh, Serial!Submit, Serial!Range, Range, Pending, Queued, Handled
  <2> QED
    BY <2>3 DEF Serial!Next
<1>2. ASSUME UNCHANGED <<fsm, event, queue, log, lost, aborted>>
      PROVE  UNCHANGED Serial!vars
  BY <1>2 DEF Serial!vars, Pending, InHand, Queued
<1>3. ASSUME NEW c \in Callers, Finish(c), event[c] # None,
             UNCHANGED <<queue, lost, aborted>>,
             NEW s \in States, s = fsm[Target[c]] \/ <<fsm[Target[c]], s>> \in Moves,
             fsm' = [fsm EXCEPT ![Target[c]] = s]
      PROVE  Serial!Next
  <2>1. InHand' = InHand \ {event[c]} /\ event[c] \in InHand /\ event[c] \in Event
    BY <1>3, GiveLemma DEF Finish, ExactlyOnce
  <2>2. event[c] \notin Queued /\ Queued' = Queued
    BY <1>3, <2>1 DEF ExactlyOnce, NothingTwice, Queued
  <2>3. Pending' = Pending \ {event[c]} /\ event[c] \in Pending
    BY <2>1, <2>2 DEF Pending
  <2>4. Serial!Handle(event[c], Target[c])
    BY <1>3, <2>3 DEF Serial!Handle, Finish
  <2> QED
    BY <2>1, <2>4, ShapeAssumption DEF Serial!Next
<1>4. ASSUME NEW c \in Callers, ProcessStay(c) PROVE Serial!Next
  <2>1. event[c] # None
    BY <1>4 DEF ProcessStay, At, IInv, LockInv, CarriesEvent, Hooks
  <2>2. fsm[Target[c]] \in States /\ fsm' = [fsm EXCEPT ![Target[c]] = fsm[Target[c]]]
    BY <1>4, ShapeAssumption DEF ProcessStay, IInv, TypeOK
  <2> QED
    BY <1>3, <1>4, <2>1, <2>2 DEF ProcessStay
<1>5. ASSUME NEW c \in Callers, Entry(c) PROVE Serial!Next
  <2>1. event[c] # None
    BY <1>5 DEF Entry, At, IInv, LockInv, CarriesEvent, Hooks
  <2>2. <<fsm[Target[c]], next[c]>> \in Moves /\ next[c] \in States
    BY <1>5, ShapeAssumption DEF Entry, At, IInv, LockInv, NoLostUpdate
  <2> QED
    BY <1>3, <1>5, <2>1, <2>2 DEF Entry
<1>6. ASSUME NEW c \in Callers, Pop(c) PROVE UNCHANGED Serial!vars
  <2>1. Queued = Queued' \cup {Head(queue)} /\ Head(queue) \in Event
    BY <1>0, <1>6, TailLemma DEF Pop, Queued
  <2>2. event[c] = None /\ event' = [event EXCEPT ![c] = Head(queue)]
    BY <1>6 DEF Pop, At, IInv, LockInv, CarriesEvent, Hooks
  <2>3. Head(queue) \notin InHand
    BY <2>1 DEF ExactlyOnce, NothingTwice
  <2>4. InHand' = InHand \cup {Head(queue)}
    BY <2>1, <2>2, <2>3, TakeLemma DEF ExactlyOnce
  <2>5. Pending' = Pending
    BY <2>1, <2>4 DEF Pending
  <2> QED
    BY <1>6, <2>5 DEF Pop, history, Serial!vars
<1>7. ASSUME NEW c \in Callers, Push(c) PROVE UNCHANGED Serial!vars
  <2>1. event[c] # None
    BY <1>7 DEF Push, At, IInv, LockInv, CarriesEvent
  <2>2. InHand' = InHand \ {event[c]} /\ event[c] \in InHand /\ event[c] \in Event
    BY <1>7, <2>1, GiveLemma DEF Push, ExactlyOnce
  <2>3. Queued' = Queued \cup {event[c]}
    BY <1>0, <1>7, <2>2, AppendLemma DEF Push, Queued
  <2>4. Pending' = Pending
    BY <2>2, <2>3 DEF Pending
  <2> QED
    BY <1>7, <2>4 DEF Push, Serial!vars
<1>8. ASSUME NEW c \in Callers, PushFull(c) \/ Panic(c) PROVE Serial!Next
  <2>1. event[c] # None /\ event' = [event EXCEPT ![c] = None]
    BY <1>8 DEF PushFull, Panic, At, IInv, LockInv, CarriesEvent
  <2>2. InHand' = InHand \ {event[c]} /\ event[c] \in InHand /\ event[c] \in Event
    BY <2>1, GiveLemma DEF ExactlyOnce
  <2>3. event[c] \notin Queued /\ Queued' = Queued
    BY <1>8, <2>2 DEF PushFull, Panic, ExactlyOnce, NothingTwice, Queued
  <2>4. Pending' = Pending \ {event[c]} /\ event[c] \in Pending
    BY <2>2, <2>3 DEF Pending
  <2>5. (lost \cup aborted)' = lost \cup aborted \cup {event[c]}
    BY <1>8 DEF PushFull, Panic
  <2>6. fsm' = fsm /\ log' = log
    BY <1>8 DEF PushFull, Panic
  <2>7. Serial!Discard(event[c])
    BY <2>4, <2>5, <2>6 DEF Serial!Discard
  <2> QED
    BY <2>2, <2>7 DEF Serial!Next
<1>9. ASSUME NEW c \in Callers,
             \/ Acquire(c) \/ Busy(c) \/ (\E s \in States : ProcessTo(c, s))
             \/ Exit(c) \/ PopEmpty(c) \/ Release(c) \/ Count(c)
      PROVE  UNCHANGED Serial!vars
  BY <1>2, <1>9 DEF Acquire, Busy, ProcessTo, Exit, PopEmpty, Release, Count, history
<1>10. ASSUME UNCHANGED vars PROVE UNCHANGED Serial!vars
  BY <1>2, <1>10 DEF vars, code, history
<1> QED
  BY <1>1, <1>4, <1>5, <1>6, <1>7, <1>8, <1>9, <1>10 DEF Next, Advance

(* The concurrent arm keeps the promise of SerialMachine: Call submits, the *)
(* end of a transition handles, a full queue and a panic discard, and every *)
(* other step is invisible.                                                *)
THEOREM SerialRefinement == Spec => ImplementsSerial
<1>1. Init => Serial!Init
  <2> SUFFICES ASSUME Init PROVE Serial!Init
    OBVIOUS
  <2>1. fsm \in [Instances -> States]
    BY ShapeAssumption DEF Init
  <2>2. Pending = {}
    BY DEF Init, Pending, InHand, Queued, Range
  <2> QED
    BY <2>1, <2>2 DEF Init, Serial!Init
<1> QED
  BY Invariance, NoEventLostOrRepeated, SerialStep, <1>1, PTL
  DEF Spec, ImplementsSerial, Serial!Spec

-----------------------------------------------------------------------------
(* A flag that is set with nobody inside stays set: only compare_exchange  *)
(* leads inside, and it fails.                                             *)
LEMMA PanicStep ==
  IInv /\ [Next]_vars => [Wedged => (Wedged' /\ UNCHANGED <<fsm, log>>)]_vars
<1> SUFFICES ASSUME IInv, Next, Wedged
             PROVE  Wedged' /\ UNCHANGED <<fsm, log>>
  OBVIOUS
<1> USE DEF IInv, TypeOK, Wedged, At, Goto, Holding, Draining, Hooks, history
<1>1. ASSUME NEW c \in Callers, Call(c)
      PROVE  Wedged' /\ UNCHANGED <<fsm, log>>
  BY <1>1 DEF Call
<1>2. ASSUME NEW c \in Callers, Busy(c) \/ Push(c) \/ PushFull(c) \/ Count(c)
      PROVE  Wedged' /\ UNCHANGED <<fsm, log>>
  BY <1>2 DEF Busy, Push, PushFull, Count
<1>3. ASSUME NEW c \in Callers PROVE ~Acquire(c)
  BY DEF Acquire
<1>4. ASSUME NEW c \in Callers
      PROVE  /\ ~ProcessStay(c) /\ (\A s \in States : ~ProcessTo(c, s))
             /\ ~Exit(c) /\ ~Entry(c) /\ ~Panic(c)
             /\ ~Pop(c) /\ ~PopEmpty(c) /\ ~Release(c)
  BY DEF ProcessStay, ProcessTo, Exit, Entry, Panic, Pop, PopEmpty, Release
<1> QED
  BY <1>1, <1>2, <1>3, <1>4 DEF Next, Advance

(* So a panic of a hook stops the machine.                                 *)
THEOREM PanicStops == Spec => FailStop
BY Invariance, PanicStep, PTL DEF Spec, FailStop
-----------------------------------------------------------------------------
(* The order in which events are handled.  The holder appends to the log   *)
(* what it has taken from its own call or from the head of the queue, so   *)
(* the order is that of the way from the queue through the hooks to there. *)

(* Caller e.from submitted e before f.                                     *)
Older(e, f) == e.from = f.from /\ e.num < f.num

(* The event the holder is handling.                                       *)
InHooks == {event[c] : c \in {d \in Callers : pc[d] \in Hooks}}

(* A caller that has not given its event away yet has submitted nothing    *)
(* since.                                                                  *)
OwnIsLatest ==
  \A c \in Callers :
    pc[c] \in {"cas", "push"} => event[c].from = c /\ event[c].num = calls[c]

(* What is queued while the flag is free is stranded.                      *)
FreeFlagStrands == ~active => Queued \subseteq stranded

(* The queue keeps the order of a caller's events.                         *)
QueueInOrder == \A i, j \in 1..Len(queue) : i < j => ~Older(queue[j], queue[i])

(* An event that a later one of its caller has passed, on the way from the *)
(* queue through the hooks into the log, was stranded.                     *)
PassedIsStranded ==
  /\ \A e \in Queued, f \in InHooks \cup Handled : Older(e, f) => e \in stranded
  /\ \A e \in InHooks, f \in Handled : Older(e, f) => e \in stranded

OrderInv ==
  OwnIsLatest /\ FreeFlagStrands /\ QueueInOrder /\ PassedIsStranded /\ OvertakenOnlyIfStranded

(* No event that is anywhere is later than the latest of its caller.       *)
LEMMA IssuedLemma ==
  ASSUME IInv, ExactlyOnce, OrderInv,
         NEW c \in Callers, pc[c] \in {"cas", "push"},
         NEW f \in InHand \cup Queued \cup Handled
  PROVE  ~Older(event[c], f)
<1>1. f \in Issued
  BY DEF ExactlyOnce, NothingLost
<1>2. f \in Event /\ f.num <= calls[f.from]
  BY <1>1 DEF Issued
<1>3. event[c].from = c /\ event[c].num = calls[c] /\ calls[c] \in Nat
  BY DEF OrderInv, OwnIsLatest, IInv, TypeOK
<1>4. f.num \in Nat
  BY <1>2 DEF Event
<1> QED
  BY <1>2, <1>3, <1>4 DEF Older

(* A step that moves no event between hooks, queue and log.                *)
LEMMA SameOrder ==
  ASSUME OrderInv, OwnIsLatest', FreeFlagStrands',
         UNCHANGED <<queue, log>>, InHooks' \subseteq InHooks,
         stranded \subseteq stranded'
  PROVE  OrderInv'
<1>1. Queued' = Queued /\ Handled' = Handled
  BY DEF Queued, Handled
<1>2. QueueInOrder'
  BY DEF OrderInv, QueueInOrder
<1>3. PassedIsStranded'
  BY <1>1 DEF OrderInv, PassedIsStranded
<1>4. OvertakenOnlyIfStranded'
  BY DEF OrderInv, OvertakenOnlyIfStranded
<1> QED
  BY <1>2, <1>3, <1>4 DEF OrderInv

(* The steps that move no event but into or out of a hand that is not in   *)
(* hooks, and the panic of a hook.                                         *)
LEMMA QuietStep ==
  ASSUME IInv, OrderInv, NEW c \in Callers,
         \/ Call(c) \/ Busy(c) \/ (\E s \in States : ProcessTo(c, s)) \/ Exit(c)
         \/ PopEmpty(c) \/ Release(c) \/ PushFull(c) \/ Count(c) \/ Panic(c)
  PROVE  OrderInv'
<1> USE DEF IInv, TypeOK, At, Goto, history
<1>1. UNCHANGED <<queue, log>> /\ stranded \subseteq stranded'
  BY DEF Call, Busy, ProcessTo, Exit, PopEmpty, Release, PushFull, Count, Panic
<1>2. \A d \in Callers \ {c} : pc'[d] = pc[d] /\ event'[d] = event[d] /\ calls'[d] = calls[d]
  BY DEF Call, Busy, ProcessTo, Exit, PopEmpty, Release, PushFull, Count, Panic
<1>3. OwnIsLatest'
  <2>1. CASE Call(c)
    <3>1. event'[c] = [from |-> c, num |-> calls[c] + 1] /\ calls'[c] = calls[c] + 1
      BY <2>1 DEF Call, LockInv
    <3>2. event'[c].from = c /\ event'[c].num = calls'[c]
      BY <3>1
    <3> QED
      BY <1>2, <3>2 DEF OrderInv, OwnIsLatest
  <2>2. CASE Busy(c)
    BY <1>2, <2>2 DEF Busy, OrderInv, OwnIsLatest
  <2>3. CASE \/ (\E s \in States : ProcessTo(c, s)) \/ Exit(c) \/ PopEmpty(c) \/ Release(c)
             \/ PushFull(c) \/ Count(c) \/ Panic(c)
    <3>1. pc'[c] \notin {"cas", "push"}
      BY <2>3 DEF ProcessTo, Exit, PopEmpty, Release, PushFull, Count, Panic
    <3> QED
      BY <1>2, <3>1 DEF OrderInv, OwnIsLatest
  <2> QED
    BY <2>1, <2>2, <2>3
<1>4. FreeFlagStrands'
  <2>1. CASE Release(c)
    BY <2>1 DEF Release, FreeFlagStrands, Queued
  <2>2. CASE ~Release(c)
    <3>1. active' = active /\ stranded' = stranded
      BY <2>2 DEF Call, Busy, ProcessTo, Exit, PopEmpty, PushFull, Count, Panic
    <3> QED
      BY <1>1, <3>1 DEF OrderInv, FreeFlagStrands, Queued
  <2> QED
    BY <2>1, <2>2
<1>5. InHooks' \subseteq InHooks
  <2>1. pc'[c] \in Hooks => pc[c] \in Hooks /\ event'[c] = event[c]
    BY DEF Call, Busy, ProcessTo, Exit, PopEmpty, Release, PushFull, Count, Panic, Hooks
  <2>2. \A d \in Callers : pc'[d] \in Hooks => pc[d] \in Hooks /\ event'[d] = event[d]
    BY <1>2, <2>1
  <2> QED
    BY <2>2 DEF InHooks
<1> QED
  BY <1>1, <1>3, <1>4, <1>5, SameOrder

(* The caller that takes the flag handles its own event, which is later    *)
(* than what it may pass; and what it passes is stranded.                  *)
LEMMA AcquireStep ==
  ASSUME IInv, ExactlyOnce, OrderInv, NEW c \in Callers, Acquire(c)
  PROVE  OrderInv'
<1> USE DEF IInv, TypeOK, At, Goto, history
<1>1. /\ UNCHANGED <<queue, log, event, calls, stranded>> /\ ~active /\ active'
      /\ pc[c] = "cas" /\ pc'[c] = "process" /\ \A d \in Callers \ {c} : pc'[d] = pc[d]
  BY DEF Acquire
<1>2. Queued' = Queued /\ Handled' = Handled /\ Queued \subseteq stranded
  BY <1>1 DEF Queued, Handled, OrderInv, FreeFlagStrands
<1>3. OwnIsLatest' /\ FreeFlagStrands'
  BY <1>1 DEF OrderInv, OwnIsLatest, FreeFlagStrands
<1>4. InHooks' \subseteq InHooks \cup {event[c]}
  BY <1>1 DEF InHooks
<1>5. \A f \in Handled : ~Older(event[c], f)
  BY <1>1, IssuedLemma
<1>6. PassedIsStranded'
  BY <1>1, <1>2, <1>4, <1>5 DEF OrderInv, PassedIsStranded
<1>7. QueueInOrder' /\ OvertakenOnlyIfStranded'
  BY <1>1 DEF OrderInv, QueueInOrder, OvertakenOnlyIfStranded
<1> QED
  BY <1>3, <1>6, <1>7 DEF OrderInv

(* What is pushed is later than all its caller submitted before.           *)
LEMMA PushStep ==
  ASSUME IInv, ExactlyOnce, OrderInv, NEW c \in Callers, Push(c)
  PROVE  OrderInv'
<1> USE DEF IInv, TypeOK, At, Goto, history
<1>1. /\ queue' = Append(queue, event[c]) /\ UNCHANGED <<log, calls, active>>
      /\ stranded' = IF active THEN stranded ELSE stranded \cup {event[c]}
      /\ pc[c] = "push" /\ pc'[c] = "idle"
      /\ \A d \in Callers \ {c} : pc'[d] = pc[d] /\ event'[d] = event[d]
  BY DEF Push
<1>2. event[c] \in Event
  BY <1>1 DEF LockInv, CarriesEvent
<1>3. Queued' = Queued \cup {event[c]} /\ Handled' = Handled
  BY <1>1, <1>2, AppendLemma DEF Queued, Handled
<1>4. \A f \in InHand \cup Queued \cup Handled : ~Older(event[c], f)
  BY <1>1, IssuedLemma
<1>5. InHooks' \subseteq InHooks /\ InHooks \subseteq InHand
  <2>1. \A d \in Callers : pc'[d] \in Hooks => d # c
    BY <1>1 DEF Hooks
  <2>2. InHooks' \subseteq InHooks
    BY <1>1, <2>1 DEF InHooks
  <2>3. \A d \in Callers : pc[d] \in Hooks => event[d] # None
    BY DEF LockInv, CarriesEvent
  <2> QED
    BY <2>2, <2>3 DEF InHooks, InHand
<1>6. OwnIsLatest' /\ FreeFlagStrands'
  BY <1>1, <1>3 DEF OrderInv, OwnIsLatest, FreeFlagStrands
<1>7. QueueInOrder'
  <2>1. /\ Len(queue') = Len(queue) + 1 /\ Len(queue) \in Nat
        /\ \A i \in 1..Len(queue) : queue'[i] = queue[i] /\ queue[i] \in Queued
        /\ queue'[Len(queue) + 1] = event[c]
    BY <1>1, <1>2 DEF Queued, Range
  <2>2. ASSUME NEW i \in 1..Len(queue'), NEW j \in 1..Len(queue'), i < j
        PROVE  ~Older(queue'[j], queue'[i])
    <3>1. i \in 1..Len(queue)
      BY <2>1, <2>2
    <3>2. CASE j \in 1..Len(queue)
      BY <2>1, <2>2, <3>1, <3>2 DEF OrderInv, QueueInOrder
    <3>3. CASE j = Len(queue) + 1
      BY <1>4, <2>1, <3>1, <3>3
    <3> QED
      BY <2>1, <3>2, <3>3
  <2> QED
    BY <2>2 DEF QueueInOrder
<1>8. PassedIsStranded'
  BY <1>1, <1>3, <1>4, <1>5 DEF OrderInv, PassedIsStranded
<1>9. OvertakenOnlyIfStranded'
  BY <1>1 DEF OrderInv, OvertakenOnlyIfStranded
<1> QED
  BY <1>6, <1>7, <1>8, <1>9 DEF OrderInv

(* The head of the queue is not later than anything behind it.             *)
LEMMA PopStep ==
  ASSUME IInv, ExactlyOnce, OrderInv, NEW c \in Callers, Pop(c)
  PROVE  OrderInv'
<1> USE DEF IInv, TypeOK, At, Goto, history
<1> DEFINE e == Head(queue)
<1>1. /\ queue # <<>> /\ queue' = Tail(queue) /\ event' = [event EXCEPT ![c] = e]
      /\ UNCHANGED <<log, calls, active, stranded>>
      /\ pc[c] = "pop" /\ pc'[c] = "process"
      /\ \A d \in Callers \ {c} : pc'[d] = pc[d] /\ event'[d] = event[d]
  BY DEF Pop
<1>2. Queued = {e} \cup Queued' /\ e \in Queued /\ Handled' = Handled
  BY <1>1, TailLemma DEF Queued, Handled
<1>3. /\ Len(queue) \in Nat /\ e = queue[1] /\ 1 \in 1..Len(queue)
      /\ Len(queue') = Len(queue) - 1
      /\ \A i \in 1..Len(queue') : queue'[i] = queue[i + 1] /\ i + 1 \in 1..Len(queue)
  BY <1>1
<1>4. \A f \in Queued' : ~Older(f, e)
  <2>1. Queued' = {queue'[i] : i \in 1..Len(queue')}
    <3>1. queue' \in Seq(Event)
      BY <1>1
    <3> HIDE DEF IInv, TypeOK
    <3> QED
      BY <3>1 DEF Queued, Range
  <2>2. ASSUME NEW i \in 1..Len(queue') PROVE ~Older(queue'[i], e)
    <3>1. 1 < i + 1
      BY <1>3
    <3> QED
      BY <1>3, <2>2, <3>1 DEF OrderInv, QueueInOrder
  <2> QED
    BY <2>1, <2>2
<1>5. InHooks' \subseteq InHooks \cup {e}
  <2>1. event'[c] = e
    BY <1>1
  <2> HIDE DEF e
  <2> QED
    BY <1>1, <2>1 DEF InHooks
<1>6. QueueInOrder'
  <2>1. ASSUME NEW i \in 1..Len(queue'), NEW j \in 1..Len(queue'), i < j
        PROVE  ~Older(queue'[j], queue'[i])
    <3>1. i + 1 < j + 1
      BY <1>3, <2>1
    <3> QED
      BY <1>3, <2>1, <3>1 DEF OrderInv, QueueInOrder
  <2> QED
    BY <2>1 DEF QueueInOrder
<1> HIDE DEF e
<1>7. OwnIsLatest' /\ FreeFlagStrands'
  BY <1>1, <1>2 DEF OrderInv, OwnIsLatest, FreeFlagStrands
<1>8. PassedIsStranded'
  BY <1>1, <1>2, <1>4, <1>5 DEF OrderInv, PassedIsStranded
<1>9. OvertakenOnlyIfStranded'
  BY <1>1 DEF OrderInv, OvertakenOnlyIfStranded
<1> QED
  BY <1>6, <1>7, <1>8, <1>9 DEF OrderInv

(* What is logged was in the hooks, and leaves them empty.                 *)
LEMMA FinishStep ==
  ASSUME IInv, OrderInv, NEW c \in Callers, ProcessStay(c) \/ Entry(c)
  PROVE  OrderInv'
<1> USE DEF IInv, TypeOK, At, Goto, history
<1>1. /\ log' = Append(log, event[c]) /\ UNCHANGED <<queue, calls, active, stranded>>
      /\ pc[c] \in Hooks /\ pc'[c] = "pop"
      /\ \A d \in Callers \ {c} : pc'[d] = pc[d] /\ event'[d] = event[d]
  BY DEF ProcessStay, Entry, Finish, Hooks
<1>2. event[c] \in Event /\ event[c] \in InHooks
  BY <1>1 DEF LockInv, CarriesEvent, InHooks
<1>3. Queued' = Queued /\ Handled' = Handled \cup {event[c]}
  BY <1>1, <1>2, AppendLemma DEF Queued, Handled
<1>4. InHooks' = {}
  <2>1. \A d \in Callers : pc'[d] \notin Hooks
    BY <1>1 DEF LockInv, MutualExclusion, Holding, Draining, Hooks
  <2> QED
    BY <2>1 DEF InHooks
<1>5. OwnIsLatest' /\ FreeFlagStrands'
  BY <1>1, <1>3 DEF OrderInv, OwnIsLatest, FreeFlagStrands
<1>6. QueueInOrder'
  BY <1>1 DEF OrderInv, QueueInOrder
<1>7. PassedIsStranded'
  BY <1>1, <1>2, <1>3, <1>4 DEF OrderInv, PassedIsStranded
<1>8. OvertakenOnlyIfStranded'
  <2>1. /\ Len(log') = Len(log) + 1 /\ Len(log) \in Nat
        /\ \A i \in 1..Len(log) : log'[i] = log[i] /\ log[i] \in Handled
        /\ log'[Len(log) + 1] = event[c]
    BY <1>1, <1>2 DEF Handled, Range
  <2>2. ASSUME NEW j \in 1..Len(log'), NEW i \in 1..(j - 1),
               log'[i].from = log'[j].from, log'[i].num > log'[j].num
        PROVE  log'[j] \in stranded'
    <3>1. i \in 1..Len(log) /\ log'[i] = log[i]
      BY <2>1, <2>2
    <3>2. CASE j \in 1..Len(log)
      BY <1>1, <2>1, <2>2, <3>1, <3>2 DEF OrderInv, OvertakenOnlyIfStranded
    <3>3. CASE j = Len(log) + 1
      <4>1. log[i] \in Handled /\ log[i] \in Event
        BY <2>1, <3>1
      <4>2. Older(event[c], log[i])
        BY <1>2, <2>1, <2>2, <3>1, <3>3, <4>1 DEF Older, Event
      <4> QED
        BY <1>1, <1>2, <2>1, <3>3, <4>1, <4>2 DEF OrderInv, PassedIsStranded
    <3> QED
      BY <2>1, <3>2, <3>3
  <2> QED
    BY <2>2 DEF OvertakenOnlyIfStranded
<1> QED
  BY <1>5, <1>6, <1>7, <1>8 DEF OrderInv

LEMMA OrderStep == IInv /\ ExactlyOnce /\ OrderInv /\ [Next]_vars => OrderInv'
<1> SUFFICES ASSUME IInv, ExactlyOnce, OrderInv, [Next]_vars PROVE OrderInv'
  OBVIOUS
<1>1. CASE UNCHANGED vars
  BY <1>1 DEF vars, code, history, OrderInv, OwnIsLatest, FreeFlagStrands, QueueInOrder,
     PassedIsStranded, OvertakenOnlyIfStranded, InHooks, Queued, Handled
<1> QED
  BY <1>1, QuietStep, AcquireStep, PushStep, PopStep, FinishStep DEF Next, Advance

LEMMA InitOrder == Init => OrderInv
BY DEF Init, OrderInv, OwnIsLatest, FreeFlagStrands, QueueInOrder, PassedIsStranded,
       OvertakenOnlyIfStranded, InHooks, Queued, Handled, Range, Hooks

(* Two events of one caller are handled in the order it submitted them,    *)
(* unless the earlier one was in the queue while the flag was free.        *)
THEOREM HandledInOrder == Spec => []OvertakenOnlyIfStranded
<1>1. OrderInv => OvertakenOnlyIfStranded
  BY DEF OrderInv
<1> QED
  BY Invariance, NoEventLostOrRepeated, InitOrder, OrderStep, <1>1, PTL DEF Spec

-----------------------------------------------------------------------------
(* Mutual exclusion makes the caller in the hooks of an instance the one   *)
(* that Phase and NewOf choose; the same of the next state.                *)
LEMMA SeenInHook ==
  ASSUME IInv, NEW i \in Instances, NEW c \in Callers, InHook(i, c)
  PROVE  Phase(i) = pc[c] /\ NewOf(i) = next[c]
<1>1. \A d \in Callers : InHook(i, d) => d = c
  BY DEF IInv, LockInv, MutualExclusion, InHook, Holding, Draining
<1>2. (CHOOSE d \in Callers : InHook(i, d)) = c
  BY <1>1
<1> QED
  BY <1>2 DEF Phase, NewOf

LEMMA SeenInHookNext ==
  ASSUME IInv', NEW i \in Instances, NEW c \in Callers, InHook(i, c)'
  PROVE  Phase(i)' = pc'[c] /\ NewOf(i)' = next'[c]
<1>1. \A d \in Callers : InHook(i, d)' => d = c
  BY DEF IInv, LockInv, MutualExclusion, InHook, Holding, Draining
<1>2. (CHOOSE d \in Callers : InHook(i, d)') = c
  BY <1>1
<1> QED
  BY <1>2 DEF Phase, NewOf

(* A step that moves nobody into, through or out of the hooks of i.        *)
LEMMA Unseen ==
  ASSUME IInv, IInv', NEW i \in Instances, fsm'[i] = fsm[i],
         \A d \in Callers : InHook(i, d)' <=> InHook(i, d),
         \A d \in Callers : InHook(i, d) => pc'[d] = pc[d] /\ next'[d] = next[d]
  PROVE  UNCHANGED Lifecycle(i)!vars
<1>1. Phase(i)' = Phase(i) /\ NewOf(i)' = NewOf(i)
  <2>1. CASE \E d \in Callers : InHook(i, d)
    BY <2>1, SeenInHook, SeenInHookNext
  <2>2. CASE ~\E d \in Callers : InHook(i, d)
    BY <2>2 DEF Phase, NewOf
  <2> QED
    BY <2>1, <2>2
<1> QED
  BY <1>1 DEF Lifecycle!vars, InsideOf

(* new_state lives from on_process to the update, and a panic drops it.    *)
NextHeld == \A c \in Callers : next[c] # None => pc[c] \in {"exit", "entry"}

LEMMA NextHeldStep == IInv /\ NextHeld /\ [Next]_vars => NextHeld'
<1> SUFFICES ASSUME IInv, NextHeld, [Next]_vars PROVE NextHeld'
  OBVIOUS
<1> USE DEF IInv, TypeOK, NextHeld, At, Goto, Hooks, history
<1>1. ASSUME NEW c \in Callers, Call(c) \/ Advance(c) \/ Panic(c) PROVE NextHeld'
  <2>1. \A d \in Callers \ {c} : pc'[d] = pc[d] /\ next'[d] = next[d]
    BY <1>1 DEF Call, Panic, Advance, Acquire, Busy, ProcessStay, ProcessTo, Exit, Entry, Finish,
                Pop, PopEmpty, Release, Push, PushFull, Count
  <2>2. next'[c] # None => pc'[c] \in {"exit", "entry"}
    BY <1>1 DEF Call, Panic, Advance, Acquire, Busy, ProcessStay, ProcessTo, Exit, Entry, Finish,
                Pop, PopEmpty, Release, Push, PushFull, Count
  <2> QED
    BY <2>1, <2>2
<1>2. CASE UNCHANGED vars
  BY <1>2 DEF vars, code
<1> QED
  BY <1>1, <1>2 DEF Next

(* What the sequential arm's FsmLifecycle sees of a step, on instance i:   *)
(* taking the flag or popping an event is its Dispatch.                    *)
LEMMA LifecycleStep ==
  ASSUME IInv, IInv', NextHeld, NEW c \in Callers, Call(c) \/ Advance(c),
         NEW i \in Instances
  PROVE  Lifecycle(i)!Next \/ UNCHANGED Lifecycle(i)!vars
<1> USE DEF At, Goto, history
<1>0. /\ pc \in [Callers -> Steps] /\ next \in [Callers -> States \cup {None}]
      /\ fsm \in [Instances -> States] /\ Target[c] \in Instances
  BY ShapeAssumption DEF IInv, TypeOK
<1>1. /\ \A d \in Callers \ {c} : pc'[d] = pc[d] /\ next'[d] = next[d]
      /\ \A j \in Instances \ {Target[c]} : fsm'[j] = fsm[j]
  BY <1>0 DEF Call, Advance, Acquire, Busy, ProcessStay, ProcessTo, Exit, Entry, Finish, Pop, PopEmpty,
         Release, Push, PushFull, Count
<1>2. CASE Target[c] # i
  <2>1. \A d \in Callers : InHook(i, d)' <=> InHook(i, d)
    BY <1>1, <1>2 DEF InHook
  <2>2. \A d \in Callers : InHook(i, d) => pc'[d] = pc[d] /\ next'[d] = next[d]
    BY <1>1, <1>2 DEF InHook
  <2> QED
    BY <1>1, <1>2, <2>1, <2>2, Unseen
<1>3. CASE \/ Call(c) \/ Busy(c) \/ PopEmpty(c) \/ Release(c) \/ Push(c) \/ PushFull(c) \/ Count(c)
  <2>1. pc[c] \notin Hooks /\ pc'[c] \notin Hooks /\ fsm' = fsm
    BY <1>0, <1>3 DEF Call, Busy, PopEmpty, Release, Push, PushFull, Count, Hooks
  <2>2. \A d \in Callers : InHook(i, d)' <=> InHook(i, d)
    BY <1>1, <2>1 DEF InHook
  <2>3. \A d \in Callers : InHook(i, d) => pc'[d] = pc[d] /\ next'[d] = next[d]
    BY <1>1, <2>1 DEF InHook
  <2> QED
    BY <2>1, <2>2, <2>3, Unseen
<1>4. CASE Target[c] = i /\ (Acquire(c) \/ Pop(c))
  <2>1. pc'[c] = "process" /\ next' = next /\ fsm' = fsm
    BY <1>0, <1>4 DEF Acquire, Pop
  <2>2. \A d \in Callers : pc[d] \notin Hooks
    BY <1>4 DEF IInv, LockInv, MutualExclusion, HolderHasFlag, Holding, Draining, Hooks,
                Acquire, Pop
  <2>3. Phase(i) = "ready" /\ NewOf(i) = None
    BY <2>2 DEF Phase, NewOf, InHook
  <2>4. Phase(i)' = "process" /\ NewOf(i)' = next[c]
    BY <1>4, <2>1, SeenInHookNext DEF InHook, Hooks
  <2>5. next[c] = None
    BY <1>4 DEF NextHeld, Acquire, Pop
  <2>6. Lifecycle(i)!Dispatch
    BY <2>1, <2>3, <2>4, <2>5 DEF Lifecycle!Dispatch, InsideOf
  <2> QED
    BY <2>6 DEF Lifecycle!Next
<1>5. CASE Target[c] = i /\ pc[c] \in Hooks
  <2>1. Phase(i) = pc[c] /\ NewOf(i) = next[c]
    BY <1>5, SeenInHook DEF InHook
  <2>2. pc'[c] \in Hooks => Phase(i)' = pc'[c] /\ NewOf(i)' = next'[c]
    BY <1>5, SeenInHookNext DEF InHook
  <2>3. pc'[c] \notin Hooks => Phase(i)' = "ready" /\ NewOf(i)' = None
    <3>1. \A d \in Callers \ {c} : pc'[d] \notin Hooks
      BY <1>1, <1>5 DEF IInv, LockInv, MutualExclusion, Holding, Draining
    <3>2. ASSUME pc'[c] \notin Hooks PROVE \A d \in Callers : ~InHook(i, d)'
      BY <3>1, <3>2 DEF InHook
    <3> QED
      BY <3>2 DEF Phase, NewOf
  <2>4. CASE ProcessStay(c)
    <3>1. /\ pc[c] = "process" /\ pc'[c] = "pop" /\ fsm' = fsm /\ next[c] = None
      BY <1>0, <2>4 DEF ProcessStay, Finish, NextHeld
    <3>2. Lifecycle(i)!ProcessStay
      BY <2>1, <2>3, <3>1 DEF Lifecycle!ProcessStay, InsideOf, Hooks
    <3> QED
      BY <3>2 DEF Lifecycle!Next
  <2>5. ASSUME NEW s \in States, ProcessTo(c, s) PROVE Lifecycle(i)!Next
    <3>1. /\ pc[c] = "process" /\ pc'[c] = "exit" /\ fsm' = fsm /\ next'[c] = s
          /\ <<fsm[i], s>> \in Moves
      BY <1>0, <1>5, <2>5 DEF ProcessTo
    <3>2. Lifecycle(i)!ProcessTo(s)
      BY <2>1, <2>2, <3>1 DEF Lifecycle!ProcessTo, InsideOf, Hooks
    <3> QED
      BY <3>2 DEF Lifecycle!Next
  <2>6. CASE Exit(c)
    <3>1. /\ pc[c] = "exit" /\ pc'[c] = "entry" /\ fsm' = fsm /\ next'[c] = next[c]
      BY <1>0, <2>6 DEF Exit
    <3>2. Lifecycle(i)!Exit
      BY <2>1, <2>2, <3>1 DEF Lifecycle!Exit, InsideOf, Hooks
    <3> QED
      BY <3>2 DEF Lifecycle!Next
  <2>7. CASE Entry(c)
    <3>1. /\ pc[c] = "entry" /\ pc'[c] = "pop" /\ fsm'[i] = next[c]
      BY <1>0, <1>5, <2>7 DEF Entry, Finish
    <3>2. Lifecycle(i)!Entry
      BY <2>1, <2>3, <3>1 DEF Lifecycle!Entry, InsideOf, Hooks
    <3> QED
      BY <3>2 DEF Lifecycle!Next
  <2> QED
    BY <1>5, <2>4, <2>5, <2>6, <2>7
    DEF Hooks, Call, Advance, Acquire, Busy, Pop, PopEmpty, Release, Push, PushFull, Count
<1>6. \/ pc[c] \in Hooks \/ Acquire(c) \/ Pop(c)
      \/ Call(c) \/ Busy(c) \/ PopEmpty(c) \/ Release(c) \/ Push(c) \/ PushFull(c) \/ Count(c)
  BY DEF Advance, Hooks, ProcessStay, ProcessTo, Exit, Entry
<1> QED
  BY <1>2, <1>3, <1>4, <1>5, <1>6

LEMMA InitLifecycle == Init => NextHeld /\ \A i \in Instances : Lifecycle(i)!InitReady
<1>1. ASSUME Init, NEW i \in Instances PROVE Lifecycle(i)!InitReady
  <2>1. fsm[i] \in States
    BY <1>1, ShapeAssumption DEF Init
  <2>2. Phase(i) = "ready" /\ NewOf(i) = None
    BY <1>1 DEF Init, Phase, NewOf, InHook, Hooks
  <2> QED
    BY <2>1, <2>2 DEF Lifecycle!InitReady, InsideOf
<1>2. Init => NextHeld
  BY DEF Init, NextHeld
<1> QED
  BY <1>1, <1>2

LEMMA HooksStep ==
  IInv /\ IInv' /\ NextHeld /\ [Next]_vars =>
    [aborted' = {} => \A i \in Instances : [Lifecycle(i)!Next]_(Lifecycle(i)!vars)]_vars
<1> SUFFICES ASSUME IInv, IInv', NextHeld, Next, aborted' = {}, NEW i \in Instances
             PROVE  Lifecycle(i)!Next \/ UNCHANGED Lifecycle(i)!vars
  OBVIOUS
<1>1. PICK c \in Callers : Call(c) \/ Advance(c) \/ Panic(c)
  BY DEF Next
<1>2. ~Panic(c)
  BY DEF Panic
<1> QED
  BY <1>1, <1>2, LifecycleStep

(* Until a hook panics, the hooks of every instance run in the sequence in *)
(* which the sequential arm runs them, whichever callers and instances     *)
(* share the flag.                                                         *)
THEOREM LifecycleRefinement == Spec => ImplementsLifecycle
BY Invariance, InitLifecycle, NextHeldStep, HooksStep, PTL DEF Spec, ImplementsLifecycle
=============================================================================
