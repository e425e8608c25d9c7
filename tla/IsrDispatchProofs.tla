------------------------- MODULE IsrDispatchProofs -------------------------
(***************************************************************************)
(* Theorems about dispatch on one core, for every number of interrupt      *)
(* handlers and every assignment of priorities.                            *)
(***************************************************************************)
EXTENDS IsrDispatch, ConcurrentDispatchProofs, SequenceTheorems

(* How the running frame moves, and what that does to the flag.            *)
LEMMA AdvanceLemma ==
  ASSUME IInv, NEW c \in Callers, Advance(c)
  PROVE  /\ \A d \in Callers \ {c} : pc'[d] = pc[d]
         /\ \/ pc[c] = "cas" /\ ~active /\ active' /\ pc'[c] = "process"
            \/ pc[c] = "cas" /\ active /\ active' /\ pc'[c] = "push"
            \/ pc[c] \in Draining /\ pc'[c] \in Holding /\ active' = active
            \/ pc[c] = "release" /\ ~active' /\ pc'[c] = "idle"
            \/ pc[c] = "push" /\ pc'[c] \in {"idle", "count"} /\ active' = active
            \/ pc[c] = "count" /\ pc'[c] = "idle" /\ active' = active
<1> USE DEF IInv, TypeOK, At, Goto, Holding, Draining, Hooks
<1>1. CASE Acquire(c) \/ Busy(c) \/ ProcessStay(c) \/ (\E s \in States : ProcessTo(c, s))
  BY <1>1 DEF Acquire, Busy, ProcessStay, ProcessTo, Finish
<1>2. CASE Exit(c) \/ Entry(c) \/ Pop(c) \/ PopEmpty(c)
  BY <1>2 DEF Exit, Entry, Finish, Pop, PopEmpty
<1>3. CASE Release(c) \/ Push(c) \/ PushFull(c) \/ Count(c)
  BY <1>3 DEF Release, Push, PushFull, Count
<1> QED
  BY <1>1, <1>2, <1>3 DEF Advance

-----------------------------------------------------------------------------
(* The stack of frames, its top taken off or a frame put on it.            *)
Increasing(s) == \A i, j \in 1..Len(s) : i < j => Priority[s[i]] < Priority[s[j]]

LEMMA PopFrame ==
  ASSUME NEW s \in Seq(Callers), s # <<>>, Increasing(s)
  PROVE  LET t == SubSeq(s, 1, Len(s) - 1)
         IN  /\ t \in Seq(Callers) /\ Len(t) = Len(s) - 1
             /\ \A i \in 1..Len(t) : t[i] = s[i]
             /\ Range(t) = Range(s) \ {s[Len(s)]}
             /\ Increasing(t)
<1> DEFINE t == SubSeq(s, 1, Len(s) - 1)
<1>1. /\ t \in Seq(Callers) /\ Len(t) = Len(s) - 1 /\ Len(s) \in Nat \ {0}
      /\ \A i \in 1..Len(t) : t[i] = s[i]
      /\ DOMAIN t = 1..(Len(s) - 1) /\ DOMAIN s = 1..Len(s)
  <2> DEFINE n == Len(s) - 1
  <2>1. n \in Nat /\ n \in 0..Len(s) /\ Len(s) = n + 1 /\ \A i \in 1..n : s[i] \in Callers
    OBVIOUS
  <2> HIDE DEF n
  <2>2. SubSeq(s, 1, n) = [i \in 1..n |-> s[i]]
    BY <2>1, SubSeqRestrict DEF Restrict
  <2>3. SubSeq(s, 1, n) \in Seq(Callers)
    BY <2>1, SubSeqProperties
  <2>4. t = SubSeq(s, 1, n)
    BY DEF n
  <2> HIDE DEF t
  <2> QED
    BY <2>1, <2>2, <2>3, <2>4
<1> HIDE DEF t
<1>2. Increasing(t)
  BY <1>1 DEF Increasing
<1>3. \A i \in DOMAIN t : s[i] # s[Len(s)]
  <2>1. ASSUME NEW i \in DOMAIN t, s[i] = s[Len(s)] PROVE FALSE
    <3>1. i \in 1..Len(s) /\ Len(s) \in 1..Len(s) /\ i < Len(s)
      BY <1>1
    <3>2. s[i] \in Callers
      BY <3>1
    <3>3. Priority[s[i]] < Priority[s[Len(s)]]
      BY <3>1 DEF Increasing
    <3> QED
      BY <2>1, <3>2, <3>3, PriorityAssumption
  <2> QED
    BY <2>1
<1>4. Range(t) = Range(s) \ {s[Len(s)]}
  <2>1. DOMAIN s = DOMAIN t \cup {Len(s)}
    BY <1>1
  <2> QED
    BY <1>1, <1>3, <2>1 DEF Range
<1> QED
  BY <1>1, <1>2, <1>4 DEF t

LEMMA PushFrame ==
  ASSUME NEW s \in Seq(Callers), Increasing(s), NEW c \in Callers,
         s # <<>> => Priority[c] > Priority[s[Len(s)]]
  PROVE  /\ Append(s, c) \in Seq(Callers) /\ Len(Append(s, c)) = Len(s) + 1
         /\ \A i \in 1..Len(s) : Append(s, c)[i] = s[i]
         /\ Append(s, c)[Len(s) + 1] = c
         /\ Range(Append(s, c)) = Range(s) \cup {c}
         /\ Increasing(Append(s, c))
<1> DEFINE t == Append(s, c)
<1>1. /\ t \in Seq(Callers) /\ Len(t) = Len(s) + 1 /\ Len(s) \in Nat
      /\ \A i \in 1..Len(s) : t[i] = s[i] /\ s[i] \in Callers
      /\ t[Len(s) + 1] = c
  OBVIOUS
<1>2. Range(t) = Range(s) \cup {c}
  BY AppendLemma
<1> HIDE DEF t
<1>3. \A i \in 1..Len(s) : Priority[s[i]] < Priority[c]
  <2>1. ASSUME NEW i \in 1..Len(s) PROVE Priority[s[i]] < Priority[c]
    <3>1. s # <<>> /\ Len(s) \in 1..Len(s)
      BY <1>1
    <3>2. Priority[s[i]] \in Nat /\ Priority[s[Len(s)]] \in Nat /\ Priority[c] \in Nat
      BY <1>1, <3>1, PriorityAssumption
    <3>3. i = Len(s) \/ Priority[s[i]] < Priority[s[Len(s)]]
      BY <1>1, <3>1 DEF Increasing
    <3> QED
      BY <3>1, <3>2, <3>3
  <2> QED
    BY <2>1
<1>4. Increasing(t)
  BY <1>1, <1>3 DEF Increasing
<1> QED
  BY <1>1, <1>2, <1>4 DEF t

-----------------------------------------------------------------------------
(* What keeps pushes under the flag: a flag that is set has a holder, and  *)
(* the holder lies below every frame that found it set.                    *)
HolderOnStack ==
  /\ active => \E c \in Callers : pc[c] \in Holding
  /\ \A j \in 1..Len(stack) :
       pc[stack[j]] = "push" => \E i \in 1..(j - 1) : pc[stack[i]] \in Holding

IsrIInv == IInv /\ IsrInv /\ HolderOnStack

(* The frame on top of a stack of frames that are inside dispatch.         *)
LEMMA TopLemma ==
  ASSUME IInv, IsrInv
  PROVE  /\ stack \in Seq(Callers) /\ Len(stack) \in Nat /\ Increasing(stack)
         /\ \A i \in 1..Len(stack) : stack[i] \in Callers /\ pc[stack[i]] # "idle"
         /\ \A c \in Callers : pc[c] # "idle" => \E i \in 1..Len(stack) : stack[i] = c
         /\ \A i, j \in 1..Len(stack) : stack[i] = stack[j] => i = j
         /\ stack # <<>> =>
              /\ Len(stack) \in 1..Len(stack)
              /\ Running \in Callers /\ pc[Running] # "idle"
<1>1. stack \in Seq(Callers) /\ Len(stack) \in Nat /\ Increasing(stack)
  BY DEF IsrInv, StackOK, Increasing
<1>2. Range(stack) = {stack[i] : i \in 1..Len(stack)}
  BY <1>1 DEF Range
<1>3. \A i \in 1..Len(stack) : stack[i] \in Callers /\ pc[stack[i]] # "idle"
  BY <1>2 DEF IsrInv, StackOK
<1>4. \A c \in Callers : pc[c] # "idle" => \E i \in 1..Len(stack) : stack[i] = c
  BY <1>2 DEF IsrInv, StackOK
<1>5. \A i, j \in 1..Len(stack) : stack[i] = stack[j] => i = j
  <2>1. ASSUME NEW i \in 1..Len(stack), NEW j \in 1..Len(stack), i < j, stack[i] = stack[j]
        PROVE  FALSE
    <3>1. Priority[stack[i]] < Priority[stack[j]] /\ Priority[stack[i]] \in Nat
      BY <1>1, <1>3, <2>1, PriorityAssumption DEF Increasing
    <3> QED
      BY <2>1, <3>1
  <2> QED
    BY <1>1, <2>1
<1>6. stack # <<>> => Len(stack) \in 1..Len(stack)
  BY <1>1
<1> QED
  BY <1>1, <1>3, <1>4, <1>5, <1>6 DEF Running

LEMMA FireStep ==
  ASSUME IsrIInv, NEW c \in Callers, Fire(c)
  PROVE  IsrInv' /\ HolderOnStack'
<1> USE DEF IsrIInv
<1>1. /\ pc[c] = "idle" /\ pc'[c] = "cas" /\ active' = active
      /\ \A d \in Callers \ {c} : pc'[d] = pc[d]
      /\ stack' = Append(stack, c)
  BY DEF Fire, Call, At, Goto, IInv, TypeOK
<1>2. /\ Increasing(stack) /\ stack \in Seq(Callers) /\ Len(stack) \in Nat
      /\ \A i \in 1..Len(stack) : stack[i] \in Callers /\ pc[stack[i]] # "idle"
  BY TopLemma
<1>3. /\ stack' \in Seq(Callers) /\ Len(stack') = Len(stack) + 1
      /\ \A i \in 1..Len(stack) : stack'[i] = stack[i]
      /\ stack'[Len(stack) + 1] = c
      /\ Range(stack') = Range(stack) \cup {c}
      /\ Increasing(stack')
  BY <1>1, <1>2, PushFrame DEF Fire, Preempts, Running
<1>4. /\ \A i \in 1..Len(stack) : pc'[stack'[i]] = pc[stack[i]]
      /\ pc'[stack'[Len(stack) + 1]] = "cas"
  BY <1>1, <1>2, <1>3
<1>5. StackOK'
  <2>1. Range(stack') = {d \in Callers : pc'[d] # "idle"}
    BY <1>1, <1>3 DEF IsrInv, StackOK
  <2> QED
    BY <1>3, <2>1 DEF StackOK, Increasing
<1>6. PushUnderFlag'
  BY <1>1 DEF IsrInv, PushUnderFlag
<1>7. OnlyEnqueueAboveHolder'
  BY <1>2, <1>3, <1>4 DEF IsrInv, OnlyEnqueueAboveHolder, Holding, Draining, Hooks
<1>8. HolderOnStack'
  <2>1. active' => \E d \in Callers : pc'[d] \in Holding
    BY <1>1 DEF HolderOnStack, Holding, Draining, Hooks
  <2>2. ASSUME NEW j \in 1..Len(stack'), pc'[stack'[j]] = "push"
        PROVE  \E i \in 1..(j - 1) : pc'[stack'[i]] \in Holding
    <3>1. j \in 1..Len(stack) /\ pc[stack[j]] = "push"
      BY <1>2, <1>3, <1>4, <2>2
    <3>2. PICK i \in 1..(j - 1) : pc[stack[i]] \in Holding
      BY <3>1 DEF HolderOnStack
    <3>3. i \in 1..Len(stack)
      BY <1>2, <3>1, <3>2
    <3> QED
      BY <1>4, <3>2, <3>3
  <2> QED
    BY <2>1, <2>2 DEF HolderOnStack
<1> QED
  BY <1>5, <1>6, <1>7, <1>8 DEF IsrInv

LEMMA RunStep ==
  ASSUME IsrIInv, Run
  PROVE  IsrInv' /\ HolderOnStack'
<1> USE DEF IsrIInv
<1> DEFINE n == Len(stack)
           r == stack[n]
<1>1. /\ Increasing(stack) /\ stack \in Seq(Callers) /\ n \in Nat /\ n \in 1..n
      /\ r \in Callers
      /\ \A i \in 1..n : stack[i] \in Callers /\ pc[stack[i]] # "idle"
      /\ \A c \in Callers : pc[c] # "idle" => \E i \in 1..n : stack[i] = c
      /\ \A i \in 1..(n - 1) : i \in 1..n /\ stack[i] # r
  BY TopLemma DEF Run, Running
<1>2. /\ Advance(r) /\ stack # <<>>
      /\ stack' = IF pc'[r] = "idle" THEN SubSeq(stack, 1, n - 1) ELSE stack
  BY DEF Run, Running
<1>3. /\ \A d \in Callers \ {r} : pc'[d] = pc[d]
      /\ \/ pc[r] = "cas" /\ ~active /\ active' /\ pc'[r] = "process"
         \/ pc[r] = "cas" /\ active /\ active' /\ pc'[r] = "push"
         \/ pc[r] \in Draining /\ pc'[r] \in Holding /\ active' = active
         \/ pc[r] = "release" /\ ~active' /\ pc'[r] = "idle"
         \/ pc[r] = "push" /\ pc'[r] \in {"idle", "count"} /\ active' = active
         \/ pc[r] = "count" /\ pc'[r] = "idle" /\ active' = active
  BY <1>1, <1>2, AdvanceLemma
<1>4. LET t == SubSeq(stack, 1, n - 1)
      IN  /\ t \in Seq(Callers) /\ Len(t) = n - 1
          /\ \A i \in 1..Len(t) : t[i] = stack[i]
          /\ Range(t) = Range(stack) \ {r}
          /\ Increasing(t)
  BY <1>1, <1>2, PopFrame
<1>5. /\ stack' \in Seq(Callers) /\ Increasing(stack')
      /\ \/ pc'[r] = "idle" /\ Len(stack') = n - 1 /\ Range(stack') = Range(stack) \ {r}
         \/ pc'[r] # "idle" /\ stack' = stack
      /\ \A i \in 1..Len(stack') : i \in 1..n /\ stack'[i] = stack[i]
      /\ \A i \in 1..(n - 1) : i \in 1..Len(stack')
  BY <1>1, <1>2, <1>4
<1> HIDE DEF n, r
<1>6. \A i \in 1..(n - 1) : pc'[stack[i]] = pc[stack[i]]
  BY <1>1, <1>3
<1>7. \A i \in 1..n : i \in 1..(n - 1) \/ i = n
  BY <1>1
<1>8. StackOK'
  <2>1. Range(stack') = {d \in Callers : pc'[d] # "idle"}
    <3>1. Range(stack) = {d \in Callers : pc[d] # "idle"}
      BY DEF IsrInv, StackOK
    <3>2. pc[r] # "idle"
      BY <1>3 DEF Draining, Hooks
    <3> QED
      BY <1>1, <1>3, <1>5, <3>1, <3>2
  <2> QED
    BY <1>5, <2>1 DEF StackOK, Increasing
<1>9. ASSUME NEW c \in Callers, pc'[c] = "push" PROVE active'
  <2>1. CASE c = r
    BY <1>3, <1>9, <2>1 DEF Holding, Draining, Hooks
  <2>2. CASE c # r
    <3>1. pc[c] = "push" /\ active
      BY <1>3, <1>9, <2>2 DEF IsrInv, PushUnderFlag
    <3>2. PICK j \in 1..n : stack[j] = c
      BY <1>1, <3>1
    <3>3. j \in 1..(n - 1)
      BY <1>7, <2>2, <3>2 DEF r
    <3>4. PICK i \in 1..(j - 1) : pc[stack[i]] \in Holding
      BY <3>1, <3>2 DEF HolderOnStack, n
    <3>5. i \in 1..(n - 1)
      BY <1>1, <3>3, <3>4
    <3>6. pc[r] \notin Holding
      BY <1>1, <3>4, <3>5 DEF IInv, LockInv, MutualExclusion
    <3> QED
      BY <1>3, <3>1, <3>6 DEF Holding
  <2> QED
    BY <2>1, <2>2
<1>10. OnlyEnqueueAboveHolder'
  <2>1. ASSUME NEW i \in 1..Len(stack'), NEW j \in 1..Len(stack'), i < j,
               pc'[stack'[i]] \in Holding
        PROVE  pc'[stack'[j]] \in {"cas", "push", "count"}
    <3>1. i \in 1..(n - 1) /\ j \in 1..n
      BY <1>1, <1>5, <2>1
    <3>2. pc[stack[i]] \in Holding
      BY <1>5, <1>6, <2>1, <3>1
    <3>3. pc[stack[j]] \in {"cas", "push", "count"}
      BY <1>1, <2>1, <3>1, <3>2 DEF IsrInv, OnlyEnqueueAboveHolder, n
    <3>4. CASE j \in 1..(n - 1)
      BY <1>5, <1>6, <2>1, <3>3, <3>4
    <3>5. CASE j = n
      <4>1. active
        BY <1>1, <3>1, <3>2 DEF IInv, LockInv, HolderHasFlag
      <4>2. stack'[j] = r /\ pc'[r] # "idle"
        BY <1>1, <1>5, <2>1, <3>5 DEF r
      <4> QED
        BY <1>3, <3>3, <3>5, <4>1, <4>2 DEF r, Draining, Hooks
    <3> QED
      BY <1>7, <3>1, <3>4, <3>5
  <2> QED
    BY <2>1 DEF OnlyEnqueueAboveHolder
<1>11. active' => \E c \in Callers : pc'[c] \in Holding
  <2> SUFFICES ASSUME active' PROVE \E c \in Callers : pc'[c] \in Holding
    OBVIOUS
  <2>1. CASE pc'[r] \in Holding
    BY <1>1, <2>1
  <2>2. CASE pc'[r] \notin Holding
    <3>1. active /\ pc[r] \notin Holding
      BY <1>3, <2>2 DEF Holding, Draining, Hooks
    <3>2. PICK c \in Callers : pc[c] \in Holding
      BY <3>1 DEF HolderOnStack
    <3> QED
      BY <1>3, <3>1, <3>2
  <2> QED
    BY <2>1, <2>2
<1>12. ASSUME NEW j \in 1..Len(stack'), pc'[stack'[j]] = "push"
       PROVE  \E i \in 1..(j - 1) : pc'[stack'[i]] \in Holding
  <2>1. j \in 1..n /\ stack'[j] = stack[j]
    BY <1>5
  <2>2. \E i \in 1..(j - 1) : pc[stack[i]] \in Holding
    <3>1. CASE pc[stack[j]] = "push"
      BY <2>1, <3>1 DEF HolderOnStack, n
    <3>2. CASE pc[stack[j]] # "push"
      <4>1. stack[j] = r /\ active /\ pc[r] = "cas"
        BY <1>1, <1>3, <1>12, <2>1, <3>2 DEF Holding, Draining, Hooks
      <4>2. PICK c \in Callers : pc[c] \in Holding
        BY <4>1 DEF HolderOnStack
      <4>3. PICK i \in 1..n : stack[i] = c
        BY <1>1, <4>2 DEF Holding, Draining, Hooks
      <4>4. stack[i] # stack[j]
        BY <4>1, <4>2, <4>3 DEF Holding, Draining, Hooks
      <4>5. j = n
        BY <1>1, <1>7, <2>1, <4>1
      <4>6. i \in 1..(j - 1)
        BY <1>1, <1>7, <4>3, <4>4, <4>5
      <4> QED
        BY <4>2, <4>3, <4>6
    <3> QED
      BY <3>1, <3>2
  <2>3. PICK i \in 1..(j - 1) : pc[stack[i]] \in Holding
    BY <2>2
  <2>4. i \in 1..(n - 1) /\ i \in 1..Len(stack')
    BY <1>1, <1>5, <2>1, <2>3
  <2> QED
    BY <1>5, <1>6, <2>3, <2>4
<1> QED
  BY <1>8, <1>9, <1>10, <1>11, <1>12 DEF IsrInv, PushUnderFlag, HolderOnStack

LEMMA IsrNextIsNext == IsrIInv /\ IsrNext => Next
<1> SUFFICES ASSUME IsrIInv, IsrNext PROVE Next
  OBVIOUS
<1>1. CASE Run
  BY <1>1, TopLemma DEF Run, Next, IsrIInv
<1>2. ASSUME NEW c \in Callers, Fire(c) PROVE Next
  BY <1>2 DEF Fire, Next
<1> QED
  BY <1>1, <1>2 DEF IsrNext

(* The stack, the handlers' pushes and the protocol of dispatch together.  *)
LEMMA IsrInvariance == IsrSpec => []IsrIInv
<1>1. IsrInit => IsrIInv
  <2> SUFFICES ASSUME IsrInit PROVE IsrIInv
    OBVIOUS
  <2>1. IInv
    BY InitIInv DEF IsrInit
  <2>2. IsrInv /\ HolderOnStack
    BY DEF IsrInit, Init, IsrInv, StackOK, PushUnderFlag, OnlyEnqueueAboveHolder,
           HolderOnStack, Range
  <2> QED
    BY <2>1, <2>2 DEF IsrIInv
<1>2. IsrIInv /\ [IsrNext]_isrVars => IsrIInv'
  <2>1. CASE IsrIInv /\ IsrNext
    <3>1. IInv'
      BY <2>1, IsrNextIsNext, TypeStep, LockStep DEF IsrIInv, IInv
    <3> QED
      BY <2>1, <3>1, FireStep, RunStep DEF IsrNext, IsrIInv
  <2>2. CASE IsrIInv /\ UNCHANGED isrVars
    <3>1. IInv'
      BY <2>2, TypeStep, LockStep DEF IsrIInv, IInv, isrVars
    <3> QED
      BY <2>2, <3>1 DEF isrVars, vars, code, IsrIInv, IsrInv, StackOK, PushUnderFlag,
         OnlyEnqueueAboveHolder, HolderOnStack
  <2> QED
    BY <2>1, <2>2
<1> QED
  BY <1>1, <1>2, PTL DEF IsrSpec

(* On one core the stack is what runs, handlers push only under the flag,  *)
(* and whatever preempts a dispatch just enqueues.                         *)
THEOREM IsrProtocol == IsrSpec => []IsrInv
<1>1. IsrIInv => IsrInv
  BY DEF IsrIInv
<1> QED
  BY IsrInvariance, <1>1, PTL

-----------------------------------------------------------------------------
(* Preemption by priority only restricts who runs when: a core with its    *)
(* interrupt handlers behaves as some interleaving of callers does.        *)
THEOREM IsrRefinesDispatch == IsrSpec => Spec
<1>1. IsrInit => Init
  BY DEF IsrInit
<1>2. IsrIInv /\ [IsrNext]_isrVars => [Next]_vars
  <2>1. UNCHANGED isrVars => UNCHANGED vars
    BY DEF isrVars
  <2> QED
    BY <2>1, IsrNextIsNext
<1> QED
  BY IsrInvariance, <1>1, <1>2, PTL DEF IsrSpec, Spec

(* So what is promised of dispatch is promised of handlers that preempt    *)
(* it: every event accounted for once, each handler's events in their      *)
(* order, the macro's sequence of hooks, and no hook after one that        *)
(* panicked.                                                               *)
THEOREM IsrKeepsDispatch ==
  IsrSpec => /\ []ExactlyOnce /\ []OvertakenOnlyIfStranded
             /\ ImplementsSerial /\ ImplementsLifecycle /\ FailStop
BY IsrRefinesDispatch, NoEventLostOrRepeated, HandledInOrder, SerialRefinement,
   LifecycleRefinement, PanicStops
=============================================================================
