--------------------- MODULE TrafficIntersectionProofs ---------------------
(***************************************************************************)
(* Theorems about the intersection, for any number of rounds, any rounds of*)
(* the button and the emergency, and any bound on how far a thread lags.   *)
(*                                                                         *)
(* IInv says of each thread, at each point of its hooks, which states it   *)
(* can be in, whether its flag is up and what its counter owes to Red.     *)
(***************************************************************************)
EXTENDS TrafficIntersection, TLAPS

LightStates == {"Red", "Green", "Yellow"}
PedestrianStates == {"Wait", "Walk", "Flash"}
StatesOf(t) == IF t = "PED" THEN PedestrianStates ELSE LightStates
Up == {"Green", "Walk", "Flash"}

Types ==
  /\ \A t \in Threads : state[t] \in StatesOf(t) /\ next[t] \in StatesOf(t)
  /\ state \in [Threads -> LightStates \cup PedestrianStates]
  /\ next \in [Threads -> LightStates \cup PedestrianStates]
  /\ pc \in [Threads -> {"init", "recv", "check", "release", "exit", "entry"}]
  /\ flag \in [Threads -> BOOLEAN]
  /\ ticks \in [Lights -> Nat]
  /\ rest \in [Lights -> Nat]
  /\ button \in BOOLEAN
  /\ raced \in BOOLEAN

(* Which moves a hook can be in the middle of.                             *)
MovesOf(t) ==
  /\ pc[t] \in {"init", "check"} => state[t] \in {"Red", "Wait"}
  /\ pc[t] = "check" => next[t] \in {"Green", "Walk"}
  /\ pc[t] = "release" =>
       /\ state[t] \in {"Red", "Wait"}
       /\ next[t] \in {"Green", "Walk"} \/ next[t] = state[t]
  /\ pc[t] = "exit" => state[t] = "Flash" /\ next[t] = "Wait"
  /\ pc[t] = "entry" =>
       <<state[t], next[t]>> \in
         {<<"Red", "Green">>, <<"Green", "Yellow">>, <<"Green", "Red">>, <<"Yellow", "Red">>,
          <<"Wait", "Walk">>, <<"Walk", "Flash">>, <<"Walk", "Wait">>, <<"Flash", "Wait">>}

(* The flag is up exactly in the states of Up, until the hooks that leave  *)
(* such a state have begun to lower it.                                    *)
FlagOf(t) ==
  IF pc[t] = "entry" /\ state[t] = "Flash" THEN ~flag[t] ELSE flag[t] <=> state[t] \in Up

(* A thread that shows its flag, or is about to.                           *)
Claims(t) == flag[t] \/ Committed(t)

OneClaim == ~raced => \A t, u \in Threads : Claims(t) /\ Claims(u) => t = u

(* What a light still owes to Red is at most what tick_count still lacks,  *)
(* or the one tick it takes to look at tick_count.                         *)
Owes(t) ==
  /\ state[t] = "Red" => rest[t] \in {0, 1} \/ rest[t] + ticks[t] <= Limit.Red
  /\ state[t] = "Yellow" \/ (pc[t] = "entry" /\ next[t] = "Yellow") => ticks[t] = 0
  /\ state[t] = "Red" /\ pc[t] \in {"check", "release", "entry"} => rest[t] = 0

IInv ==
  /\ Types
  /\ OneClaim
  /\ \A t \in Threads : MovesOf(t) /\ FlagOf(t)
  /\ \A t \in Lights : Owes(t)

(* What of IInv speaks of thread t.                                        *)
Ok(t) == MovesOf(t) /\ FlagOf(t) /\ (t \in Lights => Owes(t))

LEMMA InitIInv == Init => IInv
<1> SUFFICES ASSUME Init PROVE IInv
  OBVIOUS
<1>1. Types
  BY DEF Init, Types, Threads, Lights, Starts, StatesOf, LightStates, PedestrianStates, Limit
<1>2. OneClaim /\ \A t \in Threads : MovesOf(t) /\ FlagOf(t)
  BY DEF Init, OneClaim, Claims, Committed, MovesOf, FlagOf, Up, Threads, Lights, Starts
<1>3. \A t \in Lights : Owes(t)
  BY DEF Init, Owes, Lights, Limit, Starts, Threads
<1> QED
  BY <1>1, <1>2, <1>3 DEF IInv

(* A step of thread t leaves the others as they are.                       *)
LEMMA FrameLemma ==
  ASSUME IInv, NEW t \in Threads, Types', OneClaim', Ok(t)',
         \A u \in Threads \ {t} :
           /\ state'[u] = state[u] /\ next'[u] = next[u]
           /\ pc'[u] = pc[u] /\ flag'[u] = flag[u],
         \A u \in Lights \ {t} : ticks'[u] = ticks[u] /\ rest'[u] = rest[u]
  PROVE  IInv'
<1>1. ASSUME NEW u \in Threads, u # t PROVE MovesOf(u)' /\ FlagOf(u)'
  BY <1>1 DEF IInv, MovesOf, FlagOf
<1>2. ASSUME NEW u \in Lights, u # t PROVE Owes(u)'
  <2>1. u \in Threads
    BY DEF Threads
  <2> QED
    BY <1>2, <2>1 DEF IInv, Owes
<1> QED
  BY <1>1, <1>2 DEF IInv, Ok

(* No new claim: what a step that raises no flag and commits nobody keeps. *)
LEMMA ClaimLemma ==
  ASSUME OneClaim, raced' = raced, \A t \in Threads : Claims(t)' => Claims(t)
  PROVE  OneClaim'
BY DEF OneClaim

LEMMA LightTickStep == ASSUME IInv, NEW t \in Lights, LightTick(t) PROVE IInv'
<1> USE DEF IInv, Types, Threads, Lights, StatesOf, LightStates, PedestrianStates
<1>1. /\ state' = state /\ flag' = flag /\ button' = button /\ raced' = raced
      /\ pc[t] = "recv" /\ t # "PED" /\ t \in Threads /\ state[t] \in LightStates
      /\ rest' = [rest EXCEPT ![t] = IF state[t] = "Red" /\ @ > 0 THEN @ - 1 ELSE @]
  BY DEF LightTick, Receive
<1>2. ticks[t] \in Nat /\ Limit[state[t]] \in Nat /\ rest[t] \in Nat
  BY DEF Limit
<1>3. CASE ticks[t] + 1 < Limit[state[t]]
  <2>1. /\ ticks' = [ticks EXCEPT ![t] = @ + 1]
        /\ pc' = [pc EXCEPT ![t] = "recv"] /\ next' = [next EXCEPT ![t] = state[t]]
    BY <1>3 DEF LightTick, Proceed
  <2>2. Types'
    BY <1>1, <1>2, <2>1
  <2>3. OneClaim'
    BY <1>1, <2>1, ClaimLemma DEF Claims, Committed
  <2>4. Ok(t)'
    <3>1. MovesOf(t)' /\ FlagOf(t)'
      BY <1>1, <2>1 DEF MovesOf, FlagOf
    <3>2. Owes(t)'
      BY <1>1, <1>2, <1>3, <2>1 DEF Owes, Limit
    <3> QED
      BY <3>1, <3>2 DEF Ok
  <2> QED
    BY <1>1, <2>1, <2>2, <2>3, <2>4, FrameLemma
<1>4. CASE ~(ticks[t] + 1 < Limit[state[t]])
  <2>1. /\ ticks' = [ticks EXCEPT ![t] = 0]
        /\ pc' = [pc EXCEPT ![t] = IF state[t] = "Red" THEN "check" ELSE "entry"]
        /\ next' = [next EXCEPT ![t] = After[state[t]]]
    BY <1>4 DEF LightTick, Proceed
  <2>2. After[state[t]] \in LightStates
    BY <1>1 DEF After
  <2>3. Types'
    BY <1>1, <1>2, <2>1, <2>2
  <2>4. OneClaim'
    BY <1>1, <2>1, ClaimLemma DEF Claims, Committed, After
  <2>5. Ok(t)'
    <3>1. MovesOf(t)' /\ FlagOf(t)'
      BY <1>1, <2>1 DEF MovesOf, FlagOf, After, Up
    <3>2. Owes(t)'
      BY <1>1, <1>2, <1>4, <2>1 DEF Owes, Limit
    <3> QED
      BY <3>1, <3>2 DEF Ok
  <2> QED
    BY <1>1, <2>1, <2>3, <2>4, <2>5, FrameLemma
<1> QED
  BY <1>3, <1>4

LEMMA LightEmergencyStep == ASSUME IInv, NEW t \in Lights, LightEmergency(t) PROVE IInv'
<1> USE DEF IInv, Types, Threads, Lights, StatesOf, LightStates, PedestrianStates
<1>1. /\ UNCHANGED <<state, ticks, button, flag, raced, rest>>
      /\ pc[t] = "recv" /\ t # "PED" /\ t \in Threads
      /\ \/ /\ state[t] = "Green"
            /\ pc' = [pc EXCEPT ![t] = "entry"] /\ next' = [next EXCEPT ![t] = "Red"]
         \/ /\ pc' = [pc EXCEPT ![t] = "recv"] /\ next' = [next EXCEPT ![t] = state[t]]
  BY DEF LightEmergency, Receive, Proceed
<1>2. Types'
  BY <1>1
<1>3. OneClaim'
  BY <1>1, ClaimLemma DEF Claims, Committed
<1>4. Ok(t)'
  BY <1>1 DEF Ok, MovesOf, FlagOf, Owes, Up
<1> QED
  BY <1>1, <1>2, <1>3, <1>4, FrameLemma

LEMMA PedestrianEventStep ==
  ASSUME IInv, PedestrianTick \/ PedestrianEmergency \/ PedestrianButton PROVE IInv'
<1> USE DEF IInv, Types, Threads, Lights, StatesOf, LightStates, PedestrianStates
<1> DEFINE t == "PED"
<1>1. /\ UNCHANGED <<state, ticks, flag, raced, rest>> /\ button' \in BOOLEAN
      /\ pc[t] = "recv" /\ t \in Threads /\ t \notin Lights
  BY DEF PedestrianTick, PedestrianEmergency, PedestrianButton, Receive
<1>2. \/ UNCHANGED <<pc, next>>
      \/ \E at \in {"recv", "check", "exit", "entry"}, to \in PedestrianStates :
           /\ pc' = [pc EXCEPT ![t] = at] /\ next' = [next EXCEPT ![t] = to]
           /\ \/ at = "recv" /\ to = state[t]
              \/ at = "check" /\ state[t] = "Wait" /\ to = "Walk"
              \/ at = "entry" /\ state[t] = "Walk" /\ to \in {"Flash", "Wait"}
              \/ at = "exit" /\ state[t] = "Flash" /\ to = "Wait"
  <2>1. CASE PedestrianTick
    BY <2>1 DEF PedestrianTick, Proceed
  <2>2. CASE PedestrianEmergency
    BY <2>2 DEF PedestrianEmergency, Proceed
  <2>3. CASE PedestrianButton
    BY <2>3 DEF PedestrianButton
  <2> QED
    BY <2>1, <2>2, <2>3
<1>3. Types'
  BY <1>1, <1>2
<1>4. OneClaim'
  BY <1>1, <1>2, ClaimLemma DEF Claims, Committed
<1>5. Ok(t)'
  BY <1>1, <1>2 DEF Ok, MovesOf, FlagOf, Up
<1> QED
  BY <1>1, <1>2, <1>3, <1>4, <1>5, FrameLemma

(* A check that passes sees the other flags down; if another thread is on  *)
(* its way to raise its own, that is recorded as a race.                   *)
LEMMA CheckStep == ASSUME IInv, NEW t \in Threads, Check(t) PROVE IInv'
<1> USE DEF IInv, Types, StatesOf, LightStates, PedestrianStates
<1>1. /\ UNCHANGED <<state, ticks, flag, rest>> /\ pc[t] = "check"
      /\ pc' = [pc EXCEPT ![t] = "release"]
      /\ button' \in BOOLEAN
  BY DEF Check, Proceed
<1>2. \/ /\ IsSafeFor(t) /\ UNCHANGED next
         /\ raced' = (raced \/ \E u \in Threads \ {t} : Committed(u))
      \/ next' = [next EXCEPT ![t] = state[t]] /\ raced' = raced
  <2>1. next = [next EXCEPT ![t] = next[t]]
    OBVIOUS
  <2> QED
    BY <2>1 DEF Check, Proceed
<1>3. Types'
  BY <1>1, <1>2
<1>4. OneClaim'
  <2>1. \A u \in Threads \ {t} : Claims(u)' <=> Claims(u)
    BY <1>1, <1>2 DEF Claims, Committed
  <2>2. CASE IsSafeFor(t) /\ raced' = (raced \/ \E u \in Threads \ {t} : Committed(u))
    <3>1. \A u \in Threads \ {t} : ~flag[u]
      BY <2>2 DEF IsSafeFor
    <3> QED
      BY <2>1, <2>2, <3>1 DEF OneClaim, Claims
  <2>3. CASE next' = [next EXCEPT ![t] = state[t]] /\ raced' = raced
    <3>1. ~Committed(t)' /\ flag'[t] = flag[t]
      BY <1>1, <2>3 DEF Committed, MovesOf
    <3> QED
      BY <2>1, <2>3, <3>1, ClaimLemma DEF Claims
  <2> QED
    BY <1>2, <2>2, <2>3
<1>5. Ok(t)'
  <2>1. MovesOf(t)' /\ FlagOf(t)'
    BY <1>1, <1>2 DEF MovesOf, FlagOf
  <2>2. t \in Lights => Owes(t)'
    BY <1>1 DEF Owes
  <2> QED
    BY <2>1, <2>2 DEF Ok
<1> QED
  BY <1>1, <1>2, <1>3, <1>4, <1>5, FrameLemma

LEMMA ReturnStep == ASSUME IInv, NEW t \in Threads, Return(t) PROVE IInv'
<1> USE DEF IInv, Types, StatesOf, LightStates, PedestrianStates
<1>1. /\ UNCHANGED <<state, next, ticks, button, flag, raced, rest>> /\ pc[t] = "release"
      /\ pc' = [pc EXCEPT ![t] = IF next[t] = state[t] THEN "recv" ELSE "entry"]
  BY DEF Return
<1>2. Types'
  BY <1>1
<1>3. OneClaim'
  BY <1>1, ClaimLemma DEF Claims, Committed
<1>4. Ok(t)'
  <2>1. MovesOf(t)'
    BY <1>1 DEF MovesOf, Threads, Lights
  <2>2. FlagOf(t)'
    BY <1>1 DEF MovesOf, FlagOf
  <2>3. t \in Lights => Owes(t)'
    BY <1>1 DEF Owes, MovesOf
  <2> QED
    BY <2>1, <2>2, <2>3 DEF Ok
<1> QED
  BY <1>1, <1>2, <1>3, <1>4, FrameLemma

LEMMA InitMachineStep == ASSUME IInv, NEW t \in Threads, InitMachine(t) PROVE IInv'
<1> USE DEF IInv, Types, StatesOf, LightStates, PedestrianStates
<1>1. /\ UNCHANGED <<state, next, ticks, button, raced, rest>> /\ pc[t] = "init"
      /\ pc' = [pc EXCEPT ![t] = "recv"] /\ flag' = [flag EXCEPT ![t] = FALSE]
  BY DEF InitMachine
<1>2. Types'
  BY <1>1
<1>3. OneClaim'
  BY <1>1, ClaimLemma DEF Claims, Committed
<1>4. Ok(t)'
  BY <1>1 DEF Ok, MovesOf, FlagOf, Owes, Up
<1> QED
  BY <1>1, <1>2, <1>3, <1>4, FrameLemma

LEMMA FlashExitStep == ASSUME IInv, FlashExit PROVE IInv'
<1> USE DEF IInv, Types, StatesOf, LightStates, PedestrianStates, Threads, Lights
<1> DEFINE t == "PED"
<1>1. /\ UNCHANGED <<state, next, ticks, button, raced, rest>> /\ pc[t] = "exit"
      /\ pc' = [pc EXCEPT ![t] = "entry"] /\ flag' = [flag EXCEPT ![t] = FALSE]
      /\ t \in Threads /\ t \notin Lights
  BY DEF FlashExit
<1>2. state[t] = "Flash" /\ next[t] = "Wait"
  BY <1>1 DEF MovesOf
<1>3. Types'
  BY <1>1
<1>4. OneClaim'
  BY <1>1, <1>2, ClaimLemma DEF Claims, Committed
<1>5. Ok(t)'
  BY <1>1, <1>2 DEF Ok, MovesOf, FlagOf
<1> QED
  BY <1>1, <1>3, <1>4, <1>5, FrameLemma

(* The flag an entry hook raises belongs to a thread that was committed.   *)
LEMMA EntryStep == ASSUME IInv, NEW t \in Threads, Entry(t) PROVE IInv'
<1> USE DEF IInv, Types, StatesOf, LightStates, PedestrianStates
<1>1. /\ UNCHANGED <<next, ticks, button, raced>> /\ pc[t] = "entry"
      /\ pc' = [pc EXCEPT ![t] = "recv"] /\ state' = [state EXCEPT ![t] = next[t]]
      /\ rest' = IF next[t] = "Red"
                   THEN [rest EXCEPT ![t] = IF state[t] = "Green" THEN 1 ELSE 3]
                   ELSE rest
  BY DEF Entry, Limit
<1>2. \/ next[t] \in {"Green", "Walk"} /\ flag' = [flag EXCEPT ![t] = TRUE]
      \/ next[t] \in {"Red", "Yellow", "Wait"} /\ flag' = [flag EXCEPT ![t] = FALSE]
      \/ next[t] = "Flash" /\ flag' = flag /\ state[t] = "Walk"
  <2>1. \/ next[t] \in {"Green", "Walk"} \/ next[t] \in {"Red", "Yellow", "Wait"}
        \/ next[t] = "Flash" /\ state[t] = "Walk"
    BY <1>1 DEF MovesOf
  <2>2. [flag EXCEPT ![t] = flag[t]] = flag
    OBVIOUS
  <2> QED
    BY <2>1, <2>2 DEF Entry
<1>3. Types'
  <2>1. rest' \in [Lights -> Nat]
    BY <1>1
  <2>2. state' \in [Threads -> LightStates \cup PedestrianStates]
    BY <1>1
  <2>3. \A u \in Threads : state'[u] \in StatesOf(u) /\ next'[u] \in StatesOf(u)
    BY <1>1
  <2>4. flag' \in [Threads -> BOOLEAN]
    BY <1>2
  <2> QED
    BY <1>1, <2>1, <2>2, <2>3, <2>4
<1>4. OneClaim'
  <2>1. \A u \in Threads : Claims(u)' => Claims(u)
    BY <1>1, <1>2 DEF Claims, Committed
  <2> QED
    BY <1>1, <2>1, ClaimLemma
<1>5. Ok(t)'
  <2>1. MovesOf(t)'
    BY <1>1 DEF MovesOf
  <2>2. FlagOf(t)'
    BY <1>1, <1>2 DEF FlagOf, Up
  <2>3. ASSUME t \in Lights PROVE Owes(t)'
    <3>1. /\ state[t] = "Yellow" \/ state[t] = "Green" \/ state[t] = "Red"
          /\ ticks[t] \in Nat /\ rest[t] \in Nat
      BY <2>3 DEF Lights
    <3>2. CASE next[t] = "Red"
      <4>1. rest'[t] = IF state[t] = "Green" THEN 1 ELSE 3
        BY <1>1, <2>3, <3>2
      <4>2. state[t] # "Green" => state[t] = "Yellow" /\ ticks[t] = 0
        BY <1>1, <2>3, <3>2 DEF MovesOf, Owes
      <4> QED
        BY <1>1, <3>1, <3>2, <4>1, <4>2 DEF Owes, Limit
    <3>3. CASE next[t] = "Yellow"
      BY <1>1, <2>3, <3>3 DEF Owes
    <3>4. CASE next[t] = "Green"
      BY <1>1, <3>4 DEF Owes
    <3> QED
      BY <2>3, <3>2, <3>3, <3>4 DEF Lights
  <2> QED
    BY <2>1, <2>2, <2>3 DEF Ok
<1> QED
  BY <1>1, <1>2, <1>3, <1>4, <1>5, FrameLemma

LEMMA Step == IInv /\ [Next]_vars => IInv'
<1> SUFFICES ASSUME IInv, [Next]_vars PROVE IInv'
  OBVIOUS
<1>1. ASSUME UNCHANGED <<state, pc, next, ticks, button, flag, raced, rest>> PROVE IInv'
  BY <1>1 DEF IInv, Types, OneClaim, Claims, Committed, MovesOf, FlagOf, Owes
<1>2. CASE Broadcast \/ MainReturns \/ UNCHANGED vars
  BY <1>1, <1>2 DEF Broadcast, MainReturns, vars
<1>3. CASE \E t \in Lights : LightStep(t)
  BY <1>3, LightTickStep, LightEmergencyStep DEF LightStep
<1>4. CASE PedestrianStep
  BY <1>4, PedestrianEventStep, FlashExitStep DEF PedestrianStep
<1>5. CASE \E t \in Threads : HookStep(t)
  BY <1>5, InitMachineStep, CheckStep, ReturnStep, EntryStep DEF HookStep
<1> QED
  BY <1>2, <1>3, <1>4, <1>5 DEF Next

THEOREM Invariance == Spec => []IInv
BY InitIInv, Step, PTL DEF Spec

(* Whenever a thread waits for its next event, its flag says what it shows.*)
THEOREM FlagsTrue == Spec => []FlagsTellTheTruth
<1>1. IInv => FlagsTellTheTruth
  BY DEF IInv, FlagOf, FlagsTellTheTruth, Up
<1> QED
  BY Invariance, <1>1, PTL

(* Conflicting flags come from an overlap of checks and entry hooks alone. *)
THEOREM OnlyOverlapsConflict == Spec => []ConflictNeedsOverlap
<1>1. IInv => ConflictNeedsOverlap
  BY DEF IInv, Types, OneClaim, Claims, ConflictNeedsOverlap
<1> QED
  BY Invariance, <1>1, PTL

(* A light that turns green has been red for its three ticks, or for one or *)
(* more when an emergency turned it red.                                    *)
THEOREM GreenAfterRed == Spec => RedLasts
<1>1. IInv /\ [Next]_vars =>
        [\A t \in Lights : state[t] = "Red" /\ state'[t] = "Green" => rest[t] = 0]_vars
  <2> SUFFICES ASSUME IInv, Next, NEW t \in Lights, state[t] = "Red", state'[t] = "Green"
               PROVE  rest[t] = 0
    OBVIOUS
  <2>1. t \in Threads /\ state \in [Threads -> LightStates \cup PedestrianStates]
    BY DEF IInv, Types, Threads
  <2>2. PICK u \in Threads : Entry(u)
    BY <2>1 DEF Next, Broadcast, MainReturns, LightStep, LightTick, LightEmergency, PedestrianStep,
       PedestrianTick, PedestrianEmergency, PedestrianButton, FlashExit, HookStep,
       InitMachine, Check, Return
  <2>3. u = t /\ pc[t] = "entry"
    BY <2>1, <2>2 DEF Entry
  <2> QED
    BY <2>3 DEF IInv, Owes
<1> QED
  BY Invariance, <1>1, PTL DEF Spec, RedLasts
=============================================================================
