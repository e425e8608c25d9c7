------------------------- MODULE TrafficIntersection -------------------------
(***************************************************************************)
(* examples/traffic_intersection.rs: two lights and a pedestrian crossing, *)
(* each a machine in a thread of its own with a channel of events, that    *)
(* coordinate through three flags under one mutex.  A light asks the flags *)
(* in a process hook and raises its own in the next state's entry hook.    *)
(***************************************************************************)
EXTENDS Naturals, Sequences, FiniteSets

CONSTANTS
  Rounds,        \* rounds of main's loop
  ButtonAt, EmergencyAt,    \* the rounds that send more than a tick
  Lag            \* bound: events a thread may leave in its channel

ASSUME IntersectionAssumption == {Rounds, ButtonAt, EmergencyAt, Lag} \subseteq Nat

Lights == {"NS", "EW"}
Threads == Lights \cup {"PED"}

(* How many ticks a light counts in a state, and what follows.             *)
Limit == [Red |-> 3, Green |-> 4, Yellow |-> 1]
After == [Red |-> "Green", Green |-> "Yellow", Yellow |-> "Red"]
Starts == [t \in Threads |-> IF t = "PED" THEN "Wait" ELSE "Red"]

VARIABLES
  round,     \* rounds main has broadcast
  chan,      \* the events sent to a thread and not received
  state,     \* `fsm`: the variant a thread's machine is in
  pc,        \* the hook a thread runs, or "recv"
  next,      \* `new_state` of the dispatch that moves
  ticks,     \* tick_count of a light
  button,    \* button_pressed
  flag,      \* ns_is_green, ew_is_green, pedestrian_walking
  mutex,     \* the thread that holds the guard, or "free"
  over,      \* main has returned, which ends the process
  raced,     \* history: two threads were between check and entry at once
  rest       \* history: ticks a red light still has to last

vars == <<round, chan, state, pc, next, ticks, button, flag, mutex, over, raced, rest>>

(* emergency_active is written by new() and by nothing else.               *)
EmergencyActive == FALSE

(* is_safe_for_ns_green, is_safe_for_ew_green, is_safe_for_pedestrian: the *)
(* flags of the other two are down.                                        *)
IsSafeFor(t) == (\A u \in Threads \ {t} : ~flag[u]) /\ ~EmergencyActive

Init ==
  /\ round = 0
  /\ chan = [t \in Threads |-> << >>]
  /\ state = Starts
  /\ pc = [t \in Threads |-> "init"]
  /\ next = Starts
  /\ ticks = [t \in Lights |-> 0]
  /\ button = FALSE
  /\ flag = [t \in Threads |-> FALSE]
  /\ mutex = "free"
  /\ over = FALSE
  /\ raced = FALSE
  /\ rest = [t \in Lights |-> Limit.Red]

-----------------------------------------------------------------------------
(* One turn of main's loop.  Its sends are one step: a thread that lags    *)
(* behind sees what a later send would show it.                            *)
Sent(t) ==
  <<"TimerTick">>
    \o (IF t = "PED" /\ round = ButtonAt THEN <<"PedestrianButton">> ELSE << >>)
    \o (IF round = EmergencyAt THEN <<"Emergency">> ELSE << >>)

Broadcast ==
  /\ round < Rounds
  /\ \A t \in Threads : Len(chan[t]) < Lag
  /\ chan' = [t \in Threads |-> chan[t] \o Sent(t)]
  /\ round' = round + 1
  /\ UNCHANGED <<state, pc, next, ticks, button, flag, mutex, over, raced, rest>>

(* main returns after its last round, without joining the threads: they end*)
(* where they are, with what is left in their channels.                    *)
MainReturns ==
  /\ round = Rounds
  /\ over' = TRUE
  /\ UNCHANGED <<round, chan, state, pc, next, ticks, button, flag, mutex, raced, rest>>

(* fsm.init(&mut ctx): the entry hook of Red or Wait lowers the flag.      *)
InitMachine(t) ==
  /\ pc[t] = "init" /\ mutex = "free"
  /\ flag' = [flag EXCEPT ![t] = FALSE]
  /\ pc' = [pc EXCEPT ![t] = "recv"]
  /\ UNCHANGED <<round, chan, state, next, ticks, button, mutex, raced, rest>>

(* recv() and the part of process before a lock or an answer: the thread   *)
(* goes on at `at`, with `to` as the state it may move to.                 *)
Receive(t, event) ==
  /\ pc[t] = "recv" /\ chan[t] # << >> /\ Head(chan[t]) = event
  /\ chan' = [chan EXCEPT ![t] = Tail(@)]

Proceed(t, at, to) ==
  /\ pc' = [pc EXCEPT ![t] = at]
  /\ next' = [next EXCEPT ![t] = to]

(* Mutant: tick_count is not reset when the limit is reached.              *)
LightTickKeepsCount(t) ==
  /\ Receive(t, "TimerTick")
  /\ ticks' = [ticks EXCEPT ![t] = @ + 1]
  /\ rest' = [rest EXCEPT ![t] = IF state[t] = "Red" /\ @ > 0 THEN @ - 1 ELSE @]
  /\ IF ticks'[t] < Limit[state[t]] THEN Proceed(t, "recv", state[t])
     ELSE Proceed(t, IF state[t] = "Red" THEN "check" ELSE "entry", After[state[t]])
  /\ UNCHANGED <<round, state, button, flag, mutex, raced>>

LightTick(t) ==
  /\ Receive(t, "TimerTick")
  /\ rest' = [rest EXCEPT ![t] = IF state[t] = "Red" /\ @ > 0 THEN @ - 1 ELSE @]
  /\ IF ticks[t] + 1 < Limit[state[t]]
       THEN /\ ticks' = [ticks EXCEPT ![t] = @ + 1]
            /\ Proceed(t, "recv", state[t])
       ELSE /\ ticks' = [ticks EXCEPT ![t] = 0]
            /\ Proceed(t, IF state[t] = "Red" THEN "check" ELSE "entry", After[state[t]])
  /\ UNCHANGED <<round, state, button, flag, mutex, raced>>

(* Only a green light obeys; tick_count stays what it was.                 *)
LightEmergency(t) ==
  /\ Receive(t, "Emergency")
  /\ IF state[t] = "Green" THEN Proceed(t, "entry", "Red") ELSE Proceed(t, "recv", state[t])
  /\ UNCHANGED <<round, state, ticks, button, flag, mutex, raced, rest>>

PedestrianTick ==
  LET t == "PED" IN
  /\ Receive(t, "TimerTick")
  /\ CASE state[t] = "Wait" /\ button -> Proceed(t, "check", "Walk")
       [] state[t] = "Wait" /\ ~button -> Proceed(t, "recv", "Wait")
       [] state[t] = "Walk" -> Proceed(t, "entry", "Flash")
       [] state[t] = "Flash" -> Proceed(t, "exit", "Wait")
  /\ UNCHANGED <<round, state, ticks, button, flag, mutex, raced, rest>>

PedestrianEmergency ==
  LET t == "PED" IN
  /\ Receive(t, "Emergency")
  /\ IF state[t] = "Walk" THEN Proceed(t, "entry", "Wait") ELSE Proceed(t, "recv", state[t])
  /\ UNCHANGED <<round, state, ticks, button, flag, mutex, raced, rest>>

(* Only Wait remembers the press.                                          *)
PedestrianButton ==
  /\ Receive("PED", "PedestrianButton")
  /\ button' = (button \/ state["PED"] = "Wait")
  /\ UNCHANGED <<round, state, pc, next, ticks, flag, mutex, raced, rest>>

-----------------------------------------------------------------------------
(* A thread whose check has passed and whose flag is not up yet.           *)
Committed(t) == pc[t] \in {"release", "entry"} /\ next[t] \in {"Green", "Walk"}

(* Mutant: a light does not look at the crossing.                          *)
CheckIgnoresWalking(t) ==
  /\ pc[t] = "check" /\ mutex = "free"
  /\ mutex' = t
  /\ LET safe == \A u \in Lights \ {t} : ~flag[u]
     IN  /\ Proceed(t, "release", IF safe THEN next[t] ELSE state[t])
         /\ raced' = (raced \/ (safe /\ \E u \in Threads \ {t} : Committed(u)))
         /\ button' = (button /\ ~(t = "PED" /\ safe))
  /\ UNCHANGED <<round, chan, state, ticks, flag, rest>>

(* lock().unwrap() and the check under the guard.                          *)
Check(t) ==
  /\ pc[t] = "check" /\ mutex = "free"
  /\ mutex' = t
  /\ LET safe == IsSafeFor(t)
     IN  /\ Proceed(t, "release", IF safe THEN next[t] ELSE state[t])
         /\ raced' = (raced \/ (safe /\ \E u \in Threads \ {t} : Committed(u)))
         /\ button' = (button /\ ~(t = "PED" /\ safe))
  /\ UNCHANGED <<round, chan, state, ticks, flag, rest>>

(* Mutant: the guard lives on into the hooks that follow.                  *)
ReturnKeepsGuard(t) ==
  /\ pc[t] = "release"
  /\ mutex' = IF next[t] = state[t] THEN "free" ELSE mutex
  /\ pc' = [pc EXCEPT ![t] = IF next[t] = state[t] THEN "recv" ELSE "entry"]
  /\ UNCHANGED <<round, chan, state, next, ticks, button, flag, raced, rest>>

(* The hook returns its answer; the guard is dropped.                      *)
Return(t) ==
  /\ pc[t] = "release"
  /\ mutex' = "free"
  /\ pc' = [pc EXCEPT ![t] = IF next[t] = state[t] THEN "recv" ELSE "entry"]
  /\ UNCHANGED <<round, chan, state, next, ticks, button, flag, raced, rest>>

(* Flash has the only exit hook.                                           *)
FlashExit ==
  /\ pc["PED"] = "exit" /\ mutex = "free"
  /\ flag' = [flag EXCEPT !["PED"] = FALSE]
  /\ pc' = [pc EXCEPT !["PED"] = "entry"]
  /\ UNCHANGED <<round, chan, state, next, ticks, button, mutex, raced, rest>>

(* Mutant: Yellow leaves the flag to Red.                                  *)
YellowKeepsFlag(t) ==
  /\ pc[t] = "entry" /\ (mutex = "free" \/ next[t] = "Flash")
  /\ flag' = [flag EXCEPT ![t] = CASE next[t] \in {"Green", "Walk"} -> TRUE
                                    [] next[t] \in {"Red", "Wait"} -> FALSE
                                    [] OTHER -> @]
  /\ state' = [state EXCEPT ![t] = next[t]]
  /\ pc' = [pc EXCEPT ![t] = "recv"]
  /\ rest' = IF next[t] = "Red"
               THEN [rest EXCEPT ![t] = IF state[t] = "Green" THEN 1 ELSE Limit.Red]
               ELSE rest
  /\ UNCHANGED <<round, chan, next, ticks, button, mutex, raced>>

(* on_entry of the new state, then *self = new_state.  All entry hooks but *)
(* that of Flash write the flag.  A red light reached from green, that is  *)
(* by an emergency, goes on counting what green counted: it owes one tick. *)
Entry(t) ==
  /\ pc[t] = "entry" /\ (mutex = "free" \/ next[t] = "Flash")
  /\ flag' = [flag EXCEPT ![t] = CASE next[t] \in {"Green", "Walk"} -> TRUE
                                    [] next[t] \in {"Red", "Yellow", "Wait"} -> FALSE
                                    [] next[t] = "Flash" -> @]
  /\ state' = [state EXCEPT ![t] = next[t]]
  /\ pc' = [pc EXCEPT ![t] = "recv"]
  /\ rest' = IF next[t] = "Red"
               THEN [rest EXCEPT ![t] = IF state[t] = "Green" THEN 1 ELSE Limit.Red]
               ELSE rest
  /\ UNCHANGED <<round, chan, next, ticks, button, mutex, raced>>

(* What the threads do, as long as the process lives.                      *)
Alive == ~over /\ UNCHANGED over

LightStep(t) == Alive /\ (LightTick(t) \/ LightEmergency(t))
PedestrianStep ==
  Alive /\ (PedestrianTick \/ PedestrianEmergency \/ PedestrianButton \/ FlashExit)
HookStep(t) == Alive /\ (InitMachine(t) \/ Check(t) \/ Return(t) \/ Entry(t))

Next ==
  \/ Broadcast
  \/ MainReturns
  \/ (\E t \in Lights : LightStep(t))
  \/ PedestrianStep
  \/ (\E t \in Threads : HookStep(t))

(* The threads are scheduled until the process ends; when main sends, and  *)
(* whether it returns before they are through, is left open.  Weak fairness*)
(* is enough for the mutex: main sends finitely many events, so nobody     *)
(* takes it again and again.                                               *)
Fairness ==
  /\ \A t \in Lights : WF_vars(LightStep(t))
  /\ WF_vars(PedestrianStep)
  /\ \A t \in Threads : WF_vars(HookStep(t))

Spec == Init /\ [][Next]_vars /\ Fairness

-----------------------------------------------------------------------------
(* The flags others decide on tell the truth whenever a thread waits for   *)
(* its next event, whichever hooks raised and lowered them: a flag is up   *)
(* exactly in Green, and in Walk and Flash.                                *)
FlagsTellTheTruth ==
  \A t \in Threads : pc[t] = "recv" =>
    (flag[t] <=> state[t] \in {"Green", "Walk", "Flash"})

(* Two flags are up at once only if one thread passed its check between    *)
(* the other's check and its entry hook: the check itself, the order of    *)
(* lowering and raising, and emergencies let no conflict through.          *)
ConflictNeedsOverlap ==
  (\E t, u \in Threads : t # u /\ flag[t] /\ flag[u]) => raced

(* A light turns green only when it has been red for the three ticks of    *)
(* its state, through the tick_count that all states share; and for at     *)
(* least one, however much green had counted when an emergency came.       *)
RedLasts ==
  [][\A t \in Lights : state[t] = "Red" /\ state'[t] = "Green" => rest[t] = 0]_vars

(* Unless main returns first, every event it has sent is handled: no hook  *)
(* blocks for good on the mutex, which its own thread or another held.     *)
HandledWhileRunning ==
  []<>(over \/ \A t \in Threads : chan[t] = << >> /\ pc[t] = "recv")

(* What traffic_intersection.rs:17 says of the coordination: it "prevents  *)
(* conflicting green lights".                                              *)
NoConflictingGreens == ~(flag["NS"] /\ flag["EW"])
=============================================================================
