------------------------ MODULE ExampleMachinesProofs ------------------------
(***************************************************************************)
(* Theorems about the example machines, for every number of retries and    *)
(* users, all PINs, codes, amounts, readings and limits, counts of any     *)
(* size and events in any order.                                           *)
(*                                                                         *)
(* The invariants the runs check speak of the context between dispatches.  *)
(* They are not inductive: a transition writes the context in up to three  *)
(* hooks.  So each machine says what its context is while it rests in a    *)
(* state (Rest), what the exit hook expects after the process hook's       *)
(* answer (Leave), and what the entry hook expects after that (Toward).    *)
(* Each hook is one lemma; where exit hooks change nothing that matters,   *)
(* Leave is Toward.                                                        *)
(***************************************************************************)
EXTENDS ExampleMachines, FsmLifecycleProofs

-----------------------------------------------------------------------------
(* What the helpers of the example modules return, and what an observer    *)
(* has seen after a hook.                                                  *)

(* What an observer may have seen.                                         *)
SeenType == [tries : Nat, bounces : Nat, open : Nat, fresh : BOOLEAN]

(* A timer is off, running or expired.                                     *)
Timers == {"off", "running", "expired"}

(* The two answers of a process hook.                                      *)
LEMMA Answers ==
  /\ \A s, c : GoTo(s, c).to # << >> /\ GoTo(s, c).to[1] = s /\ GoTo(s, c).ctx = c
  /\ \A c : Stay(c).to = << >> /\ Stay(c).ctx = c
BY DEF GoTo, Stay

(* The three hooks of a block.                                             *)
LEMMA Blocks ==
  /\ \A a, b, c : /\ Block(a, b, c).entry = a
                  /\ Block(a, b, c).process = b
                  /\ Block(a, b, c).exit = c
  /\ \A c, b : Reacts(c, b).entry = c /\ Reacts(c, b).process = b /\ Reacts(c, b).exit = c
BY DEF Block, Reacts

(* Which machine and variant a state is of.                                *)
LEMMA Tags ==
  /\ \A v : WiFi(v).of = "WiFi" /\ WiFi(v).in = v
  /\ \A v : Session(v).of = "Session" /\ Session(v).in = v
  /\ \A v : Button(v).of = "Button" /\ Button(v).in = v
  /\ \A v, d : Manager(v, d).of = "Connection" /\ Manager(v, d).in = v /\ Manager(v, d).data = d
  /\ \A v : ATM(v).of = "ATM" /\ ATM(v).in = v
  /\ \A v : DoorLock(v).of = "DoorLock" /\ DoorLock(v).in = v
  /\ \A v : Order(v).of = "Order" /\ Order(v).in = v
  /\ \A v : Player(v).of = "Player" /\ Player(v).in = v
  /\ \A v : Task(v).of = "Task" /\ Task(v).in = v
  /\ \A v : Sensor(v).of = "Sensor" /\ Sensor(v).in = v
  /\ \A v : Motor(v).of = "Motor" /\ Motor(v).in = v
BY DEF WiFi, Session, Button, Manager, ATM, DoorLock, Order, Player, Task, Sensor, Motor,
       Variant, Holding

(* An event without payload is known by its name.                          *)
LEMMA Names ==
  ASSUME NEW S, NEW e \in Plainly(S)
  PROVE  e[1] \in S /\ \A n : e = <<n>> <=> e[1] = n
BY DEF Plainly

(* An event with a payload is none without one.                            *)
LEMMA PairNames ==
  ASSUME NEW m, NEW u
  PROVE  <<m, u>>[1] = m /\ <<m, u>>[2] = u /\ \A n : <<m, u>> # <<n>>
OBVIOUS

(* A process hook keeps the type of what was seen.                         *)
LEMMA ObservedType == ASSUME seen \in SeenType, NEW a PROVE Observed(a) \in SeenType
<1> DEFINE t == IF a.to # << >> /\ evt[1] \in {"Connect", "Disconnect", "ConnectionLost"}
                  THEN 0 ELSE seen.tries
           o == CASE evt[1] = "NewTask" /\ self = Task("Idle") -> 1
                   [] evt[1] = "NewTask" /\ self = Task("Processing") -> seen.open + 1
                   [] evt[1] \in {"TaskComplete", "TaskFailed"} /\
                      self = Task("Processing") -> OneLess(seen.open)
                   [] OTHER -> seen.open
           f == seen.fresh \/ evt[1] \in {"DataReady", "SensorTick"}
<1>1. t \in Nat /\ o \in Nat
  BY DEF SeenType, OneLess
<1>2. f \in BOOLEAN
  OBVIOUS
<1>3. Observed(a) = [seen EXCEPT !.tries = t, !.open = o, !.fresh = f]
  BY DEF Observed
<1> HIDE DEF t, o, f
<1> QED
  BY <1>1, <1>2, <1>3 DEF SeenType

(* A process hook that stays begins no attempt and no debounce.            *)
LEMMA ObservedStay ==
  ASSUME seen \in SeenType, NEW c
  PROVE  /\ Observed(Stay(c)).tries = seen.tries
         /\ Observed(Stay(c)).bounces = seen.bounces
<1>1. Stay(c).to = << >>
  BY Answers
<1> QED
  BY <1>1 DEF Observed, SeenType

(* One that moves starts the attempts anew if the event asked for it.      *)
LEMMA ObservedGo ==
  ASSUME seen \in SeenType, NEW s, NEW c
  PROVE  /\ Observed(GoTo(s, c)).tries =
              IF evt[1] \in {"Connect", "Disconnect", "ConnectionLost"} THEN 0 ELSE seen.tries
         /\ Observed(GoTo(s, c)).bounces = seen.bounces
<1>1. GoTo(s, c).to # << >>
  BY Answers
<1> QED
  BY <1>1 DEF Observed, SeenType

(* An entry hook that ends begins an attempt or a debounce, if its state   *)
(* is one.                                                                 *)
LEMMA EnteredSeen ==
  ASSUME seen \in SeenType, NEW s
  PROVE  /\ Entered(s) \in SeenType
         /\ Entered(s).fresh = FALSE
         /\ Entered(s).tries = IF s.in = "Connecting" THEN seen.tries + 1 ELSE seen.tries
         /\ Entered(s).bounces = IF s.in = "Debouncing" THEN seen.bounces + 1 ELSE seen.bounces
         /\ Entered(s).open = seen.open
<1> DEFINE t == IF s.in = "Connecting" THEN seen.tries + 1 ELSE seen.tries
           b == IF s.in = "Debouncing" THEN seen.bounces + 1 ELSE seen.bounces
<1>1. t \in Nat /\ b \in Nat
  BY DEF SeenType
<1>2. Entered(s) = [seen EXCEPT !.tries = t, !.bounces = b, !.fresh = FALSE]
  BY DEF Entered
<1> HIDE DEF t, b
<1>3. /\ Entered(s) \in SeenType
      /\ Entered(s).bounces = b
      /\ Entered(s).tries = t
      /\ Entered(s).open = seen.open
      /\ Entered(s).fresh = FALSE
  BY <1>1, <1>2 DEF SeenType
<1> QED
  BY <1>3 DEF t, b

(* The open tasks, after any process hook.                                 *)
LEMMA ObservedOpen ==
  ASSUME seen \in SeenType, NEW a
  PROVE  Observed(a).open =
           CASE evt[1] = "NewTask" /\ self = Task("Idle") -> 1
             [] evt[1] = "NewTask" /\ self = Task("Processing") -> seen.open + 1
             [] evt[1] \in {"TaskComplete", "TaskFailed"} /\
                self = Task("Processing") -> OneLess(seen.open)
             [] OTHER -> seen.open
BY DEF Observed, SeenType

(* Whether a reading was handled, after any process hook.                  *)
LEMMA ObservedFresh ==
  ASSUME seen \in SeenType, NEW a
  PROVE  /\ Observed(a).fresh <=> seen.fresh \/ evt[1] \in {"DataReady", "SensorTick"}
         /\ Observed(a).bounces = seen.bounces
BY DEF Observed, SeenType

-----------------------------------------------------------------------------
(* Which block of which example runs the hooks of a state.                 *)

(* The machine of a state selects the module of its hooks.                 *)
LEMMA HooksByMachine ==
  ASSUME NEW s, NEW c, NEW e
  PROVE  /\ s.of \in {"WiFi", "Session", "Button"} => Hooks(s, c, e) = TimeoutHooks(s, c, e)
         /\ s.of = "Connection" => Hooks(s, c, e) = ConnectionHooks(s, c, e)
         /\ s.of \in {"ATM", "DoorLock", "Order"} => Hooks(s, c, e) = GuardHooks(s, c, e)
         /\ s.of = "Player" => Hooks(s, c, e) = PlayerHooks(s, c, e)
         /\ s.of = "Task" => Hooks(s, c, e) = TaskHooks(s, c, e)
         /\ s.of \in {"Sensor", "Motor"} => Hooks(s, c, e) = DeviceHooks(s, c, e)
         /\ s \in PlainStates => Hooks(s, c, e) = Reacts(c, Stay(c))
<1>1. s \in PlainStates => s.of = "Plain"
  BY ExamplesAssumption
<1>2. CASE s.of \in {"WiFi", "Session", "Button"}
  BY <1>1, <1>2 DEF Hooks
<1>3. CASE s.of = "Connection"
  BY <1>1, <1>3 DEF Hooks
<1>4. CASE s.of \in {"ATM", "DoorLock", "Order"}
  BY <1>1, <1>4 DEF Hooks
<1>5. CASE s.of \in {"Player", "Task"}
  BY <1>1, <1>5 DEF Hooks
<1>6. CASE s.of \in {"Sensor", "Motor"}
  BY <1>1, <1>6 DEF Hooks
<1>7. CASE s.of = "Plain"
  BY <1>1, <1>7 DEF Hooks
<1> QED
  BY <1>1, <1>2, <1>3, <1>4, <1>5, <1>6, <1>7

(* The variants of timeouts.rs.                                            *)
LEMMA TimeoutBlocks ==
  ASSUME NEW c, NEW e
  PROVE  /\ Hooks(WiFi("Idle"), c, e) = WiFiIdle(c, e)
         /\ Hooks(WiFi("Connecting"), c, e) = WiFiConnecting(c, e)
         /\ Hooks(WiFi("Active"), c, e) = WiFiActive(c, e)
         /\ Hooks(WiFi("Failed"), c, e) = WiFiFailed(c, e)
         /\ Hooks(Session("LoggedOut"), c, e) = SessionLoggedOut(c, e)
         /\ Hooks(Session("Active"), c, e) = SessionActive(c, e)
         /\ Hooks(Button("Idle"), c, e) = ButtonIdle(c, e)
         /\ Hooks(Button("Debouncing"), c, e) = ButtonDebouncing(c, e)
         /\ Hooks(Button("Pressed"), c, e) = ButtonPressed(c, e)
<1>1. \A s : s.of \in {"WiFi", "Session", "Button"} => Hooks(s, c, e) = TimeoutHooks(s, c, e)
  BY HooksByMachine
<1> QED
  BY <1>1, Tags DEF TimeoutHooks

(* The variants of guards.rs.                                              *)
LEMMA GuardBlocks ==
  ASSUME NEW c, NEW e
  PROVE  /\ Hooks(ATM("Idle"), c, e) = ATMIdle(c, e)
         /\ Hooks(ATM("WaitingPIN"), c, e) = ATMWaitingPIN(c, e)
         /\ Hooks(ATM("Authenticated"), c, e) = ATMAuthenticated(c, e)
         /\ Hooks(ATM("Blocked"), c, e) = ATMBlocked(c, e)
         /\ Hooks(DoorLock("Locked"), c, e) = DoorLocked(c, e)
         /\ Hooks(DoorLock("Unlocked"), c, e) = DoorUnlocked(c, e)
         /\ Hooks(Order("Draft"), c, e) = OrderDraft(c, e)
         /\ Hooks(Order("PendingPayment"), c, e) = OrderPendingPayment(c, e)
         /\ Hooks(Order("Paid"), c, e) = OrderPaid(c, e)
         /\ Hooks(Order("Completed"), c, e) = OrderClosed(c, e)
         /\ Hooks(Order("Cancelled"), c, e) = OrderClosed(c, e)
<1>1. \A s : s.of \in {"ATM", "DoorLock", "Order"} => Hooks(s, c, e) = GuardHooks(s, c, e)
  BY HooksByMachine
<1> QED
  BY <1>1, Tags DEF GuardHooks

(* The variants of connection.rs; two carry the number of the attempt.     *)
LEMMA ConnectionBlocks ==
  ASSUME NEW c, NEW e, NEW d
  PROVE  /\ Hooks(Manager("Disconnected", d), c, e) = Disconnected(c, e)
         /\ Hooks(Manager("Connecting", d), c, e) = Connecting(d[1], c, e)
         /\ Hooks(Manager("Connected", d), c, e) = Connected(c, e)
         /\ Hooks(Manager("Retrying", d), c, e) = Retrying(d[1], c, e)
         /\ Hooks(Manager("Failed", d), c, e) = Failed(c, e)
<1>1. \A s : s.of = "Connection" => Hooks(s, c, e) = ConnectionHooks(s, c, e)
  BY HooksByMachine
<1> QED
  BY <1>1, Tags DEF ConnectionHooks

(* The variants of hierarchical.rs, concurrent_threads.rs,                 *)
(* concurrent_isr.rs and motor.rs.                                         *)
LEMMA OtherBlocks ==
  ASSUME NEW c, NEW e
  PROVE  /\ Hooks(Player("Stopped"), c, e) = PlayerStopped(c, e)
         /\ Hooks(Player("Playing"), c, e) = PlayerPlaying(c, e)
         /\ Hooks(Player("Paused"), c, e) = PlayerPaused(c, e)
         /\ Hooks(Task("Idle"), c, e) = TaskIdle(c, e)
         /\ Hooks(Task("Processing"), c, e) = TaskProcessing(c, e)
         /\ Hooks(Task("Paused"), c, e) = TaskPaused(c, e)
         /\ Hooks(Task("Shutdown"), c, e) = TaskShutdown(c, e)
         /\ Hooks(Sensor("Idle"), c, e) = SensorIdle(c, e)
         /\ Hooks(Sensor("Monitoring"), c, e) = SensorMonitoring(c, e)
         /\ Hooks(Sensor("Error"), c, e) = SensorError(c, e)
         /\ Hooks(Motor("Idle"), c, e) = MotorIdle(c, e)
         /\ Hooks(Motor("Running"), c, e) = MotorRunning(c, e)
         /\ Hooks(Motor("Error"), c, e) = MotorError(c, e)
<1>1. \A s : /\ s.of = "Player" => Hooks(s, c, e) = PlayerHooks(s, c, e)
             /\ s.of = "Task" => Hooks(s, c, e) = TaskHooks(s, c, e)
             /\ s.of \in {"Sensor", "Motor"} => Hooks(s, c, e) = DeviceHooks(s, c, e)
  BY HooksByMachine
<1> QED
  BY <1>1, Tags DEF PlayerHooks, TaskHooks, DeviceHooks

-----------------------------------------------------------------------------
(* timeouts.rs, WiFiConnection.  The attempt under way is not in           *)
(* retry_count until Failed's entry hook counts it.                        *)

(* The context.                                                            *)
WiFiFields == [timer : Timers, retry_count : Nat]

(* Its states.                                                             *)
WiFiStates == {WiFi(v) : v \in {"Idle", "Connecting", "Active", "Failed"}}

(* The attempts begun are those counted, and the one under way.            *)
WiFiRest(s, c, o) ==
  /\ c \in WiFiFields
  /\ o.tries <= MaxRetries
  /\ \/ s = WiFi("Idle") /\ c.retry_count = 0 /\ o.tries = 0
     \/ s = WiFi("Connecting") /\ c.timer # "off" /\ o.tries = c.retry_count + 1
     \/ s = WiFi("Active")
     \/ /\ s = WiFi("Failed") /\ o.tries = c.retry_count
        /\ c.timer # "off" <=> c.retry_count < MaxRetries

(* What the entry hook expects of the context.                             *)
WiFiToward(n, c, o) ==
  /\ c \in WiFiFields
  /\ o.tries <= MaxRetries
  /\ \/ n = WiFi("Idle") /\ o.tries = 0
     \/ n = WiFi("Connecting") /\ o.tries = c.retry_count /\ o.tries < MaxRetries
     \/ n = WiFi("Active")
     \/ n = WiFi("Failed") /\ o.tries = c.retry_count + 1 /\ c.timer = "off"

(* Starting and clearing the timer leaves retry_count alone.               *)
LEMMA WiFiTimer ==
  ASSUME NEW c \in WiFiFields
  PROVE  /\ Started(c) \in WiFiFields /\ Cleared(c) \in WiFiFields
         /\ Started(c).timer = "running" /\ Cleared(c).timer = "off"
         /\ Started(c).retry_count = c.retry_count
         /\ Cleared(c).retry_count = c.retry_count
BY DEF WiFiFields, Started, Cleared, Timers

(* The entry hook completes it.                                            *)
LEMMA WiFiEntry ==
  ASSUME seen \in SeenType, NEW n, WiFiToward(n, ctx, seen)
  PROVE  WiFiRest(n, Hooks(n, ctx, evt).entry, Entered(n))
<1>1. /\ ctx \in WiFiFields /\ ctx.retry_count \in Nat /\ MaxRetries \in Nat
      /\ seen.tries \in Nat /\ seen.tries <= MaxRetries
  BY RetriesAssumption DEF SeenType, WiFiToward, WiFiFields
<1>2. n.in # "Connecting" => Entered(n).tries = seen.tries
  BY EnteredSeen
<1>3. CASE n = WiFi("Idle") /\ seen.tries = 0
  <2>1. Hooks(n, ctx, evt) = WiFiIdle(ctx, evt)
    BY <1>3, TimeoutBlocks
  <2>2. Hooks(n, ctx, evt).entry = [ctx EXCEPT !.retry_count = 0]
    BY <2>1, Blocks DEF WiFiIdle
  <2>3. n.in # "Connecting"
    BY <1>3, Tags
  <2> QED
    BY <1>1, <1>2, <1>3, <2>2, <2>3 DEF WiFiRest, WiFiFields
<1>4. CASE n = WiFi("Connecting") /\ seen.tries = ctx.retry_count /\ seen.tries < MaxRetries
  <2>1. Hooks(n, ctx, evt) = WiFiConnecting(ctx, evt)
    BY <1>4, TimeoutBlocks
  <2>2. Hooks(n, ctx, evt).entry = Started(ctx)
    BY <2>1, Blocks DEF WiFiConnecting
  <2>3. n.in = "Connecting"
    BY <1>4, Tags
  <2>4. Entered(n).tries = seen.tries + 1
    BY <2>3, EnteredSeen
  <2> QED
    BY <1>1, <1>4, <2>2, <2>4, WiFiTimer DEF WiFiRest
<1>5. CASE n = WiFi("Active")
  <2>1. Hooks(n, ctx, evt) = WiFiActive(ctx, evt)
    BY <1>5, TimeoutBlocks
  <2>2. Hooks(n, ctx, evt).entry = ctx
    BY <2>1, Blocks DEF WiFiActive
  <2>3. n.in # "Connecting"
    BY <1>5, Tags
  <2> QED
    BY <1>1, <1>2, <1>5, <2>2, <2>3 DEF WiFiRest
<1>6. CASE n = WiFi("Failed") /\ seen.tries = ctx.retry_count + 1 /\ ctx.timer = "off"
  <2> DEFINE failed == [ctx EXCEPT !.retry_count = @ + 1]
  <2>1. Hooks(n, ctx, evt) = WiFiFailed(ctx, evt)
    BY <1>6, TimeoutBlocks
  <2>2. Hooks(n, ctx, evt).entry =
          IF failed.retry_count < MaxRetries THEN Started(failed) ELSE failed
    BY <2>1, Blocks DEF WiFiFailed
  <2>3. n.in # "Connecting"
    BY <1>6, Tags
  <2>4. /\ failed \in WiFiFields /\ failed.timer = "off"
        /\ failed.retry_count = seen.tries
    BY <1>1, <1>6 DEF WiFiFields
  <2> HIDE DEF failed
  <2> QED
    BY <1>1, <1>2, <1>6, <2>2, <2>3, <2>4, WiFiTimer DEF WiFiRest
<1> QED
  BY <1>3, <1>4, <1>5, <1>6 DEF WiFiToward

(* The exit hook leaves what the entry hook expects.                       *)
LEMMA WiFiExit ==
  ASSUME NEW s \in WiFiStates, NEW n, WiFiToward(n, ctx, seen)
  PROVE  WiFiToward(n, Hooks(s, ctx, evt).exit, seen)
<1>1. Hooks(s, ctx, evt) \in {WiFiIdle(ctx, evt), WiFiConnecting(ctx, evt),
                              WiFiActive(ctx, evt), WiFiFailed(ctx, evt)}
  BY TimeoutBlocks DEF WiFiStates
<1>2. /\ WiFiIdle(ctx, evt).exit = ctx /\ WiFiConnecting(ctx, evt).exit = Cleared(ctx)
      /\ WiFiActive(ctx, evt).exit = ctx /\ WiFiFailed(ctx, evt).exit = ctx
  BY Blocks DEF WiFiIdle, WiFiConnecting, WiFiActive, WiFiFailed
<1>3. WiFiToward(n, Cleared(ctx), seen)
  BY WiFiTimer DEF WiFiToward
<1> QED
  BY <1>1, <1>2, <1>3

(* The process hook keeps it, or prepares the transition.                  *)
LEMMA WiFiProcess ==
  ASSUME seen \in SeenType, evt \in WiFiEvents, WiFiRest(self, ctx, seen),
         NEW answer, answer = Hooks(self, ctx, evt).process
  PROVE  IF answer.to = << >> THEN WiFiRest(self, answer.ctx, Observed(answer))
         ELSE WiFiToward(answer.to[1], answer.ctx, Observed(answer))
<1>1. /\ ctx \in WiFiFields /\ ctx.retry_count \in Nat /\ MaxRetries \in Nat \ {0}
      /\ seen.tries \in Nat /\ seen.tries <= MaxRetries
  BY RetriesAssumption DEF SeenType, WiFiRest, WiFiFields
<1>2. \A n : evt = <<n>> <=> evt[1] = n
  BY Names DEF WiFiEvents
<1>3. ASSUME answer = Stay(ctx)
      PROVE  answer.to = << >> /\ WiFiRest(self, answer.ctx, Observed(answer))
  BY <1>3, Answers, ObservedStay DEF WiFiRest
<1>4. ASSUME NEW n, NEW c, answer = GoTo(n, c), WiFiToward(n, c, Observed(GoTo(n, c)))
      PROVE  answer.to # << >> /\ WiFiToward(answer.to[1], answer.ctx, Observed(answer))
  BY <1>4, Answers
<1>5. \A n, c : /\ Observed(GoTo(n, c)).tries \in {0, seen.tries}
                /\ evt[1] = "Disconnect" => Observed(GoTo(n, c)).tries = 0
                /\ evt[1] = "CheckTimeout" => Observed(GoTo(n, c)).tries = seen.tries
  BY ObservedGo
<1>6. CASE self = WiFi("Idle") /\ ctx.retry_count = 0 /\ seen.tries = 0
  <2>1. Hooks(self, ctx, evt) = WiFiIdle(ctx, evt)
    BY <1>6, TimeoutBlocks
  <2>2. answer \in {Stay(ctx), GoTo(WiFi("Connecting"), ctx)}
    BY <2>1, Blocks DEF WiFiIdle
  <2>3. WiFiToward(WiFi("Connecting"), ctx, Observed(GoTo(WiFi("Connecting"), ctx)))
    BY <1>1, <1>5, <1>6 DEF WiFiToward
  <2> QED
    BY <1>3, <1>4, <2>2, <2>3
<1>7. CASE self = WiFi("Connecting") /\ seen.tries = ctx.retry_count + 1
  <2> DEFINE c == Cleared(ctx)
  <2>1. Hooks(self, ctx, evt) = WiFiConnecting(ctx, evt)
    BY <1>7, TimeoutBlocks
  <2>2. \/ answer \in {Stay(ctx), GoTo(WiFi("Active"), c)}
        \/ answer = GoTo(WiFi("Failed"), c) /\ evt[1] = "CheckTimeout"
    BY <1>2, <2>1, Blocks DEF WiFiConnecting
  <2>3. c \in WiFiFields /\ c.timer = "off" /\ c.retry_count = ctx.retry_count
    BY <1>1, WiFiTimer
  <2> HIDE DEF c
  <2>4. WiFiToward(WiFi("Active"), c, Observed(GoTo(WiFi("Active"), c)))
    BY <1>1, <1>5, <2>3 DEF WiFiToward
  <2>5. evt[1] = "CheckTimeout" =>
          WiFiToward(WiFi("Failed"), c, Observed(GoTo(WiFi("Failed"), c)))
    BY <1>1, <1>5, <1>7, <2>3 DEF WiFiToward
  <2> QED
    BY <1>3, <1>4, <2>2, <2>4, <2>5
<1>8. CASE self = WiFi("Active")
  <2>1. Hooks(self, ctx, evt) = WiFiActive(ctx, evt)
    BY <1>8, TimeoutBlocks
  <2>2. \/ answer = Stay(ctx)
        \/ answer = GoTo(WiFi("Idle"), ctx) /\ evt[1] = "Disconnect"
    BY <1>2, <2>1, Blocks DEF WiFiActive
  <2>3. evt[1] = "Disconnect" =>
          WiFiToward(WiFi("Idle"), ctx, Observed(GoTo(WiFi("Idle"), ctx)))
    BY <1>1, <1>5 DEF WiFiToward
  <2> QED
    BY <1>3, <1>4, <2>2, <2>3
<1>9. CASE self = WiFi("Failed") /\ seen.tries = ctx.retry_count
  <2> DEFINE c == Cleared(ctx)
  <2>1. Hooks(self, ctx, evt) = WiFiFailed(ctx, evt)
    BY <1>9, TimeoutBlocks
  <2>2. \/ answer = Stay(ctx)
        \/ /\ answer = GoTo(WiFi("Connecting"), c)
           /\ evt[1] = "CheckTimeout" /\ ctx.retry_count < MaxRetries
    BY <1>2, <2>1, Blocks DEF WiFiFailed
  <2>3. c \in WiFiFields /\ c.retry_count = ctx.retry_count
    BY <1>1, WiFiTimer
  <2> HIDE DEF c
  <2>4. evt[1] = "CheckTimeout" /\ ctx.retry_count < MaxRetries =>
          WiFiToward(WiFi("Connecting"), c, Observed(GoTo(WiFi("Connecting"), c)))
    BY <1>1, <1>5, <1>9, <2>3 DEF WiFiToward
  <2> QED
    BY <1>3, <1>4, <2>2, <2>4
<1> QED
  BY <1>6, <1>7, <1>8, <1>9 DEF WiFiRest

(* The timer may expire at any moment.                                     *)
LEMMA WiFiExpire ==
  ASSUME ctx.timer = "running", NEW s, NEW c, c = [ctx EXCEPT !.timer = "expired"]
  PROVE  /\ WiFiRest(s, ctx, seen) => WiFiRest(s, c, seen)
         /\ WiFiToward(s, ctx, seen) => WiFiToward(s, c, seen)
BY DEF WiFiRest, WiFiToward, WiFiFields, Timers

-----------------------------------------------------------------------------
(* timeouts.rs, UserSession.                                               *)

(* The context.                                                            *)
SessionFields == [timer : Timers, username : Users \cup {0}]

(* A user name and a timer exactly while somebody is logged in.            *)
SessionRest(s, c) ==
  /\ c \in SessionFields
  /\ \/ s = Session("LoggedOut") /\ c.username = 0 /\ c.timer = "off"
     \/ s = Session("Active") /\ c.username \in Users /\ c.timer # "off"

(* What the entry hook expects of the context.                             *)
SessionToward(n, c) ==
  /\ c \in SessionFields
  /\ \/ n = Session("LoggedOut") /\ c.timer = "off"
     \/ n = Session("Active") /\ c.username \in Users

(* What the exit hook expects of it.                                       *)
SessionLeave(s, n, c) ==
  /\ c \in SessionFields
  /\ \/ s = Session("Active") /\ n = Session("LoggedOut")
     \/ s = Session("LoggedOut") /\ n = Session("Active") /\ c.username \in Users

(* Starting and clearing the timer leaves the user name alone.             *)
LEMMA SessionTimer ==
  ASSUME NEW c \in SessionFields
  PROVE  /\ Started(c) \in SessionFields /\ Cleared(c) \in SessionFields
         /\ Started(c).timer = "running" /\ Cleared(c).timer = "off"
         /\ Started(c).username = c.username /\ Cleared(c).username = c.username
BY DEF SessionFields, Started, Cleared, Timers

(* The entry hook completes it.                                            *)
LEMMA SessionEntry ==
  ASSUME NEW n, SessionToward(n, ctx)
  PROVE  SessionRest(n, Hooks(n, ctx, evt).entry)
<1>1. ctx \in SessionFields
  BY DEF SessionToward
<1>2. CASE n = Session("LoggedOut") /\ ctx.timer = "off"
  <2>1. Hooks(n, ctx, evt).entry = [ctx EXCEPT !.username = 0]
    <3>1. Hooks(n, ctx, evt) = SessionLoggedOut(ctx, evt)
      BY <1>2, TimeoutBlocks
    <3> QED
      BY <3>1, Blocks DEF SessionLoggedOut
  <2> QED
    BY <1>1, <1>2, <2>1 DEF SessionRest, SessionFields
<1>3. CASE n = Session("Active") /\ ctx.username \in Users
  <2>1. Hooks(n, ctx, evt).entry = Started(ctx)
    <3>1. Hooks(n, ctx, evt) = SessionActive(ctx, evt)
      BY <1>3, TimeoutBlocks
    <3> QED
      BY <3>1, Blocks DEF SessionActive
  <2> QED
    BY <1>1, <1>3, <2>1, SessionTimer DEF SessionRest
<1> QED
  BY <1>2, <1>3 DEF SessionToward

(* The exit hook leaves what the entry hook expects.                       *)
LEMMA SessionExit ==
  ASSUME NEW s, NEW n, SessionLeave(s, n, ctx)
  PROVE  SessionToward(n, Hooks(s, ctx, evt).exit)
<1>1. ctx \in SessionFields
  BY DEF SessionLeave
<1>2. CASE s = Session("Active") /\ n = Session("LoggedOut")
  <2>1. Hooks(s, ctx, evt).exit = Cleared(ctx)
    <3>1. Hooks(s, ctx, evt) = SessionActive(ctx, evt)
      BY <1>2, TimeoutBlocks
    <3> QED
      BY <3>1, Blocks DEF SessionActive
  <2> QED
    BY <1>1, <1>2, <2>1, SessionTimer DEF SessionToward
<1>3. CASE s = Session("LoggedOut") /\ n = Session("Active") /\ ctx.username \in Users
  <2>1. Hooks(s, ctx, evt).exit = ctx
    <3>1. Hooks(s, ctx, evt) = SessionLoggedOut(ctx, evt)
      BY <1>3, TimeoutBlocks
    <3> QED
      BY <3>1, Blocks DEF SessionLoggedOut
  <2> QED
    BY <1>1, <1>3, <2>1 DEF SessionToward
<1> QED
  BY <1>2, <1>3 DEF SessionLeave

(* The process hook keeps it, or prepares the transition.                  *)
LEMMA SessionProcess ==
  ASSUME evt \in SessionEvents, SessionRest(self, ctx),
         NEW answer, answer = Hooks(self, ctx, evt).process
  PROVE  IF answer.to = << >> THEN SessionRest(self, answer.ctx)
         ELSE SessionLeave(self, answer.to[1], answer.ctx)
<1>1. ctx \in SessionFields
  BY DEF SessionRest
<1>2. ASSUME answer = Stay(ctx)
      PROVE  answer.to = << >> /\ SessionRest(self, answer.ctx)
  BY <1>2, Answers
<1>3. CASE self = Session("LoggedOut")
  <2>1. Hooks(self, ctx, evt) = SessionLoggedOut(ctx, evt)
    BY <1>3, TimeoutBlocks
  <2>2. evt[1] = "Login" => evt[2] \in Users
    BY PairNames DEF SessionEvents, Plainly
  <2> DEFINE named == [ctx EXCEPT !.username = evt[2]]
  <2>3. CASE evt[1] = "Login"
    <3>1. answer = GoTo(Session("Active"), named)
      BY <2>1, <2>3, Blocks DEF SessionLoggedOut
    <3>2. SessionLeave(self, Session("Active"), named)
      BY <1>1, <1>3, <2>2, <2>3 DEF SessionLeave, SessionFields
    <3> QED
      BY <3>1, <3>2, Answers
  <2>4. CASE evt[1] # "Login"
    BY <1>2, <2>1, <2>4, Blocks DEF SessionLoggedOut
  <2> QED
    BY <2>3, <2>4
<1>4. CASE self = Session("Active") /\ ctx.username \in Users /\ ctx.timer # "off"
  <2>1. Hooks(self, ctx, evt) = SessionActive(ctx, evt)
    BY <1>4, TimeoutBlocks
  <2>2. answer \in {Stay(ctx), Stay(Started(ctx)), GoTo(Session("LoggedOut"), ctx)}
    BY <2>1, Blocks DEF SessionActive
  <2>3. CASE answer = Stay(Started(ctx))
    <3>1. SessionRest(self, Started(ctx))
      BY <1>1, <1>4, SessionTimer DEF SessionRest
    <3> QED
      BY <2>3, <3>1, Answers
  <2>4. CASE answer = GoTo(Session("LoggedOut"), ctx)
    <3>1. SessionLeave(self, Session("LoggedOut"), ctx)
      BY <1>1, <1>4 DEF SessionLeave
    <3> QED
      BY <2>4, <3>1, Answers
  <2> QED
    BY <1>2, <2>2, <2>3, <2>4
<1> QED
  BY <1>3, <1>4 DEF SessionRest

(* The timer may expire at any moment.                                     *)
LEMMA SessionExpire ==
  ASSUME ctx.timer = "running", NEW s, NEW n, NEW c, c = [ctx EXCEPT !.timer = "expired"]
  PROVE  /\ SessionRest(s, ctx) => SessionRest(s, c)
         /\ SessionToward(n, ctx) => SessionToward(n, c)
         /\ SessionLeave(s, n, ctx) => SessionLeave(s, n, c)
BY DEF SessionRest, SessionToward, SessionLeave, SessionFields, Timers

-----------------------------------------------------------------------------
(* timeouts.rs, DebouncedButton.  A debounce that has begun is one ahead   *)
(* of press_count until Debouncing's process hook counts it.               *)

(* The context.                                                            *)
ButtonFields == [timer : Timers, press_count : Nat]

(* The debounces begun are the presses counted, and the one under way.     *)
ButtonRest(s, c, o) ==
  /\ c \in ButtonFields
  /\ \/ s \in {Button("Idle"), Button("Pressed")} /\ o.bounces = c.press_count
     \/ s = Button("Debouncing") /\ o.bounces = c.press_count + 1 /\ c.timer # "off"

(* What the entry hook expects of the context.                             *)
ButtonToward(n, c, o) ==
  /\ c \in ButtonFields
  /\ n \in {Button("Idle"), Button("Debouncing"), Button("Pressed")}
  /\ o.bounces = c.press_count

(* The entry hook completes it.                                            *)
LEMMA ButtonEntry ==
  ASSUME seen \in SeenType, NEW n, ButtonToward(n, ctx, seen)
  PROVE  ButtonRest(n, Hooks(n, ctx, evt).entry, Entered(n))
<1>1. ctx \in ButtonFields /\ seen.bounces = ctx.press_count /\ ctx.press_count \in Nat
  BY DEF ButtonToward, ButtonFields
<1>2. CASE n = Button("Debouncing")
  <2>1. Hooks(n, ctx, evt).entry = Started(ctx)
    <3>1. Hooks(n, ctx, evt) = ButtonDebouncing(ctx, evt)
      BY <1>2, TimeoutBlocks
    <3> QED
      BY <3>1, Blocks DEF ButtonDebouncing
  <2>2. n.in = "Debouncing"
    BY <1>2, Tags
  <2>3. Entered(n).bounces = seen.bounces + 1
    BY <2>2, EnteredSeen
  <2>4. /\ Started(ctx) \in ButtonFields /\ Started(ctx).timer = "running"
        /\ Started(ctx).press_count = ctx.press_count
    BY <1>1 DEF ButtonFields, Started, Timers
  <2> QED
    BY <1>1, <1>2, <2>1, <2>3, <2>4 DEF ButtonRest
<1>3. CASE n = Button("Idle")
  <2>1. Hooks(n, ctx, evt).entry = ctx
    <3>1. Hooks(n, ctx, evt) = ButtonIdle(ctx, evt)
      BY <1>3, TimeoutBlocks
    <3> QED
      BY <3>1, Blocks DEF ButtonIdle
  <2>2. n.in = "Idle"
    BY <1>3, Tags
  <2>3. Entered(n).bounces = seen.bounces
    BY <2>2, EnteredSeen
  <2> QED
    BY <1>1, <1>3, <2>1, <2>3 DEF ButtonRest
<1>4. CASE n = Button("Pressed")
  <2>1. Hooks(n, ctx, evt).entry = ctx
    <3>1. Hooks(n, ctx, evt) = ButtonPressed(ctx, evt)
      BY <1>4, TimeoutBlocks
    <3> QED
      BY <3>1, Blocks DEF ButtonPressed
  <2>2. n.in = "Pressed"
    BY <1>4, Tags
  <2>3. Entered(n).bounces = seen.bounces
    BY <2>2, EnteredSeen
  <2> QED
    BY <1>1, <1>4, <2>1, <2>3 DEF ButtonRest
<1> QED
  BY <1>2, <1>3, <1>4 DEF ButtonToward

(* The exit hooks are empty.                                               *)
LEMMA ButtonExit ==
  ASSUME NEW s, NEW e, NEW c, s \in {Button("Idle"), Button("Debouncing"), Button("Pressed")}
  PROVE  Hooks(s, c, e).exit = c
<1>1. Hooks(s, c, e) \in {ButtonIdle(c, e), ButtonDebouncing(c, e), ButtonPressed(c, e)}
  BY TimeoutBlocks
<1>2. /\ ButtonIdle(c, e).exit = c
      /\ ButtonDebouncing(c, e).exit = c
      /\ ButtonPressed(c, e).exit = c
  BY Blocks DEF ButtonIdle, ButtonDebouncing, ButtonPressed
<1> QED
  BY <1>1, <1>2

(* The process hook keeps it, or prepares the transition.                  *)
LEMMA ButtonProcess ==
  ASSUME seen \in SeenType, ButtonRest(self, ctx, seen),
         NEW answer, answer = Hooks(self, ctx, evt).process
  PROVE  IF answer.to = << >> THEN ButtonRest(self, answer.ctx, Observed(answer))
         ELSE ButtonToward(answer.to[1], answer.ctx, Observed(answer))
<1>1. ctx \in ButtonFields /\ ctx.press_count \in Nat
  BY DEF ButtonRest, ButtonFields
<1>2. Observed(answer).bounces = seen.bounces
  BY ObservedFresh
<1>3. ASSUME answer = Stay(ctx)
      PROVE  answer.to = << >> /\ ButtonRest(self, answer.ctx, Observed(answer))
  BY <1>2, <1>3, Answers DEF ButtonRest
<1>4. CASE self = Button("Debouncing") /\ seen.bounces = ctx.press_count + 1
  <2> DEFINE counted == [ctx EXCEPT !.press_count = @ + 1]
  <2>1. Hooks(self, ctx, evt) = ButtonDebouncing(ctx, evt)
    BY <1>4, TimeoutBlocks
  <2>2. answer \in {Stay(ctx), GoTo(Button("Pressed"), counted)}
    BY <2>1, Blocks DEF ButtonDebouncing
  <2>3. CASE answer = GoTo(Button("Pressed"), counted)
    <3>1. ButtonToward(Button("Pressed"), counted, Observed(answer))
      BY <1>1, <1>2, <1>4 DEF ButtonToward, ButtonFields
    <3> QED
      BY <2>3, <3>1, Answers
  <2> QED
    BY <1>3, <2>2, <2>3
<1>5. CASE self \in {Button("Idle"), Button("Pressed")} /\ seen.bounces = ctx.press_count
  <2>1. Hooks(self, ctx, evt) \in {ButtonIdle(ctx, evt), ButtonPressed(ctx, evt)}
    BY <1>5, TimeoutBlocks
  <2>2. answer \in {Stay(ctx), GoTo(Button("Debouncing"), ctx)}
    BY <2>1, Blocks DEF ButtonIdle, ButtonPressed
  <2>3. CASE answer = GoTo(Button("Debouncing"), ctx)
    <3>1. ButtonToward(Button("Debouncing"), ctx, Observed(answer))
      BY <1>1, <1>2, <1>5 DEF ButtonToward
    <3> QED
      BY <2>3, <3>1, Answers
  <2> QED
    BY <1>3, <2>2, <2>3
<1> QED
  BY <1>4, <1>5 DEF ButtonRest

(* The timer may expire at any moment.                                     *)
LEMMA ButtonExpire ==
  ASSUME ctx.timer = "running", NEW s, NEW c, c = [ctx EXCEPT !.timer = "expired"]
  PROVE  /\ ButtonRest(s, ctx, seen) => ButtonRest(s, c, seen)
         /\ ButtonToward(s, ctx, seen) => ButtonToward(s, c, seen)
BY DEF ButtonRest, ButtonToward, ButtonFields, Timers

-----------------------------------------------------------------------------
(* connection.rs, ConnectionManager.  The number in the variant and the    *)
(* number in the context are written in different hooks.                   *)

(* The context.                                                            *)
ConnectionFields == [attempt_count : Nat]

(* The attempt of the variant is the one of the context.                   *)
ConnectionRest(s, c, o) ==
  /\ c \in ConnectionFields
  /\ o.tries <= MaxRetries
  /\ \/ /\ s \in {Manager("Disconnected", << >>), Manager("Connected", << >>)}
        /\ c.attempt_count = 0
     \/ \E k \in 1..MaxRetries :
          s = Manager("Connecting", <<k>>) /\ c.attempt_count = k /\ o.tries = k
     \/ \E k \in 1..MaxRetries :
          s = Manager("Retrying", <<k>>) /\ c.attempt_count = k - 1 /\ o.tries = k - 1
     \/ s = Manager("Failed", << >>) /\ c.attempt_count = MaxRetries

(* What the entry hook expects of the context.                             *)
ConnectionToward(n, c, o) ==
  /\ c \in ConnectionFields
  /\ o.tries <= MaxRetries
  /\ \/ n \in {Manager("Disconnected", << >>), Manager("Connected", << >>)}
     \/ \E k \in 1..MaxRetries : n = Manager("Connecting", <<k>>) /\ o.tries = k - 1
     \/ \E k \in 1..MaxRetries :
          n = Manager("Retrying", <<k>>) /\ c.attempt_count = k - 1 /\ o.tries = k - 1
     \/ n = Manager("Failed", << >>) /\ c.attempt_count = MaxRetries

(* The entry hook completes it.                                            *)
LEMMA ConnectionEntry ==
  ASSUME seen \in SeenType, NEW n, ConnectionToward(n, ctx, seen)
  PROVE  ConnectionRest(n, Hooks(n, ctx, evt).entry, Entered(n))
<1>1. ctx \in ConnectionFields /\ seen.tries \in Nat /\ seen.tries <= MaxRetries
  BY DEF ConnectionToward, SeenType
<1>2. CASE n \in {Manager("Disconnected", << >>), Manager("Connected", << >>)}
  <2>1. Hooks(n, ctx, evt) \in {Disconnected(ctx, evt), Connected(ctx, evt)}
    BY <1>2, ConnectionBlocks
  <2>2. Hooks(n, ctx, evt).entry = ResetAttempts(ctx)
    BY <2>1, Blocks DEF Disconnected, Connected
  <2>3. n.in # "Connecting"
    BY <1>2, Tags
  <2>4. Entered(n).tries = seen.tries
    BY <2>3, EnteredSeen
  <2>5. ResetAttempts(ctx) \in ConnectionFields /\ ResetAttempts(ctx).attempt_count = 0
    BY <1>1 DEF ResetAttempts, ConnectionFields
  <2> QED
    BY <1>1, <1>2, <2>2, <2>4, <2>5 DEF ConnectionRest
<1>3. ASSUME NEW k \in 1..MaxRetries, n = Manager("Connecting", <<k>>), seen.tries = k - 1
      PROVE  ConnectionRest(n, Hooks(n, ctx, evt).entry, Entered(n))
  <2> DEFINE numbered == [ctx EXCEPT !.attempt_count = k]
  <2>1. Hooks(n, ctx, evt) = Connecting(k, ctx, evt)
    BY <1>3, ConnectionBlocks
  <2>2. Hooks(n, ctx, evt).entry = numbered
    BY <2>1, Blocks DEF Connecting
  <2>3. n.in = "Connecting"
    BY <1>3, Tags
  <2>4. Entered(n).tries = k
    <3>1. Entered(n).tries = seen.tries + 1
      BY <2>3, EnteredSeen
    <3> QED
      BY <1>3, <3>1
  <2>5. numbered \in ConnectionFields /\ numbered.attempt_count = k
    BY <1>1 DEF ConnectionFields
  <2> HIDE DEF numbered
  <2> QED
    BY <1>1, <1>3, <2>2, <2>4, <2>5, RetriesAssumption DEF ConnectionRest
<1>4. ASSUME \/ n \in {Manager("Retrying", d) : d \in {<<k>> : k \in 1..MaxRetries}}
             \/ n = Manager("Failed", << >>)
      PROVE  Hooks(n, ctx, evt).entry = ctx /\ Entered(n).tries = seen.tries
  <2>1. PICK d : n \in {Manager("Retrying", d), Manager("Failed", d)}
    BY <1>4
  <2>2. Hooks(n, ctx, evt) \in {Retrying(d[1], ctx, evt), Failed(ctx, evt)}
    BY <2>1, ConnectionBlocks
  <2>3. n.in # "Connecting"
    BY <2>1, Tags
  <2>4. Hooks(n, ctx, evt).entry = ctx
    BY <2>2, Blocks DEF Retrying, Failed
  <2>5. Entered(n).tries = seen.tries
    BY <2>3, EnteredSeen
  <2> QED
    BY <2>4, <2>5
<1>5. CASE n = Manager("Failed", << >>) /\ ctx.attempt_count = MaxRetries
  BY <1>1, <1>4, <1>5 DEF ConnectionRest
<1>6. ASSUME NEW k \in 1..MaxRetries, n = Manager("Retrying", <<k>>),
             ctx.attempt_count = k - 1, seen.tries = k - 1
      PROVE  ConnectionRest(n, Hooks(n, ctx, evt).entry, Entered(n))
  BY <1>1, <1>4, <1>6 DEF ConnectionRest
<1> QED
  BY <1>2, <1>3, <1>5, <1>6 DEF ConnectionToward

(* The exit hooks are empty.                                               *)
LEMMA ConnectionExit ==
  ASSUME NEW c, NEW e, NEW d,
         NEW v \in {"Disconnected", "Connecting", "Connected", "Retrying", "Failed"}
  PROVE  Hooks(Manager(v, d), c, e).exit = c
<1>1. Hooks(Manager(v, d), c, e) \in
        {Disconnected(c, e), Connecting(d[1], c, e), Connected(c, e),
         Retrying(d[1], c, e), Failed(c, e)}
  BY ConnectionBlocks
<1>2. /\ Disconnected(c, e).exit = c /\ Connecting(d[1], c, e).exit = c
      /\ Connected(c, e).exit = c /\ Retrying(d[1], c, e).exit = c /\ Failed(c, e).exit = c
  BY Blocks DEF Disconnected, Connecting, Connected, Retrying, Failed
<1> QED
  BY <1>1, <1>2

(* The process hook keeps it, or prepares the transition.                  *)
LEMMA ConnectionProcess ==
  ASSUME seen \in SeenType, evt \in ConnectionEvents, ConnectionRest(self, ctx, seen),
         NEW answer, answer = Hooks(self, ctx, evt).process
  PROVE  IF answer.to = << >> THEN ConnectionRest(self, answer.ctx, Observed(answer))
         ELSE ConnectionToward(answer.to[1], answer.ctx, Observed(answer))
<1> DEFINE Goes(n) ==
      answer = GoTo(n, ctx) /\ ConnectionToward(n, ctx, Observed(GoTo(n, ctx)))
<1>1. /\ ctx \in ConnectionFields /\ ctx.attempt_count \in Nat
      /\ seen.tries \in Nat /\ seen.tries <= MaxRetries
      /\ MaxRetries \in Nat /\ 1 \in 1..MaxRetries
  BY RetriesAssumption DEF ConnectionRest, ConnectionFields, SeenType
<1>2. \A n : evt = <<n>> <=> evt[1] = n
  BY Names DEF ConnectionEvents
<1>3. ASSUME answer = Stay(ctx)
      PROVE  answer.to = << >> /\ ConnectionRest(self, answer.ctx, Observed(answer))
  BY <1>3, Answers, ObservedStay DEF ConnectionRest
<1>4. ASSUME NEW n, Goes(n)
      PROVE  /\ answer.to # << >>
             /\ ConnectionToward(answer.to[1], answer.ctx, Observed(answer))
  BY <1>4, Answers
<1>5. \A n : Observed(GoTo(n, ctx)).tries \in {0, seen.tries}
  BY ObservedGo
<1>6. \A n : evt[1] \in {"Connect", "ConnectionLost"} => Observed(GoTo(n, ctx)).tries = 0
  BY ObservedGo
<1>7. \A n : evt[1] \in {"ConnectionFailed", "RetryTimeout"} =>
               Observed(GoTo(n, ctx)).tries = seen.tries
  BY ObservedGo
<1>8. \A n : n \in {Manager("Disconnected", << >>), Manager("Connected", << >>)} =>
               ConnectionToward(n, ctx, Observed(GoTo(n, ctx)))
  BY <1>1, <1>5 DEF ConnectionToward
<1>9. evt[1] = "Connect" =>
        ConnectionToward(Manager("Connecting", <<1>>), ctx,
                         Observed(GoTo(Manager("Connecting", <<1>>), ctx)))
  BY <1>1, <1>6 DEF ConnectionToward
<1>10. CASE self = Manager("Disconnected", << >>)
  <2>1. Hooks(self, ctx, evt) = Disconnected(ctx, evt)
    BY <1>10, ConnectionBlocks
  <2>2. \/ answer = Stay(ctx)
        \/ answer = GoTo(Manager("Connecting", <<1>>), ctx) /\ evt[1] = "Connect"
    BY <1>2, <2>1, Blocks DEF Disconnected
  <2> QED
    BY <1>3, <1>4, <1>9, <2>2
<1>11. CASE self = Manager("Failed", << >>)
  <2>1. Hooks(self, ctx, evt) = Failed(ctx, evt)
    BY <1>11, ConnectionBlocks
  <2>2. \/ answer = Stay(ctx)
        \/ answer = GoTo(Manager("Connecting", <<1>>), ctx) /\ evt[1] = "Connect"
    BY <1>2, <2>1, Blocks DEF Failed
  <2> QED
    BY <1>3, <1>4, <1>9, <2>2
<1>12. CASE self = Manager("Connected", << >>) /\ ctx.attempt_count = 0
  <2>1. Hooks(self, ctx, evt) = Connected(ctx, evt)
    BY <1>12, ConnectionBlocks
  <2>2. \/ answer = Stay(ctx)
        \/ answer = GoTo(Manager("Disconnected", << >>), ctx)
        \/ answer = GoTo(Manager("Retrying", <<1>>), ctx) /\ evt[1] = "ConnectionLost"
    BY <1>2, <2>1, Blocks DEF Connected
  <2>3. evt[1] = "ConnectionLost" =>
          ConnectionToward(Manager("Retrying", <<1>>), ctx,
                           Observed(GoTo(Manager("Retrying", <<1>>), ctx)))
    BY <1>1, <1>6, <1>12 DEF ConnectionToward
  <2> QED
    BY <1>3, <1>4, <1>8, <2>2, <2>3
<1>13. ASSUME NEW k \in 1..MaxRetries, self = Manager("Connecting", <<k>>),
              ctx.attempt_count = k, seen.tries = k
       PROVE  IF answer.to = << >> THEN ConnectionRest(self, answer.ctx, Observed(answer))
              ELSE ConnectionToward(answer.to[1], answer.ctx, Observed(answer))
  <2>1. Hooks(self, ctx, evt) = Connecting(k, ctx, evt)
    BY <1>13, ConnectionBlocks
  <2>2. \/ answer = Stay(ctx)
        \/ answer \in {GoTo(Manager(v, << >>), ctx) : v \in {"Disconnected", "Connected"}}
        \/ /\ answer = GoTo(Manager("Failed", << >>), ctx)
           /\ evt[1] = "ConnectionFailed" /\ k >= MaxRetries
        \/ /\ answer = GoTo(Manager("Retrying", <<k + 1>>), ctx)
           /\ evt[1] = "ConnectionFailed" /\ ~(k >= MaxRetries)
    BY <1>2, <1>13, <2>1, Blocks DEF Connecting
  <2>3. evt[1] = "ConnectionFailed" /\ k >= MaxRetries =>
          ConnectionToward(Manager("Failed", << >>), ctx,
                           Observed(GoTo(Manager("Failed", << >>), ctx)))
    BY <1>1, <1>7, <1>13 DEF ConnectionToward
  <2>4. ASSUME evt[1] = "ConnectionFailed", ~(k >= MaxRetries)
        PROVE  ConnectionToward(Manager("Retrying", <<k + 1>>), ctx,
                                Observed(GoTo(Manager("Retrying", <<k + 1>>), ctx)))
    <3>1. k + 1 \in 1..MaxRetries /\ k = (k + 1) - 1
      BY <1>1, <2>4
    <3> QED
      BY <1>1, <1>7, <1>13, <2>4, <3>1 DEF ConnectionToward
  <2> QED
    BY <1>3, <1>4, <1>8, <2>2, <2>3, <2>4
<1>14. ASSUME NEW k \in 1..MaxRetries, self = Manager("Retrying", <<k>>),
              ctx.attempt_count = k - 1, seen.tries = k - 1
       PROVE  IF answer.to = << >> THEN ConnectionRest(self, answer.ctx, Observed(answer))
              ELSE ConnectionToward(answer.to[1], answer.ctx, Observed(answer))
  <2>1. Hooks(self, ctx, evt) = Retrying(k, ctx, evt)
    BY <1>14, ConnectionBlocks
  <2>2. \/ answer = Stay(ctx)
        \/ answer = GoTo(Manager("Disconnected", << >>), ctx)
        \/ answer = GoTo(Manager("Connecting", <<k>>), ctx) /\ evt[1] = "RetryTimeout"
    BY <1>2, <2>1, Blocks DEF Retrying
  <2>3. evt[1] = "RetryTimeout" =>
          ConnectionToward(Manager("Connecting", <<k>>), ctx,
                           Observed(GoTo(Manager("Connecting", <<k>>), ctx)))
    BY <1>1, <1>7, <1>14 DEF ConnectionToward
  <2> QED
    BY <1>3, <1>4, <1>8, <2>2, <2>3
<1> QED
  BY <1>10, <1>11, <1>12, <1>13, <1>14 DEF ConnectionRest

-----------------------------------------------------------------------------
(* guards.rs, ATM.                                                         *)

(* The context.                                                            *)
ATMFields == [correct_pin : Nat, attempts : Nat, account_balance : Nat]

(* No PIN is awaited after three wrong ones; nothing is overdrawn.         *)
ATMRest(s, c) ==
  /\ c \in ATMFields
  /\ \/ s = ATM("Idle") /\ c.attempts = 0
     \/ s = ATM("WaitingPIN") /\ c.attempts < 3
     \/ s \in {ATM("Authenticated"), ATM("Blocked")}

(* What the entry hook expects of the context.                             *)
ATMToward(n, c) ==
  /\ c \in ATMFields
  /\ \/ n = ATM("WaitingPIN") /\ c.attempts < 3
     \/ n \in {ATM("Idle"), ATM("Authenticated"), ATM("Blocked")}

(* The entry hook completes it.                                            *)
LEMMA ATMEntry ==
  ASSUME NEW n, ATMToward(n, ctx)
  PROVE  ATMRest(n, Hooks(n, ctx, evt).entry)
<1>1. ctx \in ATMFields
  BY DEF ATMToward
<1>2. CASE n = ATM("Idle")
  <2>1. Hooks(n, ctx, evt) = ATMIdle(ctx, evt)
    BY <1>2, GuardBlocks
  <2>2. Hooks(n, ctx, evt).entry = [ctx EXCEPT !.attempts = 0]
    BY <2>1, Blocks DEF ATMIdle
  <2> QED
    BY <1>1, <1>2, <2>2 DEF ATMRest, ATMFields
<1>3. CASE n \in {ATM("WaitingPIN"), ATM("Authenticated"), ATM("Blocked")}
  <2>1. Hooks(n, ctx, evt) \in
          {ATMWaitingPIN(ctx, evt), ATMAuthenticated(ctx, evt), ATMBlocked(ctx, evt)}
    BY <1>3, GuardBlocks
  <2>2. Hooks(n, ctx, evt).entry = ctx
    BY <2>1, Blocks DEF ATMWaitingPIN, ATMAuthenticated, ATMBlocked
  <2>3. n # ATM("Idle")
    BY <1>3, Tags
  <2> QED
    BY <1>1, <1>3, <2>2, <2>3 DEF ATMRest, ATMToward
<1> QED
  BY <1>2, <1>3 DEF ATMToward

(* The exit hooks are empty.                                               *)
LEMMA ATMExit ==
  ASSUME NEW s, NEW c, NEW e,
         s \in {ATM("Idle"), ATM("WaitingPIN"), ATM("Authenticated"), ATM("Blocked")}
  PROVE  Hooks(s, c, e).exit = c
<1>1. Hooks(s, c, e) \in
        {ATMIdle(c, e), ATMWaitingPIN(c, e), ATMAuthenticated(c, e), ATMBlocked(c, e)}
  BY GuardBlocks
<1>2. /\ ATMIdle(c, e).exit = c /\ ATMWaitingPIN(c, e).exit = c
      /\ ATMAuthenticated(c, e).exit = c /\ ATMBlocked(c, e).exit = c
  BY Blocks DEF ATMIdle, ATMWaitingPIN, ATMAuthenticated, ATMBlocked
<1> QED
  BY <1>1, <1>2

(* The process hook keeps it, or prepares the transition.                  *)
LEMMA ATMProcess ==
  ASSUME evt \in ATMEvents, ATMRest(self, ctx),
         NEW answer, answer = Hooks(self, ctx, evt).process
  PROVE  IF answer.to = << >> THEN ATMRest(self, answer.ctx)
         ELSE ATMToward(answer.to[1], answer.ctx)
<1>1. ctx \in ATMFields /\ ctx.attempts \in Nat /\ ctx.account_balance \in Nat
  BY DEF ATMRest, ATMFields
<1>2. \/ evt \in {<<"InsertCard">>, <<"Cancel">>}
      \/ \E p \in Pins : evt = <<"EnterPIN", p>>
      \/ \E a \in Amounts : evt = <<"Withdraw", a>>
  BY DEF ATMEvents, Plainly
<1>3. ASSUME answer = Stay(ctx) PROVE answer.to = << >> /\ ATMRest(self, answer.ctx)
  BY <1>3, Answers
<1>4. ASSUME NEW n, NEW c, answer = GoTo(n, c), ATMToward(n, c)
      PROVE  answer.to # << >> /\ ATMToward(answer.to[1], answer.ctx)
  BY <1>4, Answers
<1>5. CASE self = ATM("Idle") /\ ctx.attempts = 0
  <2>1. Hooks(self, ctx, evt) = ATMIdle(ctx, evt)
    BY <1>5, GuardBlocks
  <2>2. answer \in {Stay(ctx), GoTo(ATM("WaitingPIN"), ctx)}
    BY <2>1, Blocks DEF ATMIdle
  <2>3. ATMToward(ATM("WaitingPIN"), ctx)
    BY <1>1, <1>5 DEF ATMToward
  <2> QED
    BY <1>3, <1>4, <2>2, <2>3
<1>6. CASE self = ATM("WaitingPIN") /\ ctx.attempts < 3
  <2> DEFINE wrong == [ctx EXCEPT !.attempts = @ + 1]
  <2>1. Hooks(self, ctx, evt) = ATMWaitingPIN(ctx, evt)
    BY <1>6, GuardBlocks
  <2>2. /\ wrong \in ATMFields
        /\ wrong.attempts = ctx.attempts + 1
    BY <1>1 DEF ATMFields
  <2>3. ATMWaitingPIN(ctx, evt).process \in
          {Stay(ctx), GoTo(ATM("Authenticated"), ctx), GoTo(ATM("Idle"), ctx),
           IF wrong.attempts >= 3 THEN GoTo(ATM("Blocked"), wrong) ELSE Stay(wrong)}
    BY Blocks DEF ATMWaitingPIN
  <2> HIDE DEF wrong
  <2>4. ATMToward(ATM("Authenticated"), ctx) /\ ATMToward(ATM("Idle"), ctx)
        /\ ATMToward(ATM("Blocked"), wrong)
    BY <1>1, <2>2 DEF ATMToward
  <2>5. ASSUME ~(wrong.attempts >= 3), answer = Stay(wrong)
        PROVE  answer.to = << >> /\ ATMRest(self, answer.ctx)
    <3>1. ATMRest(self, wrong)
      BY <1>1, <1>6, <2>2, <2>5 DEF ATMRest
    <3> QED
      BY <2>5, <3>1, Answers
  <2> QED
    BY <1>3, <1>4, <2>1, <2>3, <2>4, <2>5
<1>7. CASE self = ATM("Authenticated")
  <2>1. Hooks(self, ctx, evt) = ATMAuthenticated(ctx, evt)
    BY <1>7, GuardBlocks
  <2>2. CASE evt[1] = "Withdraw"
    <3> DEFINE paid == [ctx EXCEPT !.account_balance = @ - evt[2]]
    <3>1. evt[2] \in Nat /\ evt # <<"Cancel">>
      BY <1>2, <2>2, GuardsAssumption
    <3>2. answer = IF evt[2] <= ctx.account_balance THEN GoTo(ATM("Idle"), paid) ELSE Stay(ctx)
      BY <2>1, <2>2, <3>1, Blocks DEF ATMAuthenticated
    <3>3. evt[2] <= ctx.account_balance => ATMToward(ATM("Idle"), paid)
      <4>1. evt[2] <= ctx.account_balance => ctx.account_balance - evt[2] \in Nat
        BY <1>1, <3>1
      <4> QED
        BY <1>1, <4>1 DEF ATMToward, ATMFields
    <3> HIDE DEF paid
    <3> QED
      BY <1>3, <1>4, <3>2, <3>3
  <2>3. CASE evt[1] # "Withdraw"
    <3>1. answer \in {Stay(ctx), GoTo(ATM("Idle"), ctx)}
      BY <2>1, <2>3, Blocks DEF ATMAuthenticated
    <3>2. ATMToward(ATM("Idle"), ctx)
      BY <1>1 DEF ATMToward
    <3> QED
      BY <1>3, <1>4, <3>1, <3>2
  <2> QED
    BY <2>2, <2>3
<1>8. CASE self = ATM("Blocked")
  <2>1. Hooks(self, ctx, evt) = ATMBlocked(ctx, evt)
    BY <1>8, GuardBlocks
  <2> QED
    BY <1>3, <2>1, Blocks DEF ATMBlocked
<1> QED
  BY <1>5, <1>6, <1>7, <1>8 DEF ATMRest

-----------------------------------------------------------------------------
(* guards.rs, DoorLock.                                                    *)

(* The context.                                                            *)
DoorFields == [authorized_codes : {{1}}, is_locked : BOOLEAN]

(* The door is locked as its variant says.                                 *)
DoorRest(s, c) ==
  /\ c \in DoorFields
  /\ \/ s = DoorLock("Locked") /\ c.is_locked
     \/ s = DoorLock("Unlocked") /\ ~c.is_locked

(* What the entry hook expects of the context.                             *)
DoorToward(n, c) ==
  /\ c \in DoorFields
  /\ \/ n = DoorLock("Locked") /\ c.is_locked
     \/ n = DoorLock("Unlocked")

(* The entry hook completes it.                                            *)
LEMMA DoorEntry ==
  ASSUME NEW n, DoorToward(n, ctx)
  PROVE  DoorRest(n, Hooks(n, ctx, evt).entry)
<1>1. ctx \in DoorFields
  BY DEF DoorToward
<1>2. CASE n = DoorLock("Locked") /\ ctx.is_locked
  <2>1. Hooks(n, ctx, evt) = DoorLocked(ctx, evt)
    BY <1>2, GuardBlocks
  <2>2. Hooks(n, ctx, evt).entry = ctx
    BY <2>1, Blocks DEF DoorLocked
  <2> QED
    BY <1>1, <1>2, <2>2 DEF DoorRest
<1>3. CASE n = DoorLock("Unlocked")
  <2>1. Hooks(n, ctx, evt) = DoorUnlocked(ctx, evt)
    BY <1>3, GuardBlocks
  <2>2. Hooks(n, ctx, evt).entry = [ctx EXCEPT !.is_locked = FALSE]
    BY <2>1, Blocks DEF DoorUnlocked
  <2> QED
    BY <1>1, <1>3, <2>2 DEF DoorRest, DoorFields
<1> QED
  BY <1>2, <1>3 DEF DoorToward

(* The exit hooks are empty.                                               *)
LEMMA DoorExit ==
  ASSUME NEW s, NEW c, NEW e, s \in {DoorLock("Locked"), DoorLock("Unlocked")}
  PROVE  Hooks(s, c, e).exit = c
<1>1. Hooks(s, c, e) \in {DoorLocked(c, e), DoorUnlocked(c, e)}
  BY GuardBlocks
<1>2. DoorLocked(c, e).exit = c /\ DoorUnlocked(c, e).exit = c
  BY Blocks DEF DoorLocked, DoorUnlocked
<1> QED
  BY <1>1, <1>2

(* The process hook keeps it, or prepares the transition.                  *)
LEMMA DoorProcess ==
  ASSUME DoorRest(self, ctx), NEW answer, answer = Hooks(self, ctx, evt).process
  PROVE  IF answer.to = << >> THEN DoorRest(self, answer.ctx)
         ELSE DoorToward(answer.to[1], answer.ctx)
<1>1. ctx \in DoorFields
  BY DEF DoorRest
<1>2. ASSUME answer = Stay(ctx) PROVE answer.to = << >> /\ DoorRest(self, answer.ctx)
  BY <1>2, Answers
<1>3. ASSUME NEW n, NEW c, answer = GoTo(n, c), DoorToward(n, c)
      PROVE  answer.to # << >> /\ DoorToward(answer.to[1], answer.ctx)
  BY <1>3, Answers
<1>4. CASE self = DoorLock("Locked")
  <2>1. Hooks(self, ctx, evt) = DoorLocked(ctx, evt)
    BY <1>4, GuardBlocks
  <2>2. answer \in {Stay(ctx), GoTo(DoorLock("Unlocked"), ctx)}
    BY <2>1, Blocks DEF DoorLocked
  <2>3. DoorToward(DoorLock("Unlocked"), ctx)
    BY <1>1 DEF DoorToward
  <2> QED
    BY <1>2, <1>3, <2>2, <2>3
<1>5. CASE self = DoorLock("Unlocked")
  <2> DEFINE locked == [ctx EXCEPT !.is_locked = TRUE]
  <2>1. Hooks(self, ctx, evt) = DoorUnlocked(ctx, evt)
    BY <1>5, GuardBlocks
  <2>2. answer \in {Stay(ctx), GoTo(DoorLock("Locked"), locked)}
    BY <2>1, Blocks DEF DoorUnlocked
  <2>3. DoorToward(DoorLock("Locked"), locked)
    BY <1>1 DEF DoorToward, DoorFields
  <2> HIDE DEF locked
  <2> QED
    BY <1>2, <1>3, <2>2, <2>3
<1> QED
  BY <1>4, <1>5 DEF DoorRest

-----------------------------------------------------------------------------
(* guards.rs, Order.  No entry or exit hook touches its context, so the    *)
(* states need one condition for all phases.                               *)

(* The context.                                                            *)
OrderFields == [order_value : Nat, customer_credit : Nat, items_in_stock : BOOLEAN]

(* A pending order is covered by the credit.                               *)
OrderRest(s, c) ==
  /\ c \in OrderFields
  /\ \/ s \in {Order("Draft"), Order("Paid"), Order("Completed"), Order("Cancelled")}
     \/ s = Order("PendingPayment") /\ c.order_value <= c.customer_credit

(* These hooks leave the context alone.                                    *)
LEMMA OrderEntryExit ==
  ASSUME NEW s, NEW c, NEW e,
         s \in {Order("Draft"), Order("PendingPayment"), Order("Paid"),
                Order("Completed"), Order("Cancelled")}
  PROVE  Hooks(s, c, e).entry = c /\ Hooks(s, c, e).exit = c
<1>1. Hooks(s, c, e) \in
        {OrderDraft(c, e), OrderPendingPayment(c, e), OrderPaid(c, e), OrderClosed(c, e)}
  BY GuardBlocks
<1>2. /\ OrderDraft(c, e).entry = c /\ OrderDraft(c, e).exit = c
      /\ OrderPendingPayment(c, e).entry = c /\ OrderPendingPayment(c, e).exit = c
      /\ OrderPaid(c, e).entry = c /\ OrderPaid(c, e).exit = c
      /\ OrderClosed(c, e).entry = c /\ OrderClosed(c, e).exit = c
  BY Blocks DEF OrderDraft, OrderPendingPayment, OrderPaid, OrderClosed
<1> QED
  BY <1>1, <1>2

(* The process hook keeps it, or prepares the transition.                  *)
LEMMA OrderProcess ==
  ASSUME OrderRest(self, ctx), NEW answer, answer = Hooks(self, ctx, evt).process
  PROVE  IF answer.to = << >> THEN OrderRest(self, answer.ctx)
         ELSE OrderRest(answer.to[1], answer.ctx)
<1>1. ctx \in OrderFields /\ ctx.order_value \in Nat /\ ctx.customer_credit \in Nat
  BY DEF OrderRest, OrderFields
<1>2. ASSUME answer = Stay(ctx) PROVE answer.to = << >> /\ OrderRest(self, answer.ctx)
  BY <1>2, Answers
<1>3. ASSUME NEW n, NEW c, answer = GoTo(n, c), OrderRest(n, c)
      PROVE  answer.to # << >> /\ OrderRest(answer.to[1], answer.ctx)
  BY <1>3, Answers
<1>4. CASE self = Order("Draft")
  <2>1. Hooks(self, ctx, evt) = OrderDraft(ctx, evt)
    BY <1>4, GuardBlocks
  <2>2. \/ answer = Stay(ctx)
        \/ /\ answer = GoTo(Order("PendingPayment"), ctx)
           /\ ~(ctx.order_value > ctx.customer_credit)
    BY <2>1, Blocks DEF OrderDraft
  <2>3. ~(ctx.order_value > ctx.customer_credit) => OrderRest(Order("PendingPayment"), ctx)
    BY <1>1 DEF OrderRest
  <2> QED
    BY <1>2, <1>3, <2>2, <2>3
<1>5. CASE self = Order("PendingPayment") /\ ctx.order_value <= ctx.customer_credit
  <2> DEFINE paid == [ctx EXCEPT !.customer_credit = @ - ctx.order_value]
  <2>1. Hooks(self, ctx, evt) = OrderPendingPayment(ctx, evt)
    BY <1>5, GuardBlocks
  <2>2. answer \in {Stay(ctx), GoTo(Order("Paid"), paid), GoTo(Order("Cancelled"), ctx)}
    BY <2>1, Blocks DEF OrderPendingPayment
  <2>3. ctx.customer_credit - ctx.order_value \in Nat
    BY <1>1, <1>5
  <2>4. OrderRest(Order("Paid"), paid) /\ OrderRest(Order("Cancelled"), ctx)
    BY <1>1, <2>3 DEF OrderRest, OrderFields
  <2> HIDE DEF paid
  <2> QED
    BY <1>2, <1>3, <2>2, <2>4
<1>6. CASE self = Order("Paid")
  <2>1. Hooks(self, ctx, evt) = OrderPaid(ctx, evt)
    BY <1>6, GuardBlocks
  <2>2. answer \in {Stay(ctx), GoTo(Order("Completed"), ctx)}
    BY <2>1, Blocks DEF OrderPaid
  <2>3. OrderRest(Order("Completed"), ctx)
    BY <1>1 DEF OrderRest
  <2> QED
    BY <1>2, <1>3, <2>2, <2>3
<1>7. CASE self \in {Order("Completed"), Order("Cancelled")}
  <2>1. Hooks(self, ctx, evt) = OrderClosed(ctx, evt)
    BY <1>7, GuardBlocks
  <2> QED
    BY <1>2, <2>1, Blocks DEF OrderClosed
<1> QED
  BY <1>4, <1>5, <1>6, <1>7 DEF OrderRest

-----------------------------------------------------------------------------
(* hierarchical.rs, MusicPlayer with the nested VolumeControl, which is    *)
(* there exactly while the player plays.                                   *)

(* The context.                                                            *)
PlayerFields == [volume_fsm : {"None", "Low", "Medium", "High"}, level : Nat]

(* Without a nested machine nothing sounds; with one the level is that of  *)
(* its variant.                                                            *)
Stopped(c) == c \in PlayerFields /\ c.volume_fsm = "None"
Sounds(c) ==
  c \in PlayerFields /\ c.volume_fsm # "None" /\ c.level = LevelOf[c.volume_fsm]

(* A volume exactly while playing.                                         *)
PlayerRest(s, c) ==
  \/ s \in {Player("Stopped"), Player("Paused")} /\ Stopped(c)
  \/ s = Player("Playing") /\ Sounds(c)

(* What the entry hook expects of the context.                             *)
PlayerToward(n, c) ==
  n \in {Player("Stopped"), Player("Playing"), Player("Paused")} /\ Stopped(c)

(* What the exit hook expects of it.                                       *)
PlayerLeave(s, n, c) ==
  /\ n \in {Player("Stopped"), Player("Playing"), Player("Paused")}
  /\ \/ s \in {Player("Stopped"), Player("Paused")} /\ Stopped(c)
     \/ s = Player("Playing") /\ c \in PlayerFields

(* The levels the volume's entry hooks set.                                *)
LEMMA Levels ==
  /\ LevelOf["Low"] = 30 /\ LevelOf["Medium"] = 60 /\ LevelOf["High"] = 100
BY DEF LevelOf

(* Whatever the volume answers, its level is the one of its variant.       *)
LEMMA VolumeSounds ==
  ASSUME NEW c, NEW e, Sounds(c)
  PROVE  Sounds(VolumeDispatch(c, e))
<1> DEFINE to == VolumeAnswer(c.volume_fsm, e)
<1>1. c \in PlayerFields /\ c.volume_fsm \in {"Low", "Medium", "High"}
  BY DEF Sounds, PlayerFields
<1>2. to = << >> \/ to \in {<<"Low">>, <<"Medium">>, <<"High">>}
  BY <1>1 DEF VolumeAnswer, Louder, Softer
<1>3. ASSUME NEW v \in {"Low", "Medium", "High"}, to = <<v>>
      PROVE  Sounds(VolumeDispatch(c, e))
  <2>1. to # << >> /\ to[1] = v
    BY <1>3
  <2>2. VolumeDispatch(c, e) = [c EXCEPT !.level = LevelOf[v], !.volume_fsm = v]
    BY <1>1, <2>1 DEF VolumeDispatch
  <2>3. LevelOf[v] \in Nat
    BY <1>3, Levels
  <2> QED
    BY <1>1, <1>3, <2>2, <2>3 DEF Sounds, PlayerFields
<1>4. CASE to = << >>
  BY <1>4 DEF VolumeDispatch
<1> QED
  BY <1>2, <1>3, <1>4

(* The entry hook completes it.                                            *)
LEMMA PlayerEntry ==
  ASSUME NEW n, PlayerToward(n, ctx)
  PROVE  PlayerRest(n, Hooks(n, ctx, evt).entry)
<1>1. ctx \in PlayerFields /\ Stopped(ctx)
  BY DEF PlayerToward, Stopped
<1>2. CASE n = Player("Stopped")
  <2>1. Hooks(n, ctx, evt) = PlayerStopped(ctx, evt)
    BY <1>2, OtherBlocks
  <2>2. Hooks(n, ctx, evt).entry = [ctx EXCEPT !.volume_fsm = "None"]
    BY <2>1, Blocks DEF PlayerStopped
  <2> QED
    BY <1>1, <1>2, <2>2 DEF PlayerRest, Stopped, PlayerFields
<1>3. CASE n = Player("Playing")
  <2>1. Hooks(n, ctx, evt) = PlayerPlaying(ctx, evt)
    BY <1>3, OtherBlocks
  <2>2. Hooks(n, ctx, evt).entry =
          [ctx EXCEPT !.level = LevelOf["Medium"], !.volume_fsm = "Medium"]
    BY <2>1, Blocks DEF PlayerPlaying
  <2>3. LevelOf["Medium"] \in Nat
    BY Levels
  <2> QED
    BY <1>1, <1>3, <2>2, <2>3 DEF PlayerRest, Sounds, PlayerFields
<1>4. CASE n = Player("Paused")
  <2>1. Hooks(n, ctx, evt) = PlayerPaused(ctx, evt)
    BY <1>4, OtherBlocks
  <2>2. Hooks(n, ctx, evt).entry = ctx
    BY <2>1, Blocks DEF PlayerPaused
  <2> QED
    BY <1>1, <1>4, <2>2 DEF PlayerRest
<1> QED
  BY <1>2, <1>3, <1>4 DEF PlayerToward

(* The exit hook leaves what the entry hook expects.                       *)
LEMMA PlayerExit ==
  ASSUME NEW s, NEW n, PlayerLeave(s, n, ctx)
  PROVE  PlayerToward(n, Hooks(s, ctx, evt).exit)
<1>1. CASE s \in {Player("Stopped"), Player("Paused")} /\ Stopped(ctx)
  <2>1. Hooks(s, ctx, evt) \in {PlayerStopped(ctx, evt), PlayerPaused(ctx, evt)}
    BY <1>1, OtherBlocks
  <2>2. Hooks(s, ctx, evt).exit = ctx
    BY <2>1, Blocks DEF PlayerStopped, PlayerPaused
  <2> QED
    BY <1>1, <2>2 DEF PlayerLeave, PlayerToward
<1>2. CASE s = Player("Playing") /\ ctx \in PlayerFields
  <2>1. Hooks(s, ctx, evt) = PlayerPlaying(ctx, evt)
    BY <1>2, OtherBlocks
  <2>2. Hooks(s, ctx, evt).exit = [ctx EXCEPT !.volume_fsm = "None"]
    BY <2>1, Blocks DEF PlayerPlaying
  <2> QED
    BY <1>2, <2>2 DEF PlayerLeave, PlayerToward, Stopped, PlayerFields
<1> QED
  BY <1>1, <1>2 DEF PlayerLeave

(* The process hook keeps it, or prepares the transition.                  *)
LEMMA PlayerProcess ==
  ASSUME PlayerRest(self, ctx), NEW answer, answer = Hooks(self, ctx, evt).process
  PROVE  IF answer.to = << >> THEN PlayerRest(self, answer.ctx)
         ELSE PlayerLeave(self, answer.to[1], answer.ctx)
<1>1. ctx \in PlayerFields
  BY DEF PlayerRest, Stopped, Sounds
<1>2. ASSUME NEW c, answer = Stay(c), PlayerRest(self, c)
      PROVE  answer.to = << >> /\ PlayerRest(self, answer.ctx)
  BY <1>2, Answers
<1>3. ASSUME NEW n \in {Player("Stopped"), Player("Playing"), Player("Paused")},
             answer = GoTo(n, ctx)
      PROVE  answer.to # << >> /\ PlayerLeave(self, answer.to[1], answer.ctx)
  <2>1. PlayerLeave(self, n, ctx)
    BY <1>1 DEF PlayerRest, PlayerLeave
  <2> QED
    BY <1>3, <2>1, Answers
<1>4. CASE self \in {Player("Stopped"), Player("Paused")}
  <2>1. Hooks(self, ctx, evt) \in {PlayerStopped(ctx, evt), PlayerPaused(ctx, evt)}
    BY <1>4, OtherBlocks
  <2>2. answer \in {Stay(ctx), GoTo(Player("Playing"), ctx), GoTo(Player("Stopped"), ctx)}
    BY <2>1, Blocks DEF PlayerStopped, PlayerPaused
  <2> QED
    BY <1>2, <1>3, <2>2
<1>5. CASE self = Player("Playing") /\ Sounds(ctx)
  <2>1. Hooks(self, ctx, evt) = PlayerPlaying(ctx, evt)
    BY <1>5, OtherBlocks
  <2>2. answer \in {Stay(ctx), Stay(VolumeDispatch(ctx, evt[2])),
                    GoTo(Player("Paused"), ctx), GoTo(Player("Stopped"), ctx)}
    BY <2>1, Blocks DEF PlayerPlaying
  <2>3. PlayerRest(self, VolumeDispatch(ctx, evt[2]))
    BY <1>5, VolumeSounds DEF PlayerRest
  <2> QED
    BY <1>2, <1>3, <2>2, <2>3
<1> QED
  BY <1>4, <1>5 DEF PlayerRest

-----------------------------------------------------------------------------
(* concurrent_threads.rs, TaskProcessor.  Its count is the open tasks, or  *)
(* one less.                                                               *)

(* The context.                                                            *)
TaskFields == [active_tasks : Nat, failed_tasks : Nat]

(* TaskProcessor counts the open tasks, or one less: the one that led out  *)
(* of Idle.                                                                *)
OneAhead(c, o) == c.active_tasks <= o.open /\ o.open <= c.active_tasks + 1

(* Tasks counted against tasks open; failures within the limit.            *)
TaskRest(s, c, o) ==
  /\ c \in TaskFields
  /\ \/ s = Task("Idle") /\ c.active_tasks = 0 /\ o.open <= 1 /\ c.failed_tasks < 3
     \/ s = Task("Processing") /\ OneAhead(c, o) /\ c.failed_tasks < 3
     \/ s = Task("Paused") /\ OneAhead(c, o)
     \/ s = Task("Shutdown")

(* What the entry hook expects of the context.                             *)
TaskToward(n, c, o) ==
  /\ c \in TaskFields
  /\ \/ n = Task("Idle") /\ o.open <= 1 /\ c.failed_tasks < 3
     \/ n = Task("Processing") /\ OneAhead(c, o) /\ c.failed_tasks < 3
     \/ n = Task("Paused") /\ OneAhead(c, o)
     \/ n = Task("Shutdown")

(* The entry hook completes it.                                            *)
LEMMA TaskEntry ==
  ASSUME seen \in SeenType, NEW n, TaskToward(n, ctx, seen)
  PROVE  TaskRest(n, Hooks(n, ctx, evt).entry, Entered(n))
<1>1. ctx \in TaskFields /\ Entered(n).open = seen.open
  BY EnteredSeen DEF TaskToward
<1>2. CASE n = Task("Idle") /\ seen.open <= 1 /\ ctx.failed_tasks < 3
  <2>1. Hooks(n, ctx, evt) = TaskIdle(ctx, evt)
    BY <1>2, OtherBlocks
  <2>2. Hooks(n, ctx, evt).entry = [ctx EXCEPT !.active_tasks = 0]
    BY <2>1, Blocks DEF TaskIdle
  <2> QED
    BY <1>1, <1>2, <2>2 DEF TaskRest, TaskFields
<1>3. CASE n \in {Task("Processing"), Task("Paused"), Task("Shutdown")}
  <2>1. Hooks(n, ctx, evt) \in
          {TaskProcessing(ctx, evt), TaskPaused(ctx, evt), TaskShutdown(ctx, evt)}
    BY <1>3, OtherBlocks
  <2>2. Hooks(n, ctx, evt).entry = ctx
    BY <2>1, Blocks DEF TaskProcessing, TaskPaused, TaskShutdown
  <2>3. n # Task("Idle")
    BY <1>3, Tags
  <2> QED
    BY <1>1, <1>3, <2>2, <2>3 DEF TaskRest, TaskToward, OneAhead
<1> QED
  BY <1>2, <1>3 DEF TaskToward

(* The exit hooks are empty.                                               *)
LEMMA TaskExit ==
  ASSUME NEW s, NEW c, NEW e,
         s \in {Task("Idle"), Task("Processing"), Task("Paused"), Task("Shutdown")}
  PROVE  Hooks(s, c, e).exit = c
<1>1. Hooks(s, c, e) \in
        {TaskIdle(c, e), TaskProcessing(c, e), TaskPaused(c, e), TaskShutdown(c, e)}
  BY OtherBlocks
<1>2. /\ TaskIdle(c, e).exit = c /\ TaskProcessing(c, e).exit = c
      /\ TaskPaused(c, e).exit = c /\ TaskShutdown(c, e).exit = c
  BY Blocks DEF TaskIdle, TaskProcessing, TaskPaused, TaskShutdown
<1> QED
  BY <1>1, <1>2

(* The process hook keeps it, or prepares the transition.                  *)
LEMMA TaskProcess ==
  ASSUME seen \in SeenType, evt \in TaskEvents, TaskRest(self, ctx, seen),
         NEW answer, answer = Hooks(self, ctx, evt).process
  PROVE  IF answer.to = << >> THEN TaskRest(self, answer.ctx, Observed(answer))
         ELSE TaskToward(answer.to[1], answer.ctx, Observed(answer))
<1> DEFINE open == Observed(answer).open
<1>1. /\ ctx \in TaskFields /\ ctx.active_tasks \in Nat /\ ctx.failed_tasks \in Nat
      /\ seen.open \in Nat
  BY DEF TaskRest, TaskFields, SeenType
<1>2. \A n : evt = <<n>> <=> evt[1] = n
  BY Names DEF TaskEvents
<1>3. ASSUME NEW c, answer = Stay(c), TaskRest(self, c, Observed(answer))
      PROVE  answer.to = << >> /\ TaskRest(self, answer.ctx, Observed(answer))
  BY <1>3, Answers
<1>4. ASSUME NEW n, NEW c, answer = GoTo(n, c), TaskToward(n, c, Observed(answer))
      PROVE  answer.to # << >> /\ TaskToward(answer.to[1], answer.ctx, Observed(answer))
  BY <1>4, Answers
<1>5. CASE self = Task("Idle") /\ ctx.active_tasks = 0 /\ seen.open <= 1 /\ ctx.failed_tasks < 3
  <2>1. Hooks(self, ctx, evt) = TaskIdle(ctx, evt)
    BY <1>5, OtherBlocks
  <2>2. self # Task("Processing")
    BY <1>5, Tags
  <2>3. CASE evt[1] = "NewTask"
    <3>1. answer = GoTo(Task("Processing"), ctx)
      BY <1>2, <2>1, <2>3, Blocks DEF TaskIdle
    <3>2. open = 1
      BY <1>5, <2>2, <2>3, ObservedOpen
    <3>3. TaskToward(Task("Processing"), ctx, Observed(answer))
      BY <1>1, <1>5, <3>2 DEF TaskToward, OneAhead
    <3> QED
      BY <1>4, <3>1, <3>3
  <2>4. CASE evt[1] # "NewTask"
    <3>1. answer \in {Stay(ctx), GoTo(Task("Shutdown"), ctx)}
      BY <1>2, <2>1, <2>4, Blocks DEF TaskIdle
    <3>2. open = seen.open
      BY <2>2, <2>4, ObservedOpen
    <3>3. /\ TaskToward(Task("Shutdown"), ctx, Observed(answer))
          /\ TaskRest(self, ctx, Observed(answer))
      BY <1>1, <1>5, <3>2 DEF TaskToward, TaskRest
    <3> QED
      BY <1>3, <1>4, <3>1, <3>3
  <2> QED
    BY <2>3, <2>4
<1>6. CASE self = Task("Processing") /\ OneAhead(ctx, seen) /\ ctx.failed_tasks < 3
  <2> DEFINE more == [ctx EXCEPT !.active_tasks = @ + 1]
             finished == [ctx EXCEPT !.active_tasks = OneLess(@)]
             failed == [finished EXCEPT !.failed_tasks = @ + 1]
  <2>1. Hooks(self, ctx, evt) = TaskProcessing(ctx, evt)
    BY <1>6, OtherBlocks
  <2>2. self # Task("Idle")
    BY <1>6, Tags
  <2>3. OneLess(ctx.active_tasks) \in Nat
    BY <1>1 DEF OneLess
  <2>4. /\ more \in TaskFields /\ more.active_tasks = ctx.active_tasks + 1
        /\ more.failed_tasks = ctx.failed_tasks
    BY <1>1 DEF TaskFields
  <2>5. /\ finished \in TaskFields /\ finished.active_tasks = OneLess(ctx.active_tasks)
        /\ finished.failed_tasks = ctx.failed_tasks
    BY <1>1, <2>3 DEF TaskFields
  <2>6. TaskProcessing(ctx, evt).process =
          CASE evt = <<"NewTask">> -> Stay(more)
            [] evt = <<"TaskComplete">> ->
                 IF finished.active_tasks = 0 THEN GoTo(Task("Idle"), finished)
                 ELSE Stay(finished)
            [] evt = <<"TaskFailed">> ->
                 IF failed.failed_tasks >= 3 THEN GoTo(Task("Paused"), failed)
                 ELSE Stay(failed)
            [] evt = <<"Pause">> -> GoTo(Task("Paused"), ctx)
            [] evt = <<"Shutdown">> -> GoTo(Task("Shutdown"), ctx)
            [] OTHER -> Stay(ctx)
    BY Blocks DEF TaskProcessing
  <2> HIDE DEF more, finished
  <2>7. /\ failed \in TaskFields /\ failed.active_tasks = OneLess(ctx.active_tasks)
        /\ failed.failed_tasks = ctx.failed_tasks + 1
    BY <1>1, <2>3, <2>5 DEF TaskFields
  <2> HIDE DEF failed
  <2>8. OneLess(ctx.active_tasks) <= OneLess(seen.open)
        /\ OneLess(seen.open) <= OneLess(ctx.active_tasks) + 1
        /\ OneLess(seen.open) \in Nat
    BY <1>1, <1>6 DEF OneAhead, OneLess
  <2>9. CASE evt[1] = "NewTask"
    <3>1. open = seen.open + 1
      BY <1>6, <2>2, <2>9, ObservedOpen
    <3>2. answer = Stay(more)
      BY <1>2, <2>1, <2>6, <2>9
    <3>3. TaskRest(self, more, Observed(answer))
      BY <1>1, <1>6, <2>4, <3>1 DEF TaskRest, OneAhead
    <3> QED
      BY <1>3, <3>2, <3>3
  <2>10. CASE evt[1] = "TaskComplete"
    <3>1. open = OneLess(seen.open)
      BY <1>6, <2>2, <2>10, ObservedOpen
    <3>2. answer = IF finished.active_tasks = 0 THEN GoTo(Task("Idle"), finished)
                   ELSE Stay(finished)
      BY <1>2, <2>1, <2>6, <2>10
    <3>3. OneAhead(finished, Observed(answer))
      BY <2>5, <2>8, <3>1 DEF OneAhead
    <3>4. TaskRest(self, finished, Observed(answer))
      BY <1>6, <2>5, <3>3 DEF TaskRest
    <3>5. finished.active_tasks = 0 => TaskToward(Task("Idle"), finished, Observed(answer))
      BY <1>6, <2>5, <3>3 DEF TaskToward, OneAhead
    <3> QED
      BY <1>3, <1>4, <3>2, <3>4, <3>5
  <2>11. CASE evt[1] = "TaskFailed"
    <3>1. open = OneLess(seen.open)
      BY <1>6, <2>2, <2>11, ObservedOpen
    <3>2. answer = IF failed.failed_tasks >= 3 THEN GoTo(Task("Paused"), failed)
                   ELSE Stay(failed)
      BY <1>2, <2>1, <2>6, <2>11
    <3>3. OneAhead(failed, Observed(answer))
      BY <2>7, <2>8, <3>1 DEF OneAhead
    <3>4. ~(failed.failed_tasks >= 3) => TaskRest(self, failed, Observed(answer))
      BY <1>1, <1>6, <2>7, <3>3 DEF TaskRest
    <3>5. TaskToward(Task("Paused"), failed, Observed(answer))
      BY <2>7, <3>3 DEF TaskToward
    <3> QED
      BY <1>3, <1>4, <3>2, <3>4, <3>5
  <2>12. CASE evt[1] \notin {"NewTask", "TaskComplete", "TaskFailed"}
    <3>1. open = seen.open
      BY <2>12, ObservedOpen
    <3>2. answer \in {Stay(ctx), GoTo(Task("Paused"), ctx), GoTo(Task("Shutdown"), ctx)}
      BY <1>2, <2>1, <2>6, <2>12
    <3>3. OneAhead(ctx, Observed(answer))
      BY <1>6, <3>1 DEF OneAhead
    <3>4. /\ TaskRest(self, ctx, Observed(answer))
          /\ TaskToward(Task("Paused"), ctx, Observed(answer))
          /\ TaskToward(Task("Shutdown"), ctx, Observed(answer))
      BY <1>1, <1>6, <3>3 DEF TaskRest, TaskToward
    <3> QED
      BY <1>3, <1>4, <3>2, <3>4
  <2> QED
    BY <2>9, <2>10, <2>11, <2>12
<1>7. CASE self = Task("Paused") /\ OneAhead(ctx, seen)
  <2> DEFINE resumed == [ctx EXCEPT !.failed_tasks = 0]
  <2>1. Hooks(self, ctx, evt) = TaskPaused(ctx, evt)
    BY <1>7, OtherBlocks
  <2>2. self # Task("Idle") /\ self # Task("Processing")
    BY <1>7, Tags
  <2>3. open = seen.open
    BY <2>2, ObservedOpen
  <2>4. answer \in {Stay(ctx), GoTo(Task("Processing"), resumed), GoTo(Task("Shutdown"), ctx)}
    BY <2>1, Blocks DEF TaskPaused
  <2>5. /\ resumed \in TaskFields /\ resumed.active_tasks = ctx.active_tasks
        /\ resumed.failed_tasks = 0
    BY <1>1 DEF TaskFields
  <2> HIDE DEF resumed
  <2>6. /\ TaskRest(self, ctx, Observed(answer))
        /\ TaskToward(Task("Processing"), resumed, Observed(answer))
        /\ TaskToward(Task("Shutdown"), ctx, Observed(answer))
    BY <1>1, <1>7, <2>3, <2>5 DEF TaskRest, TaskToward, OneAhead
  <2> QED
    BY <1>3, <1>4, <2>4, <2>6
<1>8. CASE self = Task("Shutdown")
  <2>1. Hooks(self, ctx, evt) = TaskShutdown(ctx, evt)
    BY <1>8, OtherBlocks
  <2>2. TaskRest(self, ctx, Observed(answer))
    BY <1>1, <1>8 DEF TaskRest
  <2> QED
    BY <1>3, <2>1, <2>2, Blocks DEF TaskShutdown
<1> QED
  BY <1>5, <1>6, <1>7, <1>8 DEF TaskRest

-----------------------------------------------------------------------------
(* concurrent_isr.rs, SensorFSM.                                           *)

(* The context.                                                            *)
SensorFields == [sensor_value : Nat, sample_count : Nat]

(* What was read since monitoring started is within the limit.             *)
SensorRest(s, c, o) ==
  /\ c \in SensorFields
  /\ \/ s \in {Sensor("Idle"), Sensor("Error")}
     \/ s = Sensor("Monitoring") /\ (o.fresh => c.sensor_value <= Limit)

(* What the entry hook expects of the context.                             *)
SensorToward(n, c) ==
  c \in SensorFields /\ n \in {Sensor("Idle"), Sensor("Monitoring"), Sensor("Error")}

(* The entry hook completes it.                                            *)
LEMMA SensorEntry ==
  ASSUME seen \in SeenType, NEW n, SensorToward(n, ctx)
  PROVE  SensorRest(n, Hooks(n, ctx, evt).entry, Entered(n))
<1>1. ctx \in SensorFields /\ ~Entered(n).fresh
  BY EnteredSeen DEF SensorToward
<1>2. Hooks(n, ctx, evt) \in
        {SensorIdle(ctx, evt), SensorMonitoring(ctx, evt), SensorError(ctx, evt)}
  BY OtherBlocks DEF SensorToward
<1>3. Hooks(n, ctx, evt).entry \in {ctx, [ctx EXCEPT !.sample_count = 0]}
  BY <1>2, Blocks DEF SensorIdle, SensorMonitoring, SensorError
<1>4. Hooks(n, ctx, evt).entry \in SensorFields
  BY <1>1, <1>3 DEF SensorFields
<1> QED
  BY <1>1, <1>4 DEF SensorRest, SensorToward

(* The exit hooks are empty.                                               *)
LEMMA SensorExit ==
  ASSUME NEW s, NEW c, NEW e,
         s \in {Sensor("Idle"), Sensor("Monitoring"), Sensor("Error")}
  PROVE  Hooks(s, c, e).exit = c
<1>1. Hooks(s, c, e) \in {SensorIdle(c, e), SensorMonitoring(c, e), SensorError(c, e)}
  BY OtherBlocks
<1>2. /\ SensorIdle(c, e).exit = c /\ SensorMonitoring(c, e).exit = c
      /\ SensorError(c, e).exit = c
  BY Blocks DEF SensorIdle, SensorMonitoring, SensorError
<1> QED
  BY <1>1, <1>2

(* The process hook keeps it, or prepares the transition.                  *)
LEMMA SensorProcess ==
  ASSUME seen \in SeenType, evt \in SensorEvents, SensorRest(self, ctx, seen),
         NEW answer, answer = Hooks(self, ctx, evt).process
  PROVE  IF answer.to = << >> THEN SensorRest(self, answer.ctx, Observed(answer))
         ELSE SensorToward(answer.to[1], answer.ctx)
<1>1. ctx \in SensorFields /\ ctx.sensor_value \in Nat /\ ctx.sample_count \in Nat
  BY DEF SensorRest, SensorFields
<1>2. \/ evt \in {<<"Start">>, <<"Stop">>, <<"TimerTick">>, <<"Error">>}
      \/ evt[1] = "DataReady" /\ evt[2] \in Nat
  BY DevicesAssumption DEF SensorEvents, Plainly
<1>3. ASSUME NEW c, answer = Stay(c), SensorRest(self, c, Observed(answer))
      PROVE  answer.to = << >> /\ SensorRest(self, answer.ctx, Observed(answer))
  BY <1>3, Answers
<1>4. ASSUME NEW n \in {Sensor("Idle"), Sensor("Monitoring"), Sensor("Error")},
             NEW c \in SensorFields, answer = GoTo(n, c)
      PROVE  answer.to # << >> /\ SensorToward(answer.to[1], answer.ctx)
  BY <1>4, Answers DEF SensorToward
<1>5. CASE self \in {Sensor("Idle"), Sensor("Error")}
  <2>1. Hooks(self, ctx, evt) \in {SensorIdle(ctx, evt), SensorError(ctx, evt)}
    BY <1>5, OtherBlocks
  <2>2. answer \in {Stay(ctx), GoTo(Sensor("Monitoring"), ctx), GoTo(Sensor("Idle"), ctx)}
    BY <2>1, Blocks DEF SensorIdle, SensorError
  <2>3. SensorRest(self, ctx, Observed(answer))
    BY <1>1, <1>5 DEF SensorRest
  <2> QED
    BY <1>1, <1>3, <1>4, <2>2, <2>3
<1>6. CASE self = Sensor("Monitoring") /\ (seen.fresh => ctx.sensor_value <= Limit)
  <2> DEFINE ticked == [ctx EXCEPT !.sample_count = @ + 1]
             read == [ctx EXCEPT !.sensor_value = evt[2]]
  <2>1. Hooks(self, ctx, evt) = SensorMonitoring(ctx, evt)
    BY <1>6, OtherBlocks
  <2>2. ticked \in SensorFields /\ ticked.sensor_value = ctx.sensor_value
    BY <1>1 DEF SensorFields
  <2>3. CASE evt[1] = "DataReady" /\ evt[2] \in Nat
    <3>1. evt # <<"TimerTick">>
      BY <2>3
    <3>2. answer = IF evt[2] > Limit THEN GoTo(Sensor("Error"), read) ELSE Stay(read)
      BY <2>1, <2>3, <3>1, Blocks DEF SensorMonitoring
    <3>3. read \in SensorFields /\ read.sensor_value = evt[2]
      BY <1>1, <2>3 DEF SensorFields
    <3> HIDE DEF read
    <3>4. ~(evt[2] > Limit) => SensorRest(self, read, Observed(answer))
      BY <1>6, <2>3, <3>3, DevicesAssumption DEF SensorRest
    <3> QED
      BY <1>3, <1>4, <3>2, <3>3, <3>4
  <2>4. CASE evt \in {<<"Start">>, <<"Stop">>, <<"TimerTick">>, <<"Error">>}
    <3>1. evt[1] \notin {"DataReady", "SensorTick"}
      BY <2>4
    <3>2. answer \in {Stay(ctx), Stay(ticked),
                      GoTo(Sensor("Idle"), ctx), GoTo(Sensor("Error"), ctx)}
      BY <2>1, <3>1, Blocks DEF SensorMonitoring
    <3>3. Observed(answer).fresh <=> seen.fresh
      BY <3>1, ObservedFresh
    <3> HIDE DEF ticked
    <3>4. SensorRest(self, ctx, Observed(answer)) /\ SensorRest(self, ticked, Observed(answer))
      BY <1>1, <1>6, <2>2, <3>3 DEF SensorRest
    <3> QED
      BY <1>1, <1>3, <1>4, <3>2, <3>4
  <2> QED
    BY <1>2, <2>3, <2>4
<1> QED
  BY <1>5, <1>6 DEF SensorRest

-----------------------------------------------------------------------------
(* motor.rs.                                                               *)

(* The context.                                                            *)
MotorFields == [current_rpm : Nat]

(* The speed read since the start is within the limit.                     *)
MotorRest(s, c, o) ==
  /\ c \in MotorFields
  /\ \/ s \in {Motor("Idle"), Motor("Error")}
     \/ s = Motor("Running") /\ (o.fresh => c.current_rpm <= Limit)

(* What the entry hook expects of the context.                             *)
MotorToward(n, c) ==
  c \in MotorFields /\ n \in {Motor("Idle"), Motor("Running"), Motor("Error")}

(* These hooks leave the context alone.                                    *)
LEMMA MotorEntryExit ==
  ASSUME NEW s, NEW c, NEW e, s \in {Motor("Idle"), Motor("Running"), Motor("Error")}
  PROVE  Hooks(s, c, e).entry = c /\ Hooks(s, c, e).exit = c
<1>1. Hooks(s, c, e) \in {MotorIdle(c, e), MotorRunning(c, e), MotorError(c, e)}
  BY OtherBlocks
<1>2. /\ MotorIdle(c, e).entry = c /\ MotorIdle(c, e).exit = c
      /\ MotorRunning(c, e).entry = c /\ MotorRunning(c, e).exit = c
      /\ MotorError(c, e).entry = c /\ MotorError(c, e).exit = c
  BY Blocks DEF MotorIdle, MotorRunning, MotorError
<1> QED
  BY <1>1, <1>2

(* The entry hook completes it.                                            *)
LEMMA MotorEntry ==
  ASSUME seen \in SeenType, NEW n, MotorToward(n, ctx)
  PROVE  MotorRest(n, Hooks(n, ctx, evt).entry, Entered(n))
<1>1. ~Entered(n).fresh
  BY EnteredSeen
<1>2. Hooks(n, ctx, evt).entry = ctx
  BY MotorEntryExit DEF MotorToward
<1> QED
  BY <1>1, <1>2 DEF MotorToward, MotorRest

(* The process hook keeps it, or prepares the transition.                  *)
LEMMA MotorProcess ==
  ASSUME seen \in SeenType, evt \in MotorEvents, MotorRest(self, ctx, seen),
         NEW answer, answer = Hooks(self, ctx, evt).process
  PROVE  IF answer.to = << >> THEN MotorRest(self, answer.ctx, Observed(answer))
         ELSE MotorToward(answer.to[1], answer.ctx)
<1>1. ctx \in MotorFields
  BY DEF MotorRest
<1>2. \/ evt \in {<<"StartButton">>, <<"StopButton">>}
      \/ evt[1] = "SensorTick" /\ evt[2] \in Nat
  BY DevicesAssumption DEF MotorEvents, Plainly
<1>3. ASSUME NEW c, answer = Stay(c), MotorRest(self, c, Observed(answer))
      PROVE  answer.to = << >> /\ MotorRest(self, answer.ctx, Observed(answer))
  BY <1>3, Answers
<1>4. ASSUME NEW n \in {Motor("Idle"), Motor("Running"), Motor("Error")},
             NEW c \in MotorFields, answer = GoTo(n, c)
      PROVE  answer.to # << >> /\ MotorToward(answer.to[1], answer.ctx)
  BY <1>4, Answers DEF MotorToward
<1>5. CASE self \in {Motor("Idle"), Motor("Error")}
  <2>1. Hooks(self, ctx, evt) \in {MotorIdle(ctx, evt), MotorError(ctx, evt)}
    BY <1>5, OtherBlocks
  <2>2. answer \in {Stay(ctx), GoTo(Motor("Running"), ctx), GoTo(Motor("Idle"), ctx)}
    BY <2>1, Blocks DEF MotorIdle, MotorError
  <2>3. MotorRest(self, ctx, Observed(answer))
    BY <1>1, <1>5 DEF MotorRest
  <2> QED
    BY <1>1, <1>3, <1>4, <2>2, <2>3
<1>6. CASE self = Motor("Running") /\ (seen.fresh => ctx.current_rpm <= Limit)
  <2> DEFINE read == [ctx EXCEPT !.current_rpm = evt[2]]
  <2>1. Hooks(self, ctx, evt) = MotorRunning(ctx, evt)
    BY <1>6, OtherBlocks
  <2>2. CASE evt[1] = "SensorTick" /\ evt[2] \in Nat
    <3>1. evt # <<"StopButton">>
      BY <2>2
    <3>2. answer = IF evt[2] > Limit THEN GoTo(Motor("Error"), read) ELSE Stay(read)
      BY <2>1, <2>2, <3>1, Blocks DEF MotorRunning
    <3>3. read \in MotorFields /\ read.current_rpm = evt[2]
      BY <1>1, <2>2 DEF MotorFields
    <3> HIDE DEF read
    <3>4. ~(evt[2] > Limit) => MotorRest(self, read, Observed(answer))
      BY <1>6, <2>2, <3>3, DevicesAssumption DEF MotorRest
    <3> QED
      BY <1>3, <1>4, <3>2, <3>3, <3>4
  <2>3. CASE evt \in {<<"StartButton">>, <<"StopButton">>}
    <3>1. evt[1] \notin {"DataReady", "SensorTick"}
      BY <2>3
    <3>2. answer \in {Stay(ctx), GoTo(Motor("Idle"), ctx)}
      BY <2>1, <3>1, Blocks DEF MotorRunning
    <3>3. Observed(answer).fresh <=> seen.fresh
      BY <3>1, ObservedFresh
    <3>4. MotorRest(self, ctx, Observed(answer))
      BY <1>1, <1>6, <3>3 DEF MotorRest
    <3> QED
      BY <1>1, <1>3, <1>4, <3>2, <3>4
  <2> QED
    BY <1>2, <2>2, <2>3
<1> QED
  BY <1>5, <1>6 DEF MotorRest

-----------------------------------------------------------------------------
(* All machines.  What is known of the context in each phase of a          *)
(* dispatch.                                                               *)

(* The states of the other machines whose exit hooks touch no context.     *)
ButtonStates == {Button(v) : v \in {"Idle", "Debouncing", "Pressed"}}
ManagerStates ==
  {Manager(v, d) : v \in {"Disconnected", "Connecting", "Connected", "Retrying", "Failed"},
                   d \in {<< >>} \cup {<<k>> : k \in 1..MaxRetries}}
ATMStates == {ATM(v) : v \in {"Idle", "WaitingPIN", "Authenticated", "Blocked"}}
DoorStates == {DoorLock(v) : v \in {"Locked", "Unlocked"}}
OrderStates ==
  {Order(v) : v \in {"Draft", "PendingPayment", "Paid", "Completed", "Cancelled"}}
TaskStates == {Task(v) : v \in {"Idle", "Processing", "Paused", "Shutdown"}}
SensorStates == {Sensor(v) : v \in {"Idle", "Monitoring", "Error"}}
MotorStates == {Motor(v) : v \in {"Idle", "Running", "Error"}}

(* The context of a machine that waits in s or runs its process hook; o is *)
(* what an observer has seen.                                              *)
Rest(s, c, o) ==
  \/ WiFiRest(s, c, o)
  \/ SessionRest(s, c)
  \/ ButtonRest(s, c, o)
  \/ ConnectionRest(s, c, o)
  \/ ATMRest(s, c)
  \/ DoorRest(s, c)
  \/ OrderRest(s, c)
  \/ PlayerRest(s, c)
  \/ TaskRest(s, c, o)
  \/ SensorRest(s, c, o)
  \/ MotorRest(s, c, o)
  \/ s \in PlainStates

(* The same between the process and the exit hook, on the way from s to n. *)
Leave(s, n, c, o) ==
  \/ s \in WiFiStates /\ WiFiToward(n, c, o)
  \/ SessionLeave(s, n, c)
  \/ s \in ButtonStates /\ ButtonToward(n, c, o)
  \/ s \in ManagerStates /\ ConnectionToward(n, c, o)
  \/ s \in ATMStates /\ ATMToward(n, c)
  \/ s \in DoorStates /\ DoorToward(n, c)
  \/ s \in OrderStates /\ OrderRest(n, c)
  \/ PlayerLeave(s, n, c)
  \/ s \in TaskStates /\ TaskToward(n, c, o)
  \/ s \in SensorStates /\ SensorToward(n, c)
  \/ s \in MotorStates /\ MotorToward(n, c)
  \/ s \in PlainStates /\ n \in PlainStates

(* The same between the exit and the entry hook, and before init.          *)
Toward(n, c, o) ==
  \/ WiFiToward(n, c, o)
  \/ SessionToward(n, c)
  \/ ButtonToward(n, c, o)
  \/ ConnectionToward(n, c, o)
  \/ ATMToward(n, c)
  \/ DoorToward(n, c)
  \/ OrderRest(n, c)
  \/ PlayerToward(n, c)
  \/ TaskToward(n, c, o)
  \/ SensorToward(n, c)
  \/ MotorToward(n, c)
  \/ n \in PlainStates

(* The event is one of the machine's own.                                  *)
Fits(s, e) ==
  /\ s.of = "WiFi" => e \in WiFiEvents
  /\ s.of = "Session" => e \in SessionEvents
  /\ s.of = "Connection" => e \in ConnectionEvents
  /\ s.of = "ATM" => e \in ATMEvents
  /\ s.of = "Task" => e \in TaskEvents
  /\ s.of = "Sensor" => e \in SensorEvents
  /\ s.of = "Motor" => e \in MotorEvents

(* Before and after the process hook the context belongs to the current    *)
(* variant.  From there to the entry hook it belongs to neither: the old   *)
(* state's exit hook has yet to clear what the new one's entry hook relies *)
(* on.  A machine's dispatch never leaves the machine.                     *)
ContextInv ==
  /\ seen \in SeenType
  /\ phase \in {"created", "init", "ready", "process", "exit", "entry"}
  /\ phase \in {"created", "init"} => Toward(self, ctx, seen)
  /\ phase \in {"ready", "process"} => Rest(self, ctx, seen)
  /\ phase = "process" => Fits(self, evt)
  /\ phase = "exit" => Leave(self, new, ctx, seen)
  /\ phase = "entry" => Toward(new, ctx, seen)
  /\ phase \in {"exit", "entry"} => new.of = self.of

(* A context condition says which machine it is about, so no two hold of   *)
(* one state.                                                              *)
LEMMA RestTag ==
  ASSUME NEW s, NEW c, NEW o
  PROVE  /\ WiFiRest(s, c, o) => s \in WiFiStates /\ s.of = "WiFi"
         /\ SessionRest(s, c) => s.of = "Session"
         /\ ButtonRest(s, c, o) => s \in ButtonStates /\ s.of = "Button"
         /\ ConnectionRest(s, c, o) => s \in ManagerStates /\ s.of = "Connection"
         /\ ATMRest(s, c) => s \in ATMStates /\ s.of = "ATM"
         /\ DoorRest(s, c) => s \in DoorStates /\ s.of = "DoorLock"
         /\ OrderRest(s, c) => s \in OrderStates /\ s.of = "Order"
         /\ PlayerRest(s, c) => s.of = "Player"
         /\ TaskRest(s, c, o) => s \in TaskStates /\ s.of = "Task"
         /\ SensorRest(s, c, o) => s \in SensorStates /\ s.of = "Sensor"
         /\ MotorRest(s, c, o) => s \in MotorStates /\ s.of = "Motor"
         /\ s \in PlainStates => s.of = "Plain"
<1>1. WiFiRest(s, c, o) => s \in WiFiStates /\ s.of = "WiFi"
  BY Tags DEF WiFiRest, WiFiStates
<1>2. SessionRest(s, c) => s.of = "Session"
  BY Tags DEF SessionRest
<1>3. ButtonRest(s, c, o) => s \in ButtonStates /\ s.of = "Button"
  BY Tags DEF ButtonRest, ButtonStates
<1>4. ConnectionRest(s, c, o) => s \in ManagerStates /\ s.of = "Connection"
  <2>1. ConnectionRest(s, c, o) =>
          \E v \in {"Disconnected", "Connecting", "Connected", "Retrying", "Failed"},
             d \in {<< >>} \cup {<<k>> : k \in 1..MaxRetries} : s = Manager(v, d)
    BY DEF ConnectionRest
  <2> QED
    BY <2>1, Tags DEF ManagerStates
<1>5. ATMRest(s, c) => s \in ATMStates /\ s.of = "ATM"
  BY Tags DEF ATMRest, ATMStates
<1>6. DoorRest(s, c) => s \in DoorStates /\ s.of = "DoorLock"
  BY Tags DEF DoorRest, DoorStates
<1>7. OrderRest(s, c) => s \in OrderStates /\ s.of = "Order"
  BY Tags DEF OrderRest, OrderStates
<1>8. PlayerRest(s, c) => s.of = "Player"
  BY Tags DEF PlayerRest
<1>9. TaskRest(s, c, o) => s \in TaskStates /\ s.of = "Task"
  BY Tags DEF TaskRest, TaskStates
<1>10. SensorRest(s, c, o) => s \in SensorStates /\ s.of = "Sensor"
  BY Tags DEF SensorRest, SensorStates
<1>11. MotorRest(s, c, o) => s \in MotorStates /\ s.of = "Motor"
  BY Tags DEF MotorRest, MotorStates
<1>12. s \in PlainStates => s.of = "Plain"
  BY ExamplesAssumption
<1> QED
  BY <1>1, <1>2, <1>3, <1>4, <1>5, <1>6, <1>7, <1>8, <1>9, <1>10, <1>11, <1>12

(* The same of the conditions on the way.                                  *)
LEMMA TowardTag ==
  ASSUME NEW n, NEW c, NEW o
  PROVE  /\ WiFiToward(n, c, o) => n.of = "WiFi"
         /\ SessionToward(n, c) => n.of = "Session"
         /\ ButtonToward(n, c, o) => n.of = "Button"
         /\ ConnectionToward(n, c, o) => n.of = "Connection"
         /\ ATMToward(n, c) => n.of = "ATM"
         /\ DoorToward(n, c) => n.of = "DoorLock"
         /\ PlayerToward(n, c) => n.of = "Player"
         /\ TaskToward(n, c, o) => n.of = "Task"
         /\ SensorToward(n, c) => n.of = "Sensor"
         /\ MotorToward(n, c) => n.of = "Motor"
<1>1. WiFiToward(n, c, o) => n.of = "WiFi"
  BY Tags DEF WiFiToward
<1>2. SessionToward(n, c) => n.of = "Session"
  BY Tags DEF SessionToward
<1>3. ButtonToward(n, c, o) => n.of = "Button"
  BY Tags DEF ButtonToward
<1>4. ConnectionToward(n, c, o) => n.of = "Connection"
  <2>1. ConnectionToward(n, c, o) => \E v, d : n = Manager(v, d)
    BY DEF ConnectionToward
  <2> QED
    BY <2>1, Tags
<1>5. ATMToward(n, c) => n.of = "ATM"
  BY Tags DEF ATMToward
<1>6. DoorToward(n, c) => n.of = "DoorLock"
  BY Tags DEF DoorToward
<1>7. PlayerToward(n, c) => n.of = "Player"
  BY Tags DEF PlayerToward
<1>8. TaskToward(n, c, o) => n.of = "Task"
  BY Tags DEF TaskToward
<1>9. SensorToward(n, c) => n.of = "Sensor"
  BY Tags DEF SensorToward
<1>10. MotorToward(n, c) => n.of = "Motor"
  BY Tags DEF MotorToward
<1> QED
  BY <1>1, <1>2, <1>3, <1>4, <1>5, <1>6, <1>7, <1>8, <1>9, <1>10

(* A transition stays within its machine.                                  *)
LEMMA LeaveTag ==
  ASSUME NEW s, NEW n, NEW c, NEW o, Leave(s, n, c, o)
  PROVE  n.of = s.of
<1>1. CASE SessionLeave(s, n, c)
  BY <1>1, Tags DEF SessionLeave
<1>2. CASE PlayerLeave(s, n, c)
  BY <1>2, Tags DEF PlayerLeave
<1>3. CASE s \in PlainStates /\ n \in PlainStates
  BY <1>3, ExamplesAssumption
<1>4. /\ s \in WiFiStates => s.of = "WiFi"
      /\ s \in ButtonStates => s.of = "Button"
      /\ s \in ManagerStates => s.of = "Connection"
      /\ s \in ATMStates => s.of = "ATM"
      /\ s \in DoorStates => s.of = "DoorLock"
      /\ s \in OrderStates => s.of = "Order"
      /\ s \in TaskStates => s.of = "Task"
      /\ s \in SensorStates => s.of = "Sensor"
      /\ s \in MotorStates => s.of = "Motor"
  BY Tags DEF WiFiStates, ButtonStates, ManagerStates, ATMStates, DoorStates, OrderStates,
              TaskStates, SensorStates, MotorStates
<1> QED
  BY <1>1, <1>2, <1>3, <1>4, TowardTag, RestTag DEF Leave

(* The machines, one by one.                                               *)
LEMMA MachineCases ==
  ASSUME NEW m \in Machines
  PROVE  \/ m.start = WiFi("Idle") /\ m.contexts = {WiFiContext} /\ m.events = WiFiEvents
         \/ /\ m.start = Session("LoggedOut") /\ m.contexts = {SessionContext}
            /\ m.events = SessionEvents
         \/ m.start = Button("Idle") /\ m.contexts = {ButtonContext} /\ m.events = ButtonEvents
         \/ /\ m.start = Manager("Disconnected", << >>) /\ m.contexts = {ConnectionContext}
            /\ m.events = ConnectionEvents
         \/ m.start = ATM("Idle") /\ m.contexts = ATMContexts /\ m.events = ATMEvents
         \/ m.start = DoorLock("Locked") /\ m.contexts = {DoorContext} /\ m.events = DoorEvents
         \/ m.start = Order("Draft") /\ m.contexts = OrderContexts /\ m.events = OrderEvents
         \/ m.start = Player("Stopped") /\ m.contexts = {PlayerContext} /\ m.events = PlayerEvents
         \/ m.start = Task("Idle") /\ m.contexts = {TaskContext} /\ m.events = TaskEvents
         \/ m.start = Sensor("Idle") /\ m.contexts = {SensorContext} /\ m.events = SensorEvents
         \/ m.start = Motor("Idle") /\ m.contexts = {MotorContext} /\ m.events = MotorEvents
         \/ m.start \in PlainStates
BY DEF Machines

(* Callers send a machine its own events.                                  *)
LEMMA EventFits ==
  ASSUME NEW m \in Machines, NEW s, m.start.of = s.of, NEW e \in m.events
  PROVE  Fits(s, e)
BY MachineCases, Tags, ExamplesAssumption DEF Fits

(* What main() constructs is what init's entry hook expects.               *)
LEMMA StartToward ==
  ASSUME NEW m \in Machines, self = m.start, ctx \in m.contexts, seen = NothingSeen
  PROVE  Toward(self, ctx, seen)
<1>1. /\ seen \in SeenType /\ seen.tries = 0 /\ seen.bounces = 0 /\ seen.open = 0
      /\ MaxRetries \in Nat
  BY RetriesAssumption DEF NothingSeen, SeenType
<1>2. CASE self = WiFi("Idle") /\ ctx = WiFiContext
  <2>1. WiFiToward(self, ctx, seen)
    BY <1>1, <1>2 DEF WiFiToward, WiFiFields, WiFiContext, Timers
  <2> QED
    BY <2>1 DEF Toward
<1>3. CASE self = Session("LoggedOut") /\ ctx = SessionContext
  <2>1. SessionToward(self, ctx)
    BY <1>3 DEF SessionToward, SessionFields, SessionContext, Timers
  <2> QED
    BY <2>1 DEF Toward
<1>4. CASE self = Button("Idle") /\ ctx = ButtonContext
  <2>1. ButtonToward(self, ctx, seen)
    BY <1>1, <1>4 DEF ButtonToward, ButtonFields, ButtonContext, Timers
  <2> QED
    BY <2>1 DEF Toward
<1>5. CASE self = Manager("Disconnected", << >>) /\ ctx = ConnectionContext
  <2>1. ConnectionToward(self, ctx, seen)
    BY <1>1, <1>5 DEF ConnectionToward, ConnectionFields, ConnectionContext
  <2> QED
    BY <2>1 DEF Toward
<1>6. CASE self = ATM("Idle") /\ ctx \in ATMContexts
  <2>1. ATMToward(self, ctx)
    BY <1>6, GuardsAssumption DEF ATMToward, ATMFields, ATMContexts
  <2> QED
    BY <2>1 DEF Toward
<1>7. CASE self = DoorLock("Locked") /\ ctx = DoorContext
  <2>1. DoorToward(self, ctx)
    BY <1>7 DEF DoorToward, DoorFields, DoorContext
  <2> QED
    BY <2>1 DEF Toward
<1>8. CASE self = Order("Draft") /\ ctx \in OrderContexts
  <2>1. OrderRest(self, ctx)
    BY <1>8, GuardsAssumption DEF OrderRest, OrderFields, OrderContexts
  <2> QED
    BY <2>1 DEF Toward
<1>9. CASE self = Player("Stopped") /\ ctx = PlayerContext
  <2>1. PlayerToward(self, ctx)
    BY <1>9 DEF PlayerToward, Stopped, PlayerFields, PlayerContext
  <2> QED
    BY <2>1 DEF Toward
<1>10. CASE self = Task("Idle") /\ ctx = TaskContext
  <2>1. TaskToward(self, ctx, seen)
    BY <1>1, <1>10 DEF TaskToward, TaskFields, TaskContext
  <2> QED
    BY <2>1 DEF Toward
<1>11. CASE self = Sensor("Idle") /\ ctx = SensorContext
  <2>1. SensorToward(self, ctx)
    BY <1>11 DEF SensorToward, SensorFields, SensorContext
  <2> QED
    BY <2>1 DEF Toward
<1>12. CASE self = Motor("Idle") /\ ctx = MotorContext
  <2>1. MotorToward(self, ctx)
    BY <1>12 DEF MotorToward, MotorFields, MotorContext
  <2> QED
    BY <2>1 DEF Toward
<1>13. CASE self \in PlainStates
  BY <1>13 DEF Toward
<1>14. \/ self = WiFi("Idle") /\ ctx = WiFiContext
       \/ self = Session("LoggedOut") /\ ctx = SessionContext
       \/ self = Button("Idle") /\ ctx = ButtonContext
       \/ self = Manager("Disconnected", << >>) /\ ctx = ConnectionContext
       \/ self = ATM("Idle") /\ ctx \in ATMContexts
       \/ self = DoorLock("Locked") /\ ctx = DoorContext
       \/ self = Order("Draft") /\ ctx \in OrderContexts
       \/ self = Player("Stopped") /\ ctx = PlayerContext
       \/ self = Task("Idle") /\ ctx = TaskContext
       \/ self = Sensor("Idle") /\ ctx = SensorContext
       \/ self = Motor("Idle") /\ ctx = MotorContext
       \/ self \in PlainStates
  BY MachineCases
<1> QED
  BY <1>1, <1>2, <1>3, <1>4, <1>5, <1>6, <1>7, <1>8, <1>9, <1>10, <1>11, <1>12, <1>13, <1>14

(* Every machine starts out this way.                                      *)
LEMMA MachineInitInv == MachineInit => ContextInv
<1>1. NothingSeen \in SeenType
  BY DEF NothingSeen, SeenType
<1> QED
  BY <1>1, StartToward DEF MachineInit, Init, ContextInv

(* An entry hook completes the context for its state.                      *)
LEMMA EntryRests ==
  ASSUME seen \in SeenType, NEW n, Toward(n, ctx, seen)
  PROVE  Rest(n, Hooks(n, ctx, evt).entry, Entered(n))
<1>1. CASE OrderRest(n, ctx)
  <2>1. n \in {Order("Draft"), Order("PendingPayment"), Order("Paid"),
               Order("Completed"), Order("Cancelled")}
    BY <1>1 DEF OrderRest
  <2> QED
    BY <1>1, <2>1, OrderEntryExit DEF Rest
<1>2. CASE n \in PlainStates
  BY <1>2 DEF Rest
<1> QED
  BY <1>1, <1>2, WiFiEntry, SessionEntry, ButtonEntry, ConnectionEntry, ATMEntry,
     DoorEntry, PlayerEntry, TaskEntry, SensorEntry, MotorEntry DEF Toward, Rest

(* An exit hook leaves the context the next entry hook expects.            *)
LEMMA ExitLeaves ==
  ASSUME NEW s, NEW n, Leave(s, n, ctx, seen)
  PROVE  Toward(n, Hooks(s, ctx, evt).exit, seen)
<1>1. CASE s \in ManagerStates /\ ConnectionToward(n, ctx, seen)
  <2>1. Hooks(s, ctx, evt).exit = ctx
    BY <1>1, ConnectionExit DEF ManagerStates
  <2> QED
    BY <1>1, <2>1 DEF Toward
<1>2. CASE s \in ButtonStates /\ ButtonToward(n, ctx, seen)
  <2>1. Hooks(s, ctx, evt).exit = ctx
    BY <1>2, ButtonExit DEF ButtonStates
  <2> QED
    BY <1>2, <2>1 DEF Toward
<1>3. CASE s \in ATMStates /\ ATMToward(n, ctx)
  <2>1. Hooks(s, ctx, evt).exit = ctx
    BY <1>3, ATMExit DEF ATMStates
  <2> QED
    BY <1>3, <2>1 DEF Toward
<1>4. CASE s \in DoorStates /\ DoorToward(n, ctx)
  <2>1. Hooks(s, ctx, evt).exit = ctx
    BY <1>4, DoorExit DEF DoorStates
  <2> QED
    BY <1>4, <2>1 DEF Toward
<1>5. CASE s \in OrderStates /\ OrderRest(n, ctx)
  <2>1. Hooks(s, ctx, evt).exit = ctx
    BY <1>5, OrderEntryExit DEF OrderStates
  <2> QED
    BY <1>5, <2>1 DEF Toward
<1>6. CASE s \in TaskStates /\ TaskToward(n, ctx, seen)
  <2>1. Hooks(s, ctx, evt).exit = ctx
    BY <1>6, TaskExit DEF TaskStates
  <2> QED
    BY <1>6, <2>1 DEF Toward
<1>7. CASE s \in SensorStates /\ SensorToward(n, ctx)
  <2>1. Hooks(s, ctx, evt).exit = ctx
    BY <1>7, SensorExit DEF SensorStates
  <2> QED
    BY <1>7, <2>1 DEF Toward
<1>8. CASE s \in MotorStates /\ MotorToward(n, ctx)
  <2>1. Hooks(s, ctx, evt).exit = ctx
    BY <1>8, MotorEntryExit DEF MotorStates
  <2> QED
    BY <1>8, <2>1 DEF Toward
<1> QED
  BY <1>1, <1>2, <1>3, <1>4, <1>5, <1>6, <1>7, <1>8, WiFiExit, SessionExit, PlayerExit
     DEF Leave, Toward

(* A process hook keeps the context right for its state when it stays, and *)
(* for the exit hook when it moves.                                        *)
LEMMA ProcessAnswers ==
  ASSUME seen \in SeenType, Rest(self, ctx, seen), Fits(self, evt), self \notin PlainStates,
         NEW answer, answer = Hooks(self, ctx, evt).process
  PROVE  IF answer.to = << >> THEN Rest(self, answer.ctx, Observed(answer))
         ELSE Leave(self, answer.to[1], answer.ctx, Observed(answer))
<1>1. CASE WiFiRest(self, ctx, seen)
  BY <1>1, RestTag, WiFiProcess DEF Fits, Rest, Leave
<1>2. CASE SessionRest(self, ctx)
  BY <1>2, RestTag, SessionProcess DEF Fits, Rest, Leave
<1>3. CASE ButtonRest(self, ctx, seen)
  BY <1>3, RestTag, ButtonProcess DEF Rest, Leave
<1>4. CASE ConnectionRest(self, ctx, seen)
  BY <1>4, RestTag, ConnectionProcess DEF Fits, Rest, Leave
<1>5. CASE ATMRest(self, ctx)
  BY <1>5, RestTag, ATMProcess DEF Fits, Rest, Leave
<1>6. CASE DoorRest(self, ctx)
  BY <1>6, RestTag, DoorProcess DEF Rest, Leave
<1>7. CASE OrderRest(self, ctx)
  BY <1>7, RestTag, OrderProcess DEF Rest, Leave
<1>8. CASE PlayerRest(self, ctx)
  BY <1>8, PlayerProcess DEF Rest, Leave
<1>9. CASE TaskRest(self, ctx, seen)
  BY <1>9, RestTag, TaskProcess DEF Fits, Rest, Leave
<1>10. CASE SensorRest(self, ctx, seen)
  BY <1>10, RestTag, SensorProcess DEF Fits, Rest, Leave
<1>11. CASE MotorRest(self, ctx, seen)
  BY <1>11, RestTag, MotorProcess DEF Fits, Rest, Leave
<1> QED
  BY <1>1, <1>2, <1>3, <1>4, <1>5, <1>6, <1>7, <1>8, <1>9, <1>10, <1>11 DEF Rest

(* Contexts without a timer are those of the other machines.               *)
LEMMA Untimed ==
  ASSUME "timer" \in DOMAIN ctx
  PROVE  /\ ctx \notin ConnectionFields /\ ctx \notin ATMFields /\ ctx \notin DoorFields
         /\ ctx \notin OrderFields /\ ctx \notin PlayerFields /\ ctx \notin TaskFields
         /\ ctx \notin SensorFields /\ ctx \notin MotorFields
BY DEF ConnectionFields, ATMFields, DoorFields, OrderFields, PlayerFields, TaskFields,
       SensorFields, MotorFields

(* A timer that expires between or during hooks disturbs none of it.       *)
LEMMA ExpireKeeps ==
  ASSUME "timer" \in DOMAIN ctx, ctx.timer = "running",
         NEW c, c = [ctx EXCEPT !.timer = "expired"], NEW s, NEW n
  PROVE  /\ Rest(s, ctx, seen) => Rest(s, c, seen)
         /\ Toward(n, ctx, seen) => Toward(n, c, seen)
         /\ Leave(s, n, ctx, seen) => Leave(s, n, c, seen)
<1>1. /\ ~ConnectionRest(s, ctx, seen) /\ ~ConnectionToward(n, ctx, seen)
      /\ ~ATMRest(s, ctx) /\ ~ATMToward(n, ctx)
      /\ ~DoorRest(s, ctx) /\ ~DoorToward(n, ctx)
      /\ ~OrderRest(s, ctx) /\ ~OrderRest(n, ctx)
      /\ ~TaskRest(s, ctx, seen) /\ ~TaskToward(n, ctx, seen)
      /\ ~SensorRest(s, ctx, seen) /\ ~SensorToward(n, ctx)
      /\ ~MotorRest(s, ctx, seen) /\ ~MotorToward(n, ctx)
  BY Untimed DEF ConnectionRest, ConnectionToward, ATMRest, ATMToward, DoorRest, DoorToward,
     OrderRest, TaskRest, TaskToward, SensorRest, SensorToward, MotorRest, MotorToward
<1>2. ~PlayerRest(s, ctx) /\ ~PlayerToward(n, ctx) /\ ~PlayerLeave(s, n, ctx)
  BY Untimed DEF PlayerRest, PlayerToward, PlayerLeave, Stopped, Sounds
<1> QED
  BY <1>1, <1>2, WiFiExpire, SessionExpire, ButtonExpire DEF Rest, Toward, Leave

(* Every step of a machine keeps the invariant.                            *)
LEMMA MachineStepInv == ContextInv /\ [MachineNext]_allVars => ContextInv'
<1> SUFFICES ASSUME ContextInv, [MachineNext]_allVars PROVE ContextInv'
  OBVIOUS
<1>0. seen \in SeenType
  BY DEF ContextInv
<1>1. CASE CallMachineInit
  BY <1>1 DEF ContextInv, CallMachineInit, CallInit
<1>2. CASE RunInitEntry
  <2>1. Rest(self, ctx', seen') /\ seen' \in SeenType
    BY <1>2, EntryRests, EnteredSeen DEF ContextInv, RunInitEntry, InitEntry
  <2> QED
    BY <1>2, <2>1 DEF ContextInv, RunInitEntry, InitEntry
<1>3. ASSUME NEW e \in Events, Submit(e) PROVE ContextInv'
  <2>1. Fits(self, e)
    BY <1>3, EventFits DEF Submit
  <2> QED
    BY <1>3, <2>1 DEF ContextInv, Submit, Dispatch
<1>4. CASE RunProcess
  <2> DEFINE answer == Hooks(self, ctx, evt).process
  <2>1. /\ Rest(self, ctx, seen) /\ Fits(self, evt) /\ self \notin PlainStates
        /\ ctx' = answer.ctx /\ seen' = Observed(answer)
        /\ IF answer.to = << >> THEN ProcessStay ELSE ProcessTo(answer.to[1])
    BY <1>4 DEF ContextInv, RunProcess
  <2>2. IF answer.to = << >> THEN Rest(self, ctx', seen')
        ELSE Leave(self, answer.to[1], ctx', seen')
    BY <1>0, <2>1, ProcessAnswers
  <2>3. seen' \in SeenType
    BY <1>0, <2>1, ObservedType
  <2> HIDE DEF answer
  <2>4. CASE answer.to = << >>
    BY <2>1, <2>2, <2>3, <2>4 DEF ContextInv, ProcessStay
  <2>5. CASE answer.to # << >>
    <3>1. answer.to[1].of = self.of
      BY <2>2, <2>5, LeaveTag
    <3> QED
      BY <2>1, <2>2, <2>3, <2>5, <3>1 DEF ContextInv, ProcessTo
  <2> QED
    BY <2>4, <2>5
<1>5. CASE RunPlainProcess
  <2>1. CASE ProcessStay
    BY <1>5, <2>1 DEF ContextInv, RunPlainProcess, ProcessStay
  <2>2. ASSUME NEW s \in PlainStates, ProcessTo(s) PROVE ContextInv'
    <3>1. Leave(self, s, ctx, seen) /\ s.of = self.of
      BY <1>5, ExamplesAssumption DEF RunPlainProcess, Leave
    <3> QED
      BY <1>5, <2>2, <3>1 DEF ContextInv, RunPlainProcess, ProcessTo
  <2> QED
    BY <1>5, <2>1, <2>2 DEF RunPlainProcess
<1>6. CASE RunExit
  <2>1. Toward(new, ctx', seen)
    BY <1>6, ExitLeaves DEF ContextInv, RunExit, Exit
  <2> QED
    BY <1>6, <2>1 DEF ContextInv, RunExit, Exit
<1>7. CASE RunEntry
  <2>1. Rest(new, ctx', seen') /\ seen' \in SeenType
    BY <1>7, EntryRests, EnteredSeen DEF ContextInv, RunEntry, Entry
  <2> QED
    BY <1>7, <2>1 DEF ContextInv, RunEntry, Entry
<1>8. CASE RunPanic
  <2>1. Rest(self, ctx, seen)
    BY <1>8 DEF RunPanic, Rest
  <2> QED
    BY <1>8, <2>1 DEF ContextInv, RunPanic, Panic
<1>9. CASE Expire
  <2>1. /\ "timer" \in DOMAIN ctx /\ ctx.timer = "running"
        /\ ctx' = [ctx EXCEPT !.timer = "expired"]
        /\ UNCHANGED <<self, phase, new, evt, seen>>
    BY <1>9 DEF Expire, vars
  <2> QED
    BY <2>1, ExpireKeeps DEF ContextInv
<1>10. CASE UNCHANGED allVars
  BY <1>10 DEF ContextInv, allVars, vars
<1> QED
  BY <1>1, <1>2, <1>3, <1>4, <1>5, <1>6, <1>7, <1>8, <1>9, <1>10 DEF MachineNext

(* In every phase of every dispatch the context of each example machine is *)
(* what its next hook expects.                                             *)
THEOREM ContextInvariant == MachineSpec => []ContextInv
  BY MachineInitInv, MachineStepInv, PTL DEF MachineSpec

-----------------------------------------------------------------------------
(* From the union back to the machine at hand.                             *)
LEMMA RestOf ==
  ASSUME NEW s, NEW c, NEW o, Rest(s, c, o)
  PROVE  /\ s.of = "WiFi" => WiFiRest(s, c, o)
         /\ s.of = "Session" => SessionRest(s, c)
         /\ s.of = "Button" => ButtonRest(s, c, o)
         /\ s.of = "Connection" => ConnectionRest(s, c, o)
         /\ s.of = "ATM" => ATMRest(s, c)
         /\ s.of = "DoorLock" => DoorRest(s, c)
         /\ s.of = "Order" => OrderRest(s, c)
         /\ s.of = "Player" => PlayerRest(s, c)
         /\ s.of = "Task" => TaskRest(s, c, o)
         /\ s.of = "Sensor" => SensorRest(s, c, o)
         /\ s.of = "Motor" => MotorRest(s, c, o)
BY RestTag DEF Rest

(* The same on the way, for the machines with conditions in every phase.   *)
LEMMA TowardOf ==
  ASSUME NEW n, NEW c, NEW o, Toward(n, c, o) \/ \E s : Leave(s, n, c, o)
  PROVE  /\ n.of = "WiFi" => WiFiToward(n, c, o)
         /\ n.of = "Connection" => ConnectionToward(n, c, o)
         /\ n.of = "ATM" => ATMToward(n, c)
         /\ n.of = "Order" => OrderRest(n, c)
<1>1. \/ WiFiToward(n, c, o) \/ ConnectionToward(n, c, o) \/ ATMToward(n, c) \/ OrderRest(n, c)
      \/ n.of \in {"Session", "Button", "DoorLock", "Player", "Task", "Sensor", "Motor", "Plain"}
  <2>1. CASE Toward(n, c, o)
    BY <2>1, TowardTag, RestTag DEF Toward
  <2>2. ASSUME NEW s, SessionLeave(s, n, c) PROVE n.of = "Session"
    BY <2>2, Tags DEF SessionLeave
  <2>3. ASSUME NEW s, PlayerLeave(s, n, c) PROVE n.of = "Player"
    BY <2>3, Tags DEF PlayerLeave
  <2>4. ASSUME NEW s, Leave(s, n, c, o)
        PROVE  \/ WiFiToward(n, c, o) \/ ConnectionToward(n, c, o) \/ ATMToward(n, c)
               \/ OrderRest(n, c)
               \/ n.of \in {"Session", "Button", "DoorLock", "Player", "Task", "Sensor",
                            "Motor", "Plain"}
    BY <2>2, <2>3, <2>4, TowardTag, RestTag DEF Leave
  <2> QED
    BY <2>1, <2>4
<1> QED
  BY <1>1, TowardTag, RestTag

(* The number in ConnectionManager's variant and the one in its context.   *)
LEMMA ManagerOf ==
  ASSUME NEW s, NEW c, NEW o, ConnectionRest(s, c, o)
  PROVE  \/ s.in \in {"Disconnected", "Connected"} /\ c.attempt_count = 0
         \/ s.in = "Connecting" /\ c.attempt_count = s.data[1] /\ o.tries = c.attempt_count
         \/ s.in = "Retrying" /\ c.attempt_count = s.data[1] - 1
         \/ s.in = "Failed" /\ c.attempt_count = MaxRetries
<1>1. CASE s \in {Manager("Disconnected", << >>), Manager("Connected", << >>)}
           /\ c.attempt_count = 0
  BY <1>1, Tags
<1>2. CASE s = Manager("Failed", << >>) /\ c.attempt_count = MaxRetries
  BY <1>2, Tags
<1>3. ASSUME NEW k, s = Manager("Connecting", <<k>>), c.attempt_count = k, o.tries = k
      PROVE  s.in = "Connecting" /\ c.attempt_count = s.data[1] /\ o.tries = c.attempt_count
  BY <1>3, Tags
<1>4. ASSUME NEW k, s = Manager("Retrying", <<k>>), c.attempt_count = k - 1
      PROVE  s.in = "Retrying" /\ c.attempt_count = s.data[1] - 1
  BY <1>4, Tags
<1> QED
  BY <1>1, <1>2, <1>3, <1>4 DEF ConnectionRest

(* What holds of a context also between the hooks of a transition.         *)
LEMMA ContextAnyPhase ==
  ASSUME ContextInv
  PROVE  /\ self.of \in {"WiFi", "Connection"} => seen.tries <= MaxRetries
         /\ self.of = "ATM" => ctx \in ATMFields
         /\ self.of = "Order" => ctx \in OrderFields
<1>1. CASE phase \in {"ready", "process"}
  BY <1>1, RestOf DEF ContextInv, WiFiRest, ConnectionRest, ATMRest, OrderRest
<1>2. CASE phase \in {"created", "init"}
  BY <1>2, TowardOf DEF ContextInv, WiFiToward, ConnectionToward, ATMToward, OrderRest
<1>3. CASE phase \in {"exit", "entry"}
  <2>1. (Toward(new, ctx, seen) \/ \E s : Leave(s, new, ctx, seen)) /\ new.of = self.of
    BY <1>3 DEF ContextInv
  <2> QED
    BY <2>1, TowardOf DEF WiFiToward, ConnectionToward, ATMToward, OrderRest
<1> QED
  BY <1>1, <1>2, <1>3 DEF ContextInv

(* Between two dispatches the context says the same as the variant: who is *)
(* logged in, whether the door is locked, which attempt runs, which volume *)
(* is set.                                                                 *)
THEOREM ContextInStep == MachineSpec => []ContextMatchesState
<1>1. ContextInv => ContextMatchesState
  <2> SUFFICES ASSUME ContextInv, phase = "ready" PROVE ContextMatchesState
    BY DEF ContextMatchesState, Resting
  <2>1. Rest(self, ctx, seen)
    BY DEF ContextInv
  <2>2. /\ self = Session("LoggedOut") => ctx.username = 0 /\ ctx.timer = "off"
        /\ self = Session("Active") => ctx.username \in Users
    BY <2>1, RestOf, Tags DEF SessionRest
  <2>3. self.of = "DoorLock" => (ctx.is_locked <=> self.in = "Locked")
    BY <2>1, RestOf, Tags DEF DoorRest
  <2>4. ASSUME self.of = "Connection"
        PROVE  ctx.attempt_count = CASE self.in = "Connecting" -> self.data[1]
                                     [] self.in = "Failed" -> MaxRetries
                                     [] self.in = "Retrying" -> self.data[1] - 1
                                     [] OTHER -> 0
    BY <2>1, <2>4, RestOf, ManagerOf
  <2>5. ASSUME self.of = "Player"
        PROVE  /\ self.in = "Playing" <=> ctx.volume_fsm # "None"
               /\ self.in = "Playing" => ctx.level = LevelOf[ctx.volume_fsm]
    BY <2>1, <2>5, RestOf, Tags DEF PlayerRest, Stopped, Sounds
  <2> QED
    BY <2>2, <2>3, <2>4, <2>5 DEF ContextMatchesState, Resting
<1> QED
  BY ContextInvariant, <1>1, PTL

(* A state that only a timeout ends has a started timer, for any limit of  *)
(* retries; a WiFi connection that has given up has none.                  *)
THEOREM TimersStarted == MachineSpec => []WaitingHasTimer
<1>1. ContextInv => WaitingHasTimer
  <2> SUFFICES ASSUME ContextInv, phase = "ready" PROVE WaitingHasTimer
    BY DEF WaitingHasTimer, Resting
  <2>1. Rest(self, ctx, seen)
    BY DEF ContextInv
  <2>2. self = WiFi("Connecting") => ctx.timer # "off"
    BY <2>1, RestOf, Tags DEF WiFiRest
  <2>3. self = WiFi("Failed") => (ctx.timer # "off" <=> ctx.retry_count < MaxRetries)
    BY <2>1, RestOf, Tags DEF WiFiRest
  <2>4. self = Session("Active") => ctx.timer # "off"
    BY <2>1, RestOf, Tags DEF SessionRest
  <2>5. self = Button("Debouncing") => ctx.timer # "off"
    BY <2>1, RestOf, Tags DEF ButtonRest
  <2> QED
    BY <2>2, <2>3, <2>4, <2>5 DEF WaitingHasTimer, Resting
<1> QED
  BY ContextInvariant, <1>1, PTL

(* One request or one lost connection causes at most MaxRetries attempts,  *)
(* for every MaxRetries, and the contexts count the attempts made.         *)
THEOREM RetriesBounded == MachineSpec => []AttemptsBounded
<1>1. ContextInv => AttemptsBounded
  <2> SUFFICES ASSUME ContextInv PROVE AttemptsBounded
    OBVIOUS
  <2>1. phase = "ready" => Rest(self, ctx, seen)
    BY DEF ContextInv
  <2>2. phase = "ready" /\ self = WiFi("Connecting") => seen.tries = ctx.retry_count + 1
    BY <2>1, RestOf, Tags DEF WiFiRest
  <2>3. ASSUME phase = "ready", self.of = "Connection", self.in = "Connecting"
        PROVE  seen.tries = ctx.attempt_count
    BY <2>1, <2>3, RestOf, ManagerOf
  <2> QED
    BY <2>2, <2>3, ContextAnyPhase DEF AttemptsBounded, Resting
<1> QED
  BY ContextInvariant, <1>1, PTL

(* press_count and active_tasks agree with the presses and tasks that      *)
(* were, for counts of any size.                                           *)
THEOREM CountsRight == MachineSpec => []CountsMatchEvents
<1>1. ContextInv => CountsMatchEvents
  <2> SUFFICES ASSUME ContextInv, phase = "ready" PROVE CountsMatchEvents
    BY DEF CountsMatchEvents
  <2>1. Rest(self, ctx, seen)
    BY DEF ContextInv
  <2>2. ASSUME self.of = "Button"
        PROVE  seen.bounces = ctx.press_count + IF self.in = "Debouncing" THEN 1 ELSE 0
    <3>1. ButtonRest(self, ctx, seen) /\ ctx.press_count \in Nat
      BY <2>1, <2>2, RestOf DEF ButtonRest, ButtonFields
    <3> QED
      BY <3>1, Tags DEF ButtonRest
  <2>3. self = Task("Processing") \/ self = Task("Paused") =>
          ctx.active_tasks <= seen.open /\ seen.open <= ctx.active_tasks + 1
    BY <2>1, RestOf, Tags DEF TaskRest, OneAhead
  <2>4. self = Task("Idle") => seen.open <= 1
    BY <2>1, RestOf, Tags DEF TaskRest
  <2> QED
    BY <2>2, <2>3, <2>4 DEF CountsMatchEvents
<1> QED
  BY ContextInvariant, <1>1, PTL

(* The limits that one hook checks hold in later hooks and dispatches, for *)
(* any PINs, amounts, readings and limit.                                  *)
THEOREM LimitsKept == MachineSpec => []LimitsHold
<1>1. ContextInv => LimitsHold
  <2> SUFFICES ASSUME ContextInv PROVE LimitsHold
    OBVIOUS
  <2>1. phase = "ready" => Rest(self, ctx, seen)
    BY DEF ContextInv
  <2>2. phase = "ready" /\ self = ATM("WaitingPIN") => ctx.attempts < 3
    BY <2>1, RestOf, Tags DEF ATMRest
  <2>3. phase = "ready" /\ self = Task("Processing") => ctx.failed_tasks < 3
    BY <2>1, RestOf, Tags DEF TaskRest
  <2>4. self.of = "ATM" => ctx.account_balance >= 0
    BY ContextAnyPhase DEF ATMFields
  <2>5. self.of = "Order" => ctx.customer_credit >= 0
    BY ContextAnyPhase DEF OrderFields
  <2>6. phase = "ready" /\ self = Sensor("Monitoring") /\ seen.fresh => ctx.sensor_value <= Limit
    BY <2>1, RestOf, Tags DEF SensorRest
  <2>7. phase = "ready" /\ self = Motor("Running") /\ seen.fresh => ctx.current_rpm <= Limit
    BY <2>1, RestOf, Tags DEF MotorRest
  <2> QED
    BY <2>2, <2>3, <2>4, <2>5, <2>6, <2>7 DEF LimitsHold, Resting
<1> QED
  BY ContextInvariant, <1>1, PTL

(* Each machine's dispatch is a run of the sequential arm: the hooks'      *)
(* order, new_state and *self are those of FsmLifecycle, and a timer that  *)
(* expires changes none of them.                                           *)
THEOREM MachinesFollowLifecycle == MachineSpec => Spec
<1>1. MachineInit => Init
  BY DEF MachineInit
<1>2. [MachineNext]_allVars => [Next]_vars
  <2> SUFFICES ASSUME [MachineNext]_allVars PROVE [Next]_vars
    OBVIOUS
  <2>1. CASE CallMachineInit
    BY <2>1 DEF CallMachineInit, Next
  <2>2. CASE RunInitEntry
    BY <2>2 DEF RunInitEntry, Next
  <2>3. CASE \E e \in Events : Submit(e)
    BY <2>3 DEF Submit, Next
  <2>4. ASSUME NEW s, ProcessTo(s) PROVE Next
    BY <2>4, LifecycleAssumption DEF ProcessTo, Next
  <2>5. CASE RunProcess
    BY <2>4, <2>5 DEF RunProcess, Next
  <2>6. CASE RunPlainProcess
    BY <2>4, <2>6 DEF RunPlainProcess, Next
  <2>7. CASE RunExit \/ RunEntry
    BY <2>7 DEF RunExit, RunEntry, Next
  <2>8. CASE RunPanic
    BY <2>8 DEF RunPanic, Next
  <2>9. CASE Expire
    BY <2>9 DEF Expire
  <2>10. CASE UNCHANGED allVars
    BY <2>10 DEF allVars
  <2> QED
    BY <2>1, <2>2, <2>3, <2>5, <2>6, <2>7, <2>8, <2>9, <2>10 DEF MachineNext
<1> QED
  BY <1>1, <1>2, PTL DEF MachineSpec, Spec

(* So hooks bracket the stays of every machine that does not panic, no two *)
(* variants are entered at once, and *self changes only with a finished    *)
(* entry hook.                                                             *)
THEOREM MachinesBracketed ==
  MachineSpec => []TypeOK /\ []HooksBracketed /\ []AtMostOneInside /\ SwitchOnlyAfterEntry
  BY MachinesFollowLifecycle, TypeCorrect, HooksBracket, OneEntered, SwitchEntered, PTL
=============================================================================
