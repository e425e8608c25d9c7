--------------------------- MODULE ExampleMachines ---------------------------
(***************************************************************************)
(* The machines of examples/ driven by the sequential arm of               *)
(* state_machine!: FsmLifecycle says which hook runs when, the example     *)
(* modules what a hook does to the context.  One behaviour is one machine, *)
(* with the events its callers may send in any order; the machine "Plain"  *)
(* stands for every other one, its hooks move anywhere and may panic.      *)
(***************************************************************************)
EXTENDS FsmLifecycle, TimeoutsExample, ConnectionExample, GuardsExample,
        HierarchicalExample, TasksExample, DevicesExample

CONSTANTS
  PlainStates,
  CountBound     \* bound on what events count up: presses, tasks, samples

(* PlainStates are states of no machine in these examples.                 *)
ASSUME ExamplesAssumption ==
  CountBound \in Nat /\ \A s \in PlainStates : s.of = "Plain"

VARIABLES
  ctx,    \* the context
  evt,    \* the event of the dispatch that runs or ran last
  seen    \* history: what the machine has been through, see Observed

allVars == <<vars, ctx, evt, seen>>

(* The machines: the initial state main() uses and the context next to it. *)
Machines == {
  [start |-> WiFi("Idle"), contexts |-> {WiFiContext}, events |-> WiFiEvents],
  [start |-> Session("LoggedOut"), contexts |-> {SessionContext}, events |-> SessionEvents],
  [start |-> Button("Idle"), contexts |-> {ButtonContext}, events |-> ButtonEvents],
  [start |-> Manager("Disconnected", << >>), contexts |-> {ConnectionContext},
   events |-> ConnectionEvents],
  [start |-> ATM("Idle"), contexts |-> ATMContexts, events |-> ATMEvents],
  [start |-> DoorLock("Locked"), contexts |-> {DoorContext}, events |-> DoorEvents],
  [start |-> Order("Draft"), contexts |-> OrderContexts, events |-> OrderEvents],
  [start |-> Player("Stopped"), contexts |-> {PlayerContext}, events |-> PlayerEvents],
  [start |-> Task("Idle"), contexts |-> {TaskContext}, events |-> TaskEvents],
  [start |-> Sensor("Idle"), contexts |-> {SensorContext}, events |-> SensorEvents],
  [start |-> Motor("Idle"), contexts |-> {MotorContext}, events |-> MotorEvents]}
    \cup {[start |-> s, contexts |-> {[none |-> 0]}, events |-> {<<"event">>}] :
            s \in PlainStates}

(* The three hooks of a state's block.                                     *)
Hooks(s, c, e) ==
  CASE s.of \in {"WiFi", "Session", "Button"} -> TimeoutHooks(s, c, e)
    [] s.of = "Connection" -> ConnectionHooks(s, c, e)
    [] s.of \in {"ATM", "DoorLock", "Order"} -> GuardHooks(s, c, e)
    [] s.of = "Player" -> PlayerHooks(s, c, e)
    [] s.of = "Task" -> TaskHooks(s, c, e)
    [] s.of \in {"Sensor", "Motor"} -> DeviceHooks(s, c, e)
    [] s \in PlainStates -> Reacts(c, Stay(c))

-----------------------------------------------------------------------------
(* What an observer outside the machine counts.  `tries`: connection       *)
(* attempts since somebody asked or the connection was lost; `bounces`:    *)
(* debounces begun; `open`: tasks accepted since Idle and not reported     *)
(* finished; `fresh`: a reading was handled since the state was entered.   *)
NothingSeen == [tries |-> 0, bounces |-> 0, open |-> 0, fresh |-> FALSE]

Entered(s) ==
  [seen EXCEPT !.tries = IF s.in = "Connecting" THEN @ + 1 ELSE @,
               !.bounces = IF s.in = "Debouncing" THEN @ + 1 ELSE @,
               !.fresh = FALSE]

Observed(answer) ==
  LET moved == answer.to # << >>
  IN  [seen EXCEPT
        !.tries = IF moved /\ evt[1] \in {"Connect", "Disconnect", "ConnectionLost"}
                    THEN 0 ELSE @,
        !.open = CASE evt[1] = "NewTask" /\ self = Task("Idle") -> 1
                   [] evt[1] = "NewTask" /\ self = Task("Processing") -> @ + 1
                   [] evt[1] \in {"TaskComplete", "TaskFailed"} /\
                      self = Task("Processing") -> OneLess(@)
                   [] OTHER -> @,
        !.fresh = @ \/ evt[1] \in {"DataReady", "SensorTick"}]

(* Events that count up wait for the bound.                                *)
WithinBound(e) ==
  /\ e[1] = "NewTask" => ctx.active_tasks < CountBound
  /\ e[1] = "Press" => ctx.press_count < CountBound
  /\ e[1] = "TimerTick" => ctx.sample_count < CountBound

-----------------------------------------------------------------------------
MachineInit ==
  /\ Init
  /\ \E m \in Machines : self = m.start /\ ctx \in m.contexts
  /\ evt = <<"none">>
  /\ seen = NothingSeen

CallMachineInit == CallInit /\ UNCHANGED <<ctx, evt, seen>>

RunInitEntry ==
  /\ InitEntry
  /\ ctx' = Hooks(self, ctx, evt).entry
  /\ seen' = Entered(self)
  /\ UNCHANGED evt

Submit(e) ==
  /\ Dispatch
  /\ \E m \in Machines : m.start.of = self.of /\ e \in m.events
  /\ WithinBound(e)
  /\ evt' = e
  /\ UNCHANGED <<ctx, seen>>

RunProcess ==
  /\ phase = "process"
  /\ self \notin PlainStates
  /\ LET answer == Hooks(self, ctx, evt).process
     IN  /\ IF answer.to = << >> THEN ProcessStay ELSE ProcessTo(answer.to[1])
         /\ ctx' = answer.ctx
         /\ seen' = Observed(answer)
  /\ UNCHANGED evt

RunPlainProcess ==
  /\ self \in PlainStates
  /\ ProcessStay \/ \E s \in PlainStates : ProcessTo(s)
  /\ UNCHANGED <<ctx, evt, seen>>

RunExit ==
  /\ Exit
  /\ ctx' = Hooks(self, ctx, evt).exit
  /\ UNCHANGED <<evt, seen>>

RunEntry ==
  /\ Entry
  /\ ctx' = Hooks(new, ctx, evt).entry
  /\ seen' = Entered(new)
  /\ UNCHANGED evt

RunPanic ==
  /\ self \in PlainStates
  /\ Panic
  /\ UNCHANGED <<ctx, evt, seen>>

(* The duration of a started timer elapses, at whatever moment.            *)
Expire ==
  /\ "timer" \in DOMAIN ctx
  /\ ctx.timer = "running"
  /\ ctx' = [ctx EXCEPT !.timer = "expired"]
  /\ UNCHANGED <<vars, evt, seen>>

Events == UNION {m.events : m \in Machines}

MachineNext ==
  \/ CallMachineInit \/ RunInitEntry
  \/ (\E e \in Events : Submit(e))
  \/ RunProcess \/ RunPlainProcess \/ RunExit \/ RunEntry \/ RunPanic
  \/ Expire

(* Hooks run to their end, time passes, and the main loop keeps polling    *)
(* CheckTimeout whatever else it dispatches in between.                    *)
MachineFairness ==
  /\ WF_allVars(RunProcess \/ RunExit \/ RunEntry)
  /\ WF_allVars(Expire)
  /\ SF_allVars(Submit(<<"CheckTimeout">>))

MachineSpec == MachineInit /\ [][MachineNext]_allVars /\ MachineFairness

-----------------------------------------------------------------------------
Resting(s) == phase = "ready" /\ self = s

(* Between two dispatches the context says the same as the variant: who is *)
(* logged in, whether the door is locked, which attempt runs, which volume *)
(* is set.  The code writes the two in different hooks of one transition,  *)
(* and in timeouts.rs and hierarchical.rs in the exit hook of one state    *)
(* and the entry hook of the next.                                         *)
ContextMatchesState ==
  /\ Resting(Session("LoggedOut")) => ctx.username = 0 /\ ctx.timer = "off"
  /\ Resting(Session("Active")) => ctx.username \in Users
  /\ phase = "ready" /\ self.of = "DoorLock" => (ctx.is_locked <=> self.in = "Locked")
  /\ phase = "ready" /\ self.of = "Connection" =>
       ctx.attempt_count = CASE self.in = "Connecting" -> self.data[1]
                             [] self.in = "Failed" -> MaxRetries
                             [] self.in = "Retrying" -> self.data[1] - 1
                             [] OTHER -> 0
  /\ phase = "ready" /\ self.of = "Player" =>
       /\ self.in = "Playing" <=> ctx.volume_fsm # "None"
       /\ self.in = "Playing" => ctx.level = LevelOf[ctx.volume_fsm]

(* A state that only a timeout ends, or that a timeout must be able to     *)
(* end, is never left without a started timer, although the process and    *)
(* the exit hook of the state before both reset the one timer the context  *)
(* has; and a WiFi connection that has given up starts none.               *)
WaitingHasTimer ==
  /\ (\E s \in {WiFi("Connecting"), Session("Active"), Button("Debouncing")} :
        Resting(s)) => ctx.timer # "off"
  /\ Resting(WiFi("Failed")) =>
       (ctx.timer # "off" <=> ctx.retry_count < MaxRetries)

(* However retries, failures, late answers and cancellations interleave,   *)
(* one request or one lost connection causes at most max_retries attempts, *)
(* and the attempts the context counts are the ones that were made.        *)
AttemptsBounded ==
  /\ self.of \in {"WiFi", "Connection"} => seen.tries <= MaxRetries
  /\ Resting(WiFi("Connecting")) => seen.tries = ctx.retry_count + 1
  /\ phase = "ready" /\ self.of = "Connection" /\ self.in = "Connecting" =>
       seen.tries = ctx.attempt_count

(* What the context counts is what happened.  A debounce that begins is    *)
(* counted as one press when it ends, whatever bounces and although its    *)
(* timer stays expired in Pressed.  The task that leaves Idle is not       *)
(* counted, so the count is the accepted unfinished tasks or one less:     *)
(* Idle is reached with at most one task still open.                       *)
CountsMatchEvents ==
  phase = "ready" =>
    /\ self.of = "Button" =>
         seen.bounces = ctx.press_count + IF self.in = "Debouncing" THEN 1 ELSE 0
    /\ Task("Processing") = self \/ Task("Paused") = self =>
         ctx.active_tasks <= seen.open /\ seen.open <= ctx.active_tasks + 1
    /\ Task("Idle") = self => seen.open <= 1

(* A limit that one hook checks holds for what other hooks and later       *)
(* dispatches do: no PIN is awaited after three wrong ones and no work     *)
(* goes on after three failures, over detours through other states; the    *)
(* credit checked at Submit still covers the order at PaymentReceived; a   *)
(* device that operates has seen no reading beyond the limit since it      *)
(* started, though the context may hold one from before.                   *)
LimitsHold ==
  /\ Resting(ATM("WaitingPIN")) => ctx.attempts < 3
  /\ Resting(Task("Processing")) => ctx.failed_tasks < 3
  /\ self.of = "ATM" => ctx.account_balance >= 0
  /\ self.of = "Order" => ctx.customer_credit >= 0
  /\ Resting(Sensor("Monitoring")) /\ seen.fresh => ctx.sensor_value <= Limit
  /\ Resting(Motor("Running")) /\ seen.fresh => ctx.current_rpm <= Limit

(* The polled timeouts end what waits for them: a connection attempt ends  *)
(* up active or given up, a press is confirmed, and a session that stays   *)
(* open sees activity again and again.                                     *)
TimeoutsResolve ==
  /\ (self = WiFi("Connecting")) ~>
       \/ self = WiFi("Active")
       \/ self = WiFi("Failed") /\ ctx.retry_count >= MaxRetries
  /\ (self = Button("Debouncing")) ~> (self = Button("Pressed"))
  /\ []<>(self # Session("Active") \/ evt = <<"Activity">>)
=============================================================================
