------------------------- MODULE ConcurrentDispatch -------------------------
(***************************************************************************)
(* The `concurrent` arm of state_machine!: `dispatch` called by threads,   *)
(* interrupt handlers and hooks on the instances of one generated enum.    *)
(* The flag DISPATCH_ACTIVE, the bounded PENDING_QUEUE and the counter     *)
(* DROPPED_EVENTS are statics: one of each per enum, shared by all its     *)
(* instances.                                                              *)
(*                                                                         *)
(* A caller is one frame that may be inside `dispatch`: a thread, an       *)
(* activation of an interrupt handler, or a hook calling `dispatch` again. *)
(* Each atomic operation, each critical section and each user hook is one  *)
(* step, and steps of different callers interleave.  Payloads and the      *)
(* context are abstracted; the hooks are the pairs <<s, t>> of Moves.      *)
(***************************************************************************)
EXTENDS Naturals, Sequences, FiniteSets, Functions

CONSTANTS
  Callers, Instances, States,
  Target,          \* Target[c]: the instance whose dispatch caller c calls
  InitStates,      \* the variants an instance may be created in
  Moves,           \* <<s, t>> when some `process` block of s returns To(t)
  QueueCapacity,   \* the QueueCapacity clause of the macro
  CounterSize,     \* 2^(bits of usize): the counter wraps
  HookPanics,      \* whether hooks may panic (and the panic unwinds)
  MaxCalls,        \* bound: how often each caller calls dispatch
  None

ASSUME ShapeAssumption ==
  /\ Target \in [Callers -> Instances]
  /\ InitStates \subseteq States
  /\ Moves \subseteq States \X States
  /\ HookPanics \in BOOLEAN
ASSUME SizeAssumption ==
  /\ QueueCapacity \in Nat \ {0}
  /\ CounterSize \in Nat \ {0}
  /\ MaxCalls \in Nat

Event == [from : Callers, num : 1..MaxCalls]

ASSUME NoneAssumption == None \notin States /\ None \notin Event

VARIABLES
  active,     \* DISPATCH_ACTIVE
  queue,      \* PENDING_QUEUE
  dropped,    \* DROPPED_EVENTS
  fsm,        \* fsm[i]: the variant `*self` holds
  pc,         \* where caller c is inside dispatch
  event,      \* event[c]: the event c is dispatching or handling
  next,       \* next[c]: `new_state`, between on_process and the update
  calls       \* how often c has called dispatch

(* History variables: no guard reads them.                                 *)
VARIABLES
  log,        \* events whose handling completed, in order
  lost,       \* events refused by a full queue
  aborted,    \* events whose handling ended in a panic of a hook
  stranded    \* events that were in the queue while the flag was free

code == <<active, queue, dropped, fsm, pc, event, next, calls>>
history == <<log, lost, aborted, stranded>>
vars == <<code, history>>

Hooks == {"process", "exit", "entry"}
Draining == Hooks \cup {"pop"}
Holding == Draining \cup {"release"}
Steps == Holding \cup {"idle", "cas", "push", "count"}

Queued == Range(queue)
Handled == Range(log)
InHand == {event[c] : c \in Callers} \ {None}
Issued == {e \in Event : e.num <= calls[e.from]}

At(c, step) == pc[c] = step
Goto(c, step) == pc' = [pc EXCEPT ![c] = step]

Init ==
  /\ active = FALSE
  /\ queue = <<>>
  /\ dropped = 0
  /\ fsm \in [Instances -> InitStates]
  /\ pc = [c \in Callers |-> "idle"]
  /\ event = [c \in Callers |-> None]
  /\ next = [c \in Callers |-> None]
  /\ calls = [c \in Callers |-> 0]
  /\ log = <<>>
  /\ lost = {}
  /\ aborted = {}
  /\ stranded = {}

(* A caller enters dispatch with a fresh event.                            *)
Call(c) ==
  /\ At(c, "idle")
  /\ calls[c] < MaxCalls
  /\ calls' = [calls EXCEPT ![c] = @ + 1]
  /\ event' = [event EXCEPT ![c] = [from |-> c, num |-> calls[c] + 1]]
  /\ Goto(c, "cas")
  /\ UNCHANGED <<active, queue, dropped, fsm, next, history>>

(* Mutant: the flag is set without looking at it.                          *)
AcquireUnchecked(c) ==
  /\ At(c, "cas")
  /\ active' = TRUE
  /\ Goto(c, "process")
  /\ UNCHANGED <<queue, dropped, fsm, event, next, calls, history>>

(* compare_exchange(false, true) succeeds.                                 *)
Acquire(c) ==
  /\ At(c, "cas")
  /\ ~active
  /\ active' = TRUE
  /\ Goto(c, "process")
  /\ UNCHANGED <<queue, dropped, fsm, event, next, calls, history>>

(* Mutant: spin until the flag is free, in place of enqueueing.            *)
SpinOnFlag(c) ==
  /\ At(c, "cas")
  /\ active
  /\ UNCHANGED vars

(* compare_exchange(false, true) fails.                                    *)
Busy(c) ==
  /\ At(c, "cas")
  /\ active
  /\ Goto(c, "push")
  /\ UNCHANGED <<active, queue, dropped, fsm, event, next, calls, history>>

(* Mutant: the holder returns to the flag after one event, with no loop.   *)
FinishAndRelease(c) ==
  /\ log' = Append(log, event[c])
  /\ event' = [event EXCEPT ![c] = None]
  /\ Goto(c, "release")

(* The end of do_dispatch_internal: on to the next pending event.          *)
Finish(c) ==
  /\ log' = Append(log, event[c])
  /\ event' = [event EXCEPT ![c] = None]
  /\ Goto(c, "pop")

(* on_process returns Transition::None.                                    *)
ProcessStay(c) ==
  /\ At(c, "process")
  /\ Finish(c)
  /\ UNCHANGED <<active, queue, dropped, fsm, next, calls, lost, aborted, stranded>>

(* on_process reads `*self` and returns Transition::To(s).                 *)
ProcessTo(c, s) ==
  /\ At(c, "process")
  /\ <<fsm[Target[c]], s>> \in Moves
  /\ next' = [next EXCEPT ![c] = s]
  /\ Goto(c, "exit")
  /\ UNCHANGED <<active, queue, dropped, fsm, event, calls, history>>

(* self.on_exit(ctx)                                                       *)
Exit(c) ==
  /\ At(c, "exit")
  /\ Goto(c, "entry")
  /\ UNCHANGED <<active, queue, dropped, fsm, event, next, calls, history>>

(* new_state.on_entry(ctx) and then *self = new_state.                     *)
Entry(c) ==
  /\ At(c, "entry")
  /\ fsm' = [fsm EXCEPT ![Target[c]] = next[c]]
  /\ next' = [next EXCEPT ![c] = None]
  /\ Finish(c)
  /\ UNCHANGED <<active, queue, dropped, calls, lost, aborted, stranded>>

(* A hook panics: dispatch unwinds, and nothing clears DISPATCH_ACTIVE.    *)
Panic(c) ==
  /\ HookPanics
  /\ pc[c] \in Hooks
  /\ aborted' = aborted \cup {event[c]}
  /\ event' = [event EXCEPT ![c] = None]
  /\ next' = [next EXCEPT ![c] = None]
  /\ Goto(c, "idle")
  /\ UNCHANGED <<active, queue, dropped, fsm, calls, log, lost, stranded>>

(* Mutant: front() in place of pop_front(): the event stays queued.        *)
PeekFront(c) ==
  /\ At(c, "pop")
  /\ queue # <<>>
  /\ event' = [event EXCEPT ![c] = Head(queue)]
  /\ Goto(c, "process")
  /\ UNCHANGED <<active, queue, dropped, fsm, next, calls, history>>

(* Mutant: pop_back() in place of pop_front().                             *)
PopBack(c) ==
  /\ At(c, "pop")
  /\ queue # <<>>
  /\ event' = [event EXCEPT ![c] = queue[Len(queue)]]
  /\ queue' = SubSeq(queue, 1, Len(queue) - 1)
  /\ Goto(c, "process")
  /\ UNCHANGED <<active, dropped, fsm, next, calls, history>>

(* pop_front() returns Some(evt), which the holder handles on its own      *)
(* `self`, whoever submitted it.                                           *)
Pop(c) ==
  /\ At(c, "pop")
  /\ queue # <<>>
  /\ event' = [event EXCEPT ![c] = Head(queue)]
  /\ queue' = Tail(queue)
  /\ Goto(c, "process")
  /\ UNCHANGED <<active, dropped, fsm, next, calls, history>>

(* Mutant: on an empty queue the holder keeps polling.                     *)
PollForever(c) ==
  /\ At(c, "pop")
  /\ queue = <<>>
  /\ Goto(c, "pop")
  /\ UNCHANGED <<active, queue, dropped, fsm, event, next, calls, history>>

(* pop_front() returns None: break.                                        *)
PopEmpty(c) ==
  /\ At(c, "pop")
  /\ queue = <<>>
  /\ Goto(c, "release")
  /\ UNCHANGED <<active, queue, dropped, fsm, event, next, calls, history>>

(* DISPATCH_ACTIVE.store(false): what was pushed since the empty pop stays.*)
Release(c) ==
  /\ At(c, "release")
  /\ active' = FALSE
  /\ stranded' = stranded \cup Queued
  /\ Goto(c, "idle")
  /\ UNCHANGED <<queue, dropped, fsm, event, next, calls, log, lost, aborted>>

(* push_back(event.clone()) succeeds, whether or not the flag is still set.*)
Push(c) ==
  /\ At(c, "push")
  /\ Len(queue) < QueueCapacity
  /\ queue' = Append(queue, event[c])
  /\ stranded' = IF active THEN stranded ELSE stranded \cup {event[c]}
  /\ event' = [event EXCEPT ![c] = None]
  /\ Goto(c, "idle")
  /\ UNCHANGED <<active, dropped, fsm, next, calls, log, lost, aborted>>

(* push_back(event.clone()) returns Err: the queue is full.                *)
PushFull(c) ==
  /\ At(c, "push")
  /\ Len(queue) >= QueueCapacity
  /\ lost' = lost \cup {event[c]}
  /\ event' = [event EXCEPT ![c] = None]
  /\ Goto(c, "count")
  /\ UNCHANGED <<active, queue, dropped, fsm, next, calls, log, aborted, stranded>>

(* Mutant: a counter that does not wrap.                                   *)
CountUnwrapped(c) ==
  /\ At(c, "count")
  /\ dropped' = dropped + 1
  /\ Goto(c, "idle")
  /\ UNCHANGED <<active, queue, fsm, event, next, calls, history>>

(* DROPPED_EVENTS.fetch_add(1), which wraps; then dispatch returns, or in  *)
(* a debug build panics out of a frame that holds nothing.                 *)
Count(c) ==
  /\ At(c, "count")
  /\ dropped' = (dropped + 1) % CounterSize
  /\ Goto(c, "idle")
  /\ UNCHANGED <<active, queue, fsm, event, next, calls, history>>

(* What a caller inside dispatch does on its own: its hooks terminate.     *)
Advance(c) ==
  \/ Acquire(c) \/ Busy(c)
  \/ ProcessStay(c) \/ (\E s \in States : ProcessTo(c, s))
  \/ Exit(c) \/ Entry(c)
  \/ Pop(c) \/ PopEmpty(c) \/ Release(c)
  \/ Push(c) \/ PushFull(c) \/ Count(c)

Next == \E c \in Callers : Call(c) \/ Advance(c) \/ Panic(c)

Spec == Init /\ [][Next]_vars

(* Threads are scheduled and hooks return; nobody has to call dispatch.    *)
Fairness == \A c \in Callers : WF_vars(Advance(c))
FairSpec == Spec /\ Fairness

-----------------------------------------------------------------------------
(* The values the variables range over.                                    *)
TypeOK ==
  /\ active \in BOOLEAN
  /\ queue \in Seq(Event)
  /\ dropped \in 0..(CounterSize - 1)
  /\ fsm \in [Instances -> States]
  /\ pc \in [Callers -> Steps]
  /\ event \in [Callers -> Event \cup {None}]
  /\ next \in [Callers -> States \cup {None}]
  /\ calls \in [Callers -> 0..MaxCalls]
  /\ log \in Seq(Event)
  /\ lost \in SUBSET Event
  /\ aborted \in SUBSET Event
  /\ stranded \in SUBSET Event

(* "Prevents re-entrant dispatch calls": at most one caller is between a   *)
(* successful compare_exchange and the store that releases the flag, so    *)
(* hooks of two callers never overlap, on any instance.                    *)
MutualExclusion ==
  \A c, d \in Callers : (pc[c] \in Holding /\ pc[d] \in Holding) => c = d

(* Why: whoever is inside holds the flag, and a transition in progress     *)
(* started from the state it will replace, so no update is lost.           *)
HolderHasFlag == \A c \in Callers : pc[c] \in Holding => active

NoLostUpdate ==
  \A c \in Callers :
    pc[c] \in {"exit", "entry"} => <<fsm[Target[c]], next[c]>> \in Moves

(* event[c] holds an event exactly while c carries one.                    *)
CarriesEvent ==
  \A c \in Callers :
    event[c] # None <=> pc[c] \in Hooks \cup {"cas", "push"}

LockInv == MutualExclusion /\ HolderHasFlag /\ NoLostUpdate /\ CarriesEvent

(* Every event a caller submitted is somewhere: being handled, queued,     *)
(* handled, refused by a full queue, or ended by a panic, and in only one  *)
(* of these places.  No interleaving of pushes, pops and releases makes an *)
(* event vanish or be handled twice.                                       *)
NothingLost == Issued = InHand \cup Queued \cup Handled \cup lost \cup aborted

NothingTwice ==
  /\ IsInjective(queue) /\ IsInjective(log)
  /\ \A c, d \in Callers : event[c] = event[d] => c = d \/ event[c] = None
  /\ InHand \cap (Queued \cup Handled \cup lost \cup aborted) = {}
  /\ Queued \cap (Handled \cup lost \cup aborted) = {}
  /\ Handled \cap (lost \cup aborted) = {}
  /\ lost \cap aborted = {}

ExactlyOnce == NothingLost /\ NothingTwice

(* Two events of one caller are handled in the order it submitted them,    *)
(* except when the earlier one sat in the queue while the flag was free.   *)
OvertakenOnlyIfStranded ==
  \A j \in 1..Len(log) : \A i \in 1..(j - 1) :
    (log[i].from = log[j].from /\ log[i].num > log[j].num) => log[j] \in stranded

(* A hook panicked: the flag is set and nobody is left to clear it.        *)
Wedged == active /\ \A c \in Callers : pc[c] \notin Holding

(* After a panic the machine is fail-stop: no hook of a half-finished      *)
(* transition's machine ever runs again and nothing queued is handled.     *)
FailStop == [][Wedged => (Wedged' /\ UNCHANGED <<fsm, log>>)]_vars

(* Whoever is inside dispatch gets out of it: a caller never waits for     *)
(* another one, and the holder drains a queue that only finitely many      *)
(* calls fill (bound MaxCalls).                                            *)
EveryCallReturns == \A c \in Callers : (pc[c] # "idle") ~> (pc[c] = "idle")

(* An event that is queued while somebody is draining gets handled, and a  *)
(* stranded one is picked up by the next dispatch that finds the flag free;*)
(* unless a hook panics first.                                             *)
DrainedByHolder ==
  \A e \in Event :
    (e \in Queued /\ \E c \in Callers : pc[c] \in Draining)
      ~> (e \in Handled \/ aborted # {})

-----------------------------------------------------------------------------
(* A sentence of the repository the code does not keep.                    *)

(* fsm.rs: if a dispatch is active, "Enqueues event for later processing". *)
QueuedIsHandledLater == \A e \in Event : (e \in Queued) ~> (e \in Handled)

-----------------------------------------------------------------------------
(* The promise of SerialMachine: pending is everything still on its way.   *)
Pending == InHand \cup Queued

Serial == INSTANCE SerialMachine WITH
  Events <- Event, state <- fsm, pending <- Pending,
  handled <- log, discarded <- lost \cup aborted

(* However the steps of the callers interleave, the machine moves as if    *)
(* each event were handled by one indivisible transition.                  *)
ImplementsSerial == Serial!Spec

(* What the hooks of instance i see: the holder that targets i, if any.    *)
InHook(i, c) == Target[c] = i /\ pc[c] \in Hooks
Phase(i) == IF \E c \in Callers : InHook(i, c)
              THEN pc[CHOOSE c \in Callers : InHook(i, c)] ELSE "ready"
NewOf(i) == IF \E c \in Callers : InHook(i, c)
              THEN next[CHOOSE c \in Callers : InHook(i, c)] ELSE None
InsideOf(i) == IF Phase(i) = "entry" THEN {} ELSE {fsm[i]}

Lifecycle(i) == INSTANCE FsmLifecycle WITH
  self <- fsm[i], phase <- Phase(i), new <- NewOf(i),
  inside <- InsideOf(i), panicked <- FALSE

(* Whoever calls dispatch, from wherever, the hooks of each instance run   *)
(* in the sequence in which the sequential arm runs them: FsmLifecycle's   *)
(* ReadySpec, of every instance; until a hook panics (then see FailStop).  *)
ImplementsLifecycle ==
  /\ \A i \in Instances : Lifecycle(i)!InitReady
  /\ [][aborted' = {} =>
          \A i \in Instances : [Lifecycle(i)!Next]_(Lifecycle(i)!vars)]_vars
=============================================================================
