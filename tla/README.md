# typed-fsm: formal models

TLA+ modules for [typed-fsm](../src/README.md), model-checked with TLC, with
proofs checked by TLAPS. Line numbers are those of the files under `src/`.

typed-fsm is a macro, `state_machine!`, that generates an enum and its
`dispatch`, and a command, `fsm-gen`, that draws the machines of a source tree
as Mermaid diagrams. The macro has a sequential arm and, under the feature
`concurrent`, an arm whose `dispatch` may be called from threads and interrupt
handlers at once. That arm is where the program is hard, and where the models
start.

## The system's parts

| part | code | state it keeps | operations | modules |
|---|---|---|---|---|
| sequential dispatch | `src/fsm.rs` 379-560 | `*self`; `new_state` within a call | `init`, `dispatch` = process, exit, entry, assign | `FsmLifecycle` |
| concurrent dispatch | `src/fsm.rs` 673-949 | statics per enum: `DISPATCH_ACTIVE`, `PENDING_QUEUE`, `DROPPED_EVENTS`; `*self` per instance | `dispatch`, `dropped_events_count`, `reset_dropped_count` | `ConcurrentDispatch`, `SerialMachine`, `IsrDispatch`, `DropMonitor` |
| machine and context behind mutexes | `examples/concurrent_threads.rs`, `examples/concurrent_isr.rs`, `tests/concurrent_tests.rs` | two mutexes, their poison flags | lock, lock, dispatch, unlock; read statistics | `MutexDispatch`, `MutexArrivals`, `TasksExample` |
| `fsm-gen` | `diagram-generation/cli/src/main.rs` | found machines, structs, aliases; files on disk | read configuration, scan, clean, find roots, generate | `FsmGen` |
| reference analysis, nesting | `diagram-generation/core/src/lib.rs` 641-699, 989-1228; `main.rs` 175-184, 432-451 | none (functions of the workspace); the call stack | `resolve_type`, `collect_referenced_fsms`, `collect_all_subfsms`, `populate_builder_hierarchical` | `FsmRefs`, `FsmGen` |
| macro parser | `core/src/lib.rs` 701-987 | a token cursor | `parse_macro_body` and its helpers | `MacroParser`, `Drawing` |
| transition extractor | `core/src/lib.rs` 207-638 | current label, visited functions | `extract`, `follow_function`, `extract_target_state` | `TransitionExtractor`, `Drawing` |
| label formatting | `core/src/lib.rs` 80-185 | a string | `normalize_source`, `format_label_for_mermaid` | `TransitionExtractor`, as a list of fragments |
| example machines, one dispatch after another | `examples/*.rs` | a machine, a context, timers, a nested machine | the hooks | `TimeoutsExample`, `ConnectionExample`, `GuardsExample`, `HierarchicalExample`, `TasksExample`, `DevicesExample`, `ExampleMachines` |
| intersection | `examples/traffic_intersection.rs` | three machines in threads, a channel each, four flags under a mutex | main's broadcasts, the hooks | `TrafficIntersection` |
| logging, crate root, scripts | `src/lib.rs`, `hooks/`, `ci-local.sh`, ... | none | - | not modelled: no state |

How they interact. A caller of `dispatch` meets the others only through the
three statics: the flag decides who runs hooks, everybody else leaves an event
in the queue, and the one who runs hooks takes them out. A monitor task shares
the counter. The thread examples put two mutexes around all of it. The
example machines are what the macro runs: their hooks share a context with each
other and, in the intersection, flags with other threads. The macro and
`fsm-gen` share no state: the command reads source text, and its parts call each
other with the workspace as argument. Within it the parser hands states with
the text of their hooks to the extractor, and the extractor edges to the diagram.

### What makes each part correct, and what makes it hard

*Sequential dispatch.* Hooks bracket each stay in a state, over
self-transitions and whatever the process hooks answer. Calling `init` once before the first dispatch is the caller's documented
obligation (450), and the models start from it. Hard: a hook that
panics leaves the call half way, between the exit hook and the assignment.

*Concurrent dispatch.* One transition at a time; each submitted event is
handled once, refused and counted, or ended by a panic; a caller never waits
for another one; what is enqueued is handled. Hard: the flag and the queue are
two pieces of state with no lock over both. The holder finds the queue empty
(898) and clears the flag (912) in two steps, and a caller that saw the flag set
may push before, between or after them. An unwinding hook skips the clearing
altogether. The statics belong to the type, so instances share them.

*Mutexes.* No lock cycle, and a poisoned mutex must keep threads away from a
machine a panic left half way. Hard: the two guards are dropped, and poisoned,
one after the other; and instances behind mutexes of their own still share the
statics, so that one meets the flag another has set.

*Example machines.* Context and variant must agree when `dispatch` returns, and
counters must agree with what happened. Hard: the two are written in different
hooks of one transition, in an order the macro fixes (process, exit, entry);
timers outlive the states that started them; retries, late answers and
cancellations come in any order; a value is checked in one dispatch and used in
another.

*Intersection.* Flags must agree with the lights, and two lights must not be
green at once. Hard: the check and the raising of a flag are two critical
sections, in two hooks.

*Parser and extractor.* What is read is what was declared, what is drawn is
what the hooks can answer, and the label is where the answer stands. Hard: a
declaration may be broken in one place and good around it; answers stand in
arms, branches, returns, helpers, and helpers share names.

*fsm-gen.* Every machine ends up in a diagram, no stale diagram survives, no
other file is touched, and it ends. Hard: files are deleted before their
replacements exist, each operation may fail, references may be cyclic, names
may be ambiguous.

## The modules

`SerialMachine` is the promise a caller of `dispatch` relies on, without flag,
queue or threads: submit an event; later it is handled by one indivisible move
of one instance, or discarded.

`ConcurrentDispatch` is the code of the concurrent arm. One step is one atomic
operation, one critical section or one user hook:

| action | code in `src/fsm.rs` |
|---|---|
| `Call` | 879, the caller enters with an event |
| `Acquire`, `Busy` | 886-892, `compare_exchange` succeeds or fails |
| `ProcessStay`, `ProcessTo` | 730-755, `on_process` and its answer |
| `Exit`, `Entry` | 756-765, `on_exit`; `on_entry` and `*self = new_state` |
| `Pop`, `PopEmpty` | 896-909, one round of the drain loop |
| `Release` | 912, `store(false)` |
| `Push`, `PushFull` | 914-921, the critical section of a caller that found the flag set |
| `Count` | 924-926, `fetch_add`, after the critical section |
| `Panic` | a hook unwinds through 879-912 |

Hooks are abstracted to `Moves`, the pairs of states a process hook may answer
with; payloads and contexts are left out. The counter is kept modulo
`CounterSize`. `log`, `lost`, `aborted` and `stranded` are history variables
no guard reads. Memory ordering is not modelled: the flag is taken with `Acquire` and cleared
with `Release`, the queue is used under a critical section and the counter is a
single atomic, so the interleaving of the steps above is what a caller observes.

`IsrDispatch` restricts the interleavings to those of one core: a stack of
frames, of which the topmost runs; a handler of a higher priority preempts.
`DropMonitor` adds the task of the doc comment of `reset_dropped_count`, which
reads and resets the counter in two operations. `MutexDispatch` puts the
locking of the thread examples around `Call`: `LockFsm`, `LockCtx`, then
`GuardedCall` and the steps of the dispatch, then `DropCtx` and `DropFsm` in either
order, as the examples and the tests have it; `Read` takes the context alone.
A hook's panic (`GuardedPanic`), or in a debug build a refused event's
(`GuardedOverflow`, 932), unwinds through the two guards and poisons the context,
then the machine; poisoning is std's, external code. The locks and the flag of
std are one step each. All three extend `ConcurrentDispatch` and reuse its actions.
`MutexArrivals` adds who came to `lock` while its machine was at work, which is
history.

`FsmLifecycle` is the sequential arm of one instance. `ConcurrentDispatch` maps
each of its instances onto it (`ImplementsLifecycle`).

`FsmRefs` defines which machines a machine refers to, which are sub-machines
of which, and which are roots. `collect_all_subfsms` calls itself until it
discovers nothing new; what it discovers is the least set closed under
references, and `SubFsms` is that set. A type text is the sequence of its path
segments; a state is the set of paths in its hooks and the context fields they
touch. `FsmGen` is one run of the command over such a workspace. A diagram's
text is abstracted to the set of definitions drawn in it; directories are left
out (they are created where needed, and removed only when empty). Every `?` of
`main` is a `Fail` step, an entry that cannot be visited is skipped as
`WalkDir`'s errors are, and the recursion of `populate_builder_hierarchical`
has an explicit stack of `StackDepth` calls. The model takes
`StateNodeBuilder::inner_diagram`, external code that the loop at 1155 calls
once per reference, to add a diagram to a state and not to replace the last.

`ExampleHooks` is the vocabulary of the examples: a state is a value [machine,
variant, fields], and a state's block a record of its three hooks as functions of
the context. `TimeoutsExample`, `ConnectionExample`, `GuardsExample`,
`HierarchicalExample`, `TasksExample` and `DevicesExample` have one operator per
state block. `ExampleMachines` extends `FsmLifecycle`, so the macro's order of
hooks is the one modelled there, and runs the hooks in its actions: `RunProcess`,
`RunExit`, `RunEntry`, `Submit` (an event the caller sends) and `Expire` (a timer's
duration elapses). A timer is off, running or expired. A nested machine's `dispatch`
runs within the outer process hook and so within one step. `seen` is a
history no hook reads. Left out: error texts, session names and the backoff
(only printed), the speed a motor is started with (always 1000) and counters
that are only printed.

`TrafficIntersection` stands alone, because what matters in it are the critical
sections: `Check` takes the mutex and decides, `Return` drops it, `Entry` raises
or lowers the flag; `LightTick`, `LightEmergency`, `PedestrianTick`,
`PedestrianEmergency`, `PedestrianButton` are the parts of the process hooks
before a lock, `Broadcast` a turn of main's loop, `MainReturns` its end: main
does not join the threads, so they end with it wherever they are, and what is
still in the channels is handled by nobody. A hook that locks, writes and
unlocks is one step.

`MacroParser` is the cursor over tokens, one turn of a loop per action
(`ReadName`, `ReadContext`, `OpenStates`, `ReadState`, `CloseStates`, `SkipToken`,
`Finish`). A closure is one token that holds its syntax tree: the code parses
its text again with `ra_ap_syntax`. `TransitionExtractor` is the recursion over
that tree, with the registry of functions it follows. `Drawing` composes the two with
`generate_mermaid_simple`. What the source means is stated apart
from them: a declaration is rendered to tokens, and `Answers` says what its
process hooks may answer, by running them. A label is the list of fragments it
is joined from.

The theorems about a module `M` are in `MProofs`. What is proved of
`ConcurrentDispatch` is used for threads, interrupts and the monitor, what is
proved of `FsmLifecycle` for the example machines: their modules of proofs extend
`ConcurrentDispatchProofs` and `FsmLifecycleProofs`. The `MC...` modules give
constants their values for TLC. A definition whose comment begins with "Mutant"
is not part of any specification: it is the erroneous form of the definition
below it, against which the properties were tried.

## The runs

| run | specification and bounds | checks |
|---|---|---|
| `threads` | `MonitorSpec`; 3 threads, 2 calls each, queue of 2, counter of 3, 2 monitoring periods, hooks may panic | `TypeOK`, `LockInv`, `ExactlyOnce`, `OvertakenOnlyIfStranded`, `DropsAccounted`, `FailStop`, `ImplementsLifecycle` |
| `refinement` | `FairSpec`; 2 callers, 3 calls each, 2 instances of one enum, 3 states in a cycle, queue of 1, hooks may panic | `ImplementsSerial`, `EveryCallReturns`, `DrainedByHolder` |
| `isr` | `IsrFairSpec`; main loop and 2 handlers of different priority, 2 calls each, queue of 1 | `IsrInv`, `EveryCallReturns` |
| `mutexes` | `MutexFairSpec`; 3 threads on 2 instances of one enum, 2 calls each, one state that moves to itself, queue of 1, hooks and refused events may panic | `MutexInv`, `ContendedOnlyAcross`, `GuardsAreDropped` |
| `machines` | `MachineSpec`; 11 example machines and a plain one of 5 states whose hooks may panic, 3 retries, 2 users, PINs and codes, amounts and readings of 3 sizes, counts up to 3 | `TypeOK`, `HooksBracketed`, `AtMostOneInside`, `SwitchOnlyAfterEntry`, `ContextMatchesState`, `WaitingHasTimer`, `AttemptsBounded`, `CountsMatchEvents`, `LimitsHold`, `TimeoutsResolve` |
| `intersection` | `Spec` of `TrafficIntersection`; 15 rounds, the button in round 5, an emergency in round 10, each thread at most 3 events behind | `FlagsTellTheTruth`, `ConflictNeedsOverlap`, `RedLasts`, `HandledWhileRunning` |
| `fsm_gen` | `Spec` of `FsmGen`; 64 reference graphs of 3 machines and 4 special workspaces, 5 settings, 3 files on disk, a stack of 4 | `FilesSurvive`, `NothingStale`, `AcyclicAllDrawn`, `LastDefinitionDrawn`, `CrashOnlyOnCycle`, `Terminates` |
| `drawing` | `Spec` of `Drawing`; 864 invocations in every form of two states, and process hooks with two of 12 answers in 6 positions, with and without guards | `ParsesDeclaration`, `EveryMoveDrawn`, `EdgesSound`, `LabelsRetrace`, `EveryMacroEnds` |

What they show:

* Exclusion holds among threads with nothing but the flag, and no event
  vanishes or is handled twice, whatever falls between the steps of a push and
  a pop. `ImplementsSerial` says the same to the caller: it sees a serial
  machine. On two instances this holds because events are not tied to an
  instance: the holder handles what it pops on its own `self`.
* Events of one caller are handled in order unless the earlier one was in the
  queue while the flag was free.
* A full queue's refusals are all accounted for, by the counter or by the
  window between a monitor's read and its reset.
* After a panic nothing is handled any more and `*self` stays: fail-stop.
* With interrupts on one core, only the holder's own way from the empty pop to
  the release can strand an event (`PushUnderFlag`).
* Behind the mutex of its machine a thread meets the flag only if another
  instance of the enum is at work or was left by a panic. With one instance the
  queue is never used: who comes during a dispatch waits for the mutex
  (`queued_when_busy`).
* The macro's order of hooks keeps the examples' contexts in step with their
  variants: a timer that the old state's process and exit hooks both reset is
  running in the new state, one request makes at most `max_retries` attempts, and
  a debounced press counts once although its timer stays expired. WiFi's `Failed`
  is a dead end once it has given up: only `Idle` resets the count, and nothing
  leads there.
* `TaskProcessor` counts one task less than it accepted, and so may fall back to
  `Idle` with one open, never with two.
* In the intersection the flags agree with the states, and two are up at once
  only after an overlap of one thread's check with another's way to its entry
  hook. That overlap does happen (`both_green`).
* The parser reads every well-formed state, whatever is broken next to it; a
  state without a body or an arrow vanishes silently, and one without a process
  hook is reported only when no state is usable. A comma in the context's type
  cuts it.
* Every move whose target is written out is drawn, with the label it stands
  under, and everything drawn is a move, in hooks that discard no transition.
  Not drawn, by the code's own rules: targets computed in the argument of `To`,
  helpers that only call helpers, helpers whose name is not unique or whose type
  does not mention `Transition`.
* `fsm-gen` overflows its stack only on machines that contain themselves, and
  draws everything when there are none.

### Where the code and its documentation part

Four runs are expected to end with a counterexample.

| run | statement | what the code does |
|---|---|---|
| `handled_later` | `fsm.rs` 843, "Enqueues event for later processing"; README 995, "All queued events are processed before releasing the lock" | an event that comes between the empty pop and the release stays queued; if nobody calls `dispatch` again it is never processed, also when everyone is scheduled fairly |
| `both_green` | `traffic_intersection.rs` 17, "prevents conflicting green lights" | both lights pass their checks before either raises its flag |
| `gen_cycle` | `HOW_TO.md` 7, "scans your entire source tree and produces diagrams in a single pass, correctly resolving hierarchies" | machines in a reference cycle with no machine above are no roots, and none is drawn |
| `queued_when_busy` | `tests/concurrent_tests.rs` 199, "Try to dispatch while thread1 is active / These should be queued and processed in order"; 486, "Only the first 16 should be queued, rest are dropped"; `concurrent_threads.rs` 15, "Events are queued when dispatch is busy"; `concurrent_isr.rs` 277, "ISR events were safely queued when main was active" | the thread waits at the mutex of the machine, and then handles its event itself: nothing is queued or dropped, and the order is the mutex's |

Others need no run. `HOW_TO.md` 24 documents the guards of `fsm-gen` with
"default: true"; serde's default of the key (`main.rs` 70), for a `[mermaid]` table without
it, is false, and only a file without the table gets true (81). A caller's next event overtakes its stranded one
(`OvertakenOnlyIfStranded` says when), where the examples promise "FIFO order is
preserved" (`concurrent_threads.rs` 17). `connection.rs` 122 calls a backoff of
1000 times the attempt exponential. `hierarchical.rs` 206 says the volume machine
is still active while paused; the exit hook at 156 drops it. And the comment at `fsm.rs` 529 gives the order
"Exit Old -> Update -> Entry New"; the code runs the entry hook (549) and then
updates (552), as the documentation at line 22 says and the model has it.

And some of what the code does is easily missed, and is in the models as it is.
Nothing sets `emergency_active` (`traffic_intersection.rs` 43), so an emergency
stops no check; a light lowers its flag on entering `Yellow` (149), so a green
may follow while the other light is still yellow. `Total samples` of
`concurrent_isr.rs` (59, 269) stays 0. An alias of a qualified type resolves to
a text that no machine's name equals (`core/src/lib.rs` 1078). The pattern of an
`if let` is part of a label only with `include_guards` (475).

### Bounds

`MaxCalls` bounds how often a caller calls `dispatch`; nothing else is cut off
in the dispatch modules. Three callers are the least that let a holder drain
while one caller pushes and another is refused; two calls each are the least
that let a caller overtake itself, and three let a second round of stranding
meet an earlier one. A queue of one or two is full after one or two pushes, and
the position in a longer queue is all that a larger capacity adds. A counter of
three wraps with six events, the last readings before and after the wrap
included. Three states in a directed cycle make an update computed from a stale
state visible as a move that does not exist. Callers are interchangeable in
`threads`, hence the symmetry. `CHECK_DEADLOCK FALSE` is said where the
system stops: callers that made all their calls, a command that ended.

In `mutexes` two threads share a machine and the third has another instance of
the enum: the least with a wait for a mutex and with a flag that is set by a
machine one does not hold. One state that moves to itself is enough, as neither
the locks nor the flag look at it, and a queue of one is full after one push,
so that a refused event can panic under the guards. `queued_when_busy` needs two
threads at one machine, a call each; its queue has the 16 places the tests speak of.

In `machines` three retries are the code's number; the examples' limits of three
are in the code, and `CountBound` lets what events count up reach one more than
the two that tell counting from not counting apart. Readings lie below, at and
above the limit, amounts below, at and above each other. In `intersection`
the rounds, and the rounds of the button and of the emergency, are the code's
numbers. A lag of three events lets a thread fall a whole red phase behind, so
that the checks and the entry hooks of any two threads overlap. A broadcast is
one step: channels are read one by one, and a thread that lags behind sees what
a later send would show it.

In `drawing` two states are the least with an edge between them and a neighbour
to be misread; two answers in each position the least that can take each
other's label or visited function. The types of the context are a name, one
with a comma and one with the word `States`.

In `fsm_gen` three machines are the least with a chain, a diamond's shared
sub-machine, and cycles of two and three; `StackDepth` is one more than the
longest chain, so that an overflow means a cycle. The special workspaces have a
chain of two aliases, two aliases of each other, an alias and a module in lower
case (`LowerCase`; `lib.rs` 676 takes only what begins with an upper-case letter for a
type), a context struct with a qualified type, a machine in its own context, two
machines with one name, and no machine at all.

### Fairness

`FairSpec` gives each caller weak fairness of its steps within `dispatch`: a
thread is scheduled, hooks return. It does not make anyone call `dispatch`.
That is why an enqueued event need not be handled, and why `DrainedByHolder`
speaks of events queued under a running drain. `EveryCallReturns` holds for the
holder because only finitely many events arrive (`MaxCalls`); with arrivals
without end the drain loop at 896 need not end, as the code has no bound
there. `IsrFairSpec` gives weak fairness to the running frame alone; handlers
need not fire. `MutexFairSpec` is the same for threads within their critical
sections: whoever has a guard goes on, drops it in the end, and gets the context it
waits for. It does not make `lock` of the machine return to a particular thread, as
std's `Mutex` is not fair, nor a reader come. `MachineFairness` says that hooks run to their end, that a running timer
elapses, and that `CheckTimeout` is dispatched again and again while the machine
is ready for it: the polling the file describes, which other events may
delay but not starve; hence strong fairness. `Fairness` of
`TrafficIntersection` gives each thread weak fairness of its steps, which are
steps only while main runs; it is enough for the mutex because main sends finitely many events.
When main returns is left open, so `HandledWhileRunning` promises nothing for
the events that are in the channels then. `Spec` of
`Drawing` is a loop that runs on. `Spec` of `FsmGen` has weak fairness of `Proceed`: a process that is
not killed runs on; it need not fail.

## What is proved

`ConcurrentDispatchProofs`, for every number of callers, instances, states and
calls, every queue capacity and counter width, and with or without panics, from
the assumptions named in `ConcurrentDispatch`:

* `TypeCorrect`: `Spec => []TypeOK`.
* `Exclusion`: `Spec => []LockInv`.
* `NoEventLostOrRepeated`: `Spec => []ExactlyOnce`.
* `SerialRefinement`: `Spec => ImplementsSerial`, that is `Spec => Serial!Spec`.
* `PanicStops`: `Spec => FailStop`.
* `HandledInOrder`: `Spec => []OvertakenOnlyIfStranded`.
* `LifecycleRefinement`: `Spec => ImplementsLifecycle`.

The inductive invariant of the first two is `IInv == TypeOK /\ LockInv`. Types
alone are not inductive: that `*self = new_state` stores a state of the machine
follows from `NoLostUpdate`. That in turn needs mutual exclusion (nobody else
has assigned `fsm` since `on_process`), and exclusion needs `HolderHasFlag`: a
second caller cannot enter because the flag is set. `CarriesEvent` says which
frames have an event in hand. `TypeStep` and `LockStep` have one step per
action.

`ExactlyOnce` is inductive relative to `IInv`. Each action moves at most one
event from one place to another: `GiveLemma` and `TakeLemma` say what that does
to the events in hand, `AppendLemma` and `TailLemma` what a push and a pop do
to the elements of a sequence, and `FreshLemma` that the event of a new call
was nowhere before, because the events that are anywhere are those issued.
`SerialStep` uses the same lemmas: a push or a pop leaves the set of pending
events as it is and so is invisible, the end of a transition is the indivisible
`Handle` on the state `NoLostUpdate` speaks of, refusals and panics are
`Discard`. `PanicStops` follows from `IInv` action by action.

For the order, an event is on its way from the caller's hand over the queue and
the hooks to the log, and the invariant `OrderInv` speaks of each pair of those
places: a caller that still has an event in hand has submitted none since, the
queue keeps a caller's order, and whoever is passed on the way was stranded. The
last needs that everything queued while the flag is free is stranded: only then
can a later event enter the hooks first.

For `LifecycleRefinement`, a step that takes an event up is `Dispatch` of the
instance of the caller that takes it, and a hook of the holder is that hook of
its own instance; pushes, refusals and the release are invisible. `SeenInHook`
says what the holder's position means for its instance, `Unseen` what leaves an
instance alone.

`DropMonitorProofs`: `EveryDropAccounted`, `MonitorSpec => []DropsAccounted`. The
property says nothing once as many events were refused as the counter has
values. That no increment and no subtraction wraps before that is not assumed:
it follows from `Balanced`, where the value a monitor has read exceeds neither
the counter before its reset nor what was reported in all. A reset is no step of
`ConcurrentDispatch`, so what the `threads` run checks of it is proved again of
`MonitorSpec`, with the reset a step that changes `dropped` alone:
`MonitoredExclusion` (`TypeOK`, `LockInv`, `ExactlyOnce`), `MonitoredOrder`,
`MonitoredFailStop` and `MonitoredLifecycle`.

`IsrDispatchProofs`: `IsrProtocol`, `IsrSpec => []IsrInv`, for every assignment of
priorities. That pushes come under the flag needs `HolderOnStack`: a set flag has a
holder, and it lies below every frame that found the flag set. With that
invariant each step is one of some caller, so `IsrRefinesDispatch`:
`IsrSpec => Spec`, and `IsrKeepsDispatch` collects what follows for handlers that
preempt a dispatch: `ExactlyOnce`, `OvertakenOnlyIfStranded`, `ImplementsSerial`,
`ImplementsLifecycle`, `FailStop`.

`MutexDispatchProofs`, provided that no caller is the value that stands for nobody:
`MutexExclusion`, `MutexSpec => []MutexInv`. Exclusion alone is not inductive,
for the guards of a thread that unwinds go one after the other: `Poisoning` says that
the context is poisoned before the machine is free. `OwnMachineNeverBusy`
(`[]ContendedOnlyAcross`) needs an owner of the flag (`FlagOwner`): a set flag has a
holder or is left by a machine that is broken, and what is broken stays so
(`BrokenStays`). From it follows `MutexKeepsQueueEmpty` for threads that share one
instance (`OneMachine`, as in the examples): no event is queued, stranded or
refused.
`MutexRefinesDispatch` is `MutexSpec => Spec`, for any instances: the locks only
restrict who calls `dispatch` when. `MutexKeepsDispatch` collects the same five
promises.

`FsmLifecycleProofs`, for every set of states and moves: `TypeCorrect`,
`HooksBracket`, `OneEntered` and `SwitchEntered`. They follow from
`EnteredIsCurrent`, which says for each phase which state counts as entered.
`ReadyBracket` starts from an instance whose `init` has returned, which is
what `ImplementsLifecycle` maps instances to.

`ExampleMachinesProofs`, for every number of retries from one on, any users, all PINs, codes,
amounts, readings and limits, counts of any size and plain machines with any
moves, from the assumptions named in the example modules; the one about plain
machines is that none of their states is a state of another machine:

* `ContextInStep` (`[]ContextMatchesState`), `TimersStarted`
  (`[]WaitingHasTimer`), `RetriesBounded` (`[]AttemptsBounded`), `CountsRight`
  (`[]CountsMatchEvents`) and `LimitsKept` (`[]LimitsHold`).
* `MachinesFollowLifecycle`: `MachineSpec => Spec`, where `Spec` is that of
  `FsmLifecycle`, so `MachinesBracketed`: the order of hooks holds of the machines.

The five invariants speak of the context between dispatches and are not
inductive: a transition writes the context in up to three hooks, and between
them it belongs to neither state. `ContextInv` says for each phase what the
context is. `Rest` holds while a machine is ready or about to run its process hook,
`Leave` is what the exit hook expects after the process hook's answer, and `Toward`
what the entry hook expects, after the exit hook or before `init`. `Leave` is
needed where the next state relies on the exit hook: a session's clears the timer
that must be off once logged out, a player's takes the volume machine away.
Elsewhere `Leave` is `Toward`. Each is a disjunction with one part per machine, so
that a dispatch never leaves its machine; each machine has one lemma per kind of hook.

`TrafficIntersectionProofs`, for any number of rounds, any rounds of the button
and the emergency, and any lag: `FlagsTrue` (`[]FlagsTellTheTruth`),
`OnlyOverlapsConflict` (`[]ConflictNeedsOverlap`) and `GreenAfterRed`
(`Spec => RedLasts`). The flags of two threads are related only by what each thread
is in the middle of: `FlagOf` says when a thread's flag is up at each point of
its hooks, `OneClaim` that without an overlap at most one thread shows its flag or
is on its way to raise it, `Owes` that the ticks a light still owes to `Red`
are among those `tick_count` lacks, or the one it takes to look at `tick_count`
after an emergency.

`FsmGenProofs`, for all workspaces, settings and files, with every file
operation free to fail. Assumed are the shapes of the inputs, and that the
files that are not diagrams have no path of a diagram (`OutputAssumption`:
they do not end in `.mermaid`).

* `FilesLeftAlone` (`[]FilesSurvive`) and `NoOldDiagram` (`[]NothingStale`). The
  invariant follows an old diagram through the clean-up: it is still to be visited or
  stuck, and then it is either gone or written over (`Cleaned`).
* `OverflowOnlyOnCycle`: `[](DeepEnough => CrashOnlyOnCycle)`, where `DeepEnough` says
  that the stack holds a call for each machine; a deep workspace and a shallow stack
  do overflow. `OpenCalls` says that each open call is of a sub-machine of all those
  around it; a full stack and one more call are more calls than there are
  machines, so two are of one machine. The outermost call may be of a
  definition that is not the last of its name: it is a root's then, and no root is below
  another machine (`NoRootBelow`).
* `LastOneWins` (`[]LastDefinitionDrawn`), from `OrderInv` and `LastInv`: roots are
  taken in the order found, breakdowns never have the path of a root's own
  diagram, so nothing writes over the last definition.
* `EveryMachineSomewhere` (`[]AcyclicAllDrawn`). `DrawInv` says that in a nested
  diagram each reference is drawn or still to be followed, so that what is written is
  closed under references (`WriteComplete`); `KeptInv` that with unique names a
  diagram written stays (`PathsApart`); and `UnderSomeRoot` that without
  cycles every machine is a root or below one: of its ancestors take one with the
  fewest.

Only model-checked:

* Liveness under fairness, which is out of the prover's reach: `EveryCallReturns`,
  `DrainedByHolder`, `GuardsAreDropped`, `HandledWhileRunning`, `TimeoutsResolve`,
  `Terminates`, `EveryMacroEnds`.
* The parser, the extractor and the diagram (`Drawing`). What they read and draw is defined by
  recursion over syntax trees, and needs induction over data.

## Not modelled

* `normalize_source` and the escapes of labels, the Mermaid text itself, the
  whitespace `reconstruct_tokens` puts between tokens: text no property is about.
* `ra_ap_syntax` and `mermaid-builder`, external libraries: the models say what
  trees the one returns, and that the other keeps what it is given.
* `blink.rs`, `logging.rs`, `traffic_light.rs`: hooks that print, count and move
  in a cycle; the plain machine of `ExampleMachines` makes every such move.
* Logging, the crate root, scripts and continuous integration: no state.

## The plan

Done, in this order: the concurrent arm and its promise; interrupts, mutexes and
the monitor around it; the sequential arm as what each instance's hooks see;
the command and the reference analysis; the example machines on top of the
sequential arm; the intersection; the parser and the extractor.

Proved, in this order: the concurrent arm, its order of events and of hooks; the
sequential arm; mutexes, interrupts and the monitor; the intersection; `fsm-gen`;
the example machines; that mutexes, interrupts and the example machines implement
the arm they stand on.

Nothing the prover can do is left of it: what a run checks and no theorem states
is liveness, or is defined by recursion over syntax trees.
