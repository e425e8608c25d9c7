----------------------------- MODULE DropMonitor -----------------------------
(***************************************************************************)
(* A task that watches DROPPED_EVENTS "over specific time periods" as the  *)
(* doc of reset_dropped_count shows: read the counter, reset it, repeat.   *)
(* The read and the reset are two atomic operations, and drops of other    *)
(* callers may fall between them.                                          *)
(***************************************************************************)
EXTENDS ConcurrentDispatch

CONSTANT MaxPeriods   \* bound: how many periods are monitored

ASSUME PeriodsAssumption == MaxPeriods \in Nat

VARIABLES
  periods,    \* periods begun
  loaded,     \* TRUE between the read and the reset
  seen,       \* the value read
  reported,   \* history: sum of the values read
  forgotten   \* history: drops counted after a read and erased by its reset

monitorVars == <<periods, loaded, seen, reported, forgotten>>

MonitorInit ==
  /\ Init
  /\ periods = 0
  /\ loaded = FALSE
  /\ seen = 0
  /\ reported = 0
  /\ forgotten = 0

(* dropped_events_count()                                                  *)
DroppedEventsCount ==
  /\ ~loaded
  /\ periods < MaxPeriods
  /\ periods' = periods + 1
  /\ loaded' = TRUE
  /\ seen' = dropped
  /\ reported' = reported + dropped
  /\ UNCHANGED <<vars, forgotten>>

(* Mutant: the counter keeps its value into the next period.               *)
ResetNothing ==
  /\ loaded
  /\ loaded' = FALSE
  /\ seen' = 0
  /\ forgotten' = forgotten + (dropped - seen)
  /\ UNCHANGED <<vars, periods, reported>>

(* reset_dropped_count()                                                   *)
ResetDroppedCount ==
  /\ loaded
  /\ dropped' = 0
  /\ loaded' = FALSE
  /\ seen' = 0
  /\ forgotten' = forgotten + (dropped - seen)
  /\ UNCHANGED <<active, queue, fsm, pc, event, next, calls, history,
                 periods, reported>>

MonitorNext ==
  \/ Next /\ UNCHANGED monitorVars
  \/ DroppedEventsCount
  \/ ResetDroppedCount

MonitorSpec == MonitorInit /\ [][MonitorNext]_<<vars, monitorVars>>

-----------------------------------------------------------------------------
(* Every event refused by a full queue is reported in exactly one period,  *)
(* is still in the counter, is about to be counted, or was erased by a     *)
(* reset that came after it was counted and before it was read: periods    *)
(* never report a drop twice and may only miss those in that window.  All  *)
(* of it as long as the counter has not wrapped.                           *)
DropsAccounted ==
  LET uncounted == Cardinality({c \in Callers : pc[c] = "count"})
      unread == IF loaded THEN dropped - seen ELSE dropped
  IN  Cardinality(lost) < CounterSize =>
        /\ Cardinality(lost) = reported + forgotten + unread + uncounted
        /\ forgotten >= 0
=============================================================================
