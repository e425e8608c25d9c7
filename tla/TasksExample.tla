---------------------------- MODULE TasksExample ----------------------------
(***************************************************************************)
(* TaskProcessor of examples/concurrent_threads.rs, as one dispatch after  *)
(* another: MutexDispatch has the threads, and every machine handles its   *)
(* events serially (ImplementsSerial).  completed_tasks only gets printed. *)
(***************************************************************************)
EXTENDS ExampleHooks

Task(v) == Variant("Task", v)
TaskContext == [active_tasks |-> 0, failed_tasks |-> 0]
TaskEvents ==
  Plainly({"NewTask", "TaskComplete", "TaskFailed", "Pause", "Resume", "Shutdown"})

OneLess(n) == IF n > 0 THEN n - 1 ELSE n

TaskIdle(c, e) ==
  Block([c EXCEPT !.active_tasks = 0],
        CASE e = <<"NewTask">> -> GoTo(Task("Processing"), c)
          [] e = <<"Shutdown">> -> GoTo(Task("Shutdown"), c)
          [] OTHER -> Stay(c),
        c)

TaskProcessing(c, e) ==
  LET finished == [c EXCEPT !.active_tasks = OneLess(@)]
      failed == [finished EXCEPT !.failed_tasks = @ + 1]
  IN  Reacts(c,
        CASE e = <<"NewTask">> -> Stay([c EXCEPT !.active_tasks = @ + 1])
          [] e = <<"TaskComplete">> ->
               IF finished.active_tasks = 0 THEN GoTo(Task("Idle"), finished)
               ELSE Stay(finished)
          [] e = <<"TaskFailed">> ->
               IF failed.failed_tasks >= 3 THEN GoTo(Task("Paused"), failed)
               ELSE Stay(failed)
          [] e = <<"Pause">> -> GoTo(Task("Paused"), c)
          [] e = <<"Shutdown">> -> GoTo(Task("Shutdown"), c)
          [] OTHER -> Stay(c))

TaskPaused(c, e) ==
  Reacts(c,
    CASE e = <<"Resume">> -> GoTo(Task("Processing"), [c EXCEPT !.failed_tasks = 0])
      [] e = <<"Shutdown">> -> GoTo(Task("Shutdown"), c)
      [] OTHER -> Stay(c))

TaskShutdown(c, e) == Reacts(c, Stay(c))

TaskHooks(s, c, e) ==
  CASE s = Task("Idle") -> TaskIdle(c, e)
    [] s = Task("Processing") -> TaskProcessing(c, e)
    [] s = Task("Paused") -> TaskPaused(c, e)
    [] s = Task("Shutdown") -> TaskShutdown(c, e)
=============================================================================
