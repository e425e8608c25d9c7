--------------------------- MODULE DevicesExample ---------------------------
(***************************************************************************)
(* Two machines that watch a device: SensorFSM of                          *)
(* examples/concurrent_isr.rs and MotorFSM of examples/motor.rs.           *)
(***************************************************************************)
EXTENDS ExampleHooks

CONSTANTS
  Readings,  \* what the devices deliver
  Limit      \* 1000 (concurrent_isr.rs:92); target_speed + 500 (motor.rs:109)

ASSUME DevicesAssumption == Readings \subseteq Nat /\ Limit \in Nat

Sensor(v) == Variant("Sensor", v)
SensorContext == [sensor_value |-> 0, sample_count |-> 0]
SensorEvents ==
  Plainly({"Start", "Stop", "TimerTick", "Error"}) \cup
  {<<"DataReady", r>> : r \in Readings}

SensorIdle(c, e) ==
  Block([c EXCEPT !.sample_count = 0],
        IF e = <<"Start">> THEN GoTo(Sensor("Monitoring"), c) ELSE Stay(c),
        c)

SensorMonitoring(c, e) ==
  Reacts(c,
    CASE e = <<"TimerTick">> -> Stay([c EXCEPT !.sample_count = @ + 1])
      [] e[1] = "DataReady" ->
           LET read == [c EXCEPT !.sensor_value = e[2]]
           IN  IF e[2] > Limit THEN GoTo(Sensor("Error"), read) ELSE Stay(read)
      [] e = <<"Stop">> -> GoTo(Sensor("Idle"), c)
      [] e = <<"Error">> -> GoTo(Sensor("Error"), c)
      [] OTHER -> Stay(c))

SensorError(c, e) ==
  Reacts(c,
    CASE e = <<"Start">> -> GoTo(Sensor("Monitoring"), c)
      [] e = <<"Stop">> -> GoTo(Sensor("Idle"), c)
      [] OTHER -> Stay(c))

-----------------------------------------------------------------------------
Motor(v) == Variant("Motor", v)
MotorContext == [current_rpm |-> 0]
MotorEvents ==
  Plainly({"StartButton", "StopButton"}) \cup {<<"SensorTick", r>> : r \in Readings}

MotorIdle(c, e) ==
  Reacts(c, IF e = <<"StartButton">> THEN GoTo(Motor("Running"), c) ELSE Stay(c))

(* Every start carries the same target_speed, so the field is a constant.  *)
MotorRunning(c, e) ==
  Reacts(c,
    CASE e = <<"StopButton">> -> GoTo(Motor("Idle"), c)
      [] e[1] = "SensorTick" ->
           LET read == [c EXCEPT !.current_rpm = e[2]]
           IN  IF e[2] > Limit THEN GoTo(Motor("Error"), read) ELSE Stay(read)
      [] OTHER -> Stay(c))

MotorError(c, e) ==
  Reacts(c, IF e = <<"StopButton">> THEN GoTo(Motor("Idle"), c) ELSE Stay(c))

DeviceHooks(s, c, e) ==
  CASE s = Sensor("Idle") -> SensorIdle(c, e)
    [] s = Sensor("Monitoring") -> SensorMonitoring(c, e)
    [] s = Sensor("Error") -> SensorError(c, e)
    [] s = Motor("Idle") -> MotorIdle(c, e)
    [] s = Motor("Running") -> MotorRunning(c, e)
    [] s = Motor("Error") -> MotorError(c, e)
=============================================================================
