-------------------------- MODULE MCExampleMachines --------------------------
(* Every example machine, and a plain one of five variants: all moves      *)
(* between distinct ones and one self-transition.                          *)
EXTENDS ExampleMachines

FivePlain == {Variant("Plain", v) : v \in {"Idle", "Run", "Wait", "Stop", "Fault"}}

AllStates ==
  FivePlain \cup ConnectionStates
  \cup {WiFi(v) : v \in {"Idle", "Connecting", "Active", "Failed"}}
  \cup {Session(v) : v \in {"LoggedOut", "Active"}}
  \cup {Button(v) : v \in {"Idle", "Debouncing", "Pressed"}}
  \cup {ATM(v) : v \in {"Idle", "WaitingPIN", "Authenticated", "Blocked"}}
  \cup {DoorLock(v) : v \in {"Locked", "Unlocked"}}
  \cup {Order(v) : v \in {"Draft", "PendingPayment", "Paid", "Completed", "Cancelled"}}
  \cup {Player(v) : v \in {"Stopped", "Playing", "Paused"}}
  \cup {Task(v) : v \in {"Idle", "Processing", "Paused", "Shutdown"}}
  \cup {Sensor(v) : v \in {"Idle", "Monitoring", "Error"}}
  \cup {Motor(v) : v \in {"Idle", "Running", "Error"}}

AllMoves ==
  {<<s, t>> \in AllStates \X AllStates :
     s.of = t.of /\ (s \in FivePlain => s # t \/ s = Variant("Plain", "Run"))}

TwoUsers == {1, 2}
ThreeAmounts == {1, 2, 3}
ThreeReadings == {0, 2, 3}
=============================================================================
