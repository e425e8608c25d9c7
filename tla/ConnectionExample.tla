-------------------------- MODULE ConnectionExample --------------------------
(***************************************************************************)
(* ConnectionManager of examples/connection.rs.  The attempt number lives  *)
(* twice, in the variants' fields and in the context; error texts, session *)
(* names and the backoff, which only the log reads, are left out.          *)
(***************************************************************************)
EXTENDS ExampleHooks

Manager(v, fields) == Holding("Connection", v, fields)
ConnectionContext == [attempt_count |-> 0]
ConnectionEvents ==
  Plainly({"Connect", "ConnectionEstablished", "ConnectionFailed",
           "Disconnect", "ConnectionLost", "RetryTimeout"})

(* The attempt field is a u32; one more than allowed is enough of it.      *)
ConnectionStates ==
  {Manager(v, << >>) : v \in {"Disconnected", "Connected", "Failed"}} \cup
  {Manager(v, <<n>>) : v \in {"Connecting", "Retrying"}, n \in 1..(MaxRetries + 1)}

ResetAttempts(c) == [c EXCEPT !.attempt_count = 0]

Disconnected(c, e) ==
  Block(ResetAttempts(c),
        IF e = <<"Connect">> THEN GoTo(Manager("Connecting", <<1>>), c) ELSE Stay(c),
        c)

(* Mutant: giving up is decided one attempt too late.                      *)
ConnectingOnceMore(attempt, c, e) ==
  Block([c EXCEPT !.attempt_count = attempt],
        CASE e = <<"ConnectionEstablished">> -> GoTo(Manager("Connected", << >>), c)
          [] e = <<"ConnectionFailed">> ->
               GoTo(IF c.attempt_count > MaxRetries
                      THEN Manager("Failed", << >>)
                      ELSE Manager("Retrying", <<c.attempt_count + 1>>), c)
          [] e = <<"Disconnect">> -> GoTo(Manager("Disconnected", << >>), c)
          [] OTHER -> Stay(c),
        c)

Connecting(attempt, c, e) ==
  Block([c EXCEPT !.attempt_count = attempt],
        CASE e = <<"ConnectionEstablished">> -> GoTo(Manager("Connected", << >>), c)
          [] e = <<"ConnectionFailed">> ->
               GoTo(IF c.attempt_count >= MaxRetries
                      THEN Manager("Failed", << >>)
                      ELSE Manager("Retrying", <<c.attempt_count + 1>>), c)
          [] e = <<"Disconnect">> -> GoTo(Manager("Disconnected", << >>), c)
          [] OTHER -> Stay(c),
        c)

Connected(c, e) ==
  Block(ResetAttempts(c),
        CASE e = <<"Disconnect">> -> GoTo(Manager("Disconnected", << >>), c)
          [] e = <<"ConnectionLost">> -> GoTo(Manager("Retrying", <<1>>), c)
          [] OTHER -> Stay(c),
        c)

Retrying(next_attempt, c, e) ==
  Reacts(c,
    CASE e = <<"RetryTimeout">> -> GoTo(Manager("Connecting", <<next_attempt>>), c)
      [] e = <<"Disconnect">> -> GoTo(Manager("Disconnected", << >>), c)
      [] OTHER -> Stay(c))

Failed(c, e) ==
  Reacts(c,
    IF e = <<"Connect">> THEN GoTo(Manager("Connecting", <<1>>), c) ELSE Stay(c))

ConnectionHooks(s, c, e) ==
  CASE s.in = "Disconnected" -> Disconnected(c, e)
    [] s.in = "Connecting" -> Connecting(s.data[1], c, e)
    [] s.in = "Connected" -> Connected(c, e)
    [] s.in = "Retrying" -> Retrying(s.data[1], c, e)
    [] s.in = "Failed" -> Failed(c, e)
=============================================================================
