--------------------------- MODULE TimeoutsExample ---------------------------
(***************************************************************************)
(* The three machines of examples/timeouts.rs.  They share the pattern of  *)
(* the file: entry starts a timer that lives in the context, a polled      *)
(* CheckTimeout looks at it.  A StdTimer is "off" (start_time is None),    *)
(* "running" or "expired" (the duration has elapsed since start).          *)
(***************************************************************************)
EXTENDS ExampleHooks

CONSTANTS Users   \* the names that log in; 0 is the empty String

ASSUME TimeoutsAssumption == 0 \notin Users

(* Timer::start, Timer::reset.                                             *)
Started(c) == [c EXCEPT !.timer = "running"]
Cleared(c) == [c EXCEPT !.timer = "off"]
IsExpired(c) == c.timer = "expired"

-----------------------------------------------------------------------------
WiFi(v) == Variant("WiFi", v)
WiFiContext == [timer |-> "off", retry_count |-> 0]
WiFiEvents == Plainly({"Connect", "Connected", "Disconnect", "CheckTimeout"})

WiFiIdle(c, e) ==
  Block([c EXCEPT !.retry_count = 0],
        IF e = <<"Connect">> THEN GoTo(WiFi("Connecting"), c) ELSE Stay(c),
        c)

WiFiConnecting(c, e) ==
  Block(Started(c),
        CASE e = <<"Connected">> -> GoTo(WiFi("Active"), Cleared(c))
          [] e = <<"CheckTimeout">> /\ IsExpired(c) ->
               GoTo(WiFi("Failed"), Cleared(c))
          [] OTHER -> Stay(c),
        Cleared(c))

WiFiActive(c, e) ==
  Reacts(c, IF e = <<"Disconnect">> THEN GoTo(WiFi("Idle"), c) ELSE Stay(c))

(* Mutant: the retry is decided on the count before the increment.         *)
FailedCountsLate(c, e) ==
  Block(LET failed == [c EXCEPT !.retry_count = @ + 1]
        IN  IF c.retry_count < MaxRetries THEN Started(failed) ELSE failed,
        IF e = <<"CheckTimeout">> /\ IsExpired(c) /\ c.retry_count < MaxRetries
          THEN GoTo(WiFi("Connecting"), Cleared(c))
          ELSE Stay(c),
        c)

WiFiFailed(c, e) ==
  Block(LET failed == [c EXCEPT !.retry_count = @ + 1]
        IN  IF failed.retry_count < MaxRetries THEN Started(failed) ELSE failed,
        IF e = <<"CheckTimeout">> /\ IsExpired(c) /\ c.retry_count < MaxRetries
          THEN GoTo(WiFi("Connecting"), Cleared(c))
          ELSE Stay(c),
        c)

-----------------------------------------------------------------------------
Session(v) == Variant("Session", v)
SessionContext == [timer |-> "off", username |-> 0]
SessionEvents ==
  Plainly({"Activity", "CheckTimeout", "Logout"}) \cup {<<"Login", u>> : u \in Users}

SessionLoggedOut(c, e) ==
  Block([c EXCEPT !.username = 0],
        IF e[1] = "Login"
          THEN GoTo(Session("Active"), [c EXCEPT !.username = e[2]])
          ELSE Stay(c),
        c)

SessionActive(c, e) ==
  Block(Started(c),
        CASE e = <<"Activity">> -> Stay(Started(c))
          [] \/ e = <<"CheckTimeout">> /\ IsExpired(c)
             \/ e = <<"Logout">> -> GoTo(Session("LoggedOut"), c)
          [] OTHER -> Stay(c),
        Cleared(c))

-----------------------------------------------------------------------------
Button(v) == Variant("Button", v)
ButtonContext == [timer |-> "off", press_count |-> 0]
ButtonEvents == Plainly({"Press", "CheckTimeout"})

ButtonIdle(c, e) ==
  Reacts(c, IF e = <<"Press">> THEN GoTo(Button("Debouncing"), c) ELSE Stay(c))

(* Mutant: a press that bounces starts the timer anew.                     *)
DebouncingRestarts(c, e) ==
  Block(Started(c),
        CASE e = <<"Press">> -> Stay(Started(c))
          [] e = <<"CheckTimeout">> /\ IsExpired(c) ->
               GoTo(Button("Pressed"), [c EXCEPT !.press_count = @ + 1])
          [] OTHER -> Stay(c),
        c)

ButtonDebouncing(c, e) ==
  Block(Started(c),
        IF e = <<"CheckTimeout">> /\ IsExpired(c)
          THEN GoTo(Button("Pressed"), [c EXCEPT !.press_count = @ + 1])
          ELSE Stay(c),
        c)

(* Mutant: Pressed looks at the timer it inherits, too.                    *)
PressedCountsAgain(c, e) ==
  Reacts(c,
    CASE e = <<"Press">> -> GoTo(Button("Debouncing"), c)
      [] e = <<"CheckTimeout">> /\ IsExpired(c) ->
           Stay(Cleared([c EXCEPT !.press_count = @ + 1]))
      [] OTHER -> Stay(c))

ButtonPressed(c, e) ==
  Reacts(c, IF e = <<"Press">> THEN GoTo(Button("Debouncing"), c) ELSE Stay(c))

-----------------------------------------------------------------------------
TimeoutHooks(s, c, e) ==
  CASE s = WiFi("Idle") -> WiFiIdle(c, e)
    [] s = WiFi("Connecting") -> WiFiConnecting(c, e)
    [] s = WiFi("Active") -> WiFiActive(c, e)
    [] s = WiFi("Failed") -> WiFiFailed(c, e)
    [] s = Session("LoggedOut") -> SessionLoggedOut(c, e)
    [] s = Session("Active") -> SessionActive(c, e)
    [] s = Button("Idle") -> ButtonIdle(c, e)
    [] s = Button("Debouncing") -> ButtonDebouncing(c, e)
    [] s = Button("Pressed") -> ButtonPressed(c, e)
=============================================================================
