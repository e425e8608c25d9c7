---------------------------- MODULE GuardsExample ----------------------------
(***************************************************************************)
(* The three machines of examples/guards.rs, whose process hooks decide on *)
(* the context whether to move.                                            *)
(***************************************************************************)
EXTENDS ExampleHooks

CONSTANTS
  Pins,      \* the numbers that are typed in; 1 is the right one
  Amounts    \* the amounts asked for, paid and owned

ASSUME GuardsAssumption == Pins \subseteq Nat /\ 1 \in Pins /\ Amounts \subseteq Nat

ATM(v) == Variant("ATM", v)
ATMContexts ==
  {[correct_pin |-> 1, attempts |-> 0, account_balance |-> b] : b \in Amounts}
ATMEvents ==
  Plainly({"InsertCard", "Cancel"}) \cup {<<"EnterPIN", p>> : p \in Pins}
                                    \cup {<<"Withdraw", a>> : a \in Amounts}

ATMIdle(c, e) ==
  Block([c EXCEPT !.attempts = 0],
        IF e = <<"InsertCard">> THEN GoTo(ATM("WaitingPIN"), c) ELSE Stay(c),
        c)

ATMWaitingPIN(c, e) ==
  LET wrong == [c EXCEPT !.attempts = @ + 1]
  IN  Reacts(c,
        CASE e = <<"EnterPIN", c.correct_pin>> -> GoTo(ATM("Authenticated"), c)
          [] e[1] = "EnterPIN" /\ e[2] # c.correct_pin ->
               IF wrong.attempts >= 3 THEN GoTo(ATM("Blocked"), wrong) ELSE Stay(wrong)
          [] e = <<"Cancel">> -> GoTo(ATM("Idle"), c)
          [] OTHER -> Stay(c))

ATMAuthenticated(c, e) ==
  Reacts(c,
    CASE e[1] = "Withdraw" /\ e[2] <= c.account_balance ->
           GoTo(ATM("Idle"), [c EXCEPT !.account_balance = @ - e[2]])
      [] e = <<"Cancel">> -> GoTo(ATM("Idle"), c)
      [] OTHER -> Stay(c))

ATMBlocked(c, e) == Reacts(c, Stay(c))

-----------------------------------------------------------------------------
DoorLock(v) == Variant("DoorLock", v)
DoorContext == [authorized_codes |-> {1}, is_locked |-> TRUE]
DoorEvents ==
  Plainly({"Lock", "EmergencyOpen"}) \cup {<<"EnterCode", p>> : p \in Pins}

DoorLocked(c, e) ==
  Reacts(c,
    IF \/ e[1] = "EnterCode" /\ e[2] \in c.authorized_codes
       \/ e = <<"EmergencyOpen">>
      THEN GoTo(DoorLock("Unlocked"), c)
      ELSE Stay(c))

DoorUnlocked(c, e) ==
  Block([c EXCEPT !.is_locked = FALSE],
        IF e = <<"Lock">>
          THEN GoTo(DoorLock("Locked"), [c EXCEPT !.is_locked = TRUE])
          ELSE Stay(c),
        c)

-----------------------------------------------------------------------------
Order(v) == Variant("Order", v)
OrderContexts ==
  [order_value : Amounts, customer_credit : Amounts, items_in_stock : BOOLEAN]
OrderEvents == Plainly({"Submit", "PaymentReceived", "Ship", "Cancel"})

(* Mutant: an order above the credit limit is submitted.                   *)
DraftIgnoresCredit(c, e) ==
  Reacts(c,
    IF e = <<"Submit">> /\ c.items_in_stock
      THEN GoTo(Order("PendingPayment"), c)
      ELSE Stay(c))

OrderDraft(c, e) ==
  Reacts(c,
    IF e = <<"Submit">> /\ c.items_in_stock /\ ~(c.order_value > c.customer_credit)
      THEN GoTo(Order("PendingPayment"), c)
      ELSE Stay(c))

OrderPendingPayment(c, e) ==
  Reacts(c,
    CASE e = <<"PaymentReceived">> ->
           GoTo(Order("Paid"), [c EXCEPT !.customer_credit = @ - c.order_value])
      [] e = <<"Cancel">> -> GoTo(Order("Cancelled"), c)
      [] OTHER -> Stay(c))

OrderPaid(c, e) ==
  Reacts(c, IF e = <<"Ship">> THEN GoTo(Order("Completed"), c) ELSE Stay(c))

OrderClosed(c, e) == Reacts(c, Stay(c))

-----------------------------------------------------------------------------
GuardHooks(s, c, e) ==
  CASE s = ATM("Idle") -> ATMIdle(c, e)
    [] s = ATM("WaitingPIN") -> ATMWaitingPIN(c, e)
    [] s = ATM("Authenticated") -> ATMAuthenticated(c, e)
    [] s = ATM("Blocked") -> ATMBlocked(c, e)
    [] s = DoorLock("Locked") -> DoorLocked(c, e)
    [] s = DoorLock("Unlocked") -> DoorUnlocked(c, e)
    [] s = Order("Draft") -> OrderDraft(c, e)
    [] s = Order("PendingPayment") -> OrderPendingPayment(c, e)
    [] s = Order("Paid") -> OrderPaid(c, e)
    [] s \in {Order("Completed"), Order("Cancelled")} -> OrderClosed(c, e)
=============================================================================
