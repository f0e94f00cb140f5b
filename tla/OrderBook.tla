------------------------------ MODULE OrderBook ------------------------------
(***************************************************************************)
(* What the orders of a salon promise to whoever looks at them from        *)
(* outside: an order is opened, paid and closed, reopened, or cancelled,   *)
(* one of these at a time; its payments appear and disappear together with *)
(* its closing; an appointment has one order that is not cancelled.        *)
(*                                                                         *)
(* Abstract: it says nothing of transactions, locks or retries.  The       *)
(* requests of OrderRaces implement it.                                    *)
(***************************************************************************)
EXTENDS Sequences

CONSTANTS Orders, Appointments, NoAppointment, Amounts

VARIABLES order_status, order_appointment, payments

vars == <<order_status, order_appointment, payments>>

Active(o) == order_status[o] \in {"open", "closed"}

Init ==
  /\ order_status = [o \in Orders |-> "none"]
  /\ order_appointment = [o \in Orders |-> NoAppointment]
  /\ payments = [o \in Orders |-> <<>>]

Open(o, a) ==
  /\ order_status[o] = "none"
  /\ \A x \in Orders : order_appointment[x] = a => ~Active(x)
  /\ order_status' = [order_status EXCEPT ![o] = "open"]
  /\ order_appointment' = [order_appointment EXCEPT ![o] = a]
  /\ UNCHANGED payments

Close(o, amount) ==
  /\ order_status[o] = "open"
  /\ order_status' = [order_status EXCEPT ![o] = "closed"]
  /\ payments' = [payments EXCEPT ![o] = <<amount>>]
  /\ UNCHANGED order_appointment

Reopen(o) ==
  /\ order_status[o] = "closed"
  /\ order_status' = [order_status EXCEPT ![o] = "open"]
  /\ payments' = [payments EXCEPT ![o] = <<>>]
  /\ UNCHANGED order_appointment

Cancel(o) ==
  /\ order_status[o] = "open"
  /\ order_status' = [order_status EXCEPT ![o] = "cancelled"]
  /\ UNCHANGED <<order_appointment, payments>>

Next ==
  \E o \in Orders :
    \/ \E a \in Appointments : Open(o, a)
    \/ \E amount \in Amounts : Close(o, amount)
    \/ Reopen(o)
    \/ Cancel(o)

Spec == Init /\ [][Next]_vars
=============================================================================
