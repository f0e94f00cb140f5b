------------------------------ MODULE OrderRaces ------------------------------
(***************************************************************************)
(* The requests that meet on one order, as the transactions they are:      *)
(* several statements each, under PostgreSQL's READ COMMITTED.             *)
(*                                                                         *)
(* Source: services/orders.py, services/appointments.py,                   *)
(* services/cash_register.py, services/commissions.py and the SELECT ...   *)
(* FOR UPDATE of repositories/order_repo.py and order_item_repo.py.        *)
(*                                                                         *)
(* A statement reads what is committed.  What a transaction writes is      *)
(* seen by the others when it commits, so the tables change in the commit  *)
(* steps only.  An UPDATE, a SELECT ... FOR UPDATE and an INSERT under a   *)
(* unique index take a row and wait while another transaction holds it;    *)
(* rows are released at the end.  A request that fails, or that the        *)
(* database chooses to break a deadlock, leaves no trace.                  *)
(*                                                                         *)
(* An operator marked "mutant" is the definition below it with a plausible *)
(* mistake: no action uses it, and a property must fail when it is used.   *)
(***************************************************************************)
EXTENDS Naturals, Sequences, FiniteSets

CONSTANTS
  Workers,        \* threads that serve requests, one at a time each
  Appointments, NoAppointment, NoWorker,
  Prices,         \* what a line may cost
  MaxAmount,      \* the widest amount a column takes
  Kinds,          \* the requests that arrive
  MaxOrders       \* bound

RequestKind ==
  {"create_order", "close_order", "reopen_order", "cancel_order", "no_show",
   "finished", "update_appointment_item", "create_settlement", "close_register"}

Orders == 1 .. MaxOrders
Amount == 0 .. MaxAmount

CANCELLABLE_FROM_VIA_LINKED_ORDER == {"scheduled", "finished"}
OPERATIONAL_STATUSES == CANCELLABLE_FROM_VIA_LINKED_ORDER \union {"no_show"}
AppointmentStatus == OPERATIONAL_STATUSES \union {"paid", "cancelled"}

ASSUME RacesAssumption ==
  /\ NoAppointment \notin Appointments
  /\ NoWorker \notin Workers
  /\ MaxAmount \in Nat
  /\ Prices # {} /\ Prices \subseteq Amount \ {0}
  /\ Kinds \subseteq RequestKind
  /\ MaxOrders \in Nat

VARIABLES
  \* tables, as committed
  appointment_status,
  order_status, order_appointment,
  price,            \* OrderItem.price of the order's line
  commission,       \* OrderItem.commission_amount_snapshot, 0 is NULL
  settled,          \* settlements that paid the line; more than 0 is linked
  payments,         \* amounts of the order's active payments
  register_status,  \* the one register of the branch
  expected_amount,
  \* transactions
  tx,               \* what each worker is doing and has read
  holder            \* the worker that holds a row

tables == <<appointment_status, order_status, order_appointment, price,
            commission, settled, payments, register_status, expected_amount>>
vars == <<tables, tx, holder>>

\* The rows that are waited for: an order, its line, an appointment, the
\* register, and the entries that an INSERT makes in the unique indexes
\* uq_orders_appointment_id_active and (organization_id, order_number).
OrderRow(o) == <<"order", o>>
LineRow(o) == <<"line", o>>
NumberEntry(o) == <<"number", o>>
AppointmentRow(a) == <<"appointment", a>>
ActiveEntry(a) == <<"active", a>>
RegisterRow == <<"register", 0>>
Rows ==
  {"order", "line", "number"} \X Orders
    \union {"appointment", "active"} \X Appointments \union {RegisterRow}

Statement ==
  {"begin", "lock_order", "check_register", "read_appointment",
   "write_appointment", "write_line", "read_order", "check_order", "number",
   "insert", "pending", "lock_lines", "summary", "write_register", "commit"}

\* next is the statement to come; the rest is what was read.  writes is the
\* status the appointment will have, "keep" if the request leaves it.
Request ==
  [kind : Kinds \union {"idle"}, next : Statement,
   order : Orders \union {0}, appointment : Appointments \union {NoAppointment},
   amount : Amount, writes : AppointmentStatus \union {"keep"},
   lines : SUBSET Orders]

Idle == [kind |-> "idle", next |-> "begin", order |-> 0,
         appointment |-> NoAppointment, amount |-> 0, writes |-> "keep",
         lines |-> {}]

ActiveOrders(a) ==
  {o \in Orders : order_appointment[o] = a /\ order_status[o] \in {"open", "closed"}}

TotalOf(s) == LET sum[n \in 0 .. Len(s)] == IF n = 0 THEN 0 ELSE sum[n - 1] + s[n]
              IN  sum[Len(s)]
TotalPaid == LET sum[n \in 0 .. MaxOrders] ==
                   IF n = 0 THEN 0 ELSE sum[n - 1] + TotalOf(payments[n])
             IN  sum[MaxOrders]
-----------------------------------------------------------------------------
(* Waiting.                                                                 *)

\* order_repo.get_for_update; create's unique indexes;
\* lock_pending_commission_items.
PlainSelect(w) == {} \ {w}                                          \* mutant
ForUpdate(w) == {OrderRow(tx[w].order)}
OnlyNumberIsUnique(w) == {NumberEntry(tx[w].order)}                 \* mutant
UniqueEntries(w) ==
  {NumberEntry(tx[w].order), ActiveEntry(tx[w].appointment)}
    \union {OrderRow(o) : o \in ActiveOrders(tx[w].appointment)}
LinesUnlocked(w) == {} \ {w}                                        \* mutant
ForUpdateOfLines(w) == {LineRow(o) : o \in tx[w].lines}

\* The rows that the next statement takes.
Needs(w) ==
  CASE tx[w].next = "lock_order" -> ForUpdate(w)
    [] tx[w].next = "write_appointment" -> {AppointmentRow(tx[w].appointment)}
    [] tx[w].next = "write_line" -> {LineRow(tx[w].order)}
    [] tx[w].next = "insert" -> UniqueEntries(w)
    [] tx[w].next = "lock_lines" -> ForUpdateOfLines(w)
    [] tx[w].next = "write_register" -> {RegisterRow}
    [] OTHER -> {}

Blockers(w) == {holder[row] : row \in Needs(w)} \ {w, NoWorker}
CanLock(w) == Blockers(w) = {}

Take(w) == holder' = [row \in Rows |-> IF row \in Needs(w) THEN w ELSE holder[row]]

EndOnly(w) == tx' = [tx EXCEPT ![w] = Idle] /\ UNCHANGED holder      \* mutant
Release(w) ==
  /\ tx' = [tx EXCEPT ![w] = Idle]
  /\ holder' = [row \in Rows |-> IF holder[row] = w THEN NoWorker ELSE holder[row]]

Refuse(w) == Release(w) /\ UNCHANGED tables

\* The next statement after one that takes rows, and after one that does not.
Locked(w, request) ==
  /\ Take(w)
  /\ tx' = [tx EXCEPT ![w] = request]
  /\ UNCHANGED tables
Proceed(w, request) ==
  /\ tx' = [tx EXCEPT ![w] = request]
  /\ UNCHANGED <<tables, holder>>

\* Workers that wait for one another in a circle: the database fails one.
Circle(S) == S # {} /\ \A w \in S : \E x \in S : w \in Blockers(x) /\ Blockers(w) \intersect S # {}
InCircle(w) == \E S \in SUBSET Workers : w \in S /\ Circle(S)
DeadlockVictim(w) == InCircle(w) /\ Refuse(w)
-----------------------------------------------------------------------------
(* Requests arrive.                                                         *)

Start(kind) ==
  CASE kind = "create_order" -> "check_order"
    [] kind \in {"close_order", "reopen_order", "cancel_order"} -> "lock_order"
    [] kind \in {"no_show", "finished"} -> "read_appointment"
    [] kind = "update_appointment_item" -> "read_order"
    [] kind = "create_settlement" -> "pending"
    [] kind = "close_register" -> "summary"

\* An order's request names the order, an agenda's the appointment.
Begin(w) ==
  /\ tx[w] = Idle
  /\ \E kind \in Kinds, o \in Orders, a \in Appointments, p \in Prices :
       /\ kind \in {"close_order", "reopen_order", "cancel_order"} =>
            order_status[o] # "none"
       /\ tx' = [tx EXCEPT ![w] =
            [Idle EXCEPT !.kind = kind, !.next = Start(kind),
               !.order = IF Start(kind) = "lock_order" THEN o ELSE 0,
               !.appointment = IF Start(kind) \in {"check_order", "read_appointment", "read_order"}
                               THEN a ELSE NoAppointment,
               !.amount = IF kind = "update_appointment_item" THEN p ELSE 0]]
  /\ UNCHANGED <<tables, holder>>
-----------------------------------------------------------------------------
(* The first statement on an order: get_for_update, then the status.        *)

\* reopen_order also refuses a line that was settled, as read here.
Expected(w) ==
  LET o == tx[w].order IN
  CASE tx[w].kind = "close_order" -> order_status[o] = "open"
    [] tx[w].kind = "reopen_order" -> order_status[o] = "closed" /\ settled[o] = 0
    [] tx[w].kind = "cancel_order" -> order_status[o] = "open"
    [] OTHER -> TRUE

\* _auto_cancel_order_for_no_show leaves an order that is no longer open.
LockOrder(w) ==
  LET o == tx[w].order IN
  /\ tx[w].next = "lock_order"
  /\ CanLock(w)
  /\ IF ~Expected(w) THEN Refuse(w)
     ELSE Locked(w, [tx[w] EXCEPT
            !.appointment = order_appointment[o],
            !.amount = IF tx[w].kind = "close_order" THEN price[o] ELSE @,
            !.order = IF tx[w].kind = "no_show" /\ order_status[o] # "open" THEN 0 ELSE @,
            !.next = CASE tx[w].kind \in {"close_order", "reopen_order"} -> "check_register"
                       [] tx[w].kind = "cancel_order" -> "read_appointment"
                       [] tx[w].kind = "no_show" -> "commit"])

\* assert_register_open_and_in_org, and the register check of reopen_order:
\* a plain SELECT.
CheckRegister(w) ==
  /\ tx[w].next = "check_register"
  /\ IF register_status = "open"
     THEN Proceed(w, [tx[w] EXCEPT !.next = "read_appointment"])
     ELSE Refuse(w)

NoneToo(status) == IF status = "paid" THEN "finished" ELSE "none"    \* mutant
DemotedFromPaid(status) == IF status = "paid" THEN "finished" ELSE "keep"

\* mark_paid, demote_paid_for_reopen, is_cancellable_via_linked_order and
\* next_status.  The first and the last refuse, the others leave the
\* appointment as it is.
NextStatus(w) ==
  LET status == appointment_status[tx[w].appointment] IN
  CASE tx[w].kind = "close_order" ->
         IF status \in OPERATIONAL_STATUSES THEN "paid" ELSE "refused"
    [] tx[w].kind = "reopen_order" -> DemotedFromPaid(status)
    [] tx[w].kind = "cancel_order" ->
         IF status \in CANCELLABLE_FROM_VIA_LINKED_ORDER THEN "cancelled" ELSE "keep"
    [] OTHER -> IF status \in OPERATIONAL_STATUSES THEN tx[w].kind ELSE "refused"

ReadAppointment(w) ==
  /\ tx[w].next = "read_appointment"
  /\ IF NextStatus(w) = "refused" THEN Refuse(w)
     ELSE Proceed(w, [tx[w] EXCEPT
            !.writes = NextStatus(w),
            !.next = IF NextStatus(w) = "keep" THEN "commit" ELSE "write_appointment"])

\* The UPDATE of the appointment: its status, or the bounds that the trigger
\* recalc_appointment_bounds writes when an item moves.
WriteAppointment(w) ==
  /\ tx[w].next = "write_appointment"
  /\ CanLock(w)
  /\ Locked(w, [tx[w] EXCEPT
       !.next = CASE tx[w].kind = "close_order" -> "write_line"
                  [] tx[w].kind = "update_appointment_item" ->
                       IF tx[w].order = 0 THEN "commit" ELSE "write_line"
                  [] tx[w].kind = "no_show" -> "read_order"
                  [] OTHER -> "commit"])

\* The UPDATE of order_items: the commission, or the price.
WriteLine(w) ==
  /\ tx[w].next = "write_line"
  /\ CanLock(w)
  /\ Locked(w, [tx[w] EXCEPT !.next = "commit"])

\* get_by_appointment, a plain SELECT.  update_appointment_item refuses to
\* change the price under a closed order and syncs the line of an open one.
FoundOrder(w) ==
  LET active == ActiveOrders(tx[w].appointment) IN IF active = {} THEN {0} ELSE active

ReadOrder(w) ==
  /\ tx[w].next = "read_order"
  /\ \E o \in FoundOrder(w) :
       IF tx[w].kind = "no_show"
       THEN Proceed(w, [tx[w] EXCEPT
              !.order = o, !.next = IF o = 0 THEN "commit" ELSE "lock_order"])
       ELSE IF o # 0 /\ order_status[o] = "closed" THEN Refuse(w)
       ELSE Proceed(w, [tx[w] EXCEPT !.order = o, !.next = "write_appointment"])
-----------------------------------------------------------------------------
(* create_order.                                                            *)

CheckOrder(w) ==
  /\ tx[w].next = "check_order"
  /\ IF ActiveOrders(tx[w].appointment) # {} THEN Refuse(w)
     ELSE Proceed(w, [tx[w] EXCEPT !.next = "number"])

\* _next_order_number: MAX + 1 of what is committed.
AllUsed == \A o \in Orders : order_status[o] # "none"     \* the bound
NextNumber(o) == \A x \in Orders : order_status[x] = "none" <=> x >= o
ReadNumber(w) ==
  /\ tx[w].next = "number"
  /\ \/ AllUsed /\ Refuse(w)
     \/ \E o \in Orders :
          /\ NextNumber(o)
          /\ Proceed(w, [tx[w] EXCEPT !.order = o, !.next = "insert"])

\* A violated index rolls the savepoint back: the request answers with the
\* order that won, or fails.
InsertOrder(w) ==
  /\ tx[w].next = "insert"
  /\ CanLock(w)
  /\ IF \/ NumberEntry(tx[w].order) \in UniqueEntries(w) /\ order_status[tx[w].order] # "none"
        \/ ActiveEntry(tx[w].appointment) \in UniqueEntries(w) /\ ActiveOrders(tx[w].appointment) # {}
     THEN Refuse(w)
     ELSE Locked(w, [tx[w] EXCEPT !.next = "commit"])
-----------------------------------------------------------------------------
(* create_settlement and close_register.                                    *)

\* The lines of closed orders with a commission that no settlement paid.  The
\* SELECT waits for the lines and then looks again at each line, not at its
\* order, which it does not lock.
ReadPending(w) ==
  /\ tx[w].next = "pending"
  /\ LET lines == {o \in Orders : /\ order_status[o] = "closed"
                                  /\ commission[o] # 0
                                  /\ settled[o] = 0}
     IN  IF lines = {} THEN Refuse(w)
         ELSE Proceed(w, [tx[w] EXCEPT !.lines = lines, !.next = "lock_lines"])

LockLines(w) ==
  LET lines == {o \in tx[w].lines : commission[o] # 0 /\ settled[o] = 0} IN
  /\ tx[w].next = "lock_lines"
  /\ CanLock(w)
  /\ IF lines = {} THEN Refuse(w)
     ELSE Locked(w, [tx[w] EXCEPT !.lines = lines, !.next = "commit"])

\* build_summary adds up what is committed; the UPDATE comes later, and fails
\* if the sum is wider than its column.
ReadSummary(w) ==
  /\ tx[w].next = "summary"
  /\ IF register_status # "open" \/ TotalPaid \notin Amount THEN Refuse(w)
     ELSE Proceed(w, [tx[w] EXCEPT !.amount = TotalPaid, !.next = "write_register"])

WriteRegister(w) ==
  /\ tx[w].next = "write_register"
  /\ CanLock(w)
  /\ Locked(w, [tx[w] EXCEPT !.next = "commit"])
-----------------------------------------------------------------------------
(* Commits: what the request wrote is there for the others.                 *)

Committing(w, kinds) ==
  /\ tx[w].next = "commit"
  /\ tx[w].kind \in kinds
  /\ Release(w)

SetStatus(w) ==
  appointment_status' =
    IF tx[w].writes = "keep" THEN appointment_status
    ELSE [appointment_status EXCEPT ![tx[w].appointment] = tx[w].writes]

\* The line's price is the agenda's, one of Prices.
CommitCreate(w) ==
  /\ Committing(w, {"create_order"})
  /\ order_status' = [order_status EXCEPT ![tx[w].order] = "open"]
  /\ order_appointment' = [order_appointment EXCEPT ![tx[w].order] = tx[w].appointment]
  /\ \E p \in Prices : price' = [price EXCEPT ![tx[w].order] = p]
  /\ UNCHANGED <<appointment_status, commission, settled, payments,
                 register_status, expected_amount>>

\* The payment and the commission are those of the line as it was read.
CommitClose(w) ==
  /\ Committing(w, {"close_order"})
  /\ order_status' = [order_status EXCEPT ![tx[w].order] = "closed"]
  /\ payments' = [payments EXCEPT ![tx[w].order] = Append(@, tx[w].amount)]
  /\ commission' = [commission EXCEPT ![tx[w].order] = tx[w].amount]
  /\ SetStatus(w)
  /\ UNCHANGED <<order_appointment, price, settled, register_status, expected_amount>>

CommitReopen(w) ==
  /\ Committing(w, {"reopen_order"})
  /\ order_status' = [order_status EXCEPT ![tx[w].order] = "open"]
  /\ payments' = [payments EXCEPT ![tx[w].order] = <<>>]
  /\ SetStatus(w)
  /\ UNCHANGED <<order_appointment, price, commission, settled, register_status,
                 expected_amount>>

\* cancel_order and update_status; the latter may have no order to cancel.
CommitStatus(w) ==
  /\ Committing(w, {"cancel_order", "no_show", "finished"})
  /\ order_status' = [o \in Orders |-> IF o = tx[w].order THEN "cancelled" ELSE order_status[o]]
  /\ SetStatus(w)
  /\ UNCHANGED <<order_appointment, price, commission, settled, payments,
                 register_status, expected_amount>>

CommitEdit(w) ==
  /\ Committing(w, {"update_appointment_item"})
  /\ price' = [o \in Orders |-> IF o = tx[w].order THEN tx[w].amount ELSE price[o]]
  /\ UNCHANGED <<appointment_status, order_status, order_appointment, commission,
                 settled, payments, register_status, expected_amount>>

CommitSettlement(w) ==
  /\ Committing(w, {"create_settlement"})
  /\ settled' = [o \in Orders |-> IF o \in tx[w].lines THEN settled[o] + 1 ELSE settled[o]]
  /\ UNCHANGED <<appointment_status, order_status, order_appointment, price,
                 commission, payments, register_status, expected_amount>>

CommitRegister(w) ==
  /\ Committing(w, {"close_register"})
  /\ register_status' = "closed"
  /\ expected_amount' = tx[w].amount
  /\ UNCHANGED <<appointment_status, order_status, order_appointment, price,
                 commission, settled, payments>>
-----------------------------------------------------------------------------
Init ==
  /\ appointment_status = [a \in Appointments |-> "scheduled"]
  /\ order_status = [o \in Orders |-> "none"]
  /\ order_appointment = [o \in Orders |-> NoAppointment]
  /\ price = [o \in Orders |-> 0]
  /\ commission = [o \in Orders |-> 0]
  /\ settled = [o \in Orders |-> 0]
  /\ payments = [o \in Orders |-> <<>>]
  /\ register_status = "open"
  /\ expected_amount = 0
  /\ tx = [w \in Workers |-> Idle]
  /\ holder = [row \in Rows |-> NoWorker]

\* A statement of w, or its commit.
Step(w) ==
  \/ LockOrder(w) \/ CheckRegister(w)
  \/ ReadAppointment(w) \/ WriteAppointment(w) \/ WriteLine(w)
  \/ ReadOrder(w) \/ CheckOrder(w) \/ ReadNumber(w) \/ InsertOrder(w)
  \/ ReadPending(w) \/ LockLines(w)
  \/ ReadSummary(w) \/ WriteRegister(w)
  \/ CommitCreate(w) \/ CommitClose(w) \/ CommitReopen(w) \/ CommitStatus(w)
  \/ CommitEdit(w) \/ CommitSettlement(w) \/ CommitRegister(w)

\* What is asked of the present state before a statement: it has the rows it
\* takes, and the MAX + 1 of the order numbers is one that is free.
MayStep(w) ==
  /\ tx[w] # Idle /\ CanLock(w)
  /\ tx[w].next = "number" => AllUsed \/ \E o \in Orders : NextNumber(o)

Next == \E w \in Workers : Begin(w) \/ Step(w) \/ DeadlockVictim(w)

Spec == Init /\ [][Next]_vars

\* A worker runs its request; waiters for a row are served in turn; the
\* database looks for deadlocks.  No request has to arrive.
Fairness ==
  /\ \A w \in Workers : SF_vars(Step(w))
  /\ WF_vars(\E w \in Workers : DeadlockVictim(w))

FairSpec == Spec /\ Fairness
-----------------------------------------------------------------------------
(* Properties.                                                              *)

\* The tables and the transactions have their types.
TypeOK ==
  /\ appointment_status \in [Appointments -> AppointmentStatus]
  /\ order_status \in [Orders -> {"none", "open", "closed", "cancelled"}]
  /\ order_appointment \in [Orders -> Appointments \union {NoAppointment}]
  /\ price \in [Orders -> Amount] /\ commission \in [Orders -> Amount]
  /\ settled \in [Orders -> Nat] /\ payments \in [Orders -> Seq(Amount)]
  /\ register_status \in {"open", "closed"} /\ expected_amount \in Amount
  /\ tx \in [Workers -> Request]
  /\ holder \in [Rows -> Workers \union {NoWorker}]

\* Whatever interleaves, the orders look as if each request had run alone:
\* no second payment of a retried closing, no cancelling of what was closed
\* meanwhile, no second order of an appointment (SELECT ... FOR UPDATE before
\* the status is read; the partial unique index).
Book == INSTANCE OrderBook WITH Amounts <- Prices
ImplementsBook == Book!Spec

\* Two settlements that run together do not both pay one line
\* (lock_pending_commission_items).
LineSettledOnce == \A o \in Orders : settled[o] <= 1

\* A request ends: what it waits for is given back by commits, by refusals
\* and, where workers wait in a circle, by the database.
EveryRequestEnds == \A w \in Workers : tx[w] # Idle ~> tx[w] = Idle

\* A settled line is one of a closed order (the second lock of reopen_order).
SettledStaysClosed == \A o \in Orders : settled[o] > 0 => order_status[o] = "closed"
=============================================================================
