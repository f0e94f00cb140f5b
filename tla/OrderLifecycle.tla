--------------------------- MODULE OrderLifecycle ---------------------------
(***************************************************************************)
(* The comanda (Order) of one branch, from the appointment it is opened    *)
(* for to the stock, the cash register and the commission settlement that  *)
(* its closing feeds.                                                      *)
(*                                                                         *)
(* Source: services/orders.py, with what its handlers call in              *)
(* services/appointments.py, services/appointment_state_machine.py,        *)
(* services/stock.py, services/cash_register.py, services/order_totals.py  *)
(* and services/commissions.py.                                            *)
(*                                                                         *)
(* One action is one request.  A request is one database transaction,      *)
(* committed at the end and rolled back by any exception                   *)
(* (api/deps.py::get_db), and every handler that writes an order holds     *)
(* that order's row lock (order_repo.get_for_update), so the guards of an  *)
(* action are all the checks of its handler and its effect is all its      *)
(* writes.  The requests that do not take that lock are interleaved step   *)
(* by step in another module; here they too are one step.                  *)
(*                                                                         *)
(* An operator marked "mutant" is the definition below it with a plausible *)
(* mistake: no action uses it, and a property must fail when it is used.   *)
(***************************************************************************)
EXTENDS Integers, Sequences, FiniteSets, Functions

CONSTANTS
  Appointments,      \* reservations, all of one branch
  Items,             \* AppointmentItem ids, one service each
  ItemAppointment,   \* the appointment an item belongs to
  AppointmentClient, \* the client of an appointment
  Professionals,
  Products,
  Slots,             \* OrderProductItem ids within an order
  Registers,         \* CashRegister ids
  IdempotencyKeys,   \* OrderConsumptionCorrection.idempotency_key
  NoAppointment, NoKey,
  QuantityScale,     \* quantity units in one unit that unit_price prices
  CASH,              \* PaymentMethod.CASH, the only one in the drawer
  Config             \* CashRegisterConfig, the toggles the handlers read

CONSTANTS            \* what a request may carry
  Prices, Benefits, Starts, Quantities, UnitPrices, Deltas, PaymentInputs,
  CashAmounts, CommissionRules, StatusInputs, ItemTypes

CONSTANTS            \* bounds
  MaxOrders, MaxDay, MaxMovements, MaxReversed, MaxSettlements,
  MaxAmount,         \* width of a Numeric(10, 2) column
  MaxStock           \* width of a Numeric(12, 3) column

Orders == 1 .. MaxOrders

CANCELLABLE_FROM == {"scheduled", "confirmed", "waiting", "in_progress"}
CANCELLABLE_FROM_VIA_LINKED_ORDER == CANCELLABLE_FROM \union {"finished"}
OPERATIONAL_STATUSES == CANCELLABLE_FROM \union {"finished", "no_show"}
AppointmentStatus == OPERATIONAL_STATUSES \union {"paid", "cancelled"}

Payment == [method : STRING, cash_register_id : Registers, amount : Nat \ {0}]

ConfigField ==
  {"require_open_register_for_order", "require_open_register_for_payment",
   "block_if_previous_day_open", "single_open_register_per_branch",
   "require_close_previous_before_opening_today"}

CommissionRule ==
  [commission_type : {"none", "percentage", "fixed"}, commission_value : Nat]

ASSUME StructureAssumption ==
  /\ ItemAppointment \in [Items -> Appointments]
  /\ DOMAIN AppointmentClient = Appointments
  /\ NoAppointment \notin Appointments
  /\ NoKey \notin IdempotencyKeys
  /\ Slots \subseteq Nat /\ IsFiniteSet(Slots)
  /\ CASH \in STRING
  /\ QuantityScale \in Nat \ {0}
  /\ Config \in [ConfigField -> BOOLEAN]

ASSUME InputAssumption ==
  /\ Prices \subseteq Nat /\ Benefits \subseteq Nat /\ Starts \subseteq Nat
  /\ Quantities \subseteq Nat \ {0}
  /\ UnitPrices \subseteq Nat
  /\ Deltas \subseteq Int \ {0}
  /\ CashAmounts \subseteq Int \ {0}
  /\ PaymentInputs \subseteq Seq(Payment)
  /\ CommissionRules \subseteq CommissionRule
  /\ StatusInputs \subseteq OPERATIONAL_STATUSES
  /\ ItemTypes \subseteq {"sale", "consumption"}

ASSUME BoundAssumption ==
  /\ MaxOrders \in Nat /\ MaxDay \in Nat /\ MaxMovements \in Nat
  /\ MaxReversed \in Nat /\ MaxSettlements \in Nat
  /\ MaxAmount \in Nat /\ MaxStock \in Nat

\* A wider amount is refused by the database and rolls the request back.
Money == -MaxAmount .. MaxAmount
Quantity == 0 .. MaxStock

VARIABLES
  appointment_status, \* Appointment.status
  agenda,             \* the AppointmentItems that exist
  order_status,       \* Order.status, "none" before the INSERT
  order_appointment,  \* Order.appointment_id
  order_items,        \* OrderItem rows of an order, by appointment_item_id
  product_items,      \* OrderProductItem rows of an order
  payments,           \* Payment rows with reversed_at NULL, oldest first
  reversed,           \* Payment rows with reversed_at set, oldest first
  quantity_on_hand,   \* StockLevel of the branch
  movements,          \* StockMovement, the ledger, oldest first
  register_status,    \* CashRegister.status, "none" before the INSERT
  opened_day,         \* operational day of CashRegister.created_at
  cash_net,           \* initial amount and CashMovements in cash
  expected_amount,    \* CashRegister.expected_amount, set by the closing
  settlements,        \* CommissionSettlement rows; the id is the position
  today               \* operational day

agendaVars == <<appointment_status, agenda>>
orderVars == <<order_status, order_appointment, order_items, product_items>>
paymentVars == <<payments, reversed>>
stockVars == <<quantity_on_hand, movements>>
registerVars == <<register_status, opened_day, cash_net, expected_amount>>
vars == <<agendaVars, orderVars, paymentVars, stockVars, registerVars,
          settlements, today>>
-----------------------------------------------------------------------------
(* Rows.                                                                    *)

AppointmentItem == [professional_id : Professionals, price : Nat, start_at : Nat]

\* benefit_amount 0 is "no benefit"; commission_settlement_id 0 is NULL.
OrderItem ==
  [professional_id : Professionals, price : Nat, benefit_amount : Nat,
   commission_status : {"none", "not_configured", "calculated"},
   commission_amount : Nat, commission_settlement_id : Nat]

\* stock_movement_id is a position in movements; 0 is NULL.
OrderProductItem ==
  [product_id : Products, quantity : Nat \ {0}, unit_price : Nat,
   item_type : {"sale", "consumption"}, stock_movement_id : Nat]

\* order_id 0 is NULL: a movement entered by hand.
StockMovement ==
  [product_id : Products, direction : {"in", "out"},
   reason : {"sale", "internal_use", "adjustment", "manual"},
   quantity : Nat \ {0}, order_id : Nat,
   idempotency_key : IdempotencyKeys \union {NoKey}]

CommissionSettlement ==
  [professional_id : Professionals, production_total : Money,
   commission_total : Money]

\* Rows keyed by some of the ids in S.
AreRows(rows, S, Row) == DOMAIN rows \subseteq S /\ rows \in [DOMAIN rows -> Row]
NoRows == [x \in {} |-> 0]

Signed(m) == IF m.direction = "in" THEN m.quantity ELSE -m.quantity

\* The snapshot create_order and add_appointment_item take of an item.
FreshOrderItem(item) ==
  [professional_id |-> item.professional_id, price |-> item.price,
   benefit_amount |-> 0, commission_status |-> "none",
   commission_amount |-> 0, commission_settlement_id |-> 0]
-----------------------------------------------------------------------------
(* What the handlers read.                                                  *)

ItemsOf(a) == {i \in DOMAIN agenda : ItemAppointment[i] = a}

\* order_repo.get_by_appointment: the orders that are not cancelled.
ActiveOrders(a) ==
  {o \in Orders : order_appointment[o] = a /\ order_status[o] \in {"open", "closed"}}

item_charged_amount(line) == line.price - line.benefit_amount

\* In payment units times QuantityScale: a price has two decimals and a
\* quantity three, so their product is finer than any payment amount.
order_charged_total(o) ==
  QuantityScale * SumFunction([i \in DOMAIN order_items[o] |->
                                 item_charged_amount(order_items[o][i])])
  + SumFunction([s \in DOMAIN product_items[o] |->
       product_items[o][s].quantity * product_items[o][s].unit_price])

PaidTotal(pays) ==
  QuantityScale * SumFunction([k \in DOMAIN pays |-> pays[k].amount])

\* close_order and close_orders_consolidated refuse less and more than due.
PaysAtLeast(pays, due) == PaidTotal(pays) >= due                    \* mutant
PaysExactly(pays, due) == PaidTotal(pays) = due

\* A request names registers; each must be open when it is handled.
AtAnyRegister(pays) == pays = pays                                  \* mutant
AtOpenRegisters(pays) ==
  \A k \in DOMAIN pays : register_status[pays[k].cash_register_id] = "open"

\* Product lines of the orders in S, split by whether stock was taken.
ProductLines(S) == {x \in S \X Slots : x[2] \in DOMAIN product_items[x[1]]}
ProductLine(x) == product_items[x[1]][x[2]]
Unmoved(S) == {x \in ProductLines(S) : ProductLine(x).stock_movement_id = 0}
Moved(S) == ProductLines(S) \ Unmoved(S)

QuantityOf(lines, p) ==
  SumFunction([x \in {y \in lines : ProductLine(y).product_id = p} |->
                 ProductLine(x).quantity])

\* The orders in which a loop may visit the rows of T: product_items is a
\* relationship without order_by.
Enumerations(T) == {f \in [1 .. Cardinality(T) -> T] : T \subseteq Range(f)}
Position(f, x) == CHOOSE k \in DOMAIN f : f[k] = x

StaleOpenRegister ==
  \E r \in Registers : register_status[r] = "open" /\ opened_day[r] < today

AssertOperationalPrerequisites(require_open) ==
  /\ Config["block_if_previous_day_open"] => ~StaleOpenRegister
  /\ require_open => \E r \in Registers : register_status[r] = "open"

\* build_summary(...).expected_cash_balance: every active payment in cash
\* that points at the register, whatever its order's status.
CashPayments(r) ==
  {x \in UNION {{o} \X DOMAIN payments[o] : o \in Orders} :
     /\ payments[x[1]][x[2]].method = CASH
     /\ payments[x[1]][x[2]].cash_register_id = r}

ExpectedCashBalance(r) ==
  cash_net[r] + SumFunction([x \in CashPayments(r) |-> payments[x[1]][x[2]].amount])
-----------------------------------------------------------------------------
(* services/commissions.py::resolve_commission.                             *)

\* Decimal.quantize under the default context: half to even.
RoundHalfEven(n, d) ==
  LET q == n \div d
      r == n % d
  IN  IF 2 * r < d \/ (2 * r = d /\ q % 2 = 0) THEN q ELSE q + 1

CommissionAmount(rule, price) ==
  CASE rule.commission_type = "percentage" ->
         RoundHalfEven(price * rule.commission_value, 100)
    [] rule.commission_type = "fixed" /\ price > 0 -> rule.commission_value
    [] OTHER -> 0

resolve_commission(line, rule) ==
  [line EXCEPT
     !.commission_status = IF rule.commission_type = "none"
                           THEN "not_configured" ELSE "calculated",
     !.commission_amount = CommissionAmount(rule, line.price)]
-----------------------------------------------------------------------------
(* Orders.                                                                  *)

\* create_order.  The order number is MAX + 1; an order may be opened for an
\* appointment in any status.
CreateOrder(a) ==
  \E o \in Orders :
    /\ \A x \in Orders : order_status[x] = "none" <=> x >= o
    /\ ActiveOrders(a) = {}
    /\ ItemsOf(a) # {}
    /\ AssertOperationalPrerequisites(Config["require_open_register_for_order"])
    /\ order_status' = [order_status EXCEPT ![o] = "open"]
    /\ order_appointment' = [order_appointment EXCEPT ![o] = a]
    /\ order_items' =
         [order_items EXCEPT ![o] = [i \in ItemsOf(a) |-> FreshOrderItem(agenda[i])]]
    /\ UNCHANGED <<agendaVars, product_items, paymentVars, stockVars,
                   registerVars, settlements, today>>

\* Every edit of an order's lines starts with this check.
Editable(o) == order_status[o] = "open"

\* update_order_item.  The CHECK on order_items refuses a price below the
\* benefit.
UpdateOrderItem(o, i, price) ==
  /\ Editable(o)
  /\ i \in DOMAIN order_items[o]
  /\ price >= order_items[o][i].benefit_amount
  /\ order_items' = [order_items EXCEPT ![o][i].price = price]
  /\ UNCHANGED <<agendaVars, order_status, order_appointment, product_items,
                 paymentVars, stockVars, registerVars, settlements, today>>

UpdateOrderItemBenefit(o, i, amount) ==
  /\ Editable(o)
  /\ i \in DOMAIN order_items[o]
  /\ amount <= order_items[o][i].price
  /\ order_items' = [order_items EXCEPT ![o][i].benefit_amount = amount]
  /\ UNCHANGED <<agendaVars, order_status, order_appointment, product_items,
                 paymentVars, stockVars, registerVars, settlements, today>>

AddProductItem(o, s, line) ==
  /\ Editable(o)
  /\ s \notin DOMAIN product_items[o]
  /\ product_items' =
       [product_items EXCEPT ![o] =
          [t \in DOMAIN @ \union {s} |-> IF t = s THEN line ELSE @[t]]]
  /\ UNCHANGED <<agendaVars, order_status, order_appointment, order_items,
                 paymentVars, stockVars, registerVars, settlements, today>>

\* remove_product_item; its assert is StockFollowsClosing below.
RemoveProductItem(o, s) ==
  /\ Editable(o)
  /\ s \in DOMAIN product_items[o]
  /\ product_items' =
       [product_items EXCEPT ![o] = Restrict(@, DOMAIN @ \ {s})]
  /\ UNCHANGED <<agendaVars, order_status, order_appointment, order_items,
                 paymentVars, stockVars, registerVars, settlements, today>>

UpdateProductItem(o, s, quantity, unit_price) ==
  /\ Editable(o)
  /\ s \in DOMAIN product_items[o]
  /\ product_items' =
       [product_items EXCEPT ![o][s] =
          [@ EXCEPT !.quantity = quantity, !.unit_price = unit_price]]
  /\ UNCHANGED <<agendaVars, order_status, order_appointment, order_items,
                 paymentVars, stockVars, registerVars, settlements, today>>

\* One ledger row per product line, in the order the loop visits them.
OrderMovement(x, direction, reason) ==
  [product_id |-> ProductLine(x).product_id, direction |-> direction,
   reason |-> reason, quantity |-> ProductLine(x).quantity, order_id |-> x[1],
   idempotency_key |-> NoKey]

SaleReason(line) == IF line.item_type = "sale" THEN "sale" ELSE "internal_use"

\* _apply_delta: the balance after a movement, refused below zero.
LevelAfterSwapped(p, direction, quantity) ==                        \* mutant
  quantity_on_hand[p] + (IF direction = "out" THEN quantity ELSE -quantity)
LevelAfter(p, direction, quantity) ==
  quantity_on_hand[p] + (IF direction = "in" THEN quantity ELSE -quantity)
AnyQuantity(p, quantity) == p \in Products                         \* mutant
Available(p, quantity) == quantity \in 0 .. quantity_on_hand[p]

\* The lines visited are linked to the rows written for them, from == Len.
LinkMovements(visit, from) ==
  [o \in Orders |-> [s \in DOMAIN product_items[o] |->
     IF <<o, s>> \in Range(visit)
     THEN [product_items[o][s] EXCEPT !.stock_movement_id =
             from + Position(visit, <<o, s>>)]
     ELSE product_items[o][s]]]

\* What closing one order and closing several have in common.  split[o] are
\* the payments of order o.  mark_paid refuses paid and cancelled.
Close(S, split, rule) ==
  /\ \A o \in S :
       /\ order_status[o] = "open"
       /\ appointment_status[order_appointment[o]] \notin {"paid", "cancelled"}
       /\ AtOpenRegisters(split[o])
  /\ AssertOperationalPrerequisites(Config["require_open_register_for_payment"])
  /\ \A p \in Products : Available(p, QuantityOf(Unmoved(S), p))
  /\ \E visit \in Enumerations(Unmoved(S)) :
       /\ Len(movements) + Len(visit) <= MaxMovements
       /\ movements' = movements \o
            [k \in 1 .. Len(visit) |->
               OrderMovement(visit[k], "out", SaleReason(ProductLine(visit[k])))]
       /\ product_items' = LinkMovements(visit, Len(movements))
  /\ quantity_on_hand' =
       [p \in Products |-> quantity_on_hand[p] - QuantityOf(Unmoved(S), p)]
  /\ payments' = [o \in Orders |-> IF o \in S THEN payments[o] \o split[o]
                                              ELSE payments[o]]
  /\ order_items' = [o \in Orders |->
       IF o \in S
       THEN [i \in DOMAIN order_items[o] |->
               resolve_commission(order_items[o][i],
                                  rule[order_items[o][i].professional_id])]
       ELSE order_items[o]]
  /\ appointment_status' = [a \in Appointments |->
       IF \E o \in S : order_appointment[o] = a THEN "paid" ELSE appointment_status[a]]
  /\ order_status' = [o \in Orders |-> IF o \in S THEN "closed" ELSE order_status[o]]
  /\ UNCHANGED <<agenda, order_appointment, reversed, registerVars,
                 settlements, today>>

CloseOrder(o, pays, rule) ==
  /\ PaysExactly(pays, order_charged_total(o))
  /\ Close({o}, [x \in {o} |-> pays], rule)

\* The payments of close_orders_consolidated are a queue that the orders
\* consume by order number.  Laid end to end, unit by unit, what the orders
\* owe and what was paid cover the same stretch of Units, and an order takes
\* from a payment the units they share.
Units == 1 .. QuantityScale * MaxAmount
GrandTotal(S) == SumFunction([o \in S |-> order_charged_total(o)])
DueUnits(S, o) ==
  LET before == GrandTotal({x \in S : x < o})
  IN  {n \in Units : before < n /\ n <= before + order_charged_total(o)}
PaidUnits(pays, k) ==
  {n \in Units : PaidTotal(SubSeq(pays, 1, k - 1)) < n
                 /\ n <= PaidTotal(SubSeq(pays, 1, k))}
Portion(S, pays, o, k) == Cardinality(DueUnits(S, o) \intersect PaidUnits(pays, k))

\* Numeric(10, 2) rounds what the split stores to cents, half up.
ToCents(n) == (2 * n + QuantityScale) \div (2 * QuantityScale)

\* The payments an order takes from follow one another.
Sources(S, pays, o) == {k \in DOMAIN pays : Portion(S, pays, o, k) > 0}
Source(S, pays, o, j) ==
  LET first == CHOOSE k \in Sources(S, pays, o) : \A l \in Sources(S, pays, o) : k <= l
  IN  first + j - 1
Portions(S, pays, o) ==
  [j \in 1 .. Cardinality(Sources(S, pays, o)) |->
     Portion(S, pays, o, Source(S, pays, o, j))]
UndividedSplit(S, pays, o) ==                                        \* mutant
  [j \in 1 .. Cardinality(Sources(S, pays, o)) |-> pays[Source(S, pays, o, j)]]
SplitOf(S, pays, o) ==
  [j \in 1 .. Cardinality(Sources(S, pays, o)) |->
     [pays[Source(S, pays, o, j)] EXCEPT !.amount = ToCents(Portions(S, pays, o)[j])]]

\* The loop leaves an order exactly when nothing remains to be charged, and
\* the INSERTs satisfy the constraints of payments (amount > 0, a register
\* that exists).
CloseOrdersConsolidated(S, pays, rule) ==
  /\ Cardinality(S) >= 2
  /\ \A o \in S : order_status[o] = "open"
  /\ \A o, x \in S :
       AppointmentClient[order_appointment[o]] = AppointmentClient[order_appointment[x]]
  /\ PaysExactly(pays, GrandTotal(S))
  /\ GrandTotal(S) \in {0} \union Units
  /\ \A o \in S : /\ order_charged_total(o) \in {0} \union Units
                   /\ SumFunction(Portions(S, pays, o)) = order_charged_total(o)
                   /\ SplitOf(S, pays, o) \in Seq(Payment)
  /\ Close(S, [o \in S |-> SplitOf(S, pays, o)], rule)

\* get_by_idempotency_key.
NeverApplied(key) == key = NoKey                                    \* mutant
Applied(key) == \E k \in DOMAIN movements : movements[k].idempotency_key = key

\* correct_consumption.  A key already in the ledger returns the order as it
\* is, so a retry is a stutter.
CorrectConsumption(o, s, delta, key) ==
  LET line == product_items[o][s]
      quantity == IF delta > 0 THEN delta ELSE -delta
      direction == IF delta > 0 THEN "out" ELSE "in"
      level == LevelAfter(line.product_id, direction, quantity)
  IN
  /\ order_status[o] = "closed"
  /\ s \in DOMAIN product_items[o]
  /\ line.item_type = "consumption"
  /\ line.stock_movement_id # 0
  /\ ~Applied(key)
  /\ level \in Quantity
  /\ Len(movements) < MaxMovements
  /\ quantity_on_hand' = [quantity_on_hand EXCEPT ![line.product_id] = level]
  /\ movements' = Append(movements,
       [product_id |-> line.product_id, direction |-> direction,
        reason |-> "adjustment", quantity |-> quantity, order_id |-> o,
        idempotency_key |-> key])
  /\ UNCHANGED <<agendaVars, orderVars, paymentVars, registerVars,
                 settlements, today>>

\* "Trava 2": no line of the order was settled with its professional.
AnySettled(o) == o \in Orders                                       \* mutant
Unsettled(o) == \A i \in DOMAIN order_items[o] : order_items[o][i].commission_settlement_id = 0

\* A payment is reversed, never deleted; a product line may be edited again.
DropPayments(o) == reversed[o]                                      \* mutant
ReversePayments(o) == reversed[o] \o payments[o]
StillLinked(line) == line                                           \* mutant
Unlinked(line) == [line EXCEPT !.stock_movement_id = 0]

\* demote_appointment_from_paid_for_order_reopen.
DemotedFromPaid(status) == IF status = "paid" THEN "finished" ELSE status

\* reopen_order: both locks, then every active payment is reversed, every
\* line that took stock gives it back, and the appointment leaves paid.
ReopenOrder(o) ==
  LET a == order_appointment[o] IN
  /\ order_status[o] = "closed"
  /\ AtOpenRegisters(payments[o])
  /\ Unsettled(o)
  /\ Len(reversed[o]) + Len(payments[o]) <= MaxReversed
  /\ reversed' = [reversed EXCEPT ![o] = ReversePayments(o)]
  /\ payments' = [payments EXCEPT ![o] = <<>>]
  /\ \A p \in Products : quantity_on_hand[p] + QuantityOf(Moved({o}), p) \in Quantity
  /\ \E visit \in Enumerations(Moved({o})) :
       /\ Len(movements) + Len(visit) <= MaxMovements
       /\ movements' = movements \o
            [k \in 1 .. Len(visit) |-> OrderMovement(visit[k], "in", "adjustment")]
  /\ quantity_on_hand' =
       [p \in Products |-> quantity_on_hand[p] + QuantityOf(Moved({o}), p)]
  /\ product_items' = [product_items EXCEPT ![o] =
       [s \in DOMAIN @ |-> Unlinked(@[s])]]
  /\ appointment_status' =
       [appointment_status EXCEPT ![a] = DemotedFromPaid(@)]
  /\ order_status' = [order_status EXCEPT ![o] = "open"]
  /\ UNCHANGED <<agenda, order_appointment, order_items, registerVars,
                 settlements, today>>

CancelOrder(o) ==
  LET a == order_appointment[o] IN
  /\ order_status[o] = "open"
  /\ order_status' = [order_status EXCEPT ![o] = "cancelled"]
  /\ appointment_status' = [appointment_status EXCEPT ![a] =
       IF @ \in CANCELLABLE_FROM_VIA_LINKED_ORDER THEN "cancelled" ELSE @]
  /\ UNCHANGED <<agenda, order_appointment, order_items, product_items,
                 paymentVars, stockVars, registerVars, settlements, today>>
-----------------------------------------------------------------------------
(* Appointments.                                                            *)

\* The related appointments that a change of status reaches too.
ReachesAll(related, target) == {b \in related : appointment_status[b] # target} \* mutant
Reaches(related, target) ==
  {b \in related : /\ appointment_status[b] \in OPERATIONAL_STATUSES
                   /\ appointment_status[b] # target}

\* update_status: the appointment and, with scope all_related, those of the
\* same client and day that are operational and not already there.  no_show
\* cancels the open order of each.
UpdateStatus(a, related, target) ==
  LET touched == {a} \union Reaches(related, target)
      dropped == {o \in Orders : /\ target = "no_show"
                                 /\ order_status[o] = "open"
                                 /\ order_appointment[o] \in touched}
  IN
  /\ appointment_status[a] \in OPERATIONAL_STATUSES
  /\ appointment_status' =
       [b \in Appointments |-> IF b \in touched THEN target ELSE appointment_status[b]]
  /\ order_status' =
       [o \in Orders |-> IF o \in dropped THEN "cancelled" ELSE order_status[o]]
  /\ UNCHANGED <<agenda, order_appointment, order_items, product_items,
                 paymentVars, stockVars, registerVars, settlements, today>>

\* cancel_appointment leaves the order alone.
CancelAppointment(a) ==
  /\ appointment_status[a] \in CANCELLABLE_FROM
  /\ appointment_status' = [appointment_status EXCEPT ![a] = "cancelled"]
  /\ UNCHANGED <<agenda, orderVars, paymentVars, stockVars, registerVars,
                 settlements, today>>

\* The order an edit of the agenda reaches.
SyncedAnyStatus(a) == ActiveOrders(a)                               \* mutant
Synced(a) == {o \in ActiveOrders(a) : order_status[o] = "open"}

\* update_appointment_item, whose availability checks are abstracted to "may
\* be refused".  The line of an open order gets the target price even when
\* the request carries no price, and the CHECK bounds it below by the
\* benefit.
UpdateAppointmentItem(i, item) ==
  LET a == ItemAppointment[i]
      synced == {o \in Synced(a) : i \in DOMAIN order_items[o]}
  IN
  /\ i \in DOMAIN agenda
  /\ (\E o \in ActiveOrders(a) : order_status[o] = "closed")
       => item.price = agenda[i].price
  /\ \A o \in synced : item.price >= order_items[o][i].benefit_amount
  /\ agenda' = [agenda EXCEPT ![i] = item]
  /\ order_items' = [o \in Orders |->
       IF o \in synced
       THEN [order_items[o] EXCEPT
               ![i].price = item.price,
               ![i].professional_id =
                 IF item.professional_id # agenda[i].professional_id
                 THEN item.professional_id ELSE @]
       ELSE order_items[o]]
  /\ UNCHANGED <<appointment_status, order_status, order_appointment,
                 product_items, paymentVars, stockVars, registerVars,
                 settlements, today>>

AddAppointmentItem(i, item) ==
  LET a == ItemAppointment[i] IN
  /\ i \notin DOMAIN agenda
  /\ agenda' = [j \in DOMAIN agenda \union {i} |-> IF j = i THEN item ELSE agenda[j]]
  /\ order_items' = [o \in Orders |->
       IF o \in Synced(a)
       THEN [j \in DOMAIN order_items[o] \union {i} |->
               IF j = i THEN FreshOrderItem(item) ELSE order_items[o][j]]
       ELSE order_items[o]]
  /\ UNCHANGED <<appointment_status, order_status, order_appointment,
                 product_items, paymentVars, stockVars, registerVars,
                 settlements, today>>
-----------------------------------------------------------------------------
(* Cash registers.                                                          *)

OpenRegister(r, initial_amount) ==
  /\ register_status[r] = "none"
  /\ Config["require_close_previous_before_opening_today"] => ~StaleOpenRegister
  /\ Config["single_open_register_per_branch"]
       => \A x \in Registers : register_status[x] # "open"
  /\ register_status' = [register_status EXCEPT ![r] = "open"]
  /\ opened_day' = [opened_day EXCEPT ![r] = today]
  /\ cash_net' = [cash_net EXCEPT ![r] = initial_amount]
  /\ UNCHANGED <<agendaVars, orderVars, paymentVars, stockVars,
                 expected_amount, settlements, today>>

\* register_movement in cash: a supply adds, a withdrawal subtracts.
RegisterMovement(r, amount) ==
  /\ register_status[r] = "open"
  /\ cash_net[r] + amount \in Money
  /\ cash_net' = [cash_net EXCEPT ![r] = @ + amount]
  /\ UNCHANGED <<agendaVars, orderVars, paymentVars, stockVars,
                 register_status, opened_day, expected_amount, settlements,
                 today>>

CloseRegister(r) ==
  /\ register_status[r] = "open"
  /\ ExpectedCashBalance(r) \in Money
  /\ register_status' = [register_status EXCEPT ![r] = "closed"]
  /\ expected_amount' = [expected_amount EXCEPT ![r] = ExpectedCashBalance(r)]
  /\ UNCHANGED <<agendaVars, orderVars, paymentVars, stockVars, opened_day,
                 cash_net, settlements, today>>
-----------------------------------------------------------------------------
(* Commission settlements, the stock counter and the calendar.              *)

OrderLines == {x \in Orders \X Items : x[2] \in DOMAIN order_items[x[1]]}
OrderLine(x) == order_items[x[1]][x[2]]

\* lock_pending_commission_items: period are the orders whose closed_at is
\* in the requested window.
PendingLines(pr, period) ==
  {x \in OrderLines :
     /\ x[1] \in period
     /\ order_status[x[1]] = "closed"
     /\ OrderLine(x).professional_id = pr
     /\ OrderLine(x).commission_status = "calculated"
     /\ OrderLine(x).commission_settlement_id = 0}

CreateSettlement(pr, period) ==
  LET lines == PendingLines(pr, period)
      production_total == SumFunction([x \in lines |-> OrderLine(x).price])
      commission_total == SumFunction([x \in lines |-> OrderLine(x).commission_amount])
  IN
  /\ lines # {}
  /\ Len(settlements) < MaxSettlements
  /\ production_total \in Money
  /\ commission_total \in Money
  /\ settlements' = Append(settlements,
       [professional_id |-> pr, production_total |-> production_total,
        commission_total |-> commission_total])
  /\ order_items' = [o \in Orders |-> [i \in DOMAIN order_items[o] |->
       IF <<o, i>> \in lines
       THEN [order_items[o][i] EXCEPT !.commission_settlement_id = Len(settlements) + 1]
       ELSE order_items[o][i]]]
  /\ UNCHANGED <<agendaVars, order_status, order_appointment, product_items,
                 paymentVars, stockVars, registerVars, today>>

\* record_movement, entered by hand.
RecordMovement(p, direction, quantity) ==
  LET level == LevelAfter(p, direction, quantity) IN
  /\ level \in Quantity
  /\ Len(movements) < MaxMovements
  /\ quantity_on_hand' = [quantity_on_hand EXCEPT ![p] = level]
  /\ movements' = Append(movements,
       [product_id |-> p, direction |-> direction, reason |-> "manual",
        quantity |-> quantity, order_id |-> 0, idempotency_key |-> NoKey])
  /\ UNCHANGED <<agendaVars, orderVars, paymentVars, registerVars,
                 settlements, today>>

NextDay ==
  /\ today < MaxDay
  /\ today' = today + 1
  /\ UNCHANGED <<agendaVars, orderVars, paymentVars, stockVars, registerVars,
                 settlements>>
-----------------------------------------------------------------------------
InitialItem == [professional_id : Professionals, price : Prices, start_at : Starts]

\* Reservations exist; nothing has been sold and no register was ever opened.
Init ==
  /\ appointment_status = [a \in Appointments |-> "scheduled"]
  /\ agenda \in UNION {[S -> InitialItem] : S \in (SUBSET Items) \ {{}}}
  /\ order_status = [o \in Orders |-> "none"]
  /\ order_appointment = [o \in Orders |-> NoAppointment]
  /\ order_items = [o \in Orders |-> NoRows]
  /\ product_items = [o \in Orders |-> NoRows]
  /\ payments = [o \in Orders |-> <<>>]
  /\ reversed = [o \in Orders |-> <<>>]
  /\ quantity_on_hand = [p \in Products |-> 0]
  /\ movements = <<>>
  /\ register_status = [r \in Registers |-> "none"]
  /\ opened_day = [r \in Registers |-> 0]
  /\ cash_net = [r \in Registers |-> 0]
  /\ expected_amount = [r \in Registers |-> 0]
  /\ settlements = <<>>
  /\ today = 0

OrderStep ==
  \/ \E a \in Appointments : CreateOrder(a)
  \/ \E o \in Orders, i \in Items :
       \/ \E price \in Prices : UpdateOrderItem(o, i, price)
       \/ \E amount \in Benefits : UpdateOrderItemBenefit(o, i, amount)
  \/ \E o \in Orders, s \in Slots :
       \/ \E line \in [product_id : Products, quantity : Quantities,
                       unit_price : UnitPrices, item_type : ItemTypes,
                       stock_movement_id : {0}] : AddProductItem(o, s, line)
       \/ RemoveProductItem(o, s)
       \/ \E q \in Quantities, u \in UnitPrices : UpdateProductItem(o, s, q, u)
       \/ \E delta \in Deltas, key \in IdempotencyKeys :
            CorrectConsumption(o, s, delta, key)
  \/ \E rule \in [Professionals -> CommissionRules] :
       \/ \E o \in Orders, pays \in PaymentInputs : CloseOrder(o, pays, rule)
       \/ \E S \in SUBSET Orders, pays \in PaymentInputs :
            CloseOrdersConsolidated(S, pays, rule)
  \/ \E o \in Orders : ReopenOrder(o) \/ CancelOrder(o)

AgendaStep ==
  \/ \E a \in Appointments :
       \/ \E related \in SUBSET (Appointments \ {a}), target \in StatusInputs :
            UpdateStatus(a, related, target)
       \/ CancelAppointment(a)
  \/ \E i \in Items, item \in InitialItem :
       UpdateAppointmentItem(i, item) \/ AddAppointmentItem(i, item)

FinanceStep ==
  \/ \E r \in Registers :
       \/ \E amount \in {0} \union CashAmounts : amount >= 0 /\ OpenRegister(r, amount)
       \/ \E amount \in CashAmounts : RegisterMovement(r, amount)
       \/ CloseRegister(r)
  \/ \E pr \in Professionals, period \in SUBSET Orders : CreateSettlement(pr, period)
  \/ \E p \in Products, direction \in {"in", "out"}, q \in Quantities :
       RecordMovement(p, direction, q)
  \/ NextDay

Next == OrderStep \/ AgendaStep \/ FinanceStep

Spec == Init /\ [][Next]_vars
-----------------------------------------------------------------------------
(* Properties.                                                              *)

\* Every row has its columns' types (models/order.py, models/stock.py,
\* models/cash_register.py, models/commission.py).
TypeOK ==
  /\ appointment_status \in [Appointments -> AppointmentStatus]
  /\ AreRows(agenda, Items, AppointmentItem)
  /\ order_status \in [Orders -> {"none", "open", "closed", "cancelled"}]
  /\ order_appointment \in [Orders -> Appointments \union {NoAppointment}]
  /\ \A o \in Orders : order_status[o] # "none" => order_appointment[o] \in Appointments
  /\ order_items = [o \in Orders |-> order_items[o]]
  /\ \A o \in Orders : AreRows(order_items[o], Items, OrderItem)
  /\ product_items = [o \in Orders |-> product_items[o]]
  /\ \A o \in Orders : AreRows(product_items[o], Slots, OrderProductItem)
  /\ payments \in [Orders -> Seq(Payment)]
  /\ reversed \in [Orders -> Seq(Payment)]
  /\ quantity_on_hand \in [Products -> Quantity]
  /\ movements \in Seq(StockMovement)
  /\ register_status \in [Registers -> {"none", "open", "closed"}]
  /\ opened_day \in [Registers -> Nat]
  /\ cash_net \in [Registers -> Int]
  /\ expected_amount \in [Registers -> Money]
  /\ settlements \in Seq(CommissionSettlement)
  /\ today \in Nat

\* An appointment is paid exactly while one of its orders is closed, and it
\* never has two orders that are not cancelled: mark_paid, the demotion on
\* reopening, the two cancellations and the free status graph together keep
\* the agenda and the comanda telling the same story.
PaidMeansClosed ==
  /\ \A a \in Appointments :
       appointment_status[a] = "paid"
         <=> \E o \in ActiveOrders(a) : order_status[o] = "closed"
  /\ \A o, x \in Orders :
       /\ order_appointment[o] = order_appointment[x]
       /\ order_status[o] \in {"open", "closed"}
       /\ order_status[x] \in {"open", "closed"}
       => o = x

\* A closed order was paid exactly what it charges, however often it was
\* closed, reopened, repriced and closed again, and no other order holds a
\* payment that still counts.  It holds when amounts due are whole cents
\* (QuantityScale = 1); close_orders_consolidated says that its split keeps
\* the sums whatever the amounts.
MoneyConserved ==
  \A o \in Orders :
    IF order_status[o] = "closed"
    THEN PaidTotal(payments[o]) = order_charged_total(o)
    ELSE payments[o] = <<>>

\* A product line is linked to a ledger row exactly while its order is
\* closed, and that row is its own: same product and quantity, taken out, for
\* this order and for no other line (the assert of remove_product_item, and
\* "retry nao pode gerar duas saidas").
StockFollowsClosing ==
  /\ \A x \in ProductLines(Orders) :
       LET id == ProductLine(x).stock_movement_id IN
       /\ id # 0 <=> order_status[x[1]] = "closed"
       /\ id # 0 => /\ id \in DOMAIN movements
                    /\ movements[id] =
                         OrderMovement(x, "out", SaleReason(ProductLine(x)))
  /\ \A x, y \in Moved(Orders) :
       ProductLine(x).stock_movement_id = ProductLine(y).stock_movement_id => x = y

\* The balance of a product is the sum of its ledger rows.
StockIsItsLedger ==
  \A p \in Products :
    quantity_on_hand[p] =
      SumFunction([k \in {j \in DOMAIN movements : movements[j].product_id = p} |->
                     Signed(movements[k])])

\* One correction per idempotency key, whatever the retries.
OneCorrectionPerKey ==
  \A j, k \in DOMAIN movements :
    /\ movements[j].idempotency_key = movements[k].idempotency_key
    /\ movements[j].idempotency_key # NoKey
    => j = k

\* The expected amount frozen when a register was closed is still what its
\* payments and movements add up to: no later closing, reopening or cash
\* movement reaches a closed register.
FrozenRegister ==
  \A r \in Registers :
    register_status[r] = "closed" => expected_amount[r] = ExpectedCashBalance(r)

\* A settlement pays exactly the lines linked to it, and each of them is
\* still in a closed order, of that professional, with the price and the
\* commission it was settled at.
SettlementBacked ==
  /\ \A x \in OrderLines :
       LET id == OrderLine(x).commission_settlement_id IN
       id # 0 => /\ id \in DOMAIN settlements
                 /\ order_status[x[1]] = "closed"
                 /\ OrderLine(x).commission_status = "calculated"
                 /\ settlements[id].professional_id = OrderLine(x).professional_id
  /\ \A id \in DOMAIN settlements :
       LET lines == {x \in OrderLines : OrderLine(x).commission_settlement_id = id} IN
       /\ lines # {}
       /\ settlements[id].production_total =
            SumFunction([x \in lines |-> OrderLine(x).price])
       /\ settlements[id].commission_total =
            SumFunction([x \in lines |-> OrderLine(x).commission_amount])

\* No payment is ever deleted or edited: what was received, reversed or not,
\* stays in place and new payments come after it.
PaymentHistory(o) == reversed[o] \o payments[o]
HistoryKept ==
  \A o \in Orders : LET before == PaymentHistory(o) IN
    /\ Len(before) <= Len(PaymentHistory(o)')
    /\ \A k \in DOMAIN before : PaymentHistory(o)'[k] = before[k]
PaymentsAppendOnly == [][HistoryKept]_vars

\* While an order stays closed nothing moves what it charges, what it was
\* paid or what it took from stock, not even an edit of its appointment; a
\* cancelled order never changes again.
SettledApart(line) == [line EXCEPT !.commission_settlement_id = 0]
Frozen(o) ==
  /\ payments'[o] = payments[o]
  /\ product_items'[o] = product_items[o]
  /\ DOMAIN order_items'[o] = DOMAIN order_items[o]
  /\ \A i \in DOMAIN order_items[o] :
       SettledApart(order_items'[o][i]) = SettledApart(order_items[o][i])
ClosedKept ==
  \A o \in Orders :
    /\ order_status[o] = "cancelled" => order_status'[o] = "cancelled"
    /\ order_status[o] \in {"closed", "cancelled"} /\ order_status'[o] = order_status[o]
         => Frozen(o)
ClosedOrderIsFrozen == [][ClosedKept]_vars

=============================================================================
