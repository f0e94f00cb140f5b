------------------------ MODULE OrderLifecycle_proofs ------------------------
(***************************************************************************)
(* Theorems about OrderLifecycle, for every number of appointments,        *)
(* orders, products, registers and every bound: types, then safety, then   *)
(* the books.                                                              *)
(***************************************************************************)
EXTENDS OrderLifecycle, Sums, SequenceTheorems, TLAPS

(***************************************************************************)
(* Types.                                                                  *)
(***************************************************************************)
\* The type invariant, split by the handlers' tables.
AgendaType ==
  /\ appointment_status \in [Appointments -> AppointmentStatus]
  /\ AreRows(agenda, Items, AppointmentItem)

OrderType ==
  /\ order_status \in [Orders -> {"none", "open", "closed", "cancelled"}]
  /\ order_appointment \in [Orders -> Appointments \union {NoAppointment}]
  /\ \A o \in Orders : order_status[o] # "none" => order_appointment[o] \in Appointments

ServiceType ==
  /\ order_items = [o \in Orders |-> order_items[o]]
  /\ \A o \in Orders : AreRows(order_items[o], Items, OrderItem)

ProductType ==
  /\ product_items = [o \in Orders |-> product_items[o]]
  /\ \A o \in Orders : AreRows(product_items[o], Slots, OrderProductItem)

PaymentType ==
  /\ payments \in [Orders -> Seq(Payment)]
  /\ reversed \in [Orders -> Seq(Payment)]

StockType ==
  /\ quantity_on_hand \in [Products -> Quantity]
  /\ movements \in Seq(StockMovement)

RegisterType ==
  /\ register_status \in [Registers -> {"none", "open", "closed"}]
  /\ opened_day \in [Registers -> Nat]
  /\ cash_net \in [Registers -> Int]
  /\ expected_amount \in [Registers -> Money]
  /\ today \in Nat

LEMMA TypeParts ==
  TypeOK <=> /\ AgendaType /\ OrderType /\ ServiceType /\ ProductType
             /\ PaymentType /\ StockType /\ RegisterType
             /\ settlements \in Seq(CommissionSettlement)
  BY DEF TypeOK, AgendaType, OrderType, ServiceType, ProductType, PaymentType,
         StockType, RegisterType

\* A step keeps the types when each part keeps its type or is untouched.
LEMMA TypeFrame ==
  ASSUME TypeOK,
         AgendaType' \/ UNCHANGED agendaVars,
         OrderType' \/ UNCHANGED <<order_status, order_appointment>>,
         ServiceType' \/ UNCHANGED order_items,
         ProductType' \/ UNCHANGED product_items,
         PaymentType' \/ UNCHANGED paymentVars,
         StockType' \/ UNCHANGED stockVars,
         RegisterType' \/ UNCHANGED <<registerVars, today>>,
         (settlements \in Seq(CommissionSettlement))' \/ UNCHANGED settlements
  PROVE  TypeOK'
<1>1. AgendaType'
  BY TypeParts DEF AgendaType, agendaVars
<1>2. OrderType'
  BY TypeParts DEF OrderType
<1>3. ServiceType'
  BY TypeParts DEF ServiceType
<1>4. ProductType'
  BY TypeParts DEF ProductType
<1>5. PaymentType'
  BY TypeParts DEF PaymentType, paymentVars
<1>6. StockType'
  BY TypeParts DEF StockType, stockVars
<1>7. RegisterType'
  BY TypeParts DEF RegisterType, registerVars
<1>8. (settlements \in Seq(CommissionSettlement))'
  BY TypeParts
<1> QED
  BY <1>1, <1>2, <1>3, <1>4, <1>5, <1>6, <1>7, <1>8
     DEF TypeOK, AgendaType, OrderType, ServiceType, ProductType, PaymentType,
         StockType, RegisterType

\* Every half-to-even rounding of a natural is a natural.
LEMMA RoundHalfEvenType ==
  ASSUME NEW n \in Nat
  PROVE  RoundHalfEven(n, 100) \in Nat
  BY DEF RoundHalfEven

LEMMA CommissionAmountType ==
  ASSUME NEW rule \in CommissionRule, NEW price \in Nat
  PROVE  CommissionAmount(rule, price) \in Nat
<1>1. price * rule.commission_value \in Nat
  BY DEF CommissionRule
<1>2. RoundHalfEven(price * rule.commission_value, 100) \in Nat
  BY <1>1, RoundHalfEvenType
<1> QED
  BY <1>2 DEF CommissionAmount, CommissionRule

LEMMA ResolvedType ==
  ASSUME NEW line \in OrderItem, NEW rule \in CommissionRule
  PROVE  resolve_commission(line, rule) \in OrderItem
<1>1. CommissionAmount(rule, line.price) \in Nat
  BY CommissionAmountType DEF OrderItem
<1> QED
  BY <1>1 DEF resolve_commission, OrderItem

LEMMA FreshType ==
  ASSUME NEW item \in AppointmentItem
  PROVE  FreshOrderItem(item) \in OrderItem
  BY DEF FreshOrderItem, AppointmentItem, OrderItem

LEMMA InitTypeOK == Init => TypeOK
<1> SUFFICES ASSUME Init PROVE TypeOK
  OBVIOUS
<1>1. AgendaType
  BY InputAssumption DEF Init, AgendaType, AreRows, InitialItem, AppointmentItem,
     AppointmentStatus, OPERATIONAL_STATUSES, CANCELLABLE_FROM
<1>2. OrderType /\ PaymentType
  BY DEF Init, OrderType, PaymentType
<1>3. ServiceType /\ ProductType
  BY DEF Init, ServiceType, ProductType, AreRows, NoRows
<1>4. StockType /\ RegisterType /\ settlements \in Seq(CommissionSettlement)
  BY BoundAssumption DEF Init, StockType, RegisterType, Quantity, Money
<1> QED
  BY <1>1, <1>2, <1>3, <1>4, TypeParts

\* One row of a table may be replaced, and a table may get a new row.
LEMMA ReplaceRow ==
  ASSUME NEW rows, NEW S, NEW Row, AreRows(rows, S, Row),
         NEW k \in DOMAIN rows, NEW row \in Row
  PROVE  AreRows([rows EXCEPT ![k] = row], S, Row)
  BY DEF AreRows

LEMMA InsertRow ==
  ASSUME NEW rows, NEW S, NEW Row, AreRows(rows, S, Row),
         NEW k \in S, NEW row \in Row
  PROVE  AreRows([t \in DOMAIN rows \union {k} |-> IF t = k THEN row ELSE rows[t]], S, Row)
  BY DEF AreRows

\* A row read from a table has the table's type.
LEMMA ReadRow ==
  ASSUME NEW rows, NEW S, NEW Row, AreRows(rows, S, Row), NEW k \in DOMAIN rows
  PROVE  rows[k] \in Row /\ k \in S
  BY DEF AreRows

LEMMA CreateOrderType ==
  ASSUME TypeOK, NEW a \in Appointments, CreateOrder(a)
  PROVE  TypeOK'
<1> PICK o \in Orders : CreateOrder(a)!(o)
  BY DEF CreateOrder
<1>1. OrderType'
  BY DEF TypeOK, OrderType
<1>2. AreRows([i \in ItemsOf(a) |-> FreshOrderItem(agenda[i])], Items, OrderItem)
  <2> SUFFICES ASSUME NEW i \in ItemsOf(a)
               PROVE  i \in Items /\ FreshOrderItem(agenda[i]) \in OrderItem
    BY DEF AreRows
  <2>1. i \in DOMAIN agenda
    BY DEF ItemsOf
  <2> QED
    BY <2>1, ReadRow, FreshType DEF TypeOK
<1>3. ServiceType'
  BY <1>2 DEF TypeOK, ServiceType
<1> QED
  BY <1>1, <1>3, TypeFrame

LEMMA ItemEditType ==
  ASSUME TypeOK, NEW o \in Orders, NEW i \in Items,
         \/ \E price \in Prices : UpdateOrderItem(o, i, price)
         \/ \E amount \in Benefits : UpdateOrderItemBenefit(o, i, amount)
  PROVE  TypeOK'
<1>1. i \in DOMAIN order_items[o]
  BY DEF UpdateOrderItem, UpdateOrderItemBenefit
<1>2. order_items[o][i] \in OrderItem
  BY <1>1, ReadRow DEF TypeOK
<1>3. PICK row \in OrderItem : order_items' = [order_items EXCEPT ![o][i] = row]
  <2>1. CASE \E price \in Prices : UpdateOrderItem(o, i, price)
    <3> PICK price \in Prices : UpdateOrderItem(o, i, price)
      BY <2>1
    <3>1. [order_items[o][i] EXCEPT !.price = price] \in OrderItem
      BY <1>2, InputAssumption DEF OrderItem
    <3>2. order_items' = [order_items EXCEPT ![o][i] = [@ EXCEPT !.price = price]]
      BY DEF UpdateOrderItem
    <3> QED
      BY <3>1, <3>2
  <2>2. CASE \E amount \in Benefits : UpdateOrderItemBenefit(o, i, amount)
    <3> PICK amount \in Benefits : UpdateOrderItemBenefit(o, i, amount)
      BY <2>2
    <3>1. [order_items[o][i] EXCEPT !.benefit_amount = amount] \in OrderItem
      BY <1>2, InputAssumption DEF OrderItem
    <3>2. order_items' = [order_items EXCEPT ![o][i] = [@ EXCEPT !.benefit_amount = amount]]
      BY DEF UpdateOrderItemBenefit
    <3> QED
      BY <3>1, <3>2
  <2> QED
    BY <2>1, <2>2
<1>4. AreRows(order_items'[o], Items, OrderItem)
  BY <1>1, <1>3, ReplaceRow DEF TypeOK
<1>5. ServiceType'
  BY <1>3, <1>4 DEF TypeOK, ServiceType
<1> QED
  BY <1>5, TypeFrame DEF UpdateOrderItem, UpdateOrderItemBenefit

LEMMA ProductEditType ==
  ASSUME TypeOK, NEW o \in Orders, NEW s \in Slots,
         \/ \E line \in [product_id : Products, quantity : Quantities,
                         unit_price : UnitPrices, item_type : ItemTypes,
                         stock_movement_id : {0}] : AddProductItem(o, s, line)
         \/ RemoveProductItem(o, s)
         \/ \E q \in Quantities, u \in UnitPrices : UpdateProductItem(o, s, q, u)
  PROVE  TypeOK'
<1>1. AreRows(product_items[o], Slots, OrderProductItem)
  BY DEF TypeOK
<1>2. CASE \E line \in [product_id : Products, quantity : Quantities,
                        unit_price : UnitPrices, item_type : ItemTypes,
                        stock_movement_id : {0}] : AddProductItem(o, s, line)
  <2> PICK line \in [product_id : Products, quantity : Quantities,
                     unit_price : UnitPrices, item_type : ItemTypes,
                     stock_movement_id : {0}] : AddProductItem(o, s, line)
    BY <1>2
  <2>1. line \in OrderProductItem
    <3>1. line.quantity \in Nat \ {0} /\ line.unit_price \in Nat
      BY InputAssumption
    <3>2. line.item_type \in {"sale", "consumption"}
      BY InputAssumption
    <3> QED
      BY <3>1, <3>2 DEF OrderProductItem
  <2>2. product_items'[o] =
          [t \in DOMAIN product_items[o] \union {s} |->
             IF t = s THEN line ELSE product_items[o][t]]
    BY DEF AddProductItem, TypeOK
  <2>3. AreRows(product_items'[o], Slots, OrderProductItem)
    BY <1>1, <2>1, <2>2, InsertRow
  <2>4. ProductType'
    BY <2>3 DEF AddProductItem, TypeOK, ProductType
  <2> QED
    BY <2>4, TypeFrame DEF AddProductItem
<1>3. CASE RemoveProductItem(o, s)
  <2>1. product_items'[o] = Restrict(product_items[o], DOMAIN product_items[o] \ {s})
    BY <1>3 DEF RemoveProductItem, TypeOK
  <2>2. AreRows(product_items'[o], Slots, OrderProductItem)
    BY <1>1, <2>1 DEF AreRows, Restrict
  <2>3. ProductType'
    BY <1>3, <2>2 DEF RemoveProductItem, TypeOK, ProductType
  <2> QED
    BY <1>3, <2>3, TypeFrame DEF RemoveProductItem
<1>4. CASE \E q \in Quantities, u \in UnitPrices : UpdateProductItem(o, s, q, u)
  <2> PICK q \in Quantities, u \in UnitPrices : UpdateProductItem(o, s, q, u)
    BY <1>4
  <2>1. s \in DOMAIN product_items[o] /\ product_items[o][s] \in OrderProductItem
    BY <1>1, ReadRow DEF UpdateProductItem
  <2> DEFINE row == [product_items[o][s] EXCEPT !.quantity = q, !.unit_price = u]
  <2>2. row \in OrderProductItem
    BY <2>1, InputAssumption DEF OrderProductItem
  <2>3. product_items' = [product_items EXCEPT ![o][s] = row]
    BY <2>1 DEF UpdateProductItem
  <2>4. AreRows(product_items'[o], Slots, OrderProductItem)
    BY <1>1, <2>1, <2>2, <2>3, ReplaceRow DEF TypeOK
  <2>5. ProductType'
    BY <2>3, <2>4 DEF TypeOK, ProductType
  <2> QED
    BY <2>5, TypeFrame DEF UpdateProductItem
<1> QED
  BY <1>2, <1>3, <1>4

\* The rows a loop writes to the ledger for the product lines it visits.
LEMMA OrderMovementType ==
  ASSUME TypeOK, NEW x \in ProductLines(Orders),
         NEW direction \in {"in", "out"},
         NEW reason \in {"sale", "internal_use", "adjustment"}
  PROVE  OrderMovement(x, direction, reason) \in StockMovement
<1>1. ProductLine(x) \in OrderProductItem /\ x[1] \in Orders
  BY ReadRow DEF ProductLines, ProductLine, TypeOK
<1>2. x[1] \in Nat
  BY <1>1, BoundAssumption DEF Orders
<1> QED
  BY <1>1, <1>2 DEF OrderMovement, StockMovement, OrderProductItem

LEMMA LinkedType ==
  ASSUME TypeOK, NEW T \in SUBSET ProductLines(Orders), NEW visit \in Enumerations(T),
         NEW from \in Nat, NEW o \in Orders
  PROVE  AreRows(LinkMovements(visit, from)[o], Slots, OrderProductItem)
<1>1. AreRows(product_items[o], Slots, OrderProductItem)
  BY DEF TypeOK
<1> SUFFICES ASSUME NEW s \in DOMAIN product_items[o], <<o, s>> \in Range(visit)
             PROVE  [product_items[o][s] EXCEPT !.stock_movement_id =
                       from + Position(visit, <<o, s>>)] \in OrderProductItem
  BY <1>1 DEF AreRows, LinkMovements
<1>2. Position(visit, <<o, s>>) \in Nat
  BY DEF Position, Range, Enumerations
<1>3. product_items[o][s] \in OrderProductItem
  BY <1>1, ReadRow
<1> QED
  BY <1>2, <1>3 DEF OrderProductItem

\* A loop over product lines visits each of them, and only them.
LEMMA VisitType ==
  ASSUME NEW T \in SUBSET ProductLines(Orders), NEW visit \in Enumerations(T)
  PROVE  /\ visit \in Seq(T)
         /\ Range(visit) = T
<1>1. IsFiniteSet(Orders \X Slots)
  <2>1. IsFiniteSet(1 .. MaxOrders)
    BY FS_Interval, BoundAssumption
  <2> QED
    BY <2>1, FS_Product, StructureAssumption DEF Orders
<1>2. IsFiniteSet(T)
  BY <1>1, FS_Subset DEF ProductLines
<1>3. Cardinality(T) \in Nat
  BY <1>2, FS_CardinalityType
<1> QED
  BY <1>3 DEF Enumerations, Range

LEMMA CloseType ==
  ASSUME TypeOK, NEW S \in SUBSET Orders, NEW split \in [S -> Seq(Payment)],
         NEW rule \in [Professionals -> CommissionRules], Close(S, split, rule)
  PROVE  TypeOK'
<1>1. Unmoved(S) \in SUBSET ProductLines(Orders)
  BY DEF Unmoved, ProductLines
<1> PICK visit \in Enumerations(Unmoved(S)) :
      /\ movements' = movements \o
           [k \in 1 .. Len(visit) |->
              OrderMovement(visit[k], "out", SaleReason(ProductLine(visit[k])))]
      /\ product_items' = LinkMovements(visit, Len(movements))
  BY DEF Close
<1>2. visit \in Seq(ProductLines(Orders)) /\ Len(visit) \in Nat
  BY <1>1, VisitType
<1>3. movements' \in Seq(StockMovement)
  <2> DEFINE row(k) == OrderMovement(visit[k], "out", SaleReason(ProductLine(visit[k])))
  <2>1. ASSUME NEW k \in 1 .. Len(visit) PROVE row(k) \in StockMovement
    <3>1. visit[k] \in ProductLines(Orders)
      BY <1>2
    <3> QED
      BY <3>1, OrderMovementType DEF SaleReason
  <2> HIDE DEF row
  <2>2. [k \in 1 .. Len(visit) |-> row(k)] \in Seq(StockMovement)
    BY <1>2, <2>1
  <2>3. movements' = movements \o [k \in 1 .. Len(visit) |-> row(k)]
    BY DEF row
  <2>4. movements \in Seq(StockMovement)
    BY DEF TypeOK
  <2> QED
    BY <2>2, <2>3, <2>4, ConcatProperties
<1>4. StockType'
  <2>1. \A p \in Products : quantity_on_hand'[p] \in Quantity
    BY BoundAssumption DEF Close, Available, TypeOK, Quantity
  <2>2. quantity_on_hand' \in [Products -> Quantity]
    BY <2>1 DEF Close
  <2> QED
    BY <1>3, <2>2 DEF StockType
<1>5. ProductType'
  <2>1. Len(movements) \in Nat
    BY DEF TypeOK
  <2>2. \A o \in Orders : AreRows(product_items'[o], Slots, OrderProductItem)
    BY <1>1, <2>1, LinkedType
  <2>3. product_items' = [o \in Orders |-> product_items'[o]]
    BY DEF LinkMovements
  <2> QED
    BY <2>2, <2>3 DEF ProductType
<1>6. PaymentType'
  <2>1. \A o \in S : payments[o] \o split[o] \in Seq(Payment)
    BY ConcatProperties DEF TypeOK
  <2> QED
    BY <2>1 DEF Close, TypeOK, PaymentType
<1>7. ServiceType'
  <2> SUFFICES ASSUME NEW o \in Orders
               PROVE  AreRows(order_items'[o], Items, OrderItem)
    BY DEF Close, ServiceType
  <2>1. AreRows(order_items[o], Items, OrderItem)
    BY DEF TypeOK
  <2>2. CASE o \in S
    <3>1. order_items'[o] =
            [i \in DOMAIN order_items[o] |->
               resolve_commission(order_items[o][i],
                                  rule[order_items[o][i].professional_id])]
      BY <2>2 DEF Close
    <3> SUFFICES ASSUME NEW i \in DOMAIN order_items[o]
                 PROVE  resolve_commission(order_items[o][i],
                          rule[order_items[o][i].professional_id]) \in OrderItem
      BY <2>1, <3>1 DEF AreRows
    <3>2. order_items[o][i] \in OrderItem
      BY <2>1, ReadRow
    <3>3. rule[order_items[o][i].professional_id] \in CommissionRule
      BY <3>2, InputAssumption DEF OrderItem
    <3> QED
      BY <3>2, <3>3, ResolvedType
  <2>3. CASE o \notin S
    BY <2>1, <2>3 DEF Close
  <2> QED
    BY <2>2, <2>3
<1>8. AgendaType'
  BY DEF Close, TypeOK, AgendaType, AppointmentStatus
<1>9. OrderType'
  BY DEF Close, TypeOK, OrderType
<1> QED
  BY <1>4, <1>5, <1>6, <1>7, <1>8, <1>9, TypeFrame DEF Close

LEMMA CorrectConsumptionType ==
  ASSUME TypeOK, NEW o \in Orders, NEW s \in Slots, NEW delta \in Deltas,
         NEW key \in IdempotencyKeys, CorrectConsumption(o, s, delta, key)
  PROVE  TypeOK'
<1> DEFINE quantity == IF delta > 0 THEN delta ELSE -delta
           row == [product_id |-> product_items[o][s].product_id,
                   direction |-> IF delta > 0 THEN "out" ELSE "in",
                   reason |-> "adjustment", quantity |-> quantity, order_id |-> o,
                   idempotency_key |-> key]
<1>1. product_items[o][s] \in OrderProductItem
  BY ReadRow DEF CorrectConsumption, TypeOK
<1>2. quantity \in Nat \ {0} /\ o \in Nat
  BY InputAssumption, BoundAssumption DEF Orders
<1>3. row \in StockMovement
  BY <1>1, <1>2 DEF StockMovement, OrderProductItem
<1>4. movements' = Append(movements, row)
  BY DEF CorrectConsumption
<1>5. movements \in Seq(StockMovement)
  BY DEF TypeOK
<1>6. movements' \in Seq(StockMovement)
  BY <1>3, <1>4, <1>5, AppendProperties
<1>7. quantity_on_hand' \in [Products -> Quantity]
  BY <1>1 DEF CorrectConsumption, TypeOK, OrderProductItem
<1>8. StockType'
  BY <1>6, <1>7 DEF StockType
<1> QED
  BY <1>8, TypeFrame DEF CorrectConsumption, orderVars

LEMMA ReopenOrderType ==
  ASSUME TypeOK, NEW o \in Orders, ReopenOrder(o)
  PROVE  TypeOK'
<1>1. Moved({o}) \in SUBSET ProductLines(Orders)
  BY DEF Moved, ProductLines
<1> PICK visit \in Enumerations(Moved({o})) :
      movements' = movements \o
        [k \in 1 .. Len(visit) |-> OrderMovement(visit[k], "in", "adjustment")]
  BY DEF ReopenOrder
<1>2. visit \in Seq(Moved({o}))
  <2> DEFINE T == Moved({o})
  <2>1. T \in SUBSET ProductLines(Orders) /\ visit \in Enumerations(T)
    BY <1>1
  <2> HIDE DEF T
  <2>2. visit \in Seq(T)
    BY <2>1, VisitType
  <2> QED
    BY <2>2 DEF T
<1>3. movements' \in Seq(StockMovement)
  <2> DEFINE row(k) == OrderMovement(visit[k], "in", "adjustment")
  <2>1. ASSUME NEW k \in 1 .. Len(visit) PROVE row(k) \in StockMovement
    <3>1. visit[k] \in ProductLines(Orders)
      BY <1>1, <1>2
    <3> QED
      BY <3>1, OrderMovementType
  <2> HIDE DEF row
  <2>2. [k \in 1 .. Len(visit) |-> row(k)] \in Seq(StockMovement)
    BY <1>2, <2>1
  <2>3. movements' = movements \o [k \in 1 .. Len(visit) |-> row(k)]
    BY DEF row
  <2>4. movements \in Seq(StockMovement)
    BY DEF TypeOK
  <2> QED
    BY <2>2, <2>3, <2>4, ConcatProperties
<1>4. StockType'
  <2>1. quantity_on_hand' \in [Products -> Quantity]
    BY DEF ReopenOrder
  <2> QED
    BY <1>3, <2>1 DEF StockType
<1>5. PaymentType'
  <2>1. reversed[o] \o payments[o] \in Seq(Payment)
    BY ConcatProperties DEF TypeOK
  <2>2. <<>> \in Seq(Payment)
    OBVIOUS
  <2> QED
    BY <2>1, <2>2 DEF ReopenOrder, ReversePayments, TypeOK, PaymentType
<1>6. ProductType'
  <2>1. AreRows(product_items[o], Slots, OrderProductItem)
    BY DEF TypeOK
  <2>2. ASSUME NEW s \in DOMAIN product_items[o]
        PROVE  Unlinked(product_items[o][s]) \in OrderProductItem
    <3>1. product_items[o][s] \in OrderProductItem
      BY <2>1, ReadRow
    <3> QED
      BY <3>1 DEF Unlinked, OrderProductItem
  <2>3. AreRows([s \in DOMAIN product_items[o] |-> Unlinked(product_items[o][s])],
                Slots, OrderProductItem)
    BY <2>1, <2>2 DEF AreRows
  <2> QED
    BY <2>3 DEF ReopenOrder, TypeOK, ProductType
<1>7. AgendaType'
  BY DEF ReopenOrder, DemotedFromPaid, TypeOK, AgendaType, AppointmentStatus,
     OPERATIONAL_STATUSES
<1>8. OrderType'
  BY DEF ReopenOrder, TypeOK, OrderType
<1> QED
  BY <1>4, <1>5, <1>6, <1>7, <1>8, TypeFrame DEF ReopenOrder

LEMMA StatusStepType ==
  ASSUME TypeOK,
         \/ \E o \in Orders : CancelOrder(o)
         \/ \E a \in Appointments : CancelAppointment(a)
         \/ \E a \in Appointments, related \in SUBSET Appointments,
               target \in StatusInputs : UpdateStatus(a, related, target)
  PROVE  TypeOK'
<1>1. CASE \E o \in Orders : CancelOrder(o)
  <2> PICK o \in Orders : CancelOrder(o)
    BY <1>1
  <2>1. AgendaType' /\ OrderType'
    BY DEF CancelOrder, TypeOK, AgendaType, OrderType, AppointmentStatus
  <2> QED
    BY <2>1, TypeFrame DEF CancelOrder
<1>2. CASE \E a \in Appointments : CancelAppointment(a)
  <2> PICK a \in Appointments : CancelAppointment(a)
    BY <1>2
  <2>1. AgendaType'
    BY DEF CancelAppointment, TypeOK, AgendaType, AppointmentStatus
  <2> QED
    BY <2>1, TypeFrame DEF CancelAppointment, orderVars
<1>3. CASE \E a \in Appointments, related \in SUBSET Appointments,
              target \in StatusInputs : UpdateStatus(a, related, target)
  <2> PICK a \in Appointments, related \in SUBSET Appointments,
           target \in StatusInputs : UpdateStatus(a, related, target)
    BY <1>3
  <2>1. target \in AppointmentStatus
    BY InputAssumption DEF AppointmentStatus
  <2>2. AgendaType'
    BY <2>1 DEF UpdateStatus, TypeOK, AgendaType
  <2>3. OrderType'
    BY DEF UpdateStatus, TypeOK, OrderType
  <2> QED
    BY <2>2, <2>3, TypeFrame DEF UpdateStatus
<1> QED
  BY <1>1, <1>2, <1>3

LEMMA InitialItemType ==
  ASSUME NEW item \in InitialItem
  PROVE  item \in AppointmentItem
  BY InputAssumption DEF InitialItem, AppointmentItem
LEMMA AgendaEditType ==
  ASSUME TypeOK, NEW i \in Items, NEW item \in InitialItem,
         UpdateAppointmentItem(i, item) \/ AddAppointmentItem(i, item)
  PROVE  TypeOK'
<1>1. item \in AppointmentItem
  BY InitialItemType
<1>2. AreRows(agenda, Items, AppointmentItem)
  BY DEF TypeOK
<1>3. CASE UpdateAppointmentItem(i, item)
  <2>1. i \in DOMAIN agenda /\ agenda' = [agenda EXCEPT ![i] = item]
    BY <1>3 DEF UpdateAppointmentItem
  <2>2. AreRows(agenda', Items, AppointmentItem)
    BY <1>1, <1>2, <2>1, ReplaceRow
  <2>3. AgendaType'
    BY <1>3, <2>2 DEF UpdateAppointmentItem, TypeOK, AgendaType
  <2>4. ASSUME NEW o \in Orders
        PROVE  AreRows(order_items'[o], Items, OrderItem)
    <3>1. AreRows(order_items[o], Items, OrderItem)
      BY DEF TypeOK
    <3>2. CASE order_items'[o] = order_items[o]
      BY <3>1, <3>2
    <3>3. CASE order_items'[o] # order_items[o]
      <4>1. /\ i \in DOMAIN order_items[o]
            /\ \E row \in OrderItem : order_items'[o] = [order_items[o] EXCEPT ![i] = row]
        <5>1. i \in DOMAIN order_items[o]
          BY <1>3, <3>3 DEF UpdateAppointmentItem
        <5>2. order_items[o][i] \in OrderItem
          BY <3>1, <5>1, ReadRow
        <5> DEFINE row == [order_items[o][i] EXCEPT
                             !.price = item.price,
                             !.professional_id =
                               IF item.professional_id # agenda[i].professional_id
                               THEN item.professional_id ELSE @]
        <5>3. row \in OrderItem
          BY <1>1, <5>2 DEF OrderItem, AppointmentItem
        <5>4. order_items'[o] = [order_items[o] EXCEPT ![i] = row]
          BY <1>3, <3>3, <5>1 DEF UpdateAppointmentItem
        <5> QED
          BY <5>1, <5>3, <5>4
      <4> QED
        BY <3>1, <4>1, ReplaceRow
    <3> QED
      BY <3>2, <3>3
  <2>5. ServiceType'
    BY <1>3, <2>4 DEF UpdateAppointmentItem, ServiceType
  <2> QED
    BY <1>3, <2>3, <2>5, TypeFrame DEF UpdateAppointmentItem
<1>4. CASE AddAppointmentItem(i, item)
  <2>1. AreRows(agenda', Items, AppointmentItem)
    BY <1>1, <1>2, <1>4, InsertRow DEF AddAppointmentItem
  <2>2. AgendaType'
    BY <1>4, <2>1 DEF AddAppointmentItem, TypeOK, AgendaType
  <2>3. ASSUME NEW o \in Orders
        PROVE  AreRows(order_items'[o], Items, OrderItem)
    <3>1. AreRows(order_items[o], Items, OrderItem)
      BY DEF TypeOK
    <3>2. AreRows([j \in DOMAIN order_items[o] \union {i} |->
                     IF j = i THEN FreshOrderItem(item) ELSE order_items[o][j]],
                  Items, OrderItem)
      BY <1>1, <3>1, InsertRow, FreshType
    <3> QED
      BY <1>4, <3>1, <3>2 DEF AddAppointmentItem
  <2>4. ServiceType'
    BY <1>4, <2>3 DEF AddAppointmentItem, ServiceType
  <2> QED
    BY <1>4, <2>2, <2>4, TypeFrame DEF AddAppointmentItem
<1> QED
  BY <1>3, <1>4

LEMMA RegisterStepType ==
  ASSUME TypeOK, NEW r \in Registers,
         \/ \E amount \in {0} \union CashAmounts : amount >= 0 /\ OpenRegister(r, amount)
         \/ \E amount \in CashAmounts : RegisterMovement(r, amount)
         \/ CloseRegister(r)
  PROVE  TypeOK'
<1>1. CASE \E amount \in {0} \union CashAmounts : amount >= 0 /\ OpenRegister(r, amount)
  <2> PICK amount \in {0} \union CashAmounts : OpenRegister(r, amount)
    BY <1>1
  <2>1. amount \in Int
    BY InputAssumption
  <2>2. RegisterType'
    BY <2>1 DEF OpenRegister, TypeOK, RegisterType
  <2> QED
    BY <2>2, TypeFrame DEF OpenRegister, orderVars
<1>2. CASE \E amount \in CashAmounts : RegisterMovement(r, amount)
  <2> PICK amount \in CashAmounts : RegisterMovement(r, amount)
    BY <1>2
  <2>1. amount \in Int
    BY InputAssumption
  <2>2. RegisterType'
    BY <2>1 DEF RegisterMovement, TypeOK, RegisterType
  <2> QED
    BY <2>2, TypeFrame DEF RegisterMovement, orderVars
<1>3. CASE CloseRegister(r)
  <2>1. RegisterType'
    BY <1>3 DEF CloseRegister, TypeOK, RegisterType
  <2> QED
    BY <1>3, <2>1, TypeFrame DEF CloseRegister, orderVars
<1> QED
  BY <1>1, <1>2, <1>3

LEMMA CreateSettlementType ==
  ASSUME TypeOK, NEW pr \in Professionals, NEW period \in SUBSET Orders,
         CreateSettlement(pr, period)
  PROVE  TypeOK'
<1>1. Len(settlements) + 1 \in Nat /\ settlements \in Seq(CommissionSettlement)
  BY DEF TypeOK
<1>2. settlements' \in Seq(CommissionSettlement)
  <2> PICK production \in Money, commission \in Money :
        settlements' = Append(settlements,
          [professional_id |-> pr, production_total |-> production,
           commission_total |-> commission])
    BY DEF CreateSettlement
  <2>1. [professional_id |-> pr, production_total |-> production,
         commission_total |-> commission] \in CommissionSettlement
    BY DEF CommissionSettlement
  <2> QED
    BY <1>1, <2>1, AppendProperties
<1>3. ASSUME NEW o \in Orders
      PROVE  AreRows(order_items'[o], Items, OrderItem)
  <2>1. AreRows(order_items[o], Items, OrderItem)
    BY DEF TypeOK
  <2>2. DOMAIN order_items'[o] = DOMAIN order_items[o]
    BY DEF CreateSettlement
  <2>3. ASSUME NEW i \in DOMAIN order_items[o]
        PROVE  order_items'[o][i] \in OrderItem
    <3>1. order_items[o][i] \in OrderItem
      BY <2>1, ReadRow
    <3>2. [order_items[o][i] EXCEPT !.commission_settlement_id = Len(settlements) + 1]
             \in OrderItem
      BY <1>1, <3>1 DEF OrderItem
    <3> QED
      BY <3>1, <3>2 DEF CreateSettlement
  <2>4. order_items'[o] = [i \in DOMAIN order_items[o] |-> order_items'[o][i]]
    BY DEF CreateSettlement
  <2> QED
    BY <2>1, <2>2, <2>3, <2>4 DEF AreRows
<1>4. ServiceType'
  BY <1>3 DEF CreateSettlement, ServiceType
<1> QED
  BY <1>2, <1>4, TypeFrame DEF CreateSettlement

LEMMA RecordMovementType ==
  ASSUME TypeOK, NEW p \in Products, NEW direction \in {"in", "out"},
         NEW quantity \in Quantities, RecordMovement(p, direction, quantity)
  PROVE  TypeOK'
<1> DEFINE row == [product_id |-> p, direction |-> direction, reason |-> "manual",
                   quantity |-> quantity, order_id |-> 0, idempotency_key |-> NoKey]
<1>1. row \in StockMovement
  BY InputAssumption DEF StockMovement
<1>2. movements' = Append(movements, row)
  BY DEF RecordMovement
<1>3. movements' \in Seq(StockMovement)
  BY <1>1, <1>2, AppendProperties DEF TypeOK
<1>4. StockType'
  BY <1>3 DEF RecordMovement, TypeOK, StockType
<1> QED
  BY <1>4, TypeFrame DEF RecordMovement, orderVars

LEMMA NextDayType ==
  ASSUME TypeOK, NextDay
  PROVE  TypeOK'
<1>1. RegisterType'
  BY DEF NextDay, TypeOK, RegisterType, registerVars
<1> QED
  BY <1>1, TypeFrame DEF NextDay, orderVars

LEMMA NextTypeOK ==
  ASSUME TypeOK, [Next]_vars
  PROVE  TypeOK'
<1>1. CASE OrderStep
  <2>1. CASE \E a \in Appointments : CreateOrder(a)
    BY <2>1, CreateOrderType
  <2>2. CASE \E o \in Orders, i \in Items :
               \/ \E price \in Prices : UpdateOrderItem(o, i, price)
               \/ \E amount \in Benefits : UpdateOrderItemBenefit(o, i, amount)
    BY <2>2, ItemEditType
  <2>3. CASE \E o \in Orders, s \in Slots :
               \/ \E line \in [product_id : Products, quantity : Quantities,
                               unit_price : UnitPrices, item_type : ItemTypes,
                               stock_movement_id : {0}] : AddProductItem(o, s, line)
               \/ RemoveProductItem(o, s)
               \/ \E q \in Quantities, u \in UnitPrices : UpdateProductItem(o, s, q, u)
    BY <2>3, ProductEditType
  <2>4. CASE \E o \in Orders, s \in Slots, delta \in Deltas, key \in IdempotencyKeys :
               CorrectConsumption(o, s, delta, key)
    BY <2>4, CorrectConsumptionType
  <2>5. CASE \E rule \in [Professionals -> CommissionRules], o \in Orders,
               pays \in PaymentInputs : CloseOrder(o, pays, rule)
    <3> PICK rule \in [Professionals -> CommissionRules], o \in Orders,
             pays \in PaymentInputs : CloseOrder(o, pays, rule)
      BY <2>5
    <3>1. Close({o}, [x \in {o} |-> pays], rule)
      BY DEF CloseOrder
    <3>2. {o} \in SUBSET Orders /\ [x \in {o} |-> pays] \in [{o} -> Seq(Payment)]
      BY InputAssumption
    <3> QED
      BY <3>1, <3>2, CloseType
  <2>6. CASE \E rule \in [Professionals -> CommissionRules], S \in SUBSET Orders,
               pays \in PaymentInputs : CloseOrdersConsolidated(S, pays, rule)
    <3> PICK rule \in [Professionals -> CommissionRules], S \in SUBSET Orders,
             pays \in PaymentInputs : CloseOrdersConsolidated(S, pays, rule)
      BY <2>6
    <3> DEFINE split == [o \in S |-> SplitOf(S, pays, o)]
    <3>1. Close(S, split, rule)
      BY DEF CloseOrdersConsolidated
    <3>2. split \in [S -> Seq(Payment)]
      BY DEF CloseOrdersConsolidated
    <3> HIDE DEF split
    <3> QED
      BY <3>1, <3>2, CloseType
  <2>7. CASE \E o \in Orders : ReopenOrder(o)
    BY <2>7, ReopenOrderType
  <2>8. CASE \E o \in Orders : CancelOrder(o)
    BY <2>8, StatusStepType
  <2> QED
    BY <1>1, <2>1, <2>2, <2>3, <2>4, <2>5, <2>6, <2>7, <2>8 DEF OrderStep
<1>2. CASE AgendaStep
  BY <1>2, StatusStepType, AgendaEditType DEF AgendaStep
<1>3. CASE FinanceStep
  <2>1. CASE \E r \in Registers :
               \/ \E amount \in {0} \union CashAmounts : amount >= 0 /\ OpenRegister(r, amount)
               \/ \E amount \in CashAmounts : RegisterMovement(r, amount)
               \/ CloseRegister(r)
    BY <2>1, RegisterStepType
  <2>2. CASE \E pr \in Professionals, period \in SUBSET Orders : CreateSettlement(pr, period)
    BY <2>2, CreateSettlementType
  <2>3. CASE \E p \in Products, direction \in {"in", "out"}, q \in Quantities :
               RecordMovement(p, direction, q)
    BY <2>3, RecordMovementType
  <2>4. CASE NextDay
    BY <2>4, NextDayType
  <2> QED
    BY <1>3, <2>1, <2>2, <2>3, <2>4 DEF FinanceStep
<1>4. CASE UNCHANGED vars
  BY <1>4, TypeFrame DEF vars, orderVars
<1> QED
  BY <1>1, <1>2, <1>3, <1>4 DEF Next

\* Every row keeps its columns' types, for every size of the branch.
THEOREM TypeCorrect == Spec => []TypeOK
<1>1. Init => TypeOK
  BY InitTypeOK
<1>2. TypeOK /\ [Next]_vars => TypeOK'
  BY NextTypeOK
<1> QED
  BY <1>1, <1>2, PTL DEF Spec

-----------------------------------------------------------------------------
(***************************************************************************)
(* Part two: safety.  The agenda and the comanda agree, a closed order is  *)
(* paid exactly, and no closed order or payment ever moves.                *)
(***************************************************************************)

(***************************************************************************)
(* The two ways of closing.                                                *)
(***************************************************************************)
\* A closing whose payments are typed and, in whole cents, exact.
ExactClose(S, split, rule) ==
  /\ S \in SUBSET Orders
  /\ split \in [S -> Seq(Payment)]
  /\ rule \in [Professionals -> CommissionRules]
  /\ QuantityScale = 1 => \A o \in S : PaidTotal(split[o]) = order_charged_total(o)
  /\ Close(S, split, rule)

LEMMA UnitsFinite == IsFiniteSet(Units)
  BY FS_Interval, StructureAssumption, BoundAssumption DEF Units

LEMMA PortionType ==
  ASSUME NEW S, NEW pays, NEW o, NEW k
  PROVE  Portion(S, pays, o, k) \in Nat
<1>1. DueUnits(S, o) \intersect PaidUnits(pays, k) \in SUBSET Units
  BY DEF DueUnits
<1>2. IsFiniteSet(DueUnits(S, o) \intersect PaidUnits(pays, k))
  BY <1>1, UnitsFinite, FS_Subset
<1> QED
  BY <1>2, FS_CardinalityType DEF Portion

\* In whole cents the rows a split stores are what the order took.
LEMMA SplitIsExact ==
  ASSUME NEW S \in SUBSET Orders, NEW pays, NEW o \in S, QuantityScale = 1,
         SplitOf(S, pays, o) \in Seq(Payment),
         order_charged_total(o) \in Int,
         SumFunction(Portions(S, pays, o)) = order_charged_total(o)
  PROVE  PaidTotal(SplitOf(S, pays, o)) = order_charged_total(o)
<1> DEFINE rows == SplitOf(S, pays, o)
           parts == Portions(S, pays, o)
<1>1. DOMAIN rows = DOMAIN parts
  BY DEF SplitOf, Portions
<1>2. ASSUME NEW k \in DOMAIN rows
      PROVE  rows[k].amount = parts[k]
  <2>1. rows[k] \in Payment
    OBVIOUS
  <2>2. rows[k] = [pays[Source(S, pays, o, k)] EXCEPT !.amount = ToCents(parts[k])]
    BY DEF SplitOf
  <2>3. rows[k].amount = ToCents(parts[k])
    BY <2>1, <2>2 DEF Payment
  <2>4. parts[k] \in Nat
    BY <1>1, PortionType DEF Portions
  <2> QED
    BY <2>3, <2>4 DEF ToCents
<1>3. [k \in DOMAIN rows |-> rows[k].amount] = parts
  <2>1. parts = [k \in DOMAIN parts |-> parts[k]]
    BY DEF Portions
  <2> QED
    BY <1>1, <1>2, <2>1
<1> QED
  BY <1>3 DEF PaidTotal

LEMMA CloseOrderIsClose ==
  ASSUME NEW o \in Orders, NEW pays \in PaymentInputs,
         NEW rule \in [Professionals -> CommissionRules], CloseOrder(o, pays, rule)
  PROVE  ExactClose({o}, [x \in {o} |-> pays], rule)
  BY InputAssumption DEF CloseOrder, ExactClose, PaysExactly

LEMMA ConsolidatedIsClose ==
  ASSUME NEW S \in SUBSET Orders, NEW pays \in PaymentInputs,
         NEW rule \in [Professionals -> CommissionRules],
         CloseOrdersConsolidated(S, pays, rule)
  PROVE  ExactClose(S, [o \in S |-> SplitOf(S, pays, o)], rule)
<1> DEFINE split == [o \in S |-> SplitOf(S, pays, o)]
<1>1. split \in [S -> Seq(Payment)] /\ Close(S, split, rule)
  BY DEF CloseOrdersConsolidated
<1>2. ASSUME QuantityScale = 1, NEW o \in S
      PROVE  PaidTotal(split[o]) = order_charged_total(o)
  <2>1. order_charged_total(o) \in Int
    BY DEF CloseOrdersConsolidated, Units
  <2> QED
    BY <1>2, <2>1, SplitIsExact DEF CloseOrdersConsolidated
<1> QED
  BY <1>1, <1>2 DEF ExactClose

(***************************************************************************)
(* What a step may be, with the two closings as one.                       *)
(***************************************************************************)
OrderEdit ==
  \/ \E o \in Orders, i \in Items :
       \/ \E price \in Prices : UpdateOrderItem(o, i, price)
       \/ \E amount \in Benefits : UpdateOrderItemBenefit(o, i, amount)
  \/ \E o \in Orders, s \in Slots :
       \/ \E line \in [product_id : Products, quantity : Quantities,
                       unit_price : UnitPrices, item_type : ItemTypes,
                       stock_movement_id : {0}] : AddProductItem(o, s, line)
       \/ RemoveProductItem(o, s)
       \/ \E q \in Quantities, u \in UnitPrices : UpdateProductItem(o, s, q, u)

StockStep ==
  \/ \E o \in Orders, s \in Slots, delta \in Deltas, key \in IdempotencyKeys :
       CorrectConsumption(o, s, delta, key)
  \/ \E p \in Products, direction \in {"in", "out"}, q \in Quantities :
       RecordMovement(p, direction, q)

RegisterStep ==
  \E r \in Registers :
    \/ \E amount \in {0} \union CashAmounts : amount >= 0 /\ OpenRegister(r, amount)
    \/ \E amount \in CashAmounts : RegisterMovement(r, amount)
    \/ CloseRegister(r)

StatusStep ==
  \/ \E a \in Appointments, related \in SUBSET Appointments, target \in StatusInputs :
       UpdateStatus(a, related, target)
  \/ \E a \in Appointments : CancelAppointment(a)
  \/ \E o \in Orders : CancelOrder(o)

ItemStep ==
  \E i \in Items, item \in InitialItem :
    UpdateAppointmentItem(i, item) \/ AddAppointmentItem(i, item)

LEMMA StepCases ==
  ASSUME [Next]_vars
  PROVE  \/ \E a \in Appointments : CreateOrder(a)
         \/ OrderEdit
         \/ \E S, split, rule : ExactClose(S, split, rule)
         \/ \E o \in Orders : ReopenOrder(o)
         \/ StatusStep
         \/ ItemStep
         \/ StockStep
         \/ RegisterStep
         \/ \E pr \in Professionals, period \in SUBSET Orders : CreateSettlement(pr, period)
         \/ NextDay
         \/ UNCHANGED vars
<1>1. CASE OrderStep
  <2>1. CASE \E rule \in [Professionals -> CommissionRules], o \in Orders,
               pays \in PaymentInputs : CloseOrder(o, pays, rule)
    BY <2>1, CloseOrderIsClose
  <2>2. CASE \E rule \in [Professionals -> CommissionRules], S \in SUBSET Orders,
               pays \in PaymentInputs : CloseOrdersConsolidated(S, pays, rule)
    BY <2>2, ConsolidatedIsClose
  <2> QED
    BY <1>1, <2>1, <2>2 DEF OrderStep, OrderEdit, StatusStep, StockStep
<1>2. CASE AgendaStep
  BY <1>2 DEF AgendaStep, StatusStep, ItemStep
<1>3. CASE FinanceStep
  BY <1>3 DEF FinanceStep, RegisterStep, StockStep
<1> QED
  BY <1>1, <1>2, <1>3 DEF Next

LEMMA StockStepFrame ==
  ASSUME StockStep
  PROVE  UNCHANGED <<agendaVars, orderVars, paymentVars, registerVars>>
<1>1. CASE \E o \in Orders, s \in Slots, delta \in Deltas, key \in IdempotencyKeys :
             CorrectConsumption(o, s, delta, key)
  BY <1>1 DEF CorrectConsumption
<1>2. CASE \E p \in Products, direction \in {"in", "out"}, q \in Quantities :
             RecordMovement(p, direction, q)
  BY <1>2 DEF RecordMovement
<1> QED
  BY <1>1, <1>2 DEF StockStep

(***************************************************************************)
(* The agenda and the comanda.                                             *)
(***************************************************************************)
LEMMA AgreementFrame ==
  ASSUME PaidMeansClosed,
         UNCHANGED <<appointment_status, order_status, order_appointment>>
  PROVE  PaidMeansClosed'
  BY DEF PaidMeansClosed, ActiveOrders

LEMMA AgreementCreate ==
  ASSUME TypeOK, PaidMeansClosed, NEW a \in Appointments, CreateOrder(a)
  PROVE  PaidMeansClosed'
<1> PICK n \in Orders : CreateOrder(a)!(n)
  BY DEF CreateOrder
<1>1. order_status[n] = "none"
  BY BoundAssumption DEF Orders
<1>2. /\ order_status'[n] = "open" /\ order_appointment'[n] = a
      /\ \A o \in Orders \ {n} : /\ order_status'[o] = order_status[o]
                                 /\ order_appointment'[o] = order_appointment[o]
      /\ appointment_status' = appointment_status
  BY DEF TypeOK, agendaVars
<1>3. \A o \in Orders : order_appointment[o] = a => order_status[o] \notin {"open", "closed"}
  BY DEF ActiveOrders
<1> QED
  BY <1>1, <1>2, <1>3 DEF PaidMeansClosed, ActiveOrders

LEMMA AgreementClose ==
  ASSUME TypeOK, PaidMeansClosed, NEW S, NEW split, NEW rule, ExactClose(S, split, rule)
  PROVE  PaidMeansClosed'
<1>1. /\ S \in SUBSET Orders /\ \A o \in S : order_status[o] = "open"
      /\ order_appointment' = order_appointment
      /\ \A o \in Orders : order_status'[o] = IF o \in S THEN "closed" ELSE order_status[o]
      /\ \A a \in Appointments :
           appointment_status'[a] = IF \E o \in S : order_appointment[o] = a
                                    THEN "paid" ELSE appointment_status[a]
  BY DEF ExactClose, Close
<1> QED
  BY <1>1 DEF PaidMeansClosed, ActiveOrders

LEMMA AgreementReopen ==
  ASSUME TypeOK, PaidMeansClosed, NEW o \in Orders, ReopenOrder(o)
  PROVE  PaidMeansClosed'
<1> DEFINE a == order_appointment[o]
<1>1. /\ order_status[o] = "closed" /\ a \in Appointments
      /\ order_appointment' = order_appointment
      /\ \A x \in Orders : order_status'[x] = IF x = o THEN "open" ELSE order_status[x]
      /\ \A b \in Appointments :
           appointment_status'[b] = IF b = a THEN DemotedFromPaid(appointment_status[b])
                                    ELSE appointment_status[b]
  BY DEF ReopenOrder, TypeOK
<1>2. DemotedFromPaid(appointment_status[a]) # "paid"
  BY DEF DemotedFromPaid
<1> HIDE DEF a
<1> QED
  BY <1>1, <1>2 DEF PaidMeansClosed, ActiveOrders, a

LEMMA AgreementStatus ==
  ASSUME TypeOK, PaidMeansClosed, StatusStep
  PROVE  PaidMeansClosed'
<1>1. CASE \E a \in Appointments, related \in SUBSET Appointments,
              target \in StatusInputs : UpdateStatus(a, related, target)
  <2> PICK a \in Appointments, related \in SUBSET Appointments,
           target \in StatusInputs : UpdateStatus(a, related, target)
    BY <1>1
  <2> DEFINE touched == {a} \union Reaches(related, target)
  <2>1. \A b \in touched : appointment_status[b] # "paid" /\ target # "paid"
    BY InputAssumption DEF UpdateStatus, Reaches, OPERATIONAL_STATUSES, CANCELLABLE_FROM
  <2>2. /\ order_appointment' = order_appointment
        /\ \A b \in Appointments :
             appointment_status'[b] = IF b \in touched THEN target ELSE appointment_status[b]
    BY DEF UpdateStatus
  <2>3. \A o \in Orders : \/ order_status'[o] = order_status[o]
                          \/ order_status[o] = "open" /\ order_status'[o] = "cancelled"
    BY DEF UpdateStatus
  <2> HIDE DEF touched
  <2> QED
    BY <2>1, <2>2, <2>3 DEF PaidMeansClosed, ActiveOrders
<1>2. CASE \E a \in Appointments : CancelAppointment(a)
  <2> PICK a \in Appointments : CancelAppointment(a)
    BY <1>2
  <2>1. appointment_status[a] # "paid"
    BY DEF CancelAppointment, CANCELLABLE_FROM
  <2> QED
    BY <2>1 DEF CancelAppointment, orderVars, TypeOK, PaidMeansClosed, ActiveOrders
<1>3. CASE \E o \in Orders : CancelOrder(o)
  <2> PICK o \in Orders : CancelOrder(o)
    BY <1>3
  <2> DEFINE a == order_appointment[o]
  <2>1. /\ order_status[o] = "open" /\ a \in Appointments
        /\ order_appointment' = order_appointment
        /\ \A x \in Orders : order_status'[x] = IF x = o THEN "cancelled" ELSE order_status[x]
        /\ \A b \in Appointments :
             appointment_status'[b] = appointment_status[b]
               \/ /\ b = a /\ appointment_status'[b] = "cancelled"
                  /\ appointment_status[b] # "paid"
    BY DEF CancelOrder, TypeOK, CANCELLABLE_FROM_VIA_LINKED_ORDER, CANCELLABLE_FROM
  <2> HIDE DEF a
  <2> QED
    BY <2>1 DEF PaidMeansClosed, ActiveOrders
<1> QED
  BY <1>1, <1>2, <1>3 DEF StatusStep

LEMMA AgreementStep ==
  ASSUME TypeOK, PaidMeansClosed, [Next]_vars
  PROVE  PaidMeansClosed'
<1>1. CASE OrderEdit
  BY <1>1, AgreementFrame DEF OrderEdit, UpdateOrderItem, UpdateOrderItemBenefit,
     AddProductItem, RemoveProductItem, UpdateProductItem, agendaVars
<1>2. CASE ItemStep
  BY <1>2, AgreementFrame DEF ItemStep, UpdateAppointmentItem, AddAppointmentItem
<1>3. CASE StockStep
  BY <1>3, StockStepFrame, AgreementFrame DEF agendaVars, orderVars
<1>4. CASE RegisterStep
  BY <1>4, AgreementFrame DEF RegisterStep, OpenRegister, RegisterMovement,
     CloseRegister, agendaVars, orderVars
<1>5. CASE \E pr \in Professionals, period \in SUBSET Orders : CreateSettlement(pr, period)
  BY <1>5, AgreementFrame DEF CreateSettlement, agendaVars
<1>6. CASE NextDay \/ UNCHANGED vars
  BY <1>6, AgreementFrame DEF NextDay, vars, agendaVars, orderVars
<1> QED
  BY <1>1, <1>2, <1>3, <1>4, <1>5, <1>6, StepCases, AgreementCreate,
     AgreementClose, AgreementReopen, AgreementStatus

\* mark_paid, the demotion on reopening, the cancellations and the free
\* status graph keep an appointment paid exactly while its order is closed.
THEOREM PaidCorrect == Spec => []PaidMeansClosed
<1>1. Init => PaidMeansClosed
  BY DEF Init, PaidMeansClosed, ActiveOrders
<1>2. TypeOK /\ PaidMeansClosed /\ [Next]_vars => PaidMeansClosed'
  BY AgreementStep
<1> QED
  BY <1>1, <1>2, TypeCorrect, PTL DEF Spec

(***************************************************************************)
(* What a closed order was paid.                                           *)
(***************************************************************************)
\* What an order charges depends on prices, benefits and quantities alone.
SameCharge(o) ==
  /\ DOMAIN order_items'[o] = DOMAIN order_items[o]
  /\ \A i \in DOMAIN order_items[o] :
       /\ order_items'[o][i].price = order_items[o][i].price
       /\ order_items'[o][i].benefit_amount = order_items[o][i].benefit_amount
  /\ DOMAIN product_items'[o] = DOMAIN product_items[o]
  /\ \A s \in DOMAIN product_items[o] :
       /\ product_items'[o][s].quantity = product_items[o][s].quantity
       /\ product_items'[o][s].unit_price = product_items[o][s].unit_price

LEMMA ChargeIsKept ==
  ASSUME NEW o \in Orders, SameCharge(o)
  PROVE  order_charged_total(o)' = order_charged_total(o)
<1>1. [i \in DOMAIN order_items[o] |-> item_charged_amount(order_items[o][i])]'
        = [i \in DOMAIN order_items[o] |-> item_charged_amount(order_items[o][i])]
  BY DEF SameCharge, item_charged_amount
<1>2. [s \in DOMAIN product_items[o] |->
         product_items[o][s].quantity * product_items[o][s].unit_price]'
        = [s \in DOMAIN product_items[o] |->
             product_items[o][s].quantity * product_items[o][s].unit_price]
  BY DEF SameCharge
<1> QED
  BY <1>1, <1>2 DEF order_charged_total

\* An order is left alone, or loses only its being open, or moves while open.
LEMMA MoneyFrame ==
  ASSUME MoneyConserved,
         \A o \in Orders :
           \/ /\ order_status'[o] # "closed" /\ order_status[o] # "closed"
              /\ payments'[o] = payments[o]
           \/ /\ order_status'[o] = order_status[o] /\ payments'[o] = payments[o]
              /\ SameCharge(o)
  PROVE  MoneyConserved'
<1> SUFFICES ASSUME NEW o \in Orders
             PROVE  IF order_status'[o] = "closed"
                    THEN PaidTotal(payments'[o]) = order_charged_total(o)'
                    ELSE payments'[o] = <<>>
  BY DEF MoneyConserved
<1>1. CASE SameCharge(o) /\ order_status'[o] = order_status[o] /\ payments'[o] = payments[o]
  BY <1>1, ChargeIsKept DEF MoneyConserved
<1> QED
  BY <1>1 DEF MoneyConserved

LEMMA MoneyClose ==
  ASSUME TypeOK, MoneyConserved, QuantityScale = 1,
         NEW S, NEW split, NEW rule, ExactClose(S, split, rule)
  PROVE  MoneyConserved'
<1>1. S \in SUBSET Orders /\ Close(S, split, rule)
  BY DEF ExactClose
<1>2. ASSUME NEW o \in Orders
      PROVE  SameCharge(o)
  <2>1. AreRows(order_items[o], Items, OrderItem)
    BY DEF TypeOK
  <2>2. AreRows(product_items[o], Slots, OrderProductItem)
    BY DEF TypeOK
  <2>3. /\ DOMAIN order_items'[o] = DOMAIN order_items[o]
        /\ \A i \in DOMAIN order_items[o] :
             /\ order_items'[o][i].price = order_items[o][i].price
             /\ order_items'[o][i].benefit_amount = order_items[o][i].benefit_amount
    BY <1>1, <2>1 DEF Close, resolve_commission, AreRows, OrderItem
  <2>4. PICK visit, from : product_items' = LinkMovements(visit, from)
    BY <1>1 DEF Close
  <2>5. /\ DOMAIN product_items'[o] = DOMAIN product_items[o]
        /\ \A s \in DOMAIN product_items[o] :
             /\ product_items'[o][s].quantity = product_items[o][s].quantity
             /\ product_items'[o][s].unit_price = product_items[o][s].unit_price
    BY <2>2, <2>4 DEF LinkMovements, AreRows, OrderProductItem
  <2> QED
    BY <2>3, <2>5 DEF SameCharge
<1>3. ASSUME NEW o \in S
      PROVE  payments'[o] = split[o]
  <2>1. payments[o] = <<>>
    BY <1>1 DEF Close, MoneyConserved
  <2>2. split[o] \in Seq(Payment) /\ payments'[o] = payments[o] \o split[o]
    BY <1>1 DEF ExactClose, Close
  <2> QED
    BY <2>1, <2>2, ConcatEmptySeq
<1> SUFFICES ASSUME NEW o \in Orders
             PROVE  IF order_status'[o] = "closed"
                    THEN PaidTotal(payments'[o]) = order_charged_total(o)'
                    ELSE payments'[o] = <<>>
  BY DEF MoneyConserved
<1>4. CASE o \in S
  <2>1. PaidTotal(split[o]) = order_charged_total(o)
    BY <1>4 DEF ExactClose
  <2> QED
    BY <1>1, <1>2, <1>3, <1>4, <2>1, ChargeIsKept DEF Close
<1>5. CASE o \notin S
  <2>1. order_status'[o] = order_status[o] /\ payments'[o] = payments[o]
    BY <1>1, <1>5 DEF Close
  <2> QED
    BY <1>2, <2>1, ChargeIsKept DEF MoneyConserved
<1> QED
  BY <1>4, <1>5

\* Only an order that is open has a line that an edit can reach.
LEMMA EditReachesOpenOrders ==
  ASSUME TypeOK, OrderEdit \/ ItemStep, NEW o \in Orders
  PROVE  /\ UNCHANGED <<order_status, order_appointment, paymentVars, registerVars>>
         /\ \/ order_status[o] = "open"
            \/ order_items'[o] = order_items[o] /\ product_items'[o] = product_items[o]
<1>1. CASE \E x \in Orders, i \in Items :
             \/ \E price \in Prices : UpdateOrderItem(x, i, price)
             \/ \E amount \in Benefits : UpdateOrderItemBenefit(x, i, amount)
  BY <1>1 DEF TypeOK, Editable, UpdateOrderItem, UpdateOrderItemBenefit
<1>2. CASE \E x \in Orders, s \in Slots :
             \/ \E line \in [product_id : Products, quantity : Quantities,
                             unit_price : UnitPrices, item_type : ItemTypes,
                             stock_movement_id : {0}] : AddProductItem(x, s, line)
             \/ RemoveProductItem(x, s)
             \/ \E q \in Quantities, u \in UnitPrices : UpdateProductItem(x, s, q, u)
  BY <1>2 DEF TypeOK, Editable, AddProductItem, RemoveProductItem, UpdateProductItem
<1>3. CASE ItemStep
  BY <1>3 DEF ItemStep, UpdateAppointmentItem, AddAppointmentItem, Synced
<1> QED
  BY <1>1, <1>2, <1>3 DEF OrderEdit

LEMMA MoneyStep ==
  ASSUME TypeOK, MoneyConserved, QuantityScale = 1, [Next]_vars
  PROVE  MoneyConserved'
<1>1. CASE \E a \in Appointments : CreateOrder(a)
  <2> PICK a \in Appointments, n \in Orders : CreateOrder(a)!(n)
    BY <1>1 DEF CreateOrder
  <2>1. order_status[n] = "none"
    BY BoundAssumption DEF Orders
  <2> QED
    BY <2>1, MoneyFrame DEF TypeOK, SameCharge, paymentVars
<1>2. CASE OrderEdit \/ ItemStep
  BY <1>2, EditReachesOpenOrders, MoneyFrame DEF SameCharge, paymentVars
<1>3. CASE \E o \in Orders : ReopenOrder(o)
  <2> PICK o \in Orders : ReopenOrder(o)
    BY <1>3
  <2>1. /\ order_status'[o] = "open" /\ payments'[o] = <<>>
        /\ \A x \in Orders \ {o} : /\ order_status'[x] = order_status[x]
                                   /\ payments'[x] = payments[x]
                                   /\ order_items'[x] = order_items[x]
                                   /\ product_items'[x] = product_items[x]
    BY DEF ReopenOrder, TypeOK
  <2>2. \A x \in Orders \ {o} : order_charged_total(x)' = order_charged_total(x)
    BY <2>1, ChargeIsKept DEF SameCharge
  <2> QED
    BY <2>1, <2>2 DEF MoneyConserved
<1>4. CASE StatusStep
  <2>1. UNCHANGED <<order_items, product_items, paymentVars>>
    BY <1>4 DEF StatusStep, UpdateStatus, CancelAppointment, CancelOrder, orderVars
  <2>2. \A o \in Orders : \/ order_status'[o] = order_status[o]
                          \/ order_status[o] = "open" /\ order_status'[o] = "cancelled"
    BY <1>4 DEF TypeOK, StatusStep, UpdateStatus, CancelAppointment, CancelOrder, orderVars
  <2> QED
    BY <2>1, <2>2, MoneyFrame DEF SameCharge, paymentVars
<1>5. CASE StockStep \/ RegisterStep \/ NextDay \/ UNCHANGED vars
  <2>1. UNCHANGED <<orderVars, paymentVars>>
    BY <1>5, StockStepFrame DEF RegisterStep, OpenRegister, RegisterMovement,
       CloseRegister, NextDay, vars
  <2> QED
    BY <2>1, MoneyFrame DEF SameCharge, orderVars, paymentVars
<1>6. CASE \E pr \in Professionals, period \in SUBSET Orders : CreateSettlement(pr, period)
  <2>1. UNCHANGED <<order_status, product_items, paymentVars>>
    BY <1>6 DEF CreateSettlement
  <2>2. ASSUME NEW o \in Orders PROVE SameCharge(o)
    <3>1. AreRows(order_items[o], Items, OrderItem)
      BY DEF TypeOK
    <3> QED
      BY <1>6, <3>1 DEF CreateSettlement, SameCharge, AreRows, OrderItem
  <2> QED
    BY <2>1, <2>2, MoneyFrame DEF paymentVars
<1> QED
  BY <1>1, <1>2, <1>3, <1>4, <1>5, <1>6, StepCases, MoneyClose

\* In whole cents a closed order was paid exactly what it charges, through
\* every closing, split, reopening and edit, and no other order is paid.
THEOREM MoneyCorrect ==
  ASSUME QuantityScale = 1
  PROVE  Spec => []MoneyConserved
<1>1. Init => MoneyConserved
  BY DEF Init, MoneyConserved
<1>2. TypeOK /\ MoneyConserved /\ [Next]_vars => MoneyConserved'
  BY MoneyStep
<1> QED
  BY <1>1, <1>2, TypeCorrect, PTL DEF Spec

(***************************************************************************)
(* What never moves.                                                       *)
(***************************************************************************)
LEMMA StatusStepFrame ==
  ASSUME TypeOK, StatusStep
  PROVE  /\ UNCHANGED <<order_items, product_items, paymentVars, stockVars, registerVars>>
         /\ \A o \in Orders : \/ order_status'[o] = order_status[o]
                              \/ order_status[o] = "open" /\ order_status'[o] = "cancelled"
<1>1. UNCHANGED <<order_items, product_items, paymentVars, stockVars, registerVars>>
  BY DEF StatusStep, UpdateStatus, CancelAppointment, CancelOrder, orderVars
<1>2. \A o \in Orders : \/ order_status'[o] = order_status[o]
                        \/ order_status[o] = "open" /\ order_status'[o] = "cancelled"
  BY DEF TypeOK, StatusStep, UpdateStatus, CancelAppointment, CancelOrder, orderVars
<1> QED
  BY <1>1, <1>2

LEMMA QuietStepFrame ==
  ASSUME StockStep \/ RegisterStep \/ NextDay \/ UNCHANGED vars
  PROVE  UNCHANGED <<orderVars, paymentVars>>
  BY StockStepFrame DEF RegisterStep, OpenRegister, RegisterMovement, CloseRegister,
     NextDay, vars

\* Reopening and closing move only the orders they name.
LEMMA CloseFrame ==
  ASSUME TypeOK, NEW S, NEW split, NEW rule, ExactClose(S, split, rule),
         NEW o \in Orders, o \notin S
  PROVE  /\ order_status'[o] = order_status[o] /\ payments'[o] = payments[o]
         /\ order_items'[o] = order_items[o] /\ product_items'[o] = product_items[o]
<1>1. S \in SUBSET Orders /\ Close(S, split, rule)
  BY DEF ExactClose
<1>2. Unmoved(S) \in SUBSET ProductLines(Orders)
  BY <1>1 DEF Unmoved, ProductLines
<1> PICK visit \in Enumerations(Unmoved(S)) :
      product_items' = LinkMovements(visit, Len(movements))
  BY <1>1 DEF Close
<1>3. \A s \in DOMAIN product_items[o] : <<o, s>> \notin Range(visit)
  <2>1. Range(visit) = Unmoved(S)
    BY <1>2, VisitType
  <2> QED
    BY <2>1 DEF Unmoved, ProductLines
<1>4. product_items'[o] = [s \in DOMAIN product_items[o] |-> product_items[o][s]]
  BY <1>3 DEF LinkMovements
<1>5. AreRows(product_items[o], Slots, OrderProductItem)
  BY DEF TypeOK
<1>6. product_items'[o] = product_items[o]
  BY <1>4, <1>5 DEF AreRows
<1> QED
  BY <1>1, <1>6 DEF Close

LEMMA ReopenFrame ==
  ASSUME TypeOK, NEW o \in Orders, ReopenOrder(o), NEW x \in Orders \ {o}
  PROVE  /\ order_status'[x] = order_status[x] /\ payments'[x] = payments[x]
         /\ order_items'[x] = order_items[x] /\ product_items'[x] = product_items[x]
         /\ reversed'[x] = reversed[x]
  BY DEF ReopenOrder, TypeOK

LEMMA ClosedStep ==
  ASSUME TypeOK, [Next]_vars
  PROVE  ClosedKept
<1>1. CASE \E a \in Appointments : CreateOrder(a)
  <2> PICK a \in Appointments, n \in Orders : CreateOrder(a)!(n)
    BY <1>1 DEF CreateOrder
  <2>1. order_status[n] = "none"
    BY BoundAssumption DEF Orders
  <2> QED
    BY <2>1 DEF TypeOK, ClosedKept, Frozen, paymentVars
<1>2. CASE OrderEdit \/ ItemStep
  BY <1>2, EditReachesOpenOrders DEF ClosedKept, Frozen, paymentVars
<1>3. CASE \E S, split, rule : ExactClose(S, split, rule)
  <2> PICK S, split, rule : ExactClose(S, split, rule)
    BY <1>3
  <2>1. \A o \in S : order_status[o] = "open"
    BY DEF ExactClose, Close
  <2> QED
    BY <2>1, CloseFrame DEF ClosedKept, Frozen
<1>4. CASE \E o \in Orders : ReopenOrder(o)
  <2> PICK o \in Orders : ReopenOrder(o)
    BY <1>4
  <2>1. order_status[o] = "closed" /\ order_status'[o] = "open"
    BY DEF ReopenOrder, TypeOK
  <2> QED
    BY <2>1, ReopenFrame DEF ClosedKept, Frozen
<1>5. CASE StatusStep
  BY <1>5, StatusStepFrame DEF ClosedKept, Frozen, paymentVars
<1>6. CASE StockStep \/ RegisterStep \/ NextDay \/ UNCHANGED vars
  BY <1>6, QuietStepFrame DEF ClosedKept, Frozen, orderVars, paymentVars
<1>7. CASE \E pr \in Professionals, period \in SUBSET Orders : CreateSettlement(pr, period)
  <2>1. UNCHANGED <<order_status, product_items, paymentVars>>
    BY <1>7 DEF CreateSettlement
  <2>2. ASSUME NEW o \in Orders
        PROVE  /\ DOMAIN order_items'[o] = DOMAIN order_items[o]
               /\ \A i \in DOMAIN order_items[o] :
                    SettledApart(order_items'[o][i]) = SettledApart(order_items[o][i])
    <3>1. AreRows(order_items[o], Items, OrderItem)
      BY DEF TypeOK
    <3>2. DOMAIN order_items'[o] = DOMAIN order_items[o]
      BY <1>7 DEF CreateSettlement
    <3>3. ASSUME NEW i \in DOMAIN order_items[o]
          PROVE  SettledApart(order_items'[o][i]) = SettledApart(order_items[o][i])
      <4>1. order_items[o][i] \in OrderItem
        BY <3>1, ReadRow
      <4>2. \/ order_items'[o][i] = order_items[o][i]
            \/ order_items'[o][i] =
                 [order_items[o][i] EXCEPT !.commission_settlement_id = Len(settlements) + 1]
        BY <1>7 DEF CreateSettlement
      <4> QED
        BY <4>1, <4>2 DEF SettledApart, OrderItem
    <3> QED
      BY <3>2, <3>3
  <2> QED
    BY <2>1, <2>2 DEF ClosedKept, Frozen, paymentVars
<1> QED
  BY <1>1, <1>2, <1>3, <1>4, <1>5, <1>6, <1>7, StepCases

\* No request, the edits of the agenda included, moves a closed order's
\* lines or payments without reopening it; a cancelled one never moves.
THEOREM ClosedFrozen == Spec => ClosedOrderIsFrozen
<1>1. TypeOK /\ [Next]_vars => [ClosedKept]_vars
  BY ClosedStep
<1> QED
  BY <1>1, TypeCorrect, PTL DEF Spec, ClosedOrderIsFrozen

LEMMA PrefixKept ==
  ASSUME NEW Row, NEW r \in Seq(Row), NEW p \in Seq(Row), NEW new \in Seq(Row)
  PROVE  /\ Len(r \o p) <= Len(r \o (p \o new))
         /\ \A k \in DOMAIN (r \o p) : (r \o (p \o new))[k] = (r \o p)[k]
<1>1. /\ p \o new \in Seq(Row) /\ Len(p \o new) = Len(p) + Len(new)
      /\ \A k \in 1 .. Len(p) : (p \o new)[k] = p[k]
  OBVIOUS
<1>2. /\ DOMAIN (r \o p) = 1 .. Len(r) + Len(p)
      /\ Len(r \o p) = Len(r) + Len(p)
      /\ Len(r \o (p \o new)) = Len(r) + Len(p) + Len(new)
      /\ Len(r) \in Nat /\ Len(p) \in Nat /\ Len(new) \in Nat
  BY <1>1
<1>3. ASSUME NEW k \in 1 .. Len(r) + Len(p)
      PROVE  (r \o (p \o new))[k] = (r \o p)[k]
  BY <1>1, <1>2
<1> QED
  BY <1>2, <1>3

LEMMA HistoryStep ==
  ASSUME TypeOK, [Next]_vars
  PROVE  HistoryKept
<1>1. CASE UNCHANGED paymentVars
  BY <1>1 DEF TypeOK, HistoryKept, PaymentHistory, paymentVars
<1>2. CASE \E S, split, rule : ExactClose(S, split, rule)
  <2> PICK S, split, rule : ExactClose(S, split, rule)
    BY <1>2
  <2> SUFFICES ASSUME NEW o \in Orders
               PROVE  LET before == PaymentHistory(o) IN
                      /\ Len(before) <= Len(PaymentHistory(o)')
                      /\ \A k \in DOMAIN before : PaymentHistory(o)'[k] = before[k]
    BY DEF HistoryKept
  <2>1. payments[o] \in Seq(Payment) /\ reversed[o] \in Seq(Payment)
    BY DEF TypeOK
  <2>2. PICK new \in Seq(Payment) : payments'[o] = payments[o] \o new
    <3>1. CASE o \in S
      BY <3>1 DEF ExactClose, Close
    <3>2. CASE o \notin S
      <4>1. payments'[o] = payments[o] \o <<>> /\ <<>> \in Seq(Payment)
        BY <2>1, <3>2, CloseFrame, ConcatEmptySeq
      <4> QED
        BY <4>1
    <3> QED
      BY <3>1, <3>2
  <2>3. reversed'[o] = reversed[o]
    BY DEF ExactClose, Close
  <2>4. PaymentHistory(o)' = reversed[o] \o (payments[o] \o new)
    BY <2>2, <2>3 DEF PaymentHistory
  <2>5. /\ Len(reversed[o] \o payments[o]) <= Len(reversed[o] \o (payments[o] \o new))
        /\ \A k \in DOMAIN (reversed[o] \o payments[o]) :
             (reversed[o] \o (payments[o] \o new))[k] = (reversed[o] \o payments[o])[k]
    <3>1. \A r, p, q \in Seq(Payment) :
            /\ Len(r \o p) <= Len(r \o (p \o q))
            /\ \A k \in DOMAIN (r \o p) : (r \o (p \o q))[k] = (r \o p)[k]
      BY PrefixKept
    <3> QED
      BY <2>1, <3>1, Zenon
  <2> QED
    BY <2>4, <2>5, Zenon DEF PaymentHistory
<1>3. CASE \E o \in Orders : ReopenOrder(o)
  <2> PICK o \in Orders : ReopenOrder(o)
    BY <1>3
  <2>1. \A x \in Orders : payments[x] \in Seq(Payment) /\ reversed[x] \in Seq(Payment)
    BY DEF TypeOK
  <2>2. payments'[o] = <<>> /\ reversed'[o] = reversed[o] \o payments[o]
    BY DEF ReopenOrder, ReversePayments, TypeOK
  <2>3. PaymentHistory(o)' = PaymentHistory(o)
    <3>1. reversed[o] \o payments[o] \in Seq(Payment)
      BY <2>1, ConcatProperties
    <3> QED
      BY <2>2, <3>1, ConcatEmptySeq DEF PaymentHistory
  <2>4. \A x \in Orders \ {o} : PaymentHistory(x)' = PaymentHistory(x)
    BY ReopenFrame DEF PaymentHistory
  <2>5. ASSUME NEW x \in Orders PROVE Len(PaymentHistory(x)) \in Nat
    <3>1. reversed[x] \o payments[x] \in Seq(Payment)
      BY <2>1, ConcatProperties
    <3> QED
      BY <3>1, LenProperties DEF PaymentHistory
  <2> QED
    BY <2>3, <2>4, <2>5 DEF HistoryKept
<1>4. CASE StatusStep
  BY <1>1, <1>4, StatusStepFrame
<1>5. CASE OrderEdit \/ ItemStep
  <2>1. CASE Orders = {}
    BY <2>1 DEF HistoryKept
  <2>2. CASE Orders # {}
    BY <1>1, <1>5, <2>2, EditReachesOpenOrders
  <2> QED
    BY <2>1, <2>2
<1>6. CASE \E a \in Appointments : CreateOrder(a)
  BY <1>1, <1>6 DEF CreateOrder
<1>7. CASE \E pr \in Professionals, period \in SUBSET Orders : CreateSettlement(pr, period)
  BY <1>1, <1>7 DEF CreateSettlement
<1>8. CASE StockStep \/ RegisterStep \/ NextDay \/ UNCHANGED vars
  BY <1>1, <1>8, QuietStepFrame
<1> QED
  BY <1>2, <1>3, <1>4, <1>5, <1>6, <1>7, <1>8, StepCases

\* Whatever was received stays on record, reversed or not, in its order.
THEOREM PaymentsKept == Spec => PaymentsAppendOnly
<1>1. TypeOK /\ [Next]_vars => [HistoryKept]_vars
  BY HistoryStep
<1> QED
  BY <1>1, TypeCorrect, PTL DEF Spec, PaymentsAppendOnly

-----------------------------------------------------------------------------
(***************************************************************************)
(* Part three: the books.  The ledger of the stock, its links to the       *)
(* product lines, the idempotency keys, the balances, the frozen cash      *)
(* registers and the commission settlements.                               *)
(***************************************************************************)

(***************************************************************************)
(* The ledger of the stock.                                                *)
(***************************************************************************)
LedgerGrows ==
  /\ Len(movements) <= Len(movements')
  /\ DOMAIN movements' = 1 .. Len(movements')
  /\ \A k \in DOMAIN movements : movements'[k] = movements[k]

KeyOf(k) == movements[k].idempotency_key

NewKeys ==
  \/ \A k \in DOMAIN movements' : k \in DOMAIN movements \/ KeyOf(k)' = NoKey
  \/ \A k \in DOMAIN movements' :
       k \in DOMAIN movements
         \/ /\ k = Len(movements) + 1
            /\ \A j \in DOMAIN movements : KeyOf(j) # KeyOf(k)'

LEMMA LedgerExtended ==
  ASSUME TypeOK, NEW n \in Nat, NEW rows \in [1 .. n -> StockMovement],
         movements' = movements \o rows
  PROVE  /\ LedgerGrows
         /\ Len(movements') = Len(movements) + n
         /\ \A k \in 1 .. n : movements'[Len(movements) + k] = rows[k]
<1>1. movements \in Seq(StockMovement) /\ rows \in Seq(StockMovement) /\ Len(rows) = n
  <2>1. movements \in Seq(StockMovement)
    BY DEF TypeOK
  <2> QED
    BY <2>1
<1>2. Len(movements') = Len(movements) + n /\ movements' \in Seq(StockMovement)
  BY <1>1, ConcatProperties
<1>3. \A k \in 1 .. Len(movements) : movements'[k] = movements[k]
  BY <1>1, ConcatProperties
<1>4. \A k \in 1 .. n : movements'[Len(movements) + k] = rows[k]
  BY <1>1, ConcatProperties
<1> QED
  BY <1>1, <1>2, <1>3, <1>4 DEF LedgerGrows

LEMMA RowAppended ==
  ASSUME TypeOK, NEW row \in StockMovement, movements' = Append(movements, row)
  PROVE  /\ LedgerGrows
         /\ DOMAIN movements' = DOMAIN movements \union {Len(movements) + 1}
         /\ movements'[Len(movements) + 1] = row
<1>1. movements \in Seq(StockMovement)
  BY DEF TypeOK
<1> QED
  BY <1>1 DEF LedgerGrows

\* The rows a closing or a reopening writes carry no key.
LEMMA LoopRows ==
  ASSUME TypeOK, NEW T \in SUBSET ProductLines(Orders), NEW visit \in Enumerations(T),
         NEW direction \in {"in", "out"}, NEW rows,
         \/ rows = [k \in 1 .. Len(visit) |->
                      OrderMovement(visit[k], direction, SaleReason(ProductLine(visit[k])))]
         \/ rows = [k \in 1 .. Len(visit) |-> OrderMovement(visit[k], direction, "adjustment")],
         movements' = movements \o rows
  PROVE  /\ LedgerGrows /\ NewKeys
         /\ Len(visit) \in Nat /\ Len(movements') = Len(movements) + Len(visit)
         /\ \A k \in 1 .. Len(visit) : movements'[Len(movements) + k] = rows[k]
<1>1. visit \in Seq(T) /\ Len(visit) \in Nat
  BY VisitType
<1>2. ASSUME NEW k \in 1 .. Len(visit)
      PROVE  rows[k] \in StockMovement /\ rows[k].idempotency_key = NoKey
  <2>1. visit[k] \in ProductLines(Orders)
    BY <1>1
  <2>2. SaleReason(ProductLine(visit[k])) \in {"sale", "internal_use"}
    BY DEF SaleReason
  <2>3. \E reason \in {"sale", "internal_use", "adjustment"} :
          rows[k] = OrderMovement(visit[k], direction, reason)
    BY <2>2
  <2>4. rows[k] \in StockMovement
    BY <2>1, <2>3, OrderMovementType
  <2> QED
    BY <2>3, <2>4 DEF OrderMovement
<1>3. rows \in [1 .. Len(visit) -> StockMovement]
  BY <1>1, <1>2
<1>4. /\ LedgerGrows /\ Len(movements') = Len(movements) + Len(visit)
      /\ \A k \in 1 .. Len(visit) : movements'[Len(movements) + k] = rows[k]
  BY <1>1, <1>3, LedgerExtended
<1>5. ASSUME NEW k \in DOMAIN movements', k \notin DOMAIN movements
      PROVE  KeyOf(k)' = NoKey
  <2>1. DOMAIN movements = 1 .. Len(movements) /\ Len(movements) \in Nat
    BY DEF TypeOK
  <2>2. k \in 1 .. Len(movements) + Len(visit)
    BY <1>4 DEF LedgerGrows
  <2>3. k - Len(movements) \in 1 .. Len(visit) /\ k = Len(movements) + (k - Len(movements))
    BY <1>1, <1>5, <2>1, <2>2
  <2>4. movements'[k] = rows[k - Len(movements)]
    BY <1>4, <2>3
  <2> QED
    BY <1>2, <2>3, <2>4 DEF KeyOf
<1> QED
  BY <1>1, <1>4, <1>5 DEF NewKeys

LEMMA LedgerOfClose ==
  ASSUME TypeOK, NEW S, NEW split, NEW rule, ExactClose(S, split, rule)
  PROVE  LedgerGrows /\ NewKeys
<1>1. Unmoved(S) \in SUBSET ProductLines(Orders)
  BY DEF Unmoved, ProductLines, ExactClose
<1> PICK visit \in Enumerations(Unmoved(S)) :
      movements' = movements \o
        [k \in 1 .. Len(visit) |->
           OrderMovement(visit[k], "out", SaleReason(ProductLine(visit[k])))]
  BY DEF ExactClose, Close
<1> DEFINE T == Unmoved(S)
<1>2. visit \in Enumerations(T) /\ T \in SUBSET ProductLines(Orders)
  BY <1>1
<1> HIDE DEF T
<1> QED
  BY <1>2, LoopRows

LEMMA LedgerOfReopen ==
  ASSUME TypeOK, NEW o \in Orders, ReopenOrder(o)
  PROVE  LedgerGrows /\ NewKeys
<1>1. Moved({o}) \in SUBSET ProductLines(Orders)
  BY DEF Moved, ProductLines
<1> PICK visit \in Enumerations(Moved({o})) :
      movements' = movements \o
        [k \in 1 .. Len(visit) |-> OrderMovement(visit[k], "in", "adjustment")]
  BY DEF ReopenOrder
<1> DEFINE T == Moved({o})
<1>2. visit \in Enumerations(T) /\ T \in SUBSET ProductLines(Orders)
  BY <1>1
<1> HIDE DEF T
<1> QED
  BY <1>2, LoopRows

\* A correction carries a key that the ledger does not hold; a movement
\* entered by hand carries none.
LEMMA LedgerOfStock ==
  ASSUME TypeOK, StockStep
  PROVE  LedgerGrows /\ NewKeys
<1>1. ASSUME NEW o \in Orders, NEW s \in Slots, NEW delta \in Deltas,
             NEW key \in IdempotencyKeys, CorrectConsumption(o, s, delta, key)
      PROVE  LedgerGrows /\ NewKeys
  <2> DEFINE row == [product_id |-> product_items[o][s].product_id,
                     direction |-> IF delta > 0 THEN "out" ELSE "in",
                     reason |-> "adjustment",
                     quantity |-> IF delta > 0 THEN delta ELSE -delta, order_id |-> o,
                     idempotency_key |-> key]
  <2>1. movements' = Append(movements, row) /\ ~Applied(key) /\ row.idempotency_key = key
    BY <1>1 DEF CorrectConsumption
  <2>2. row \in StockMovement
    <3>1. product_items[o][s] \in OrderProductItem
      BY <1>1, ReadRow DEF CorrectConsumption, TypeOK
    <3>2. o \in Nat /\ row.quantity \in Nat \ {0}
      BY InputAssumption, BoundAssumption DEF Orders
    <3>3. product_items[o][s].product_id \in Products
      BY <3>1 DEF OrderProductItem
    <3> QED
      BY <3>2, <3>3 DEF StockMovement
  <2> HIDE DEF row
  <2>3. /\ LedgerGrows /\ DOMAIN movements' = DOMAIN movements \union {Len(movements) + 1}
        /\ movements'[Len(movements) + 1] = row
    BY <2>1, <2>2, RowAppended
  <2>4. \A j \in DOMAIN movements : KeyOf(j) # key
    BY <2>1 DEF Applied, KeyOf
  <2>5. ASSUME NEW k \in DOMAIN movements', k \notin DOMAIN movements
        PROVE  /\ k = Len(movements) + 1
               /\ \A j \in DOMAIN movements : KeyOf(j) # KeyOf(k)'
    <3>1. k = Len(movements) + 1
      BY <2>3, <2>5
    <3>2. KeyOf(k)' = key
      BY <2>1, <2>3, <3>1 DEF KeyOf
    <3> QED
      BY <2>4, <3>1, <3>2
  <2>6. NewKeys
    BY <2>5 DEF NewKeys
  <2> QED
    BY <2>3, <2>6
<1>2. ASSUME NEW p \in Products, NEW direction \in {"in", "out"}, NEW q \in Quantities,
             RecordMovement(p, direction, q)
      PROVE  LedgerGrows /\ NewKeys
  <2> DEFINE row == [product_id |-> p, direction |-> direction, reason |-> "manual",
                     quantity |-> q, order_id |-> 0, idempotency_key |-> NoKey]
  <2>1. movements' = Append(movements, row) /\ row.idempotency_key = NoKey
    BY <1>2 DEF RecordMovement
  <2>2. row \in StockMovement
    BY InputAssumption DEF StockMovement
  <2> HIDE DEF row
  <2>3. /\ LedgerGrows /\ DOMAIN movements' = DOMAIN movements \union {Len(movements) + 1}
        /\ movements'[Len(movements) + 1] = row
    BY <2>1, <2>2, RowAppended
  <2> QED
    BY <2>1, <2>3 DEF NewKeys, KeyOf
<1> QED
  BY <1>1, <1>2 DEF StockStep

LEMMA LedgerStays ==
  ASSUME TypeOK, UNCHANGED movements
  PROVE  LedgerGrows /\ NewKeys
<1>1. DOMAIN movements = 1 .. Len(movements) /\ Len(movements) \in Nat
  BY DEF TypeOK
<1> QED
  BY <1>1 DEF LedgerGrows, NewKeys

LEMMA LedgerStep ==
  ASSUME TypeOK, [Next]_vars
  PROVE  LedgerGrows /\ NewKeys
<1>1. CASE \E a \in Appointments : CreateOrder(a)
  BY <1>1, LedgerStays DEF CreateOrder, stockVars
<1>2. CASE OrderEdit
  BY <1>2, LedgerStays DEF OrderEdit, UpdateOrderItem, UpdateOrderItemBenefit,
     AddProductItem, RemoveProductItem, UpdateProductItem, stockVars
<1>3. CASE ItemStep
  BY <1>3, LedgerStays DEF ItemStep, UpdateAppointmentItem, AddAppointmentItem, stockVars
<1>4. CASE StatusStep
  BY <1>4, LedgerStays, StatusStepFrame DEF stockVars
<1>5. CASE RegisterStep
  BY <1>5, LedgerStays DEF RegisterStep, OpenRegister, RegisterMovement, CloseRegister, stockVars
<1>6. CASE \E pr \in Professionals, period \in SUBSET Orders : CreateSettlement(pr, period)
  BY <1>6, LedgerStays DEF CreateSettlement, stockVars
<1>7. CASE NextDay \/ UNCHANGED vars
  BY <1>7, LedgerStays DEF NextDay, vars, stockVars
<1> QED
  BY <1>1, <1>2, <1>3, <1>4, <1>5, <1>6, <1>7, StepCases, LedgerOfClose,
     LedgerOfReopen, LedgerOfStock

\* services/orders.py, get_by_idempotency_key: a correction retried after a
\* lost answer moves the stock once, among whatever else writes the ledger.
THEOREM KeyCorrect == Spec => []OneCorrectionPerKey
<1>1. Init => OneCorrectionPerKey
  BY DEF Init, OneCorrectionPerKey
<1>2. ASSUME TypeOK, OneCorrectionPerKey, [Next]_vars
      PROVE  OneCorrectionPerKey'
  <2>1. LedgerGrows /\ NewKeys
    BY <1>2, LedgerStep
  <2>2. /\ \A k \in DOMAIN movements : KeyOf(k)' = KeyOf(k)
        /\ \A j, k \in DOMAIN movements : KeyOf(j) = KeyOf(k) /\ KeyOf(j) # NoKey => j = k
    BY <1>2, <2>1 DEF LedgerGrows, KeyOf, OneCorrectionPerKey
  <2>3. ASSUME NEW j \in DOMAIN movements', NEW k \in DOMAIN movements',
               KeyOf(j)' = KeyOf(k)', KeyOf(j)' # NoKey
        PROVE  j = k
    BY <2>1, <2>2, <2>3 DEF NewKeys
  <2> QED
    BY <2>3 DEF OneCorrectionPerKey, KeyOf
<1> QED
  BY <1>1, <1>2, TypeCorrect, PTL DEF Spec

(***************************************************************************)
(* The product lines and the ledger rows they are linked to.               *)
(***************************************************************************)
Line(o, s) == product_items[o][s]
Link(o, s) == Line(o, s).stock_movement_id

\* The row a closing writes for a line.
Withdrawal(o, line) ==
  [product_id |-> line.product_id, direction |-> "out", reason |-> SaleReason(line),
   quantity |-> line.quantity, order_id |-> o, idempotency_key |-> NoKey]

Linked(o) ==
  \A s \in DOMAIN product_items[o] :
    IF order_status[o] = "closed"
    THEN Link(o, s) \in DOMAIN movements /\ movements[Link(o, s)] = Withdrawal(o, Line(o, s))
    ELSE Link(o, s) = 0

OwnRow ==
  \A o, x \in Orders :
    \A s \in DOMAIN product_items[o], t \in DOMAIN product_items[x] :
      Link(o, s) # 0 /\ Link(o, s) = Link(x, t) => o = x /\ s = t

Links == (\A o \in Orders : Linked(o)) /\ OwnRow

LEMMA LineType ==
  ASSUME TypeOK, NEW o \in Orders, NEW s \in DOMAIN product_items[o]
  PROVE  s \in Slots /\ Line(o, s) \in OrderProductItem /\ Link(o, s) \in Nat
<1>1. AreRows(product_items[o], Slots, OrderProductItem)
  BY DEF TypeOK
<1>2. s \in Slots /\ Line(o, s) \in OrderProductItem
  BY <1>1, ReadRow DEF Line
<1> QED
  BY <1>2 DEF Link, OrderProductItem

LEMMA LinksFollow ==
  ASSUME TypeOK, Links
  PROVE  StockFollowsClosing
<1>1. \A x \in ProductLines(Orders) :
        /\ x[1] \in Orders /\ x[2] \in DOMAIN product_items[x[1]]
        /\ x = <<x[1], x[2]>> /\ ProductLine(x) = Line(x[1], x[2])
        /\ ProductLine(x).stock_movement_id = Link(x[1], x[2])
        /\ OrderMovement(x, "out", SaleReason(ProductLine(x))) = Withdrawal(x[1], Line(x[1], x[2]))
  BY DEF ProductLines, ProductLine, Line, Link, OrderMovement, Withdrawal
<1>2. 0 \notin DOMAIN movements
  BY DEF TypeOK
<1>3. ASSUME NEW x \in ProductLines(Orders)
      PROVE  LET id == ProductLine(x).stock_movement_id IN
             /\ id # 0 <=> order_status[x[1]] = "closed"
             /\ id # 0 => /\ id \in DOMAIN movements
                          /\ movements[id] =
                               OrderMovement(x, "out", SaleReason(ProductLine(x)))
  BY <1>1, <1>2 DEF Links, Linked
<1>4. ASSUME NEW x \in Moved(Orders), NEW y \in Moved(Orders),
             ProductLine(x).stock_movement_id = ProductLine(y).stock_movement_id
      PROVE  x = y
  <2>1. /\ x \in ProductLines(Orders) /\ y \in ProductLines(Orders)
        /\ ProductLine(x).stock_movement_id # 0
    BY DEF Moved, Unmoved
  <2> QED
    BY <1>1, <1>4, <2>1 DEF Links, OwnRow
<1> QED
  BY <1>3, <1>4 DEF StockFollowsClosing

\* What is enough of a step that closes nothing: an order stays closed with
\* its lines, or is not closed and its lines are linked to nothing.
Untouched(o) ==
  /\ order_status[o] = "closed" /\ order_status'[o] = "closed"
  /\ product_items'[o] = product_items[o]
Loose(o) ==
  /\ order_status'[o] # "closed"
  /\ \A s \in DOMAIN product_items'[o] : product_items'[o][s].stock_movement_id = 0

LEMMA LinksKept ==
  ASSUME TypeOK, Links, LedgerGrows, \A o \in Orders : Untouched(o) \/ Loose(o)
  PROVE  Links'
<1>1. DOMAIN movements = 1 .. Len(movements) /\ Len(movements) \in Nat
  BY DEF TypeOK
<1>2. \A k \in DOMAIN movements : k \in DOMAIN movements' /\ movements'[k] = movements[k]
  <2>1. ASSUME NEW k \in DOMAIN movements PROVE k \in DOMAIN movements'
    <3>1. Len(movements) <= Len(movements') /\ k \in 1 .. Len(movements)
      BY <1>1 DEF LedgerGrows
    <3> QED
      BY <3>1 DEF LedgerGrows
  <2> QED
    BY <2>1 DEF LedgerGrows
<1>3. ASSUME NEW o \in Orders PROVE Linked(o)'
  <2>1. CASE Untouched(o)
    <3>1. /\ \A s \in DOMAIN product_items[o] :
                Line(o, s)' = Line(o, s) /\ Link(o, s)' = Link(o, s)
          /\ DOMAIN product_items'[o] = DOMAIN product_items[o]
      BY <2>1 DEF Untouched, Line, Link
    <3> QED
      BY <1>2, <2>1, <3>1 DEF Links, Linked, Untouched, Withdrawal, SaleReason
  <2>2. CASE Loose(o)
    BY <2>2 DEF Loose, Linked, Link, Line
  <2> QED
    BY <2>1, <2>2
<1>4. ASSUME NEW o \in Orders, NEW x \in Orders, NEW s \in DOMAIN product_items'[o],
             NEW t \in DOMAIN product_items'[x], Link(o, s)' # 0, Link(o, s)' = Link(x, t)'
      PROVE  o = x /\ s = t
  <2>1. Untouched(o) /\ Untouched(x)
    BY <1>4 DEF Loose, Link, Line
  <2>2. /\ s \in DOMAIN product_items[o] /\ t \in DOMAIN product_items[x]
        /\ Link(o, s) # 0 /\ Link(o, s) = Link(x, t)
    BY <1>4, <2>1 DEF Untouched, Link, Line
  <2> QED
    BY <2>2 DEF Links, OwnRow
<1> QED
  BY <1>3, <1>4 DEF Links, OwnRow

\* What a closing of S writes for a line: row[<<o, s>>] is the number of the
\* ledger row that line s of order o got.
GetsRow(S, row, o, s) ==
  /\ row[<<o, s>>] \in DOMAIN movements' /\ row[<<o, s>>] \notin DOMAIN movements
  /\ Link(o, s)' = row[<<o, s>>]
  /\ movements'[row[<<o, s>>]] = Withdrawal(o, Line(o, s)')
  /\ \A x \in S : \A t \in DOMAIN product_items[x] :
       row[<<o, s>>] = row[<<x, t>>] => o = x /\ s = t

LEMMA VisitedLine ==
  ASSUME TypeOK, Links, NEW S, NEW split, NEW rule, ExactClose(S, split, rule)
  PROVE  \E row : \A o \in S : \A s \in DOMAIN product_items[o] : GetsRow(S, row, o, s)
<1>1. Unmoved(S) \in SUBSET ProductLines(Orders)
  BY DEF Unmoved, ProductLines, ExactClose
<1> PICK visit \in Enumerations(Unmoved(S)) :
      /\ movements' = movements \o
           [k \in 1 .. Len(visit) |->
              OrderMovement(visit[k], "out", SaleReason(ProductLine(visit[k])))]
      /\ product_items' = LinkMovements(visit, Len(movements))
  BY DEF ExactClose, Close
<1> DEFINE rows == [k \in 1 .. Len(visit) |->
                      OrderMovement(visit[k], "out", SaleReason(ProductLine(visit[k])))]
           T == Unmoved(S)
           n == Len(movements)
           row == [x \in ProductLines(S) |-> n + Position(visit, x)]
<1>2. visit \in Enumerations(T) /\ T \in SUBSET ProductLines(Orders) /\ movements' = movements \o rows
  BY <1>1
<1>3. rows = [k \in 1 .. Len(visit) |->
                OrderMovement(visit[k], "out", SaleReason(ProductLine(visit[k])))]
  OBVIOUS
<1>4. T = ProductLines(S)
  <2>1. S \in SUBSET Orders /\ \A o \in S : order_status[o] = "open"
    BY DEF ExactClose, Close
  <2>2. ASSUME NEW x \in ProductLines(S) PROVE ProductLine(x).stock_movement_id = 0
    <3>1. x[1] \in S /\ x[2] \in DOMAIN product_items[x[1]]
      BY DEF ProductLines
    <3> QED
      BY <2>1, <3>1 DEF Links, Linked, ProductLine, Link, Line
  <2> QED
    BY <2>2 DEF Unmoved
<1> HIDE DEF rows, T
<1>5. /\ Len(visit) \in Nat /\ Len(movements') = n + Len(visit) /\ LedgerGrows
      /\ \A k \in 1 .. Len(visit) : movements'[n + k] = rows[k]
  BY <1>2, <1>3, LoopRows
<1>6. Range(visit) = T /\ visit \in Seq(T)
  BY <1>2, VisitType
<1>7. n \in Nat /\ DOMAIN movements = 1 .. n
  BY DEF TypeOK
<1>8. \A x \in T : Position(visit, x) \in 1 .. Len(visit) /\ visit[Position(visit, x)] = x
  BY <1>6 DEF Position, Range
<1>9. ASSUME NEW o \in S, NEW s \in DOMAIN product_items[o]
      PROVE  GetsRow(S, row, o, s)
  <2>0. \A x \in S : \A t \in DOMAIN product_items[x] : t \in Slots
    BY LineType DEF ExactClose
  <2>1. \A x \in S : \A t \in DOMAIN product_items[x] : <<x, t>> \in T
    BY <1>4, <2>0 DEF ProductLines
  <2> DEFINE p == Position(visit, <<o, s>>)
  <2>2. p \in 1 .. Len(visit) /\ visit[p] = <<o, s>> /\ row[<<o, s>>] = n + p
    BY <1>4, <1>8, <2>1
  <2>3. n + p \in DOMAIN movements' /\ n + p \notin DOMAIN movements
    BY <1>5, <1>7, <2>2 DEF LedgerGrows
  <2>4. Link(o, s)' = n + p /\ Withdrawal(o, Line(o, s)') = Withdrawal(o, Line(o, s))
    <3>1. <<o, s>> \in Range(visit) /\ o \in Orders
      BY <1>6, <2>1 DEF ExactClose
    <3>2. Line(o, s)' = [Line(o, s) EXCEPT !.stock_movement_id = n + p]
      BY <3>1 DEF Line, LinkMovements
    <3>3. Line(o, s) \in OrderProductItem
      BY <3>1, LineType
    <3>4. /\ Line(o, s)'.stock_movement_id = n + p
          /\ Line(o, s)'.product_id = Line(o, s).product_id
          /\ Line(o, s)'.quantity = Line(o, s).quantity
          /\ Line(o, s)'.item_type = Line(o, s).item_type
      BY <3>2, <3>3 DEF OrderProductItem
    <3> QED
      BY <3>4 DEF Link, Withdrawal, SaleReason
  <2>5. movements'[n + p] = Withdrawal(o, Line(o, s)')
    <3>1. movements'[n + p] = OrderMovement(<<o, s>>, "out", SaleReason(ProductLine(<<o, s>>)))
      BY <1>3, <1>5, <2>2
    <3> QED
      BY <2>4, <3>1 DEF OrderMovement, Withdrawal, ProductLine, Line
  <2>6. ASSUME NEW x \in S, NEW t \in DOMAIN product_items[x], row[<<o, s>>] = row[<<x, t>>]
        PROVE  o = x /\ s = t
    <3>1. row[<<x, t>>] = n + Position(visit, <<x, t>>)
      BY <1>4, <2>1
    <3>2. /\ Position(visit, <<x, t>>) \in 1 .. Len(visit)
          /\ visit[Position(visit, <<x, t>>)] = <<x, t>>
      BY <1>8, <2>1
    <3>3. n + p = n + Position(visit, <<x, t>>)
      BY <2>2, <2>6, <3>1
    <3> DEFINE y == Position(visit, <<x, t>>)
    <3>4. p = y
      <4>1. n \in Nat
        BY <1>7
      <4>2. p \in 1 .. Len(visit)
        BY <2>2
      <4>3. y \in 1 .. Len(visit)
        BY <3>2
      <4>4. n + p = n + y
        BY <3>3
      <4> HIDE DEF n, p, y
      <4> QED
        BY <4>1, <4>2, <4>3, <4>4
    <3>5. <<o, s>> = <<x, t>>
      BY <2>2, <3>2, <3>4
    <3> QED
      BY <3>5
  <2> QED
    BY <2>2, <2>3, <2>4, <2>5, <2>6 DEF GetsRow
<1> HIDE DEF row
<1> QED
  BY <1>9

LEMMA LinksOfClose ==
  ASSUME TypeOK, Links, NEW S, NEW split, NEW rule, ExactClose(S, split, rule)
  PROVE  Links'
<1> PICK row : \A o \in S : \A s \in DOMAIN product_items[o] : GetsRow(S, row, o, s)
  BY VisitedLine
<1>1. /\ S \in SUBSET Orders
      /\ \A o \in Orders : order_status'[o] = IF o \in S THEN "closed" ELSE order_status[o]
  BY DEF ExactClose, Close
<1>2. /\ LedgerGrows
      /\ \A k \in DOMAIN movements : k \in DOMAIN movements' /\ movements'[k] = movements[k]
  <2>1. LedgerGrows
    BY LedgerOfClose
  <2>2. DOMAIN movements = 1 .. Len(movements) /\ Len(movements) \in Nat
    BY DEF TypeOK
  <2> QED
    BY <2>1, <2>2 DEF LedgerGrows
<1>3. \A o \in Orders : DOMAIN product_items'[o] = DOMAIN product_items[o]
  BY DEF ExactClose, Close, LinkMovements
<1>4. \A o \in Orders \ S : product_items'[o] = product_items[o]
  BY CloseFrame
<1>5. ASSUME NEW o \in S, NEW s \in DOMAIN product_items[o]
      PROVE  /\ Link(o, s)' \in DOMAIN movements' /\ Link(o, s)' \notin DOMAIN movements
             /\ movements'[Link(o, s)'] = Withdrawal(o, Line(o, s)')
             /\ \A x \in S : \A t \in DOMAIN product_items[x] :
                  Link(o, s)' = Link(x, t)' => o = x /\ s = t
  <2>1. GetsRow(S, row, o, s)
    OBVIOUS
  <2>2. \A x \in S : \A t \in DOMAIN product_items[x] : Link(x, t)' = row[<<x, t>>]
    BY DEF GetsRow
  <2> QED
    BY <2>1, <2>2 DEF GetsRow
<1>6. ASSUME NEW o \in Orders PROVE Linked(o)'
  <2>1. CASE o \in S
    <3>1. order_status'[o] = "closed"
      BY <1>1, <2>1
    <3> QED
      BY <1>3, <1>5, <2>1, <3>1 DEF Linked, Withdrawal, SaleReason
  <2>2. CASE o \notin S
    <3>1. /\ order_status'[o] = order_status[o]
          /\ \A s : Line(o, s)' = Line(o, s) /\ Link(o, s)' = Link(o, s)
      BY <1>1, <1>4, <2>2 DEF Line, Link
    <3> QED
      BY <1>2, <1>3, <3>1 DEF Links, Linked, Withdrawal, SaleReason
  <2> QED
    BY <2>1, <2>2
<1>7. \A o \in Orders \ S : \A s \in DOMAIN product_items[o] :
        /\ Link(o, s)' = Link(o, s)
        /\ Link(o, s) # 0 => Link(o, s) \in DOMAIN movements
  BY <1>4 DEF Link, Line, Links, Linked
<1>8. \A o \in S : \A s \in DOMAIN product_items[o] : Link(o, s)' \notin DOMAIN movements
  BY <1>5
<1>9. ASSUME NEW o \in Orders, NEW x \in Orders, NEW s \in DOMAIN product_items[o],
             NEW t \in DOMAIN product_items[x], Link(o, s)' # 0, Link(o, s)' = Link(x, t)'
      PROVE  o = x /\ s = t
  <2>1. CASE o \in S /\ x \in S
    BY <1>5, <1>9, <2>1
  <2>2. CASE o \notin S /\ x \notin S
    BY <1>7, <1>9, <2>2 DEF Links, OwnRow
  <2>3. CASE o \in S /\ x \notin S
    BY <1>7, <1>8, <1>9, <2>3
  <2>4. CASE o \notin S /\ x \in S
    BY <1>7, <1>8, <1>9, <2>4
  <2> QED
    BY <2>1, <2>2, <2>3, <2>4
<1> QED
  BY <1>3, <1>6, <1>9 DEF Links, OwnRow

LEMMA LinksOfReopen ==
  ASSUME TypeOK, Links, NEW o \in Orders, ReopenOrder(o)
  PROVE  Links'
<1>1. LedgerGrows
  BY LedgerOfReopen
<1>2. Loose(o)
  <2>1. order_status'[o] = "open"
    BY DEF ReopenOrder, TypeOK
  <2>2. product_items'[o] = [s \in DOMAIN product_items[o] |-> Unlinked(product_items[o][s])]
    BY DEF ReopenOrder, TypeOK
  <2>3. ASSUME NEW s \in DOMAIN product_items[o]
        PROVE  Unlinked(product_items[o][s]).stock_movement_id = 0
    <3>1. product_items[o][s] \in OrderProductItem
      BY LineType DEF Line
    <3> QED
      BY <3>1 DEF Unlinked, OrderProductItem
  <2> QED
    BY <2>1, <2>2, <2>3 DEF Loose
<1>3. \A x \in Orders \ {o} : Untouched(x) \/ Loose(x)
  BY ReopenFrame DEF Links, Linked, Link, Line, Untouched, Loose
<1> QED
  BY <1>1, <1>2, <1>3, LinksKept

\* An edit of the lines of an open order links none of them.
LEMMA LinksOfEdit ==
  ASSUME TypeOK, Links, OrderEdit, NEW o \in Orders
  PROVE  Untouched(o) \/ Loose(o)
<1>1. /\ order_status'[o] = order_status[o]
      /\ order_status[o] = "open" \/ product_items'[o] = product_items[o]
  BY EditReachesOpenOrders
<1>2. CASE product_items'[o] = product_items[o]
  BY <1>1, <1>2 DEF Links, Linked, Link, Line, Untouched, Loose
<1>3. ASSUME order_status[o] = "open", NEW t \in DOMAIN product_items'[o]
      PROVE  product_items'[o][t].stock_movement_id = 0
  <2>1. \A s \in DOMAIN product_items[o] :
          /\ product_items[o][s] \in OrderProductItem
          /\ product_items[o][s].stock_movement_id = 0
    BY <1>3, LineType DEF Links, Linked, Link, Line
  <2>2. CASE \E x \in Orders, i \in Items :
               \/ \E price \in Prices : UpdateOrderItem(x, i, price)
               \/ \E amount \in Benefits : UpdateOrderItemBenefit(x, i, amount)
    BY <1>3, <2>1, <2>2 DEF UpdateOrderItem, UpdateOrderItemBenefit
  <2>3. ASSUME NEW x \in Orders, NEW s \in Slots,
               NEW line \in [product_id : Products, quantity : Quantities,
                             unit_price : UnitPrices, item_type : ItemTypes,
                             stock_movement_id : {0}],
               AddProductItem(x, s, line)
        PROVE  product_items'[o][t].stock_movement_id = 0
    BY <1>3, <2>1, <2>3 DEF AddProductItem, TypeOK
  <2>4. ASSUME NEW x \in Orders, NEW s \in Slots, RemoveProductItem(x, s)
        PROVE  product_items'[o][t].stock_movement_id = 0
    BY <1>3, <2>1, <2>4 DEF RemoveProductItem, Restrict, TypeOK
  <2>5. ASSUME NEW x \in Orders, NEW s \in Slots, NEW q \in Quantities, NEW u \in UnitPrices,
               UpdateProductItem(x, s, q, u)
        PROVE  product_items'[o][t].stock_movement_id = 0
    <3> DEFINE row == [product_items[x][s] EXCEPT !.quantity = q, !.unit_price = u]
    <3>1. product_items' = [product_items EXCEPT ![x][s] = row] /\ s \in DOMAIN product_items[x]
      BY <2>5 DEF UpdateProductItem
    <3>2. x = o => row.stock_movement_id = 0
      BY <2>1, <3>1 DEF OrderProductItem
    <3> HIDE DEF row
    <3> QED
      BY <1>3, <2>1, <3>1, <3>2 DEF TypeOK
  <2> QED
    BY <2>2, <2>3, <2>4, <2>5 DEF OrderEdit
<1> QED
  BY <1>1, <1>2, <1>3 DEF Loose

LEMMA LinksStep ==
  ASSUME TypeOK, Links, [Next]_vars
  PROVE  Links'
<1>0. LedgerGrows
  BY LedgerStep
<1>1. CASE \E a \in Appointments : CreateOrder(a)
  <2> PICK a \in Appointments, n \in Orders : CreateOrder(a)!(n)
    BY <1>1 DEF CreateOrder
  <2>1. order_status[n] = "none"
    BY BoundAssumption DEF Orders
  <2>2. /\ order_status'[n] = "open" /\ product_items' = product_items
        /\ \A o \in Orders \ {n} : order_status'[o] = order_status[o]
    BY DEF TypeOK
  <2> QED
    BY <1>0, <2>1, <2>2, LinksKept DEF Links, Linked, Link, Line, Untouched, Loose
<1>2. CASE OrderEdit
  BY <1>0, <1>2, LinksOfEdit, LinksKept
<1>3. CASE ItemStep \/ (\E pr \in Professionals, period \in SUBSET Orders : CreateSettlement(pr, period))
  <2>1. UNCHANGED <<order_status, product_items>>
    BY <1>3 DEF ItemStep, UpdateAppointmentItem, AddAppointmentItem, CreateSettlement
  <2> QED
    BY <1>0, <2>1, LinksKept DEF Links, Linked, Link, Line, Untouched, Loose
<1>4. CASE StatusStep
  <2>1. /\ product_items' = product_items
        /\ \A o \in Orders : \/ order_status'[o] = order_status[o]
                             \/ order_status[o] = "open" /\ order_status'[o] = "cancelled"
    BY <1>4, StatusStepFrame
  <2> QED
    BY <1>0, <2>1, LinksKept DEF Links, Linked, Link, Line, Untouched, Loose
<1>5. CASE StockStep \/ RegisterStep \/ NextDay \/ UNCHANGED vars
  <2>1. UNCHANGED <<order_status, product_items>>
    BY <1>5, QuietStepFrame DEF orderVars
  <2> QED
    BY <1>0, <2>1, LinksKept DEF Links, Linked, Link, Line, Untouched, Loose
<1> QED
  BY <1>1, <1>2, <1>3, <1>4, <1>5, StepCases, LinksOfClose, LinksOfReopen

\* services/orders.py, the assert of remove_product_item: through closings,
\* reopenings, edits and corrections a product line is linked to a ledger row,
\* its own, exactly while its order is closed.
THEOREM StockCorrect == Spec => []StockFollowsClosing
<1>1. Init => Links
  BY DEF Init, Links, Linked, OwnRow, NoRows
<1>2. TypeOK /\ Links /\ [Next]_vars => Links'
  BY LinksStep
<1>3. TypeOK /\ Links => StockFollowsClosing
  BY LinksFollow
<1> QED
  BY <1>1, <1>2, <1>3, TypeCorrect, PTL DEF Spec

(***************************************************************************)
(* The frozen registers.  The sums stay opaque: equal functions have       *)
(* equal sums.                                                             *)
(***************************************************************************)
\* The payments that point at a register are the same ones, in place.
SamePayments(r) ==
  \A o \in Orders, k \in Nat :
    /\ k \in DOMAIN payments[o] /\ payments[o][k].cash_register_id = r
         => k \in DOMAIN payments'[o] /\ payments'[o][k] = payments[o][k]
    /\ k \in DOMAIN payments'[o] /\ payments'[o][k].cash_register_id = r
         => k \in DOMAIN payments[o] /\ payments'[o][k] = payments[o][k]

LEMMA PaymentPositions ==
  ASSUME TypeOK, NEW o \in Orders
  PROVE  /\ payments[o] \in Seq(Payment) /\ Len(payments[o]) \in Nat
         /\ DOMAIN payments[o] = 1 .. Len(payments[o])
  BY DEF TypeOK

LEMMA BalanceKept ==
  ASSUME TypeOK, TypeOK', NEW r \in Registers, SamePayments(r), cash_net'[r] = cash_net[r]
  PROVE  ExpectedCashBalance(r)' = ExpectedCashBalance(r)
<1>1. \A x : x \in CashPayments(r) <=>
        \E o \in Orders, k \in Nat :
          /\ x = <<o, k>> /\ k \in DOMAIN payments[o]
          /\ payments[o][k].method = CASH /\ payments[o][k].cash_register_id = r
  BY PaymentPositions DEF CashPayments
<1>2. \A x : x \in CashPayments(r)' <=>
        \E o \in Orders, k \in Nat :
          /\ x = <<o, k>> /\ k \in DOMAIN payments'[o]
          /\ payments'[o][k].method = CASH /\ payments'[o][k].cash_register_id = r
  <2>1. \A o \in Orders : DOMAIN payments'[o] \subseteq Nat
    BY DEF TypeOK
  <2> QED
    BY <2>1 DEF CashPayments
<1>3. CashPayments(r)' = CashPayments(r)
  <2>1. ASSUME NEW x \in CashPayments(r) PROVE x \in CashPayments(r)'
    <3>1. PICK o \in Orders, k \in Nat :
            /\ x = <<o, k>> /\ k \in DOMAIN payments[o]
            /\ payments[o][k].method = CASH /\ payments[o][k].cash_register_id = r
      BY <1>1
    <3>2. k \in DOMAIN payments'[o] /\ payments'[o][k] = payments[o][k]
      BY <3>1 DEF SamePayments
    <3> QED
      BY <1>2, <3>1, <3>2
  <2>2. ASSUME NEW x \in CashPayments(r)' PROVE x \in CashPayments(r)
    <3>1. PICK o \in Orders, k \in Nat :
            /\ x = <<o, k>> /\ k \in DOMAIN payments'[o]
            /\ payments'[o][k].method = CASH /\ payments'[o][k].cash_register_id = r
      BY <1>2
    <3>2. k \in DOMAIN payments[o] /\ payments'[o][k] = payments[o][k]
      BY <3>1 DEF SamePayments
    <3> QED
      BY <1>1, <3>1, <3>2
  <2> QED
    BY <2>1, <2>2
<1>4. \A x \in CashPayments(r) : payments'[x[1]][x[2]].amount = payments[x[1]][x[2]].amount
  BY <1>1 DEF SamePayments
<1>5. [x \in CashPayments(r)' |-> payments'[x[1]][x[2]].amount]
        = [x \in CashPayments(r) |-> payments[x[1]][x[2]].amount]
  BY <1>3, <1>4
<1> QED
  BY <1>5 DEF ExpectedCashBalance

\* Neither a closing nor a reopening reaches a register that is not open.
LEMMA PaymentsOfClose ==
  ASSUME TypeOK, NEW S, NEW split, NEW rule, ExactClose(S, split, rule),
         NEW r \in Registers, register_status[r] # "open"
  PROVE  SamePayments(r)
<1> SUFFICES ASSUME NEW o \in Orders, NEW k \in Nat
             PROVE  /\ k \in DOMAIN payments[o] /\ payments[o][k].cash_register_id = r
                         => k \in DOMAIN payments'[o] /\ payments'[o][k] = payments[o][k]
                    /\ k \in DOMAIN payments'[o] /\ payments'[o][k].cash_register_id = r
                         => k \in DOMAIN payments[o] /\ payments'[o][k] = payments[o][k]
  BY DEF SamePayments
<1>1. CASE o \notin S
  BY <1>1, CloseFrame
<1>2. CASE o \in S
  <2> DEFINE pays == split[o]
             before == payments[o]
  <2>1. /\ pays \in Seq(Payment) /\ AtOpenRegisters(pays)
        /\ payments'[o] = before \o pays
    BY <1>2 DEF ExactClose, Close
  <2>2. before \in Seq(Payment)
    BY DEF TypeOK
  <2> HIDE DEF pays, before
  <2>3. /\ before \o pays \in Seq(Payment) /\ Len(before \o pays) = Len(before) + Len(pays)
        /\ \A j \in 1 .. Len(before) + Len(pays) :
             (before \o pays)[j] = IF j <= Len(before) THEN before[j] ELSE pays[j - Len(before)]
    BY <2>1, <2>2, ConcatProperties
  <2>4. \A j \in DOMAIN pays : pays[j].cash_register_id # r
    BY <2>1 DEF AtOpenRegisters
  <2>5. /\ DOMAIN before = 1 .. Len(before) /\ Len(before) \in Nat
        /\ DOMAIN pays = 1 .. Len(pays) /\ Len(pays) \in Nat
        /\ DOMAIN (before \o pays) = 1 .. Len(before) + Len(pays)
    BY <2>1, <2>2, <2>3
  <2>6. k \in DOMAIN before => k \in DOMAIN (before \o pays) /\ (before \o pays)[k] = before[k]
    BY <2>3, <2>5
  <2>7. ASSUME k \in DOMAIN (before \o pays), (before \o pays)[k].cash_register_id = r
        PROVE  k \in DOMAIN before
    <3>1. CASE k <= Len(before)
      BY <2>5, <2>7, <3>1
    <3>2. CASE ~(k <= Len(before))
      <4>1. k - Len(before) \in DOMAIN pays /\ (before \o pays)[k] = pays[k - Len(before)]
        BY <2>3, <2>5, <2>7, <3>2
      <4> QED
        BY <2>4, <2>7, <4>1
    <3> QED
      BY <3>1, <3>2
  <2> QED
    BY <2>1, <2>6, <2>7 DEF before
<1> QED
  BY <1>1, <1>2

LEMMA PaymentsOfReopen ==
  ASSUME TypeOK, NEW o \in Orders, ReopenOrder(o),
         NEW r \in Registers, register_status[r] # "open"
  PROVE  SamePayments(r)
<1>1. payments'[o] = <<>> /\ \A k \in DOMAIN payments[o] : payments[o][k].cash_register_id # r
  BY DEF ReopenOrder, AtOpenRegisters, TypeOK
<1>2. \A x \in Orders \ {o} : payments'[x] = payments[x]
  BY ReopenFrame
<1> QED
  BY <1>1, <1>2 DEF SamePayments

LEMMA FrozenStep ==
  ASSUME TypeOK, TypeOK', FrozenRegister, [Next]_vars
  PROVE  FrozenRegister'
<1> SUFFICES ASSUME NEW r \in Registers, register_status'[r] = "closed"
             PROVE  expected_amount'[r] = ExpectedCashBalance(r)'
  BY DEF FrozenRegister
<1>1. CASE UNCHANGED <<registerVars, payments>>
  <2>1. SamePayments(r)
    BY <1>1 DEF SamePayments
  <2> QED
    BY <1>1, <2>1, BalanceKept DEF registerVars, FrozenRegister
<1>2. CASE RegisterStep
  <2>0. SamePayments(r)
    BY <1>2 DEF RegisterStep, OpenRegister, RegisterMovement, CloseRegister, paymentVars, SamePayments
  <2>1. \/ /\ register_status[r] = "closed" /\ cash_net'[r] = cash_net[r]
           /\ expected_amount'[r] = expected_amount[r]
        \/ expected_amount'[r] = ExpectedCashBalance(r) /\ cash_net'[r] = cash_net[r]
    BY <1>2 DEF TypeOK, RegisterStep, OpenRegister, RegisterMovement, CloseRegister
  <2> QED
    BY <2>0, <2>1, BalanceKept DEF FrozenRegister
<1>3. ASSUME NEW S, NEW split, NEW rule, ExactClose(S, split, rule)
      PROVE  expected_amount'[r] = ExpectedCashBalance(r)'
  <2>1. UNCHANGED registerVars
    BY <1>3 DEF ExactClose, Close
  <2>2. register_status[r] = "closed"
    BY <2>1 DEF registerVars
  <2>3. SamePayments(r)
    BY <1>3, <2>2, PaymentsOfClose
  <2> QED
    BY <2>1, <2>2, <2>3, BalanceKept DEF registerVars, FrozenRegister
<1>4. ASSUME NEW o \in Orders, ReopenOrder(o)
      PROVE  expected_amount'[r] = ExpectedCashBalance(r)'
  <2>1. UNCHANGED registerVars
    BY <1>4 DEF ReopenOrder
  <2>2. register_status[r] = "closed"
    BY <2>1 DEF registerVars
  <2>3. SamePayments(r)
    BY <1>4, <2>2, PaymentsOfReopen
  <2> QED
    BY <2>1, <2>2, <2>3, BalanceKept DEF registerVars, FrozenRegister
<1>5. CASE \E a \in Appointments : CreateOrder(a)
  BY <1>1, <1>5 DEF CreateOrder, paymentVars
<1>6. CASE OrderEdit \/ ItemStep
  <2>1. UNCHANGED <<registerVars, payments>>
    BY <1>6 DEF OrderEdit, UpdateOrderItem, UpdateOrderItemBenefit, AddProductItem,
       RemoveProductItem, UpdateProductItem, ItemStep, UpdateAppointmentItem,
       AddAppointmentItem, paymentVars
  <2> QED
    BY <1>1, <2>1
<1>7. CASE StatusStep
  BY <1>1, <1>7, StatusStepFrame DEF paymentVars
<1>8. CASE StockStep
  BY <1>1, <1>8, StockStepFrame DEF paymentVars
<1>9. CASE \E pr \in Professionals, period \in SUBSET Orders : CreateSettlement(pr, period)
  BY <1>1, <1>9 DEF CreateSettlement, paymentVars
<1>10. CASE NextDay \/ UNCHANGED vars
  BY <1>1, <1>10 DEF NextDay, vars, paymentVars
<1> QED
  BY <1>2, <1>3, <1>4, <1>5, <1>6, <1>7, <1>8, <1>9, <1>10, StepCases

\* services/cash_register.py, close_register: the amount frozen at the closing
\* of a register stays what its payments and movements add up to; closings and
\* reopenings of orders reach open registers only.
THEOREM FrozenCorrect == Spec => []FrozenRegister
<1>1. Init => FrozenRegister
  BY DEF Init, FrozenRegister
<1>2. TypeOK /\ TypeOK' /\ FrozenRegister /\ [Next]_vars => FrozenRegister'
  BY FrozenStep
<1> QED
  BY <1>1, <1>2, TypeCorrect, PTL DEF Spec

(***************************************************************************)
(* The settlements.                                                        *)
(***************************************************************************)
Service(o, i) == order_items[o][i]
SettledBy(o, i) == Service(o, i).commission_settlement_id

\* The lines a settlement pays, and what they hold.
PaidBy(id) == {x \in OrderLines : OrderLine(x).commission_settlement_id = id}

LEMMA ServiceRow ==
  ASSUME TypeOK, NEW o \in Orders, NEW i \in DOMAIN order_items[o]
  PROVE  i \in Items /\ Service(o, i) \in OrderItem /\ SettledBy(o, i) \in Nat
<1>1. AreRows(order_items[o], Items, OrderItem)
  BY DEF TypeOK
<1>2. i \in Items /\ Service(o, i) \in OrderItem
  BY <1>1, ReadRow DEF Service
<1> QED
  BY <1>2 DEF SettledBy, OrderItem

\* An order that keeps its services and its status; an order none of whose
\* services is settled, before or after.
KeepsServices(o) ==
  order_items'[o] = order_items[o] /\ order_status'[o] = order_status[o]
Unpaid(o) ==
  /\ \A i \in DOMAIN order_items[o] : order_items[o][i].commission_settlement_id = 0
  /\ \A i \in DOMAIN order_items'[o] : order_items'[o][i].commission_settlement_id = 0

LEMMA OpenIsUnpaid ==
  ASSUME TypeOK, SettlementBacked, NEW o \in Orders, order_status[o] # "closed"
  PROVE  \A i \in DOMAIN order_items[o] : order_items[o][i].commission_settlement_id = 0
<1> SUFFICES ASSUME NEW i \in DOMAIN order_items[o], order_items[o][i].commission_settlement_id # 0
             PROVE  FALSE
  OBVIOUS
<1>1. <<o, i>> \in OrderLines
  BY ServiceRow DEF OrderLines
<1> QED
  BY <1>1 DEF SettlementBacked, OrderLine

LEMMA BackingKept ==
  ASSUME TypeOK, TypeOK', SettlementBacked, UNCHANGED settlements,
         \A o \in Orders : KeepsServices(o) \/ Unpaid(o)
  PROVE  SettlementBacked'
<1>1. ASSUME NEW x \in OrderLines', OrderLine(x)'.commission_settlement_id # 0
      PROVE  /\ x \in OrderLines /\ OrderLine(x)' = OrderLine(x)
             /\ order_status'[x[1]] = order_status[x[1]]
  <2>1. x[1] \in Orders /\ x[2] \in DOMAIN order_items'[x[1]]
    BY DEF OrderLines
  <2>2. KeepsServices(x[1])
    BY <1>1, <2>1 DEF Unpaid, OrderLine
  <2> QED
    BY <2>1, <2>2 DEF KeepsServices, OrderLines, OrderLine
<1>2. ASSUME NEW x \in OrderLines, OrderLine(x).commission_settlement_id # 0
      PROVE  x \in OrderLines' /\ OrderLine(x)' = OrderLine(x)
  <2>1. x[1] \in Orders /\ x[2] \in DOMAIN order_items[x[1]]
    BY DEF OrderLines
  <2>2. KeepsServices(x[1])
    BY <1>2, <2>1 DEF Unpaid, OrderLine
  <2> QED
    BY <2>1, <2>2 DEF KeepsServices, OrderLines, OrderLine
<1>3. \A x \in OrderLines' :
        LET id == OrderLine(x)'.commission_settlement_id IN
        id # 0 => /\ id \in DOMAIN settlements'
                  /\ order_status'[x[1]] = "closed"
                  /\ OrderLine(x)'.commission_status = "calculated"
                  /\ settlements'[id].professional_id = OrderLine(x)'.professional_id
  BY <1>1 DEF SettlementBacked
<1>4. ASSUME NEW id \in DOMAIN settlements
      PROVE  /\ PaidBy(id)' = PaidBy(id)
             /\ [x \in PaidBy(id)' |-> OrderLine(x)'.price] = [x \in PaidBy(id) |-> OrderLine(x).price]
             /\ [x \in PaidBy(id)' |-> OrderLine(x)'.commission_amount]
                  = [x \in PaidBy(id) |-> OrderLine(x).commission_amount]
  <2>1. id # 0
    BY DEF TypeOK
  <2>2. PaidBy(id)' = PaidBy(id)
    <3>1. ASSUME NEW x \in PaidBy(id) PROVE x \in PaidBy(id)'
      BY <1>2, <2>1 DEF PaidBy
    <3>2. ASSUME NEW x \in PaidBy(id)' PROVE x \in PaidBy(id)
      BY <1>1, <2>1 DEF PaidBy
    <3> QED
      BY <3>1, <3>2
  <2>3. \A x \in PaidBy(id) : OrderLine(x)' = OrderLine(x)
    BY <1>2, <2>1 DEF PaidBy
  <2> QED
    BY <2>2, <2>3
<1>5. \A id \in DOMAIN settlements' :
        /\ PaidBy(id)' # {}
        /\ settlements'[id].production_total = SumFunction([x \in PaidBy(id)' |-> OrderLine(x)'.price])
        /\ settlements'[id].commission_total =
             SumFunction([x \in PaidBy(id)' |-> OrderLine(x)'.commission_amount])
  <2>1. \A id \in DOMAIN settlements :
          /\ PaidBy(id) # {}
          /\ settlements[id].production_total = SumFunction([x \in PaidBy(id) |-> OrderLine(x).price])
          /\ settlements[id].commission_total =
               SumFunction([x \in PaidBy(id) |-> OrderLine(x).commission_amount])
    BY DEF SettlementBacked, PaidBy
  <2> QED
    BY <1>4, <2>1
<1> QED
  BY <1>3, <1>5 DEF SettlementBacked, PaidBy

\* The lines a new settlement takes had none, and no other line changes.
LEMMA SettlesPending ==
  ASSUME TypeOK, NEW pr \in Professionals, NEW period \in SUBSET Orders,
         CreateSettlement(pr, period)
  PROVE  /\ OrderLines' = OrderLines
         /\ \A x \in OrderLines :
              /\ OrderLine(x)'.price = OrderLine(x).price
              /\ OrderLine(x)'.commission_amount = OrderLine(x).commission_amount
              /\ OrderLine(x)'.commission_status = OrderLine(x).commission_status
              /\ OrderLine(x)'.professional_id = OrderLine(x).professional_id
              /\ OrderLine(x)'.commission_settlement_id =
                   IF x \in PendingLines(pr, period) THEN Len(settlements) + 1
                   ELSE OrderLine(x).commission_settlement_id
<1>1. OrderLines' = OrderLines
  <2>1. \A o \in Orders : DOMAIN order_items'[o] = DOMAIN order_items[o]
    BY DEF CreateSettlement
  <2> QED
    BY <2>1 DEF OrderLines
<1>2. ASSUME NEW x \in OrderLines
      PROVE  /\ OrderLine(x)'.price = OrderLine(x).price
             /\ OrderLine(x)'.commission_amount = OrderLine(x).commission_amount
             /\ OrderLine(x)'.commission_status = OrderLine(x).commission_status
             /\ OrderLine(x)'.professional_id = OrderLine(x).professional_id
             /\ OrderLine(x)'.commission_settlement_id =
                  IF x \in PendingLines(pr, period) THEN Len(settlements) + 1
                  ELSE OrderLine(x).commission_settlement_id
  <2>1. x[1] \in Orders /\ x[2] \in DOMAIN order_items[x[1]] /\ x = <<x[1], x[2]>>
    BY DEF OrderLines
  <2>2. OrderLine(x) \in OrderItem
    BY <2>1, ServiceRow DEF OrderLine, Service
  <2>3. OrderLine(x)' = IF x \in PendingLines(pr, period)
                        THEN [OrderLine(x) EXCEPT !.commission_settlement_id = Len(settlements) + 1]
                        ELSE OrderLine(x)
    BY <2>1 DEF CreateSettlement, OrderLine
  <2> QED
    BY <2>2, <2>3 DEF OrderItem
<1> QED
  BY <1>1, <1>2

LEMMA BackingCreated ==
  ASSUME TypeOK, SettlementBacked, NEW pr \in Professionals, NEW period \in SUBSET Orders,
         CreateSettlement(pr, period)
  PROVE  SettlementBacked'
<1> DEFINE n == Len(settlements) + 1
           lines == PendingLines(pr, period)
           settlement == [professional_id |-> pr,
                          production_total |-> SumFunction([x \in lines |-> OrderLine(x).price]),
                          commission_total |-> SumFunction([x \in lines |-> OrderLine(x).commission_amount])]
<1>1. /\ settlements' = Append(settlements, settlement) /\ lines # {}
      /\ order_status' = order_status
  BY DEF CreateSettlement
<1>2. /\ OrderLines' = OrderLines
      /\ \A x \in OrderLines :
           /\ OrderLine(x)'.price = OrderLine(x).price
           /\ OrderLine(x)'.commission_amount = OrderLine(x).commission_amount
           /\ OrderLine(x)'.commission_status = OrderLine(x).commission_status
           /\ OrderLine(x)'.professional_id = OrderLine(x).professional_id
           /\ OrderLine(x)'.commission_settlement_id =
                IF x \in lines THEN n ELSE OrderLine(x).commission_settlement_id
  BY SettlesPending
<1>3. \A x \in lines :
        /\ x \in OrderLines /\ order_status[x[1]] = "closed"
        /\ OrderLine(x).professional_id = pr
        /\ OrderLine(x).commission_status = "calculated"
        /\ OrderLine(x).commission_settlement_id = 0
  BY DEF PendingLines
<1>4. /\ settlements \in Seq(CommissionSettlement)
      /\ DOMAIN settlements = 1 .. Len(settlements) /\ Len(settlements) \in Nat
  BY DEF TypeOK
<1>5. \A x \in OrderLines : OrderLine(x).commission_settlement_id # 0 =>
        /\ OrderLine(x).commission_settlement_id \in DOMAIN settlements
        /\ order_status[x[1]] = "closed"
        /\ OrderLine(x).commission_status = "calculated"
        /\ settlements[OrderLine(x).commission_settlement_id].professional_id
             = OrderLine(x).professional_id
  BY DEF SettlementBacked
<1>6. /\ settlement.professional_id = pr
      /\ settlement.production_total = SumFunction([x \in lines |-> OrderLine(x).price])
      /\ settlement.commission_total = SumFunction([x \in lines |-> OrderLine(x).commission_amount])
  OBVIOUS
<1> HIDE DEF settlement, lines
<1>7. /\ DOMAIN settlements' = DOMAIN settlements \union {n} /\ n \notin DOMAIN settlements
      /\ settlements'[n] = settlement /\ n # 0
      /\ \A id \in DOMAIN settlements : settlements'[id] = settlements[id] /\ id # 0 /\ id # n
  BY <1>1, <1>4
<1> HIDE DEF n
<1>8. ASSUME NEW x \in OrderLines', OrderLine(x)'.commission_settlement_id # 0
      PROVE  /\ OrderLine(x)'.commission_settlement_id \in DOMAIN settlements'
             /\ order_status'[x[1]] = "closed"
             /\ OrderLine(x)'.commission_status = "calculated"
             /\ settlements'[OrderLine(x)'.commission_settlement_id].professional_id
                  = OrderLine(x)'.professional_id
  <2>1. CASE x \in lines
    BY <1>1, <1>2, <1>3, <1>6, <1>7, <2>1
  <2>2. CASE x \notin lines
    BY <1>1, <1>2, <1>5, <1>7, <1>8, <2>2
  <2> QED
    BY <2>1, <2>2
<1>9. \A x \in OrderLines : OrderLine(x).commission_settlement_id # n
  BY <1>5, <1>7
<1>10. ASSUME NEW id \in DOMAIN settlements'
       PROVE  /\ PaidBy(id)' # {}
              /\ settlements'[id].production_total =
                   SumFunction([x \in PaidBy(id)' |-> OrderLine(x)'.price])
              /\ settlements'[id].commission_total =
                   SumFunction([x \in PaidBy(id)' |-> OrderLine(x)'.commission_amount])
  <2>1. ASSUME id = n
        PROVE  PaidBy(id)' = lines
    BY <1>2, <1>3, <1>9, <2>1 DEF PaidBy
  <2>2. ASSUME id # n
        PROVE  id \in DOMAIN settlements /\ PaidBy(id)' = PaidBy(id)
    BY <1>2, <1>3, <1>7, <2>2 DEF PaidBy
  <2>3. CASE id = n
    <3>1. \A x \in lines : /\ OrderLine(x)'.price = OrderLine(x).price
                           /\ OrderLine(x)'.commission_amount = OrderLine(x).commission_amount
      BY <1>2, <1>3
    <3>2. /\ [x \in PaidBy(id)' |-> OrderLine(x)'.price] = [x \in lines |-> OrderLine(x).price]
          /\ [x \in PaidBy(id)' |-> OrderLine(x)'.commission_amount]
               = [x \in lines |-> OrderLine(x).commission_amount]
      BY <2>1, <2>3, <3>1
    <3> QED
      BY <1>1, <1>6, <1>7, <2>1, <2>3, <3>2
  <2>4. CASE id # n
    <3>1. \A x \in PaidBy(id) : /\ OrderLine(x)'.price = OrderLine(x).price
                                /\ OrderLine(x)'.commission_amount = OrderLine(x).commission_amount
      BY <1>2 DEF PaidBy
    <3>2. /\ [x \in PaidBy(id)' |-> OrderLine(x)'.price] = [x \in PaidBy(id) |-> OrderLine(x).price]
          /\ [x \in PaidBy(id)' |-> OrderLine(x)'.commission_amount]
               = [x \in PaidBy(id) |-> OrderLine(x).commission_amount]
      BY <2>2, <2>4, <3>1
    <3>3. /\ PaidBy(id) # {}
          /\ settlements[id].production_total = SumFunction([x \in PaidBy(id) |-> OrderLine(x).price])
          /\ settlements[id].commission_total =
               SumFunction([x \in PaidBy(id) |-> OrderLine(x).commission_amount])
      BY <2>2, <2>4 DEF SettlementBacked, PaidBy
    <3> QED
      BY <1>7, <2>2, <2>4, <3>2, <3>3
  <2> QED
    BY <2>3, <2>4
<1> QED
  BY <1>8, <1>10 DEF SettlementBacked, PaidBy

\* An edit of an open order settles none of its lines.
LEMMA EditKeepsUnpaid ==
  ASSUME TypeOK, OrderEdit \/ ItemStep, NEW o \in Orders,
         order_status[o] # "closed" =>
           \A i \in DOMAIN order_items[o] : order_items[o][i].commission_settlement_id = 0
  PROVE  KeepsServices(o) \/ Unpaid(o)
<1>1. /\ order_status'[o] = order_status[o]
      /\ order_status[o] = "open" \/ order_items'[o] = order_items[o]
  BY EditReachesOpenOrders
<1>2. ASSUME order_status[o] = "open", NEW j \in DOMAIN order_items'[o]
      PROVE  order_items'[o][j].commission_settlement_id = 0
  <2>1. \A i \in DOMAIN order_items[o] :
          /\ order_items[o][i] \in OrderItem
          /\ order_items[o][i].commission_settlement_id = 0
    BY <1>2, ServiceRow DEF Service
  <2>2. ASSUME NEW x \in Orders, NEW i \in Items, NEW price, UpdateOrderItem(x, i, price)
        PROVE  order_items'[o][j].commission_settlement_id = 0
    BY <1>2, <2>1, <2>2 DEF UpdateOrderItem, TypeOK, OrderItem
  <2>3. ASSUME NEW x \in Orders, NEW i \in Items, NEW amount, UpdateOrderItemBenefit(x, i, amount)
        PROVE  order_items'[o][j].commission_settlement_id = 0
    BY <1>2, <2>1, <2>3 DEF UpdateOrderItemBenefit, TypeOK, OrderItem
  <2>4. CASE \E x \in Orders, s \in Slots :
               \/ \E line \in [product_id : Products, quantity : Quantities,
                               unit_price : UnitPrices, item_type : ItemTypes,
                               stock_movement_id : {0}] : AddProductItem(x, s, line)
               \/ RemoveProductItem(x, s)
               \/ \E q \in Quantities, u \in UnitPrices : UpdateProductItem(x, s, q, u)
    BY <1>2, <2>1, <2>4 DEF AddProductItem, RemoveProductItem, UpdateProductItem
  <2>5. ASSUME NEW i \in Items, NEW item \in InitialItem, UpdateAppointmentItem(i, item)
        PROVE  order_items'[o][j].commission_settlement_id = 0
    BY <1>2, <2>1, <2>5 DEF UpdateAppointmentItem, OrderItem
  <2>6. ASSUME NEW i \in Items, NEW item \in InitialItem, AddAppointmentItem(i, item)
        PROVE  order_items'[o][j].commission_settlement_id = 0
    BY <1>2, <2>1, <2>6 DEF AddAppointmentItem, FreshOrderItem
  <2> QED
    BY <2>2, <2>3, <2>4, <2>5, <2>6 DEF OrderEdit, ItemStep
<1> QED
  BY <1>1, <1>2 DEF KeepsServices, Unpaid

LEMMA BackingStep ==
  ASSUME TypeOK, TypeOK', SettlementBacked, [Next]_vars
  PROVE  SettlementBacked'
<1>0. \A o \in Orders : order_status[o] # "closed" =>
        \A i \in DOMAIN order_items[o] : order_items[o][i].commission_settlement_id = 0
  BY OpenIsUnpaid
<1>1. ASSUME NEW a \in Appointments, CreateOrder(a)
      PROVE  SettlementBacked'
  <2> PICK n \in Orders : CreateOrder(a)!(n)
    BY <1>1 DEF CreateOrder
  <2>1. order_status[n] = "none"
    BY BoundAssumption DEF Orders
  <2>2. Unpaid(n)
    BY <1>0, <2>1 DEF Unpaid, FreshOrderItem, TypeOK
  <2>3. \A o \in Orders \ {n} : KeepsServices(o)
    BY DEF KeepsServices, TypeOK
  <2> QED
    BY <2>2, <2>3, BackingKept
<1>2. CASE OrderEdit \/ ItemStep
  <2>1. UNCHANGED settlements
    BY <1>2 DEF OrderEdit, UpdateOrderItem, UpdateOrderItemBenefit, AddProductItem,
       RemoveProductItem, UpdateProductItem, ItemStep, UpdateAppointmentItem, AddAppointmentItem
  <2>2. ASSUME NEW o \in Orders PROVE KeepsServices(o) \/ Unpaid(o)
    BY <1>0, <1>2, EditKeepsUnpaid DEF KeepsServices
  <2> QED
    BY <2>1, <2>2, BackingKept
<1>3. ASSUME NEW S, NEW split, NEW rule, ExactClose(S, split, rule)
      PROVE  SettlementBacked'
  <2>1. UNCHANGED settlements /\ S \in SUBSET Orders /\ \A o \in S : order_status[o] = "open"
    BY <1>3 DEF ExactClose, Close
  <2>2. \A o \in Orders \ S : KeepsServices(o)
    BY <1>3, CloseFrame DEF KeepsServices
  <2>3. ASSUME NEW o \in S PROVE Unpaid(o)
    <3>1. order_items'[o] = [i \in DOMAIN order_items[o] |->
             resolve_commission(order_items[o][i], rule[order_items[o][i].professional_id])]
      BY <1>3, <2>1 DEF ExactClose, Close
    <3>2. ASSUME NEW i \in DOMAIN order_items[o]
          PROVE  resolve_commission(order_items[o][i], rule[order_items[o][i].professional_id])
                   .commission_settlement_id = order_items[o][i].commission_settlement_id
      <4>1. order_items[o][i] \in OrderItem
        BY <2>1, ServiceRow DEF Service
      <4> QED
        BY <4>1 DEF resolve_commission, OrderItem
    <3> QED
      BY <1>0, <2>1, <3>1, <3>2 DEF Unpaid
  <2> QED
    BY <2>1, <2>2, <2>3, BackingKept
<1>4. ASSUME NEW o \in Orders, ReopenOrder(o)
      PROVE  SettlementBacked'
  <2>1. UNCHANGED <<settlements, order_items>> /\ Unpaid(o)
    BY <1>4 DEF ReopenOrder, Unsettled, Unpaid
  <2>2. \A x \in Orders \ {o} : KeepsServices(x)
    BY <1>4, ReopenFrame DEF KeepsServices
  <2> QED
    BY <2>1, <2>2, BackingKept
<1>5. CASE StatusStep
  <2>1. UNCHANGED settlements
    BY <1>5 DEF StatusStep, UpdateStatus, CancelAppointment, CancelOrder
  <2>2. /\ UNCHANGED order_items
        /\ \A o \in Orders : \/ order_status'[o] = order_status[o]
                             \/ order_status[o] = "open" /\ order_status'[o] = "cancelled"
    BY <1>5, StatusStepFrame
  <2> QED
    BY <1>0, <2>1, <2>2, BackingKept DEF KeepsServices, Unpaid
<1>6. CASE StockStep \/ RegisterStep \/ NextDay \/ UNCHANGED vars
  <2>1. UNCHANGED settlements
    <3>1. CASE StockStep
      <4>1. CASE \E o \in Orders, s \in Slots, delta \in Deltas, key \in IdempotencyKeys :
                   CorrectConsumption(o, s, delta, key)
        BY <4>1 DEF CorrectConsumption
      <4>2. CASE \E p \in Products, direction \in {"in", "out"}, q \in Quantities :
                   RecordMovement(p, direction, q)
        BY <4>2 DEF RecordMovement
      <4> QED
        BY <3>1, <4>1, <4>2 DEF StockStep
    <3>2. CASE RegisterStep
      BY <3>2 DEF RegisterStep, OpenRegister, RegisterMovement, CloseRegister
    <3>3. CASE NextDay \/ UNCHANGED vars
      BY <3>3 DEF NextDay, vars
    <3> QED
      BY <1>6, <3>1, <3>2, <3>3
  <2>2. UNCHANGED <<order_items, order_status>>
    BY <1>6, QuietStepFrame DEF orderVars
  <2> QED
    BY <2>1, <2>2, BackingKept DEF KeepsServices
<1>7. CASE \E pr \in Professionals, period \in SUBSET Orders : CreateSettlement(pr, period)
  BY <1>7, BackingCreated
<1> QED
  BY <1>1, <1>2, <1>3, <1>4, <1>5, <1>6, <1>7, StepCases

\* services/commissions.py, create_settlement, and the lock of reopen_order: a
\* settlement pays exactly the lines linked to it, at the price and for the
\* professional it was made with, and their orders stay closed.
THEOREM SettlementCorrect == Spec => []SettlementBacked
<1>1. Init => SettlementBacked
  BY DEF Init, SettlementBacked, OrderLines, NoRows
<1>2. TypeOK /\ TypeOK' /\ SettlementBacked /\ [Next]_vars => SettlementBacked'
  BY BackingStep
<1> QED
  BY <1>1, <1>2, TypeCorrect, PTL DEF Spec

(***************************************************************************)
(* The balances.                                                           *)
(***************************************************************************)
\* What a sequence of ledger rows adds to the balance of p.
EntriesOf(rows, p) == {k \in DOMAIN rows : rows[k].product_id = p}
Booked(rows, p) == SumFunction([k \in EntriesOf(rows, p) |-> Signed(rows[k])])

LEMMA SignedType == \A row \in StockMovement : Signed(row) \in Int
BY DEF Signed, StockMovement

LEMMA BookedOn ==
  ASSUME NEW rows \in Seq(StockMovement), NEW p
  PROVE  /\ IsFiniteSet(EntriesOf(rows, p))
         /\ EntriesOf(rows, p) \subseteq 1 .. Len(rows)
         /\ \A k \in EntriesOf(rows, p) : Signed(rows[k]) \in Int
         /\ Booked(rows, p) = SumFunctionOnSet([k \in EntriesOf(rows, p) |-> Signed(rows[k])],
                                               EntriesOf(rows, p))
         /\ Booked(rows, p) \in Int
<1> DEFINE A == EntriesOf(rows, p)
           f == [k \in A |-> Signed(rows[k])]
<1>1. A \subseteq 1 .. Len(rows) /\ \A k \in A : rows[k] \in StockMovement
  BY DEF EntriesOf
<1>2. IsFiniteSet(A)
  BY <1>1, FS_Interval, FS_Subset
<1>3. \A k \in A : Signed(rows[k]) \in Int
  BY <1>1, SignedType
<1>4. SumFunction(f) = SumFunctionOnSet(f, DOMAIN f) /\ DOMAIN f = A
  BY SumIsOnDomain
<1>5. SumFunctionOnSet(f, A) \in Int
  BY <1>2, <1>3, SumOnType DEF IntOn
<1> QED
  BY <1>1, <1>2, <1>3, <1>4, <1>5 DEF Booked

LEMMA BookedTogether ==
  ASSUME NEW mov \in Seq(StockMovement), NEW rows \in Seq(StockMovement), NEW p
  PROVE  Booked(mov \o rows, p) = Booked(mov, p) + Booked(rows, p)
<1> DEFINE n == Len(mov)
           A == EntriesOf(mov, p)
           R == EntriesOf(rows, p)
           B == {n + k : k \in R}
           C == EntriesOf(mov \o rows, p)
           fA == [k \in A |-> Signed(mov[k])]
           fR == [k \in R |-> Signed(rows[k])]
           fC == [k \in C |-> Signed((mov \o rows)[k])]
           shift == [k \in R |-> n + k]
<1>1. /\ n \in Nat /\ Len(rows) \in Nat /\ DOMAIN mov = 1 .. n /\ DOMAIN rows = 1 .. Len(rows)
      /\ DOMAIN (mov \o rows) = 1 .. n + Len(rows)
      /\ \A k \in 1 .. n : (mov \o rows)[k] = mov[k]
      /\ \A k \in 1 .. Len(rows) : (mov \o rows)[n + k] = rows[k]
  BY ConcatProperties
<1>2. A \subseteq 1 .. n /\ R \subseteq 1 .. Len(rows)
  BY <1>1 DEF EntriesOf
<1>3. A \intersect B = {}
  BY <1>1, <1>2
<1>4. C = A \union B
  <2>1. \A k \in 1 .. n : k \in C <=> k \in A
    BY <1>1 DEF EntriesOf
  <2>2. \A k \in 1 .. Len(rows) : n + k \in C <=> k \in R
    BY <1>1 DEF EntriesOf
  <2>3. ASSUME NEW c \in C PROVE c \in A \union B
    <3>1. c \in 1 .. n + Len(rows)
      BY <1>1 DEF EntriesOf
    <3>2. c \in 1 .. n \/ (c - n \in 1 .. Len(rows) /\ c = n + (c - n))
      BY <1>1, <3>1
    <3>3. CASE c \in 1 .. n
      BY <2>1, <2>3, <3>3
    <3>4. CASE c - n \in 1 .. Len(rows) /\ c = n + (c - n)
      BY <2>2, <2>3, <3>4
    <3> QED BY <3>2, <3>3, <3>4
  <2>4. ASSUME NEW c \in A \union B PROVE c \in C
    BY <1>2, <2>1, <2>2
  <2> HIDE DEF A, B, C
  <2> QED BY <2>3, <2>4
<1>5. /\ IsFiniteSet(A) /\ IsFiniteSet(R) /\ IntOn(fA, A) /\ IntOn(fR, R)
      /\ Booked(mov, p) = SumFunctionOnSet(fA, A) /\ Booked(rows, p) = SumFunctionOnSet(fR, R)
  BY BookedOn DEF IntOn
<1>6. mov \o rows \in Seq(StockMovement)
  BY ConcatProperties
<1>7. Booked(mov \o rows, p) = SumFunctionOnSet(fC, C) /\ IntOn(fC, C) /\ IsFiniteSet(C)
  BY <1>6, BookedOn DEF IntOn
<1>8. \A k \in A : fA[k] = fC[k]
  <2>1. ASSUME NEW k \in A PROVE Signed((mov \o rows)[k]) = Signed(mov[k]) /\ k \in C
    BY <1>1, <1>2, <1>4
  <2> HIDE DEF A, C
  <2> QED BY <2>1
<1>9. \A k \in R : fC[shift[k]] = fR[k]
  <2>1. ASSUME NEW k \in R PROVE Signed((mov \o rows)[n + k]) = Signed(rows[k]) /\ n + k \in C
    BY <1>1, <1>2, <1>4
  <2> HIDE DEF R, C
  <2> QED BY <2>1
<1>10. Renames(shift, R, B)
  BY <1>1, <1>2 DEF Renames
<1> HIDE DEF n, A, R, B, C, fA, fR, fC, shift
<1>11. IsFiniteSet(B) /\ SumFunctionOnSet(fC, B) = SumFunctionOnSet(fR, R)
  BY <1>5, <1>9, <1>10, SumOnRenamed
<1>12. SumFunctionOnSet(fC, A) = SumFunctionOnSet(fA, A)
  BY <1>5, <1>8, SumOnEqual
<1>13. SumFunctionOnSet(fC, C) = SumFunctionOnSet(fC, A) + SumFunctionOnSet(fC, B)
  BY <1>3, <1>4, <1>5, <1>7, <1>11, SumOnSplit
<1> QED
  BY <1>5, <1>7, <1>11, <1>12, <1>13

LEMMA BookedOne ==
  ASSUME NEW row \in StockMovement, NEW p
  PROVE  Booked(<<row>>, p) = IF row.product_id = p THEN Signed(row) ELSE 0
<1> DEFINE R == EntriesOf(<<row>>, p)
           f == [k \in R |-> Signed(<<row>>[k])]
<1>0. <<row>> \in Seq(StockMovement)
  OBVIOUS
<1>1. Booked(<<row>>, p) = SumFunctionOnSet(f, R) /\ IsFiniteSet(R) /\ IntOn(f, R)
  BY <1>0, BookedOn DEF IntOn
<1>2. CASE row.product_id = p
  <2>1. R = {} \union {1} /\ f[1] = Signed(row)
    BY <1>2 DEF EntriesOf
  <2>2. IntOn(f, {} \union {1}) /\ f[1] \in Int
    BY <1>1, <2>1 DEF IntOn
  <2> HIDE DEF R, f
  <2>3. SumFunctionOnSet(f, {} \union {1}) = SumFunctionOnSet(f, {}) + f[1]
    BY <2>2, SumOnAdd, FS_EmptySet
  <2>4. SumFunctionOnSet(f, {}) = 0
    BY SumOnEmpty
  <2> QED BY <1>1, <1>2, <2>1, <2>2, <2>3, <2>4
<1>3. CASE row.product_id # p
  <2>1. R = {}
    BY <1>3 DEF EntriesOf
  <2> HIDE DEF R, f
  <2> QED BY <1>1, <1>3, <2>1, SumOnEmpty
<1> QED BY <1>2, <1>3

\* The rows of a loop over product lines add up to what the lines hold.
LEMMA BookedLoop ==
  ASSUME TypeOK, NEW T \in SUBSET ProductLines(Orders), NEW visit \in Enumerations(T),
         NEW direction \in {"in", "out"}, NEW rows \in Seq(StockMovement), NEW p,
         Len(rows) = Len(visit),
         \A k \in 1 .. Len(visit) :
           \E reason : rows[k] = OrderMovement(visit[k], direction, reason)
  PROVE  /\ QuantityOf(T, p) \in Int
         /\ Booked(rows, p) = IF direction = "in" THEN QuantityOf(T, p) ELSE -QuantityOf(T, p)
<1> DEFINE R == EntriesOf(rows, p)
           B == {y \in T : ProductLine(y).product_id = p}
           g == [k \in R |-> ProductLine(visit[k]).quantity]
           h == [x \in B |-> ProductLine(x).quantity]
           f == [k \in R |-> Signed(rows[k])]
           b == [k \in R |-> visit[k]]
<1>1. visit \in Seq(T) /\ Range(visit) = T /\ Len(visit) \in Nat /\ DOMAIN visit = 1 .. Len(visit)
  BY VisitType
<1>2. \A j, k \in 1 .. Len(visit) : visit[j] = visit[k] => j = k
  <2>1. IsFiniteSet(Orders \X Slots)
    <3>1. IsFiniteSet(1 .. MaxOrders)
      BY FS_Interval, BoundAssumption
    <3> QED
      BY <3>1, FS_Product, StructureAssumption DEF Orders
  <2>2. IsFiniteSet(T)
    BY <2>1, FS_Subset DEF ProductLines
  <2>3. Cardinality(T) \in Nat /\ visit \in [1 .. Cardinality(T) -> T] /\ Len(visit) = Cardinality(T)
    BY <2>2, FS_CardinalityType DEF Enumerations
  <2>4. IsFiniteSet(1 .. Cardinality(T)) /\ Cardinality(1 .. Cardinality(T)) = Cardinality(T)
    BY <2>3, FS_Interval
  <2>5. \A t \in T : \E s \in 1 .. Cardinality(T) : visit[s] = t
    BY <1>1, <2>3 DEF Range
  <2>6. visit \in Surjection(1 .. Cardinality(T), T)
    BY <2>3, <2>5 DEF Surjection
  <2> DEFINE D == 1 .. Cardinality(T)
  <2> HIDE DEF D
  <2>7. visit \in Injection(D, T)
    BY <2>2, <2>4, <2>6, FS_SurjSameCardinalityImpliesInj DEF D
  <2> QED BY <2>3, <2>7 DEF D, Injection, IsInjective
<1>3. ASSUME NEW k \in 1 .. Len(visit)
      PROVE  /\ visit[k] \in T /\ ProductLine(visit[k]) \in OrderProductItem
             /\ rows[k].product_id = ProductLine(visit[k]).product_id
             /\ Signed(rows[k]) = IF direction = "in" THEN ProductLine(visit[k]).quantity
                                                      ELSE -ProductLine(visit[k]).quantity
  <2>1. visit[k] \in T
    BY <1>1
  <2>2. visit[k] \in ProductLines(Orders)
    BY <2>1
  <2>3. PICK o \in Orders, s \in Slots : visit[k] = <<o, s>> /\ s \in DOMAIN product_items[o]
    BY <2>2 DEF ProductLines
  <2>4. ProductLine(visit[k]) \in OrderProductItem
    BY <2>3, LineType DEF ProductLine, Line
  <2>5. PICK reason : rows[k] = OrderMovement(visit[k], direction, reason)
    OBVIOUS
  <2> QED BY <2>1, <2>4, <2>5 DEF OrderMovement, Signed
<1>4. R \subseteq 1 .. Len(visit) /\ \A k \in 1 .. Len(visit) : k \in R <=> visit[k] \in B
  BY <1>1, <1>3 DEF EntriesOf
<1>5. b \in [R -> B] /\ \A x, y \in R : b[x] = b[y] => x = y
  BY <1>2, <1>4
<1>6. Renames(b, R, B)
  BY <1>1, <1>4, <1>5 DEF Range, Renames
<1>7. \A k \in R : h[b[k]] = g[k]
  BY <1>4
<1>8. IntOn(g, R)
  BY <1>3, <1>4 DEF IntOn, OrderProductItem
<1>9. /\ IsFiniteSet(R) /\ IntOn(f, R) /\ Booked(rows, p) = SumFunctionOnSet(f, R)
  BY BookedOn DEF IntOn
<1>10. QuantityOf(T, p) = SumFunctionOnSet(h, B)
  BY SumIsOnDomain DEF QuantityOf
<1>11. \A k \in R : f[k] = IF direction = "in" THEN g[k] ELSE -g[k]
  BY <1>3, <1>4
<1> HIDE DEF R, B, g, h, f, b
<1>12. IsFiniteSet(B) /\ SumFunctionOnSet(h, B) = SumFunctionOnSet(g, R)
  BY <1>6, <1>7, <1>8, <1>9, SumOnRenamed
<1>13. SumFunctionOnSet(g, R) \in Int
  BY <1>8, <1>9, SumOnType
<1>14. CASE direction = "in"
  <2>1. SumFunctionOnSet(f, R) = SumFunctionOnSet(g, R)
    BY <1>8, <1>9, <1>11, <1>14, SumOnEqual
  <2> QED BY <1>9, <1>10, <1>12, <1>13, <1>14, <2>1
<1>15. CASE direction = "out"
  <2>1. SumFunctionOnSet(f, R) = -SumFunctionOnSet(g, R)
    BY <1>8, <1>9, <1>11, <1>15, SumOnNegated
  <2> QED BY <1>9, <1>10, <1>12, <1>13, <1>15, <2>1
<1> QED BY <1>14, <1>15

LEMMA BookedIsSum ==
  ASSUME NEW q, NEW mov
  PROVE  (\A p \in Products : q[p] = Booked(mov, p)) <=>
         \A p \in Products : q[p] =
           SumFunction([k \in {j \in DOMAIN mov : mov[j].product_id = p} |-> Signed(mov[k])])
BY DEF Booked, EntriesOf

\* Every step moves each balance by what the rows it writes add up to.
WritesWhatItMoves ==
  \E rows \in Seq(StockMovement) :
    /\ movements' = movements \o rows
    /\ \A p \in Products : quantity_on_hand'[p] = quantity_on_hand[p] + Booked(rows, p)

LEMMA BooksAfterRow ==
  ASSUME TypeOK, NEW row \in StockMovement, NEW level,
         movements' = Append(movements, row),
         row.product_id \in Products,
         level = quantity_on_hand[row.product_id] + Signed(row),
         quantity_on_hand' = [quantity_on_hand EXCEPT ![row.product_id] = level]
  PROVE  WritesWhatItMoves
<1>1. movements \in Seq(StockMovement) /\ quantity_on_hand \in [Products -> Quantity]
  BY DEF TypeOK
<1>2. movements' = movements \o <<row>> /\ <<row>> \in Seq(StockMovement)
  BY <1>1
<1>3. ASSUME NEW p \in Products
      PROVE  quantity_on_hand'[p] = quantity_on_hand[p] + Booked(<<row>>, p)
  <2>1. Booked(<<row>>, p) = IF row.product_id = p THEN Signed(row) ELSE 0
    BY BookedOne
  <2>2. quantity_on_hand[p] \in Int
    BY <1>1 DEF Quantity
  <2> QED
    BY <1>1, <2>1, <2>2
<1> QED
  BY <1>2, <1>3 DEF WritesWhatItMoves

LEMMA BooksOfStock ==
  ASSUME TypeOK, StockStep
  PROVE  WritesWhatItMoves
<1>1. ASSUME NEW o \in Orders, NEW s \in Slots, NEW delta \in Deltas,
             NEW key \in IdempotencyKeys, CorrectConsumption(o, s, delta, key)
      PROVE  WritesWhatItMoves
  <2> DEFINE p == product_items[o][s].product_id
             row == [product_id |-> p, direction |-> IF delta > 0 THEN "out" ELSE "in",
                     reason |-> "adjustment",
                     quantity |-> IF delta > 0 THEN delta ELSE -delta, order_id |-> o,
                     idempotency_key |-> key]
             level == LevelAfter(p, row.direction, row.quantity)
  <2>1. /\ movements' = Append(movements, row) /\ row.product_id = p
        /\ quantity_on_hand' = [quantity_on_hand EXCEPT ![p] = level]
    BY <1>1 DEF CorrectConsumption
  <2>2. row \in StockMovement /\ p \in Products
    <3>1. product_items[o][s] \in OrderProductItem
      BY <1>1, ReadRow DEF CorrectConsumption, TypeOK
    <3>2. o \in Nat /\ row.quantity \in Nat \ {0}
      BY InputAssumption, BoundAssumption DEF Orders
    <3>3. product_items[o][s].product_id \in Products
      BY <3>1 DEF OrderProductItem
    <3> QED
      BY <3>2, <3>3 DEF StockMovement
  <2>3. level = quantity_on_hand[p] + Signed(row)
    BY DEF LevelAfter, Signed
  <2> HIDE DEF row, p, level
  <2> QED
    BY <2>1, <2>2, <2>3, BooksAfterRow
<1>2. ASSUME NEW p \in Products, NEW direction \in {"in", "out"}, NEW q \in Quantities,
             RecordMovement(p, direction, q)
      PROVE  WritesWhatItMoves
  <2> DEFINE row == [product_id |-> p, direction |-> direction, reason |-> "manual",
                     quantity |-> q, order_id |-> 0, idempotency_key |-> NoKey]
             level == LevelAfter(p, direction, q)
  <2>1. /\ movements' = Append(movements, row) /\ row.product_id = p
        /\ quantity_on_hand' = [quantity_on_hand EXCEPT ![p] = level]
    BY <1>2 DEF RecordMovement
  <2>2. row \in StockMovement
    BY InputAssumption DEF StockMovement
  <2>3. level = quantity_on_hand[p] + Signed(row)
    BY DEF LevelAfter, Signed
  <2> HIDE DEF row, level
  <2> QED
    BY <2>1, <2>2, <2>3, BooksAfterRow
<1> QED
  BY <1>1, <1>2 DEF StockStep

LEMMA BooksOfLoop ==
  ASSUME TypeOK, NEW T \in SUBSET ProductLines(Orders), NEW visit \in Enumerations(T),
         NEW direction \in {"in", "out"}, NEW rows,
         DOMAIN rows = 1 .. Len(visit),
         rows = [k \in 1 .. Len(visit) |-> rows[k]],
         \A k \in 1 .. Len(visit) :
           \E reason \in {"sale", "internal_use", "adjustment"} :
             rows[k] = OrderMovement(visit[k], direction, reason),
         movements' = movements \o rows,
         \A p \in Products : quantity_on_hand'[p] =
           IF direction = "in" THEN quantity_on_hand[p] + QuantityOf(T, p)
                               ELSE quantity_on_hand[p] - QuantityOf(T, p)
  PROVE  WritesWhatItMoves
<1>1. visit \in Seq(T) /\ Len(visit) \in Nat
  BY VisitType
<1>2. \A k \in 1 .. Len(visit) : rows[k] \in StockMovement
  <2>1. ASSUME NEW k \in 1 .. Len(visit) PROVE rows[k] \in StockMovement
    <3>1. visit[k] \in ProductLines(Orders)
      BY <1>1
    <3>2. PICK reason \in {"sale", "internal_use", "adjustment"} :
            rows[k] = OrderMovement(visit[k], direction, reason)
      OBVIOUS
    <3> QED
      BY <3>1, <3>2, OrderMovementType
  <2> QED
    BY <2>1
<1>3. rows \in [1 .. Len(visit) -> StockMovement]
  BY <1>2
<1>4. rows \in Seq(StockMovement) /\ Len(rows) = Len(visit)
  BY <1>1, <1>3, SeqDef
<1>5. ASSUME NEW p \in Products
      PROVE  quantity_on_hand'[p] = quantity_on_hand[p] + Booked(rows, p)
  <2>1. /\ QuantityOf(T, p) \in Int
        /\ Booked(rows, p) = IF direction = "in" THEN QuantityOf(T, p) ELSE -QuantityOf(T, p)
    <3>1. \A k \in 1 .. Len(visit) : \E reason : rows[k] = OrderMovement(visit[k], direction, reason)
      OBVIOUS
    <3> QED
      BY <1>4, <3>1, BookedLoop
  <2>2. quantity_on_hand[p] \in Int
    BY DEF TypeOK, Quantity
  <2> QED
    BY <2>1, <2>2
<1> QED
  BY <1>4, <1>5 DEF WritesWhatItMoves

LEMMA BooksOfClose ==
  ASSUME TypeOK, NEW S, NEW split, NEW rule, ExactClose(S, split, rule)
  PROVE  WritesWhatItMoves
<1>1. Unmoved(S) \in SUBSET ProductLines(Orders)
  BY DEF Unmoved, ProductLines, ExactClose
<1> PICK visit \in Enumerations(Unmoved(S)) :
      movements' = movements \o
        [k \in 1 .. Len(visit) |->
           OrderMovement(visit[k], "out", SaleReason(ProductLine(visit[k])))]
  BY DEF ExactClose, Close
<1> DEFINE T == Unmoved(S)
           rows == [k \in 1 .. Len(visit) |->
                      OrderMovement(visit[k], "out", SaleReason(ProductLine(visit[k])))]
<1>2. visit \in Enumerations(T) /\ T \in SUBSET ProductLines(Orders) /\ movements' = movements \o rows
  BY <1>1
<1>3. \A k \in 1 .. Len(visit) :
        \E reason \in {"sale", "internal_use", "adjustment"} :
          rows[k] = OrderMovement(visit[k], "out", reason)
  BY DEF SaleReason
<1>4. DOMAIN rows = 1 .. Len(visit) /\ rows = [k \in 1 .. Len(visit) |-> rows[k]]
  OBVIOUS
<1>5. \A p \in Products : quantity_on_hand'[p] = quantity_on_hand[p] - QuantityOf(T, p)
  BY DEF ExactClose, Close
<1> HIDE DEF T, rows
<1> QED
  BY <1>2, <1>3, <1>4, <1>5, BooksOfLoop

LEMMA BooksOfReopen ==
  ASSUME TypeOK, NEW o \in Orders, ReopenOrder(o)
  PROVE  WritesWhatItMoves
<1>1. Moved({o}) \in SUBSET ProductLines(Orders)
  BY DEF Moved, ProductLines
<1> PICK visit \in Enumerations(Moved({o})) :
      movements' = movements \o
        [k \in 1 .. Len(visit) |-> OrderMovement(visit[k], "in", "adjustment")]
  BY DEF ReopenOrder
<1> DEFINE T == Moved({o})
           rows == [k \in 1 .. Len(visit) |-> OrderMovement(visit[k], "in", "adjustment")]
<1>2. visit \in Enumerations(T) /\ T \in SUBSET ProductLines(Orders) /\ movements' = movements \o rows
  BY <1>1
<1>3. \A k \in 1 .. Len(visit) :
        \E reason \in {"sale", "internal_use", "adjustment"} :
          rows[k] = OrderMovement(visit[k], "in", reason)
  OBVIOUS
<1>4. DOMAIN rows = 1 .. Len(visit) /\ rows = [k \in 1 .. Len(visit) |-> rows[k]]
  OBVIOUS
<1>5. \A p \in Products : quantity_on_hand'[p] = quantity_on_hand[p] + QuantityOf(T, p)
  BY DEF ReopenOrder
<1> HIDE DEF T, rows
<1> QED
  BY <1>2, <1>3, <1>4, <1>5, BooksOfLoop

LEMMA BooksStay ==
  ASSUME TypeOK, UNCHANGED stockVars
  PROVE  WritesWhatItMoves
<1>1. movements \in Seq(StockMovement) /\ quantity_on_hand \in [Products -> Quantity]
  BY DEF TypeOK
<1>2. << >> \in Seq(StockMovement) /\ movements' = movements \o << >>
  BY <1>1 DEF stockVars
<1>3. \A p \in Products : Booked(<< >>, p) = 0
  <2>1. ASSUME NEW p \in Products PROVE Booked(<< >>, p) = 0
    <3>1. EntriesOf(<< >>, p) = {}
      BY DEF EntriesOf
    <3> QED
      BY <1>2, <3>1, BookedOn, SumOnEmpty
  <2> QED
    BY <2>1
<1>4. \A p \in Products : quantity_on_hand'[p] = quantity_on_hand[p] + 0
  BY <1>1 DEF stockVars, Quantity
<1> QED
  BY <1>2, <1>3, <1>4 DEF WritesWhatItMoves

LEMMA BooksStep ==
  ASSUME TypeOK, [Next]_vars
  PROVE  WritesWhatItMoves
<1>1. CASE \E a \in Appointments : CreateOrder(a)
  BY <1>1, BooksStay DEF CreateOrder
<1>2. CASE OrderEdit
  BY <1>2, BooksStay DEF OrderEdit, UpdateOrderItem, UpdateOrderItemBenefit,
     AddProductItem, RemoveProductItem, UpdateProductItem
<1>3. CASE ItemStep
  BY <1>3, BooksStay DEF ItemStep, UpdateAppointmentItem, AddAppointmentItem
<1>4. CASE StatusStep
  BY <1>4, BooksStay, StatusStepFrame
<1>5. CASE RegisterStep
  BY <1>5, BooksStay DEF RegisterStep, OpenRegister, RegisterMovement, CloseRegister
<1>6. CASE \E pr \in Professionals, period \in SUBSET Orders : CreateSettlement(pr, period)
  BY <1>6, BooksStay DEF CreateSettlement
<1>7. CASE NextDay \/ UNCHANGED vars
  BY <1>7, BooksStay DEF NextDay, vars
<1> QED
  BY <1>1, <1>2, <1>3, <1>4, <1>5, <1>6, <1>7, StepCases, BooksOfClose,
     BooksOfReopen, BooksOfStock

LEMMA BalancedInit ==
  ASSUME Init
  PROVE  StockIsItsLedger
<1>1. movements = << >> /\ quantity_on_hand = [p \in Products |-> 0]
  BY DEF Init
<1>2. << >> \in Seq(StockMovement)
  OBVIOUS
<1>3. ASSUME NEW p \in Products PROVE Booked(<< >>, p) = 0
  <2>1. EntriesOf(<< >>, p) = {}
    BY DEF EntriesOf
  <2> QED
    BY <1>2, <2>1, BookedOn, SumOnEmpty
<1>4. \A p \in Products : quantity_on_hand[p] = Booked(movements, p)
  BY <1>1, <1>3
<1> QED
  BY <1>4, BookedIsSum DEF StockIsItsLedger

LEMMA BalancedStep ==
  ASSUME TypeOK, StockIsItsLedger, [Next]_vars
  PROVE  StockIsItsLedger'
<1>1. \A p \in Products : quantity_on_hand[p] = Booked(movements, p)
  BY DEF StockIsItsLedger, Booked, EntriesOf
<1>2. PICK rows \in Seq(StockMovement) :
        /\ movements' = movements \o rows
        /\ \A p \in Products : quantity_on_hand'[p] = quantity_on_hand[p] + Booked(rows, p)
  BY BooksStep DEF WritesWhatItMoves
<1>3. \A p \in Products : Booked(movements \o rows, p) = Booked(movements, p) + Booked(rows, p)
  BY BookedTogether DEF TypeOK
<1>4. PICK new : new = movements'
  OBVIOUS
<1>5. PICK q : q = quantity_on_hand'
  OBVIOUS
<1>6. \A p \in Products : q[p] = Booked(new, p)
  BY <1>1, <1>2, <1>3, <1>4, <1>5
<1>7. \A p \in Products : q[p] =
        SumFunction([k \in {j \in DOMAIN new : new[j].product_id = p} |-> Signed(new[k])])
  BY <1>6, BookedIsSum
<1> QED
  BY <1>4, <1>5, <1>7 DEF StockIsItsLedger, Signed

\* services/inventory.py, _apply_delta and the loops of close_order and
\* reopen_order: the balance of a product is the sum of its ledger rows,
\* whatever sells, gives back, corrects or is entered by hand in between.
THEOREM LedgerCorrect == Spec => []StockIsItsLedger
<1>1. Init => StockIsItsLedger
  BY BalancedInit
<1>2. ASSUME TypeOK, StockIsItsLedger, [Next]_vars
      PROVE  StockIsItsLedger'
  BY <1>2, BalancedStep
<1> QED
  BY <1>1, <1>2, TypeCorrect, PTL DEF Spec
=============================================================================
