SPECIFICATION Spec
CONSTANTS
  Appointments = {"a1"}
  Items = {"i1"}
  ItemAppointment <- OnlyOfA1
  AppointmentClient <- ClientOfA1
  Professionals = {"p"}
  Products = {}
  Slots = {}
  Registers = {"r1", "r2"}
  IdempotencyKeys = {}
  NoAppointment = NoAppointment
  NoKey = NoKey
  QuantityScale = 1
  CASH = "cash"
  Config <- RelaxedConfig
  Prices = {1, 2}
  Benefits = {0, 1}
  Starts = {0}
  Quantities = {}
  UnitPrices = {}
  Deltas = {}
  PaymentInputs <- MixedPayments
  CashAmounts = {1}
  CommissionRules <- NoCommission
  StatusInputs = {"no_show"}
  ItemTypes = {}
  MaxOrders = 1
  MaxDay = 0
  MaxMovements = 0
  MaxReversed = 2
  MaxSettlements = 0
  MaxAmount = 3
  MaxStock = 0
INVARIANTS MoneyConserved FrozenRegister
PROPERTIES PaymentsAppendOnly ClosedOrderIsFrozen
