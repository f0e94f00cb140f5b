SPECIFICATION Spec
CONSTANTS
  Appointments = {"a1", "a2"}
  Items = {"i1", "i2"}
  ItemAppointment <- OneItemEach
  AppointmentClient <- OneClient
  Professionals = {"p"}
  Products = {}
  Slots = {}
  Registers = {"r1"}
  IdempotencyKeys = {}
  NoAppointment = NoAppointment
  NoKey = NoKey
  QuantityScale = 1
  CASH = "cash"
  Config <- DefaultConfig
  Prices = {1}
  Benefits = {0, 1}
  Starts = {0}
  Quantities = {}
  UnitPrices = {}
  Deltas = {}
  PaymentInputs <- CashPaymentsR1
  CashAmounts = {}
  CommissionRules <- SomeCommission
  StatusInputs = {"finished", "no_show"}
  ItemTypes = {}
  MaxOrders = 2
  MaxDay = 1
  MaxMovements = 0
  MaxReversed = 1
  MaxSettlements = 1
  MaxAmount = 4
  MaxStock = 0
INVARIANTS PaidMeansClosed MoneyConserved SettlementBacked
