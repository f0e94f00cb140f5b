SPECIFICATION Spec
CONSTANTS
  Appointments = {"a1", "a2"}
  Items = {"i1", "i2"}
  ItemAppointment <- OneItemEach
  AppointmentClient <- OneClient
  Professionals = {"p"}
  Products = {"p1"}
  Slots = {1, 2}
  Registers = {}
  IdempotencyKeys = {"k1", "k2"}
  NoAppointment = NoAppointment
  NoKey = NoKey
  QuantityScale = 1
  CASH = "cash"
  Config <- RelaxedConfig
  Prices = {0}
  Benefits = {}
  Starts = {0}
  Quantities = {1}
  UnitPrices = {0}
  Deltas <- CorrectionDeltas
  PaymentInputs <- NoPayments
  CashAmounts = {}
  CommissionRules <- NoCommission
  StatusInputs = {}
  ItemTypes = {"sale", "consumption"}
  MaxOrders = 2
  MaxDay = 0
  MaxMovements = 4
  MaxReversed = 0
  MaxSettlements = 0
  MaxAmount = 4
  MaxStock = 2
INVARIANTS TypeOK StockFollowsClosing StockIsItsLedger OneCorrectionPerKey
