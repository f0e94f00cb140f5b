SPECIFICATION Spec
CONSTANTS
  Workers = {w1, w2}
  NoWorker = NoWorker
  Appointments = {a1}
  NoAppointment = NoAppointment
  Prices = {1, 2}
  MaxAmount = 9
  Kinds <- SettledKinds
  MaxOrders = 2
INVARIANTS SettledStaysClosed
