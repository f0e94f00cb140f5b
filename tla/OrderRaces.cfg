SPECIFICATION FairSpec
CONSTANTS
  Workers = {w1, w2}
  NoWorker = NoWorker
  Appointments = {a1}
  NoAppointment = NoAppointment
  Prices = {1}
  MaxAmount = 9
  Kinds <- AllKinds
  MaxOrders = 2
INVARIANTS TypeOK LineSettledOnce
PROPERTIES ImplementsBook EveryRequestEnds
