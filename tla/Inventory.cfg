SPECIFICATION FairSpec
CONSTANTS
  shampoo = shampoo
  centre = centre
  beach = beach
  Workers = {"w1", "w2"}
  NoWorker = NoWorker
  Products = {shampoo}
  Branches = {centre, beach}
  NoQuantity = NoQuantity
  Entered = {2}
  Counted = {0, 4}
  Sales <- MCSales
  Opening = 2
  MaxCounts = 2
  MaxRequests = 4
INVARIANTS TypeOK LedgerIsBalance TransfersBalance
PROPERTIES CountSettles EveryRequestEnds
CHECK_DEADLOCK FALSE
