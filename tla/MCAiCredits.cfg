SPECIFICATION Spec
CONSTANTS
  Orgs = {a}
  Screens = {s1, s2}
  Keys = {k1, k2}
  Orders = {x}
  Elsewhere = Elsewhere
  Unused = Unused
  Prices = {2}
  Tiers <- RateTable
  Pack = 2
  Adjustments = {1}
  Timeout = 1
  Grace = 1
  StaleAfter = 1
  MaxMonth = 2
  MaxMoves = 1
INVARIANTS Reconciled DeliveredIsCharged WithinBill
PROPERTY Settles
CHECK_DEADLOCK FALSE
