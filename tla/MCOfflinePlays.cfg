SPECIFICATION Spec
CONSTANTS
  Items = {a, b}
  MaxEntries = 2
  Batch = 1
  Allowed = 2
  Skew = 1
  Leads = {0, 3}
  MaxTicks = 5
  MaxFaults = 2
INVARIANTS CountedOnce PlayingStaysOpen
PROPERTIES OnlySentLeave BacklogDrains
CHECK_DEADLOCK FALSE
