SPECIFICATION Spec
CONSTANTS
  Items = {a, b}
  MaxEntries = 2
  Batch = 1
  Allowed = 2
  Skew = 1
  Leads = {0}
  MaxTicks = 4
  MaxFaults = 1
INVARIANT QueuedAsPlayed
CHECK_DEADLOCK FALSE
