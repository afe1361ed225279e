CONSTANTS
  LastRow = 3
  Children = {3}
  Scoped = {1, 2}
  Limit = 2
  MaxWrites = 4
  MaxRejoins = 1
  MaxFaults = 1
SPECIFICATION FairSpec
INVARIANTS NothingSkipped AckIsDurable
PROPERTIES Converges LogIsReleased
CHECK_DEADLOCK FALSE
