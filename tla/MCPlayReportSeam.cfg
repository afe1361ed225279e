SPECIFICATION AdoptSpec
CONSTANTS
  Play = {p1, p2}
  Device = {d1}
  Content = {c1}
  NoContent = none
  Start = 3
  MaxHour = 4
  Minutes = {0, 1}
  Retention = 1
  MaxAge = 2
  CatchUp = 2
  RerollMax = 2
  Batch = 1
INVARIANT SeamCountsOnce
