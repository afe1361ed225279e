SPECIFICATION FairSpec
CONSTANTS
  Play = {p1, p2}
  Device = {d1}
  Content = {c1}
  NoContent = none
  Start = 2
  MaxHour = 3
  Minutes = {0}
  Retention = 1
  MaxAge = 2
  CatchUp = 2
  RerollMax = 2
  Batch = 1
INVARIANT AggregateIsRaw
PROPERTY NeverPastWatermark
PROPERTY OnlyCopyIsKept
PROPERTY Drains
