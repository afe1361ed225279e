SPECIFICATION FairGateSpec
CONSTANTS
  Valve = 2
  FlapWindow = 3
  FlapMax = 3
  Cooldown = 2
  FlapIdle = 4
  MaxTrips = 2
  Quarantine = 6
  Window = 2
  BaseMax = 1
  Ceiling = 2
  Backoff = 1
  MaxBackoff = 3
  MaxLevel = 3
  Release = 2
  IdleReset = 4
  Warmup = 2
  Bands = {1, 2}
INVARIANTS GatesTypeOK CeilingHolds PairedIsNotLockedOut
PROPERTIES DeferralLifts ComesBack
