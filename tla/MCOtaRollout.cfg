CONSTANTS
  Fleet = 2
  OptedIn = {2}
  Newest = 2
  Copied = {1}
  Sample = 1
  MaxStagings = 2
  MaxActs = 1
  MaxTrouble = 1
SPECIFICATION FairSpec
PROPERTIES OpenStaysOpen HaltStopsInstalls RolloutMoves ScreensGoBack
CHECK_DEADLOCK FALSE
