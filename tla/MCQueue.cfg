SPECIFICATION Spec
CONSTANTS
  Type = {"screen_on", "update"}
  Unsendable = {"update"}
  MaxCommands = 4
  MaxKept = 2
  MaxVersion = 2
INVARIANT TypeOK
INVARIANT ScreenIsCurrent
INVARIANT NewerWins
PROPERTY NothingVanishes
