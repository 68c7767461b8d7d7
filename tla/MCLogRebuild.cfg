SPECIFICATION LogSpec
CONSTANTS
  h1 = h1
  h2 = h2
  SerialEntries = 2
  FaultyEntries = 4
  RacingEntries = 2
  Handlers <- MCHandlers
  Loads <- MCLoads
INVARIANT RebuildReproducesTree
