SPECIFICATION TcSpec
CONSTANTS
  N = 3
  Threshold = 2
  Schemes = {"FROST", "GG18", "CMP20"}
  Drivers = {"inprocess"}
  MaxFaults = 0
INVARIANTS
  AnyCoalitionSigns
CHECK_DEADLOCK FALSE
