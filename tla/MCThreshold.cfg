SPECIFICATION TcFairSpec
CONSTANTS
  N = 3
  Threshold = 2
  Schemes = {"FROST", "GG18", "CMP20"}
  Drivers = {"inprocess", "network"}
  MaxFaults = 1
INVARIANTS
  KeysMatchShares
  
PROPERTIES
  ImplementsCertificate
  InprocessCompletes
CHECK_DEADLOCK FALSE
