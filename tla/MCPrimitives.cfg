CONSTANTS
  Exercised = {"lock", "gate", "wal", "election", "breaker", "saga", "limiter"}
  Holders = {h1, h2}
  NoHolder = NoHolder
  Resources = {r1, r2}
  Ttls = {1, 2}
  MaxTime = 3
  MaxTokens = 4
  Callers = {c1, c2, c3, c4, c5}
  Limits = {0, 1, 2}
  Threads = {t1, t2}
  MaxAppends = 3
  MaxCrashes = 2
  MaxWalFaults = 1
  MaxTruncates = 1
  Nodes = {n1, n2, n3}
  NoNode = NoNode
  Networks = {"fresh", "late", "heartbeat"}
  MaxTerm <- TermBound
  MaxElections = 3
  Requesters = {u1, u2, u3}
  FailureThreshold = 2
  SuccessThreshold = 2
  Steps = 3
  Clients = {e1, e2}
  Token = 3
  Capacity = 2
  Refill = 2
  MaxSeconds = 5
SPECIFICATION Spec
SYMMETRY Symmetry
INVARIANTS
  MutualExclusion
  LimitIsExact
  
  OneLeaderByMajority
  EffectsAreReported
  AllowsExactlyTheRate
PROPERTIES
  FencedWrites
  TurnsWhenDue
CHECK_DEADLOCK FALSE
