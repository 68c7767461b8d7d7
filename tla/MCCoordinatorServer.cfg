CONSTANTS
  Signers = {a, b}
  NoSigner = NoSigner
  Thresholds = {0, 2}
  Windows = {0}
  MaxSessions = 1
  MaxTime = 1
  MaxAudit = 12
  Conns = {k, l}
  NoConn = NoConn
  MaxRequests = 2
  MaxTimeouts = 1
  MaxCloses = 1
SPECIFICATION ServerSpec
SYMMETRY ServerSymmetry
INVARIANTS SignedOnceByThreshold AnswersAreTrue
PROPERTY ImplementsCoordinator
CHECK_DEADLOCK FALSE
