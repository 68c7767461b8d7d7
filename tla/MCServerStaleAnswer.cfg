CONSTANTS
  Signers = {a, b}
  NoSigner = NoSigner
  Thresholds = {2}
  Windows = {0}
  MaxSessions = 1
  MaxTime = 0
  MaxAudit = 12
  Conns = {k}
  NoConn = NoConn
  MaxRequests = 3
  MaxTimeouts = 1
  MaxCloses = 0
SPECIFICATION ServerSpec
INVARIANT SubmissionConfirmed
CHECK_DEADLOCK FALSE
