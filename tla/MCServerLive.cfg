CONSTANTS
  Signers = {a, b}
  NoSigner = NoSigner
  Thresholds = {1}
  Windows = {0}
  MaxSessions = 1
  MaxTime = 0
  MaxAudit = 12
  Conns = {s1, s2}
  NoConn = NoConn
  MaxRequests = 2
  MaxTimeouts = 0
  MaxCloses = 1
  Loops = {t1, t2}
  MaxCalls = 4
  Askers = {q1, q2, q3}
  RequestKeys = {k1, k2}
  MaxDropped = 1
  RoundSigners = {p1, p2}
  RoundThresholds = {0, 2, 3}
  LastRound = 3
  MaxRepeats = 1
  Peers = {x1, x2}
  Messages <- MCMessages
  MaxSent = 3
SPECIFICATION LiveSpec
INVARIANTS OneRefreshAfterStop WaitersMatchEntries FiledInOwnRound AnsweredUntilShutdown
PROPERTIES EveryCallReturns LoopsFollowSchedule EveryRequestServed ProtocolEnds
CHECK_DEADLOCK FALSE
