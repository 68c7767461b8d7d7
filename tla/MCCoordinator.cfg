CONSTANTS
  Signers = {a, b, c}
  NoSigner = NoSigner
  Thresholds = {0, 1, 2}
  Windows = {1}
  MaxSessions = 1
  MaxTime = 2
  MaxAudit = 9
SPECIFICATION FairSpec
INVARIANTS SignaturesAreBacked AuditReplaysToSession
PROPERTIES ClosedIsFrozen PendingIsReaped
