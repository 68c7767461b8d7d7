CONSTANTS
  Signers = {a, b}
  NoSigner = NoSigner
  Thresholds = {2}
  Windows = {0}
  MaxSessions = 1
  MaxTime = 1
  MaxAudit = 6
SPECIFICATION FairSpec
PROPERTY EveryStaleSessionExpires
