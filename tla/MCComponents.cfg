SPECIFICATION Spec
CONSTANTS
  h1 = h1
  h2 = h2
  SerialEntries = 9
  FaultyEntries = 4
  RacingEntries = 3
  Handlers <- MCHandlers
  Loads <- MCLoads
  NodesFor <- MCNodesFor
  Anchors = {3, 5}
  Words = {"a", "b"}
  MaxDelegations = 3
  Artifacts <- MCArtifacts
  ValidFrom = 1
  ValidUntil = 4
  CrlLists = {{}, {"s"}, {"m"}}
  CrlValidity = 1
  GracePeriod = 2
  Window = 1
  Grace = 2
  Algorithms = {"ed25519"}
  MaxNow = 5
  MaxCrls = 2
  Participants = {p1, p2, p3}
  Committers = {m1, m2}
  Clients = {k1, k2, k3}
  MaxVersions = 2
  Writers = {w1, w2}
  Consumers = {q1, q2}
  MaxStream = 3
  MaxReturned = 3
  Keys = {y1, y2}
  Actors = {a1, a2}
  MaxChanges = 3
  Processes = {o1, o2}
  Secrets <- MCSecrets
  Identities <- MCIdentities
  MaxPuts = 2
  MaxCuts = 1
  Listeners = {l1, l2}
  NoListener = NoListener
  Connectors = {d1, d2}
  MaxBytes = 3
  PrefixLen = 2
  MAX_FRAME_LEN = 2
  Payloads = {0, 2, 3}
  Buffers = {1, 2}
  MaxFrames = 2
  Bound = {b1, b2}
  States = {f1, f2}
  MaxBindings = 2
  MaxRevocations = 2
INVARIANTS
  ProofsMatchEntries
  
  PathsAreRight
  
  CommitIsAtomic
  
  CursorsDeliver
  LogTellsKeys
  
  
  InStepUntilRefusal
  MarksFollowRevocations
 
CHECK_DEADLOCK FALSE
