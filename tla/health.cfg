CONSTANTS
  Nodes = {n1, n2}
  OfflineTimeout = 3
  CallTimeout = 1
  MaxRuns = 2
SPECIFICATION Spec
INVARIANTS TypeOK OneRowForEach OnlineWhileHeard InfoIsCurrent
PROPERTY InfoArrives
