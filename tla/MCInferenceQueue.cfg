CONSTANTS
  Reqs = {r1, r2, r3, r4}
  Nobody = Nobody
  MaxQueueSize = 3
SPECIFICATION Spec
INVARIANTS TypeOK DepthCountsRequests WakeUpPending
PROPERTIES EveryoneMovesOn ServesInOrder
