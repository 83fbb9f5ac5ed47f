CONSTANTS
  Reqs = {r1, r2}
  Users = {ann, bob}
  Admins = {bob}
  Convs = {c}
  Nobody = Nobody
  MaxTurns = 1
  Batch = 4
  MaxMsgs = 6
SPECIFICATION Spec
SYMMETRY Symmetry
INVARIANTS TypeOK CompactionKeepsContent NoPartialAnswer SummariesBounded HistoryBounded
PROPERTIES OwnerNeverChanges
