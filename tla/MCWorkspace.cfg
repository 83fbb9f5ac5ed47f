CONSTANTS
  Runs = {b1, b2}
  Events = {e1, e2}
  MaxBackups = 2
  MaxCommits = 1
  MaxSeconds = 4
  MaxKills = 1
SYMMETRY RunSymmetry
SPECIFICATION Spec
CONSTRAINT OneRunOfUse
INVARIANTS TypeOK WholeBackupRemains EventsSurvive
