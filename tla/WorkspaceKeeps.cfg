CONSTANTS
  Runs = {b1}
  Events = {}
  MaxBackups = 2
  MaxCommits = 0
  MaxSeconds = 3
  MaxKills = 0
SPECIFICATION Spec
PROPERTY KeepsLastBackups
