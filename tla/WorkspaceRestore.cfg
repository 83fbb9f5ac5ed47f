CONSTANTS
  Runs = {b1}
  Events = {}
  MaxBackups = 1
  MaxCommits = 1
  MaxSeconds = 1
  MaxKills = 0
SPECIFICATION Spec
PROPERTY RestoreBringsDatabase
