CONSTANTS
  Reqs = {r1, r2}
  Names = {ann}
  Passwords = {p}
  Nobody = Nobody
  MaxSessions = 1
  MaxFailed = 1
  Window = 0
  BearerLife = 1
  RefreshLife = 0
  SessionLife = 0
  Commands = {"create", "delete", "reset"}
  MaxUsers = 1
  MaxIssued = 3
  MaxBadLogins = 3
  MaxTime = 1
SPECIFICATION Spec
SYMMETRY Symmetry
INVARIANTS ExchangedTokenIsDead FailedLoginsBounded
PROPERTIES SessionExcessOnlyByOverlap
