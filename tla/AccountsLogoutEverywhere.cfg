CONSTANTS
  Reqs = {r1, r2}
  Names = {ann}
  Passwords = {p}
  Nobody = Nobody
  MaxSessions = 1
  MaxFailed = 1
  Window = 0
  BearerLife = 1
  RefreshLife = 0
  SessionLife = 0
  Commands = {}
  MaxUsers = 1
  MaxIssued = 3
  MaxBadLogins = 0
  MaxTime = 1
SPECIFICATION Spec
SYMMETRY Symmetry
PROPERTY LogoutEverywhere
