CONSTANTS
  Reqs = {r1, r2}
  Names = {ann, bob}
  Passwords = {p}
  Nobody = Nobody
  MaxSessions = 2
  MaxFailed = 1
  Window = 0
  BearerLife = 1
  RefreshLife = 0
  SessionLife = 0
  Commands = {"create"}
  MaxUsers = 3
  MaxIssued = 2
  MaxBadLogins = 0
  MaxTime = 0
SPECIFICATION Spec
SYMMETRY Symmetry
INVARIANTS TypeOK
PROPERTIES NewAccountIsClean LastAdminOnlyByCrossing
