CONSTANTS
  Procs = {p1}
  Programs = {"server", "migrate"}
  Origins <- JustContainer
  RollbackFiles = {}
  MaxMishaps = 0
SPECIFICATION Spec
INVARIANT StartsSucceed
