CONSTANTS
  Procs = {p1}
  Programs = {"setup"}
  Origins <- JustV01
  RollbackFiles = {}
  MaxMishaps = 0
SPECIFICATION Spec
INVARIANT PlaceholderIsReplaced
