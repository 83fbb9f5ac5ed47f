CONSTANTS
  Procs = {p1, p2}
  Programs = {"server", "migrate", "rollback", "v05", "setup"}
  Origins <- AllOrigins
  RollbackFiles = {"002", "006"}
  MaxMishaps = 1

SPECIFICATION Spec
INVARIANTS TypeOK RecordedIsApplied ServingHasSchema MigrationsFindTheirTables
