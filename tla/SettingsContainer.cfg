CONSTANTS
  Switches = {s1}
  Client = client
  Names = {m0, m1}
  Models = {m0, m1}
  Default = m0
  NoModel = NoModel
  PhiModels = {NoModel}
  Sites = {"container"}
  MaxKills = 0
SPECIFICATION Spec
INVARIANT SwitchIsPersisted
