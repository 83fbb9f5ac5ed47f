CONSTANTS
  Switches = {s1, s2}
  Client = client
  Names = {m0, m1, m2}
  Models = {m1, m2}
  Default = m0
  NoModel = NoModel
  PhiModels = {NoModel, m1}
  Sites = {"host", "container"}
  MaxKills = 1
SPECIFICATION Spec
INVARIANTS SettingsTypeOK SettingsSurvive RestartKeepsModel
