SPECIFICATION Spec
CONSTANTS
  Names <- MCNames
  Cases <- MCCases
  ServiceKeys = {k1}
  InstanceKeys = {k2}
  ValidValues = {v1, v2}
  InvalidValues = {v3}
  DefaultValue = v1
  Services = {s1}
  Modules = {m1}
  Versions = {1, 2}
  Needs <- MCNeeds
  NOBODY = nobody
  EffectNames = {"rainbow", "my mood", "mymood"}
  Internal <- MCInternal
  FileName <- MCFileName
  Directories = {1, 2}
  EffectArgs <- MCArgs
  MaxReads = 2
  NoFile = NoFile
INVARIANTS
  Corrected
  SettingsAgree
  RunsInstalled
  EffectsFound
PROPERTIES
  RestartHappens
CHECK_DEADLOCK FALSE
