SPECIFICATION DetectionFairSpec
CONSTANTS
  Tasks = {"app", "sys"}
  App = "app"
  FieldOrder <- MCFieldOrder
  Values = {1, 2}
  Unset = 65535
  Levels = {0, 1}
  Paras <- MCParas
  Single = {"delta"}
  RadLen = 2
  AppLen = 1
  MaxData = 1
  Confs <- MCConfs
INVARIANTS
  CacheIsTrue
  Attended
  TimerMatches
  DetectsWhenLit
PROPERTIES
  SettingsReach
  CallsReturn
  GoesDark
  DetectionResumes
