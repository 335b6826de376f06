SPECIFICATION Spec
CONSTANTS
  Unit = 2
  BackupHours <- MCBackupHours
  Delays <- MCDelays
  QueryFails = FALSE
  Horizon = 700
PROPERTIES
  SlotsRepeat
