SPECIFICATION Spec
CONSTANTS
  Unit = 2
  BackupHours <- MCBackupHours
  Delays <- MCDelays
  QueryFails = TRUE
  Horizon = 700
INVARIANTS
  TypeOK
  NextIsLater
  RunsOnSlots
  NoSlotSkipped
  WaitBounded
