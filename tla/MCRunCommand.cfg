SPECIFICATION Spec
CONSTANTS
  Absent = Absent
  Mistyped = Mistyped
  NotANumber = NotANumber
  NoArtifact = NoArtifact
  RadiusTable = {"Zn", "O"}
  UnsignedRange = 64
  MaxCommands = 1
  DefaultOf <- MCDefaultOf
  Files <- MCFiles
  Worlds <- MCWorlds
CHECK_DEADLOCK FALSE
INVARIANTS
  CommandTypeOK
  SupercellIsMinimal
  TiledInLockstep
  EveryStepSampled
  VouchedRunsSucceed
PROPERTIES
  ArtifactIsCurrent
  CommandsEnd
