CONSTANTS
  Uploads = {1, 2}
  Targets <- SomeTargets
  Contents = {1, 2}
  Built = 1
  Channels = {"stable"}
  Cuts = {0, 3}
  MaxPacks = 2
  MaxCrashes = 1
  MaxDamages = 1
  Unreadable = Unreadable
  Nil = Nil
SPECIFICATION Spec
CHECK_DEADLOCK FALSE
INVARIANTS
  TypeOK
  RowsAreWhole
  UploadAnswered
  FilesKept
  InstalledWhole
  DefaultsSound
PROPERTIES
  RetiredStaysRetired
  StagingCleared
