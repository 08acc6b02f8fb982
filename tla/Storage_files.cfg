SPECIFICATION Spec

CONSTANTS
  MaxVersion = 4
  MaxIndex = 3
  MaxFailures = 2
  MaxCrashes = 2

INVARIANTS
  FilesAreWhole
  NothingIsLost
  AnswersAreOnDisk
  StorageInv

CHECK_DEADLOCK FALSE
