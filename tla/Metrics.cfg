SPECIFICATION Spec
CONSTANTS
  MaxRequests = 4
  MaxMinute = 3
  MaxLives = 2
  Retain = 1
  MaxRecent = 2
  MaxQueue = 2
  BatchSize = 2
  Unbindable = {3}
INVARIANTS
  TypeOK
  EveryRowAccounted
  DiskMinutesWhole
  ClosedMinutesOnDisk
  PanelIsRecent
PROPERTIES
  QueuedRowsAreTaken
CHECK_DEADLOCK FALSE
