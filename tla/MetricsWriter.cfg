SPECIFICATION Spec
CONSTANTS
  MaxRequests = 2
  MaxMinute = 1
  MaxLives = 1
  Retain = 1
  MaxRecent = 2
  MaxQueue = 1
  BatchSize = 1
  Unbindable = {1}
PROPERTIES
  WriterKeepsGoing
CHECK_DEADLOCK FALSE
