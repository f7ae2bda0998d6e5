SPECIFICATION Spec
CONSTANTS
  Jobs = {1}
  Runs = {1, 2}
  Ids = {1, 2, 3}
  Size = 1
  Attempts = 2
  CancelAttempts = 2
  MaxClicks = 3
  MaxLost = 1
INVARIANT NoJobStranded
INVARIANT SavedOncePerFile
PROPERTY CancelLeavesNothing
PROPERTY UploadSettles
CHECK_DEADLOCK FALSE
