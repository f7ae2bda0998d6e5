CONSTANTS
  r1 = r1
  r2 = r2
  Requests = {r1, r2}
  BodyLimit = 1
  MaxChunks = 2
  HeaderSize = 2
  MaxBytes = 4
  NoBody = NoBody
SPECIFICATION Spec
INVARIANTS
  CapturedWhole
  LocalGetsOwnBody
  ListenersReleased
  FramesComplete
  EndMissedOnlyIfOvertaken
CHECK_DEADLOCK FALSE
