CONSTANTS
  u1 = u1
  u2 = u2
  r1 = r1
  r2 = r2
  Uploads = {u1, u2}
  Requests = {r1, r2}
  Names <- MCNames
  Sizes = {0, 3}
  ChunkSize = 2
  MaxSessions = 1
  MaxSuffix = 3
  NoUpload = NoUpload
  OtherFile = OtherFile
SPECIFICATION FairSpec
INVARIANTS
  ResumePointVerified
  SavedComplete
  SavedOnce
  OnceAtMostOne
  PartFilesOwned
PROPERTIES
  HandlersReturn
  OnceStopsUnlessCut
CHECK_DEADLOCK FALSE
