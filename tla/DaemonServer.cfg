CONSTANTS
  p1 = p1
  p2 = p2
  h1 = h1
  h2 = h2
  h3 = h3
  Profiles = {p1, p2}
  Handles = {h1, h2, h3}
  NoHandle = NoHandle
SPECIFICATION FairSpec
PROPERTIES
  QuietRestartPreserves
  OwnerLostOnlyToOverlap
  RestoreTerminates
CHECK_DEADLOCK FALSE
