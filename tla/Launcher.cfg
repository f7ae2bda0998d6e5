SPECIFICATION Spec
CONSTANTS
  Versions <- MCVersions
  First <- MCFirst
  MaxRestarts = 3
INVARIANT OneChild
INVARIANT TunnelsSurvive
 
CHECK_DEADLOCK FALSE
