SPECIFICATION Spec
CONSTANTS
  a = a
  b = b
  Tunnels = {a, b}
  NoTunnel = NoTunnel
  MaxEvents = 3
  Attaches = 3
  LogMax = 1
INVARIANT ListensToWhatItShows
INVARIANT ShownInStep
INVARIANT LogFaithful
INVARIANT CountNeverAhead
CHECK_DEADLOCK FALSE
