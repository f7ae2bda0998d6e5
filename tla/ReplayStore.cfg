CONSTANTS
  p1 = p1
  p2 = p2
  s1 = s1
  text = text
  binary = binary
  Capacity = 2
  NoBody = NoBody
  Profiles = {p1, p2}
  Slots = {s1}
  Texts = {text}
  Binaries = {binary}
  Mangled = Mangled
  MaxId = 3
SPECIFICATION StoreSpec
INVARIANTS
  ReplayFaithful
  ListedNewestFirst
  EvictsOldest
CHECK_DEADLOCK FALSE
