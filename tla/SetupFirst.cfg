CONSTANTS
  c1 = c1
  c2 = c2
  Ids = {c1, c2}
  Profiles = {"default", "staging"}
  DefaultName = "default"
  Server = "tunli.app"
  Ops <- MCOps
  Elsewhere = "elsewhere"
  Old = Old
  None = None
  Absent = Absent
  Torn = Torn
SYMMETRY Symmetry
SPECIFICATION Spec
INVARIANT WizardSavesProfile
CHECK_DEADLOCK FALSE
