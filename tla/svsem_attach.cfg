SPECIFICATION Spec
CONSTANTS
  p1 = p1
  p2 = p2
  Procs = {p1, p2}
  Modes = {"attach", "creat"}
  Value = 1
  MaxTries = 2
  MaxSets = 2
  MaxPosts = 1
  MaxCrash = 1
INVARIANT AttachInitialized
CHECK_DEADLOCK FALSE
