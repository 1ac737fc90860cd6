SPECIFICATION FairSpec
CONSTANTS
  p1 = p1
  p2 = p2
  Procs = {p1, p2}
  Modes = {"attach", "creat", "excl"}
  Value = 1
  MaxTries = 3
  MaxSets = 3
  MaxPosts = 2
  MaxCrash = 1
INVARIANT TypeOK
INVARIANT OpenInitialized
INVARIANT NoPostLost
PROPERTY OpenReturns
