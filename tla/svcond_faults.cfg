SPECIFICATION Spec
CONSTANTS
  p1 = p1
  p2 = p2
  p3 = p3
  Procs = {p1, p2}
  Waiters = {p1, p2}
  Signallers = {p1, p2}
  EintrSites <- Sites
  MaxEintr = 2
  MaxCrash = 1
  SemMax = 4
  MaxDrift = 1
  Garbage <- Zero
SYMMETRY Symmetry
INVARIANT UnblockExclusive
INVARIANT LockExclusive
CHECK_DEADLOCK FALSE
