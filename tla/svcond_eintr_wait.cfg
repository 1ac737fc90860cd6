SPECIFICATION FairSpec
CONSTANTS
  p1 = p1
  p2 = p2
  p3 = p3
  Procs = {p1, p2}
  Waiters = {p1, p2}
  Signallers = {p1, p2}
  EintrSites <- InQueue
  MaxEintr = 1
  MaxCrash = 0
  SemMax = 4
  MaxDrift = 1
  Garbage <- Zero
PROPERTY WaitReleasesLock
CHECK_DEADLOCK FALSE
