SPECIFICATION FairSpec
CONSTANTS
  p1 = p1
  p2 = p2
  p3 = p3
  Procs = {p1, p2, p3}
  Waiters = {p1, p2}
  Signallers = {p3}
  EintrSites <- None
  MaxEintr = 0
  MaxCrash = 0
  SemMax = 4
  MaxDrift = 1
  Garbage <- Zero
PROPERTY WaitReleasesLock
PROPERTY BroadcastWakesAll
PROPERTY SignalReturns
PROPERTY ImplementsCondVar
CHECK_DEADLOCK FALSE
