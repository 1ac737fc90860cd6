SPECIFICATION Spec
CONSTANTS
  p1 = p1
  p2 = p2
  p3 = p3
  Procs = {p1, p2, p3}
  Waiters = {p1, p2, p3}
  Signallers = {p1, p2, p3}
  EintrSites <- Benign
  MaxEintr = 2
  MaxCrash = 0
  SemMax = 4
  MaxDrift = 1
  Garbage <- Zero
SYMMETRY Symmetry
INVARIANT TypeOK
INVARIANT UnblockExclusive
INVARIANT GateExclusive
INVARIANT LoadsFresh
INVARIANT CountersAgree
CHECK_DEADLOCK FALSE
