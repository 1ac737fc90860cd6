SPECIFICATION Spec
CONSTANTS
  s1 = s1
  s2 = s2
  c1 = c1
  c2 = c2
  Starts = {s1, s2}
  Conts = {c1}
  Leads = {s1}
  MaxLen = 4
  MaxList = 2
  MaxItem = 2
INVARIANT LcsCorrect
INVARIANT Lcs2Correct
INVARIANT LevenshteinNonEmpty
INVARIANT MatrixCorrect
INVARIANT LcsStringCorrect
CHECK_DEADLOCK FALSE
