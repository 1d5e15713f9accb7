CONSTANTS
  Teams = {a, b}
  c1 = c1
  c2 = c2
  f1 = f1
  f2 = f2
  junk = junk
  Challenges = {c1, c2}
  Flags = {f1, f2, junk}
  Threads = {t1, t2}
  Sessions = {s1, s2}
  InitOpen = {c1}
  NextOpen <- MCNextOpen
  SolutionOf <- MCSolutionOf
  MaxRetries = 2
  MaxFaults = 0
  MaxTime = 3
  None = None
SPECIFICATION MCSpec
SYMMETRY Symmetry
INVARIANTS
  UnlockKept
PROPERTIES
  ReopenedOnlyByEarlierCall
  KeepsLedger
