CONSTANTS
  Teams = {a}
  c1 = c1
  c2 = c2
  f1 = f1
  f2 = f2
  junk = junk
  Challenges = {c1, c2}
  Flags = {f1}
  Threads = {t1}
  Sessions = {s1}
  InitOpen = {c1}
  NextOpen <- MCNextOpen
  SolutionOf <- MCSolutionOf
  MaxRetries = 2
  MaxFaults = 2
  MaxTime = 1
  None = None
SPECIFICATION MCSpec
INVARIANT AlreadySolvedIsStored
