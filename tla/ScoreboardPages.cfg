CONSTANTS
  Teams = {a}
  c1 = c1
  c2 = c2
  f1 = f1
  f2 = f2
  Challenges = {c1}
  Flags = {f1}
  Threads = {t1}
  Sessions = {s1}
  Readers = {r1}
  Requests = {"teamstatus"}
  InitOpen = {c1}
  NextOpen <- MCNextOpen
  SolutionOf <- MCSolutionOf
  MaxRetries = 1
  MaxFaults = 2
  MaxTime = 1
  None = None
  Failed = Failed
SPECIFICATION MCLiveSpec
INVARIANTS
  SbTypeOK
  SbInductive
  FreshAfterDrop
PROPERTIES
  AnswersShowGranted
  SolvesShown
