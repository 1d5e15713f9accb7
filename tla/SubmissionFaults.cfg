CONSTANTS
  Teams = {a}
  c1 = c1
  c2 = c2
  f1 = f1
  f2 = f2
  junk = junk
  Challenges = {c1, c2}
  Flags = {f1}
  Threads = {t1, t2}
  Sessions = {s1, s2, s3}
  InitOpen = {c1}
  NextOpen <- MCNextOpen
  SolutionOf <- MCSolutionOf
  MaxRetries = 2
  MaxFaults = 2
  MaxTime = 1
  None = None
SPECIFICATION MCSpec
SYMMETRY Symmetry
INVARIANTS
  TypeOK
  Inductive
  MarkJustified
  AlreadySolvedJustified
  AcceptedIsScored
  RightFlagKept
  DoubleRowOnlyByOverlap
  ScoresCurrent
