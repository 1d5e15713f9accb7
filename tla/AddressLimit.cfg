CONSTANTS
  Workers = {w1}
  Names = {n1, n2}
  Emails = {e1, e2}
  Addresses = {i1}
  Codes = {k1, k2}
  MaxTeams = 1
  MaxFaults = 0
  None = None
SPECIFICATION MCSpec
SYMMETRY Symmetry
CHECK_DEADLOCK FALSE
INVARIANTS
  AtMostMaxTeams
