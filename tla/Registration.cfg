CONSTANTS
  Workers = {w1, w2}
  Names = {n1, n2}
  Emails = {e1, e2}
  Addresses = {i1}
  Codes = {k1, k2, k3}
  MaxTeams = 0
  MaxFaults = 1
  None = None
SPECIFICATION MCSpec
SYMMETRY Symmetry
CHECK_DEADLOCK FALSE
INVARIANTS
  TypeOK
  DoneIsKept
  TakenJustified
  AddressBound
  KoJustified
  ValidTokenMailed
PROPERTIES
  KeepsAccounts
