CONSTANTS
  Workers = {w1, w2}
  Browsers = {b1, b2}
  Teams = {t1, t2}
  Addresses = {i1, i2}
  Passwords = {p1, p2}
  Lists <- MCLists
  MaxRequests = 3
  MaxFaults = 2
  MaxSolves = 3
  None = None
SPECIFICATION MCSpec
SYMMETRY Symmetry
CHECK_DEADLOCK FALSE
INVARIANTS
  SessionTypeOK
  SeenIsStored
  ServedIsLogged
  LoginAnswered
  LogoutHolds
  StatusWhole
PROPERTIES
  KeepsAccess
