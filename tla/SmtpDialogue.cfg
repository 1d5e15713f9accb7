CONSTANTS
  MaxLines = 3
  None = None
SPECIFICATION FairSpec
CHECK_DEADLOCK FALSE
INVARIANTS
  SmtpTypeOK
  InStep
  WaitsForNew
  UntroubledIsSent
PROPERTIES
  KeepsLetter
  SendEnds
