CONSTANTS
  Workers = {w1, w2}
  Ids = {i1, i2}
  Emails = {e1, e2}
  FreeEmails = {e1}
  Values = {v1, v2}
  None = none
  MaxAge = 0
  LastTick = 1
  MaxRequests = 3
SPECIFICATION Spec
CHECK_DEADLOCK FALSE
INVARIANTS TypeOK OneAccountPerAddress ColumnsKept VerifiedByItsMail
PROPERTIES AnswersOfRegistrations
SYMMETRY Symmetry
