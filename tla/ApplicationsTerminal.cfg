CONSTANTS
  Workers = {w1, w2}
  Candidates = {c1}
  Jobs = {j1}
  AppIds = {a1}
  Notes = {blank}
  Blank = blank
  None = none
  MaxRequests = 3
  AdminEditing = FALSE
SPECIFICATION Spec
PROPERTIES TerminalStatus
