CONSTANTS
  Workers = {w1}
  Candidates = {c1}
  Jobs = {j1}
  Apps = {a1}
  Notes = {blank}
  Blank = blank
  None = none
  MaxLog = 2
  Concurrency = 1
  MaxRetries = 0
SPECIFICATION MailSpec
INVARIANTS NoticesAreTrue
