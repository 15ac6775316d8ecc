CONSTANTS
  Workers = {w1}
  Candidates = {c1}
  Jobs = {j1}
  Apps = {a1}
  Notes = {blank}
  Blank = blank
  None = none
  MaxLog = 2
  Concurrency = 2
  MaxRetries = 1
SPECIFICATION MailFairSpec
INVARIANTS MailTypeOK MailsBounded NoticeOnceAndAfterMail PayloadsValid
PROPERTIES EveryTaskEnds PoolIsAComponent
