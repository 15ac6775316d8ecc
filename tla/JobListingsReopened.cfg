CONSTANTS
  Workers = {w1, w2}
  Jobs = {j1}
  Titles = {t1, t2}
  None = none
  LastDay = 1
  MaxRequests = 3
SPECIFICATION Spec
PROPERTIES PublishedFromDraft
