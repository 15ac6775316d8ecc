CONSTANTS
  Workers = {w1, w2}
  Candidates = {c1}
  Jobs = {j1, j2}
  AppIds = {a1, a2}
  Notes = {blank}
  Blank = blank
  None = none
  MaxRequests = 3
  AdminEditing = TRUE
SPECIFICATION Spec
SYMMETRY Alike
INVARIANTS UniqueApplication NoOrphan
