CONSTANTS
  Workers = {w1}
  Candidates = {c1}
  Jobs = {j1}
  AppIds = {a1, a2}
  Notes = {blank, note}
  Blank = blank
  None = none
  MaxRequests = 5
  AdminEditing = FALSE
SPECIFICATION Spec
SYMMETRY Alike
INVARIANTS AnnouncedMovesLegal
PROPERTIES ImplementsWorkflow NotesChangeOnRequest
