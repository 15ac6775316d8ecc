CONSTANTS
  Workers = {w1, w2}
  Users = {u1, u2}
  Profiles = {p1}
  None = none
  Cooldown = 1
  Expiry = 1
  LastTick = 2
  MaxRequests = 3
SPECIFICATION Spec
CHECK_DEADLOCK FALSE
INVARIANTS TypeOK MembersExact OwnerKept TwoTier
PROPERTIES DecisionsStand TokensPaced ReplacedTokensVoid
SYMMETRY Symmetry
