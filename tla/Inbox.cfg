CONSTANTS
  Calls = {c1, c2}
  Notices = {n1}
  None = none
  MaxExpired = 1
  MaxEvents = 1
SPECIFICATION Spec
INVARIANTS TypeOK ShownReadIsRead TokensFollowSession
PROPERTIES WipedForACause RotatedTokensRefused BadgeCatchesUp
