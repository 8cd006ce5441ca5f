SPECIFICATION Spec
CONSTANTS
  a = a
  b = b
  x = x
  y = y
  None = None
  Paras = {a, b, x, y}
  System = {x, y}
  Channels <- Links
  Scenarios <- Varied
INVARIANTS TypeOK DepositsAccounted FailedResumeOwesNothing CountsMatch IndexesMatch WithinChannelLimits ParticipantsExist ContentsCounted DigestCovers OvershootBounded
PROPERTIES LeavesOnlyRead 
