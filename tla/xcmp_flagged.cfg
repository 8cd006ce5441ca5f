SPECIFICATION Spec
CONSTANTS
  a = a
  b = b
  c = c
  None = None
  Paras = {a, b}
  MaxActiveOutboundChannels = 2
  MaxInboundSuspended = 2
  IndexMod = 4
  MaxMessageSize = 3
  FragmentLens = {1}
  MaxTotalSize = 9
  MaxFragments = 3
  Scenarios <- Mutual
INVARIANTS
  SignalsAreFlagged
