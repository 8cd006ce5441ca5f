SPECIFICATION Spec
CONSTANTS
  a = a
  b = b
  c = c
  None = None
  Paras = {a, b, c}
  MaxActiveOutboundChannels = 2
  MaxInboundSuspended = 2
  IndexMod = 8
  MaxMessageSize = 3
  FragmentLens = {1}
  MaxTotalSize = 9
  MaxFragments = 6
  Scenarios <- Varied
INVARIANTS
  TypeOK
  OnceInOrder
  PagesInWindow
  NeverFull
  EndsAgree
  SuspendedHasWork
  BoundedBypass
