SPECIFICATION FairSpec
CONSTANTS
  None = None
  Relayers = {r1, r2}
  MaxUnrewardedRelayers = 1
  MaxUnconfirmedMessages = 2
  HeadersToKeep = 1
  Modes = {"Normal", "RejectingOutboundMessages"}
  ClosableEnds = {}
  MayPrune = {}
  MaxMessages = 3
PROPERTIES
  EventuallyConfirmed
