SPECIFICATION Spec
CONSTANTS
  None = None
  Relayers = {r1, r2}
  MaxUnrewardedRelayers = 2
  MaxUnconfirmedMessages = 2
  HeadersToKeep = 2
  Modes = {"Normal", "Halted"}
  ClosableEnds = {"source", "target"}
  MayPrune = {1}
  MaxMessages = 3
SYMMETRY RelayerSymmetry
INVARIANTS
  TypeOK
  NonceOrder
  EntriesTellWhoDelivered
  WithinLimits
  ConfirmationNeverFails
  UnconfirmedAreStored
  RewardedOnce
PROPERTIES
  ChannelSpec
