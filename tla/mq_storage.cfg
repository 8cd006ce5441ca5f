SPECIFICATION Spec
CONSTANTS
  a = a
  b = b
  None = None
  Kinds <- MCKinds
  HeapSize = 4
  HeaderLen = 1
  MaxStale = 1
  ServiceWeight = 6
  BumpWeight = 1
  QueueWeight = 1
  PageWeight = 1
  ItemWeight = 1
  Origins = {a, b}
  IdleMaxServiceWeight = 3
  IdleWeights = {9}
  Yielding = {a}
  Nested = {a, b}
  Pausable = {b}
  Prioritised = {a}
  MaxMessages = 3
INVARIANTS
  TypeOK
  Accounting
  Conservation
  ServedInOrder
  WindowPagesExist
  HandlerInformed
