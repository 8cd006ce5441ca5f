SPECIFICATION Spec
CONSTANTS
  a = a
  b = b
  None = None
  Kinds <- MCLight
  HeapSize = 4
  HeaderLen = 1
  MaxStale = 1
  ServiceWeight = 6
  BumpWeight = 1
  QueueWeight = 1
  PageWeight = 1
  ItemWeight = 1
  c = c
  Origins = {a, b, c}
  IdleMaxServiceWeight = 0
  IdleWeights = {}
  Yielding = {a}
  Nested = {a}
  Pausable = {}
  Prioritised = {a}
  MaxMessages = 3
INVARIANTS
  ReadyIfWindow
  LinksConsistent
  SingleRing
