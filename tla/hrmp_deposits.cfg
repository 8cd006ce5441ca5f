SPECIFICATION Spec
CONSTANTS
  a = a
  b = b
  x = x
  y = y
  None = None
  Paras = {a, b, x, y}
  System = {x, y}
  Channels <- Links
  Scenarios <- AtTimesFree
INVARIANT DepositsHeld
