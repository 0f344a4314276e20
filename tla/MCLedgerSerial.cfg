SPECIFICATION Spec
CONSTANTS
  s1 = s1
  s2 = s2
  k1 = k1
  k2 = k2
  k3 = k3
  x = x
  y = y
  Sessions = {s1}
  Keys = {k1, k2, k3}
  Symbols = {x, y}
  Orders <- MCSerialOrders
  StartingCash = 6200
  MaxCalls = 4
INVARIANTS
  CashReconciles
  PositionsReconcile
PROPERTIES
  SellsAreFifo
