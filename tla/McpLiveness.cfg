SPECIFICATION Spec
CONSTANTS
  Ids = {i1, i2}
  Workers = {w1, w2}
  Free = Free
  MaxFrames = 3
PROPERTIES
  EveryRequestAnswered
  ServeReturns
