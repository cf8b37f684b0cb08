SPECIFICATION Spec
CONSTANTS
  Ids = {i1, i2, i3}
  Workers = {w1, w2}
  Free = Free
  MaxFrames = 4
INVARIANTS
  TableExact
  AnsweredOnce
SYMMETRY McpSymmetry
