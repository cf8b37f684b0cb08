SPECIFICATION Spec
CONSTANTS
  NumGroups = 3
  Workers = {w1, w2}
  MaxRetries = 1
  NoGroup = NoGroup
INVARIANTS
  GroupsAccounted
PROPERTIES
  Terminates
  Implements
