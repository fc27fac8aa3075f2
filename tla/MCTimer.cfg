SPECIFICATION Spec
CONSTANTS
  Nodes = {n1, n2, n3}
  Timeouts = {1, 2, 3}
  Wrap = 5
INVARIANT
  TypeOK
PROPERTIES
  NeverEarly
  OnTime
