SPECIFICATION Spec
CONSTANTS
  Nothing = Nothing
  Yes = Yes
  No = No
  Junk = Junk
  Elems = {1, 2}
  Nodes = {1, 2, 3}
  Capacities = {2, 3}
  SeqSize = 4
  Values = {0, 1, 2}
  Capacity = 4
  MaxSize = 5
  Keys <- MCKeys
  Hash <- MCHash
  Letters = {0, 1}
  MaxLen = 2
  Bits = 3
  Elements = 4
  Cells = 5
  Rows = 2
  Cols = 3
  CellValues = {0, 1}
  Factors = {1}
  Failing = {}
  Vals = {1, 2, 3}
  ListLen = 4
  TreeLen = 6
  NaryNodes = 5
  GraphNodes = {0, 1, 2}
  GraphEdges = 3
  IntBits = 3
  WordBits = 16
  MaxN = 4
  Moduli = {2, 3, 5}
  Half = 2
  Intervals = 3
  Chars = {48, 65, 97, 122}
  StrLen = 3
INVARIANTS InBounds  ChoicesFair
PROPERTIES ImplementsSequence ImplementsCollection
CHECK_DEADLOCK FALSE
