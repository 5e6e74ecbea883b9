CONSTANTS
  Objects = {x, y}
  Nodes = {1, 2, 3}
  MaxVersion = 2
  Blank = Blank
SPECIFICATION FairSpec
INVARIANTS
  CompareCorrect
PROPERTIES
  CompareReturns
