CONSTANTS
  x = x
  y = y
  v1 = v1
  v2 = v2
  v3 = v3
  rel = rel
  Variables = {x, y}
  Values = {v1, v2, v3}
  Domain <- MCDomain
  AllDifferent <- MCAllDifferent
  OtherAtoms = {rel}
  ContradictionIds = {c1}
  BranchIds = {root, b1, b2}
  Root = root
  NoParent = none
  Puzzles <- MCPuzzles
  MaxSequence = 5
SYMMETRY BranchSymmetry
SPECIFICATION Spec
INVARIANTS
  StatesConsistent
  OneOpenPath
  SearchConfined
PROPERTIES
  ImplementsScopes
CHECK_DEADLOCK FALSE
