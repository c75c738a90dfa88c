CONSTANTS
  Variables <- MCVariables
  Values <- MCValues
  Domain <- MCDomain
  AllDifferent <- MCAllDifferent
  OtherAtoms = {"rel"}
  ContradictionIds = {"c1"}
  Solutions <- MCSolutions
  Backends = {z3, cpsat}
  Honest = {z3}
  Tabulating = {cpsat}
  Tables <- MCTables
  MAX_TABLE_COMBINATIONS = 18
  Expressions <- MCExpressions
  ClueExpressions <- MCClueExpressions
  Clues <- MCClues
  find_applications <- MCFind
  InitialStates <- MCInitial
  MaxSteps = 3
SPECIFICATION FairSpec
INVARIANTS
  SolutionsPreserved
  VerifiedStatesAreValid
  SolvedIsUnique
  ReadersAgree
PROPERTIES
  Terminates
  ImplementsNarrowing
