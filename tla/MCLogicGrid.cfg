CONSTANTS
  Variables <- MCVariables
  Values <- MCValues
  Domain <- MCDomain
  AllDifferent <- MCAllDifferent
  OtherAtoms = {}
  ContradictionIds = {}
  Solutions <- MCSolutions
  Backends = {z3, cpsat}
  Honest = {z3, cpsat}
  Tabulating = {cpsat}
  Tables <- MCTables
  MAX_TABLE_COMBINATIONS = 18
  find_applications <- logic_grid_applications
  InitialStates <- MCInitial
  MaxSteps = 20
  Clues <- MCClues
  Ordinal <- MCOrdinal
SPECIFICATION Spec
INVARIANTS
  RulesAreSound
  PremisesExplain
  NothingIsRejected
  StalledIsConsistent
  OutcomeIsOrderIndependent
