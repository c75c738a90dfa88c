CONSTANTS
  Variables <- MCItems
  Values <- MCRows
  Domain <- MCDomain
  AllDifferent <- MCCategories
  OtherAtoms = {}
  ContradictionIds = {}
  Solutions <- MCSolutions
  Backends = {z3, cpsat}
  Honest = {z3}
  Tabulating = {cpsat}
  Tables <- MCTables
  MAX_TABLE_COMBINATIONS = 9
  Clues <- MCClues
  Ordinal <- MCOrdinal
  puzzle <- MCPuzzle
  NoValue = 0
  ClueModels <- MCSolutions
  Names = {"n1"}
  MAX_PLAY_EVENTS = 3
  Levels = {6}
SPECIFICATION Spec
INVARIANTS
  AdviceIsTrue
  StepsNeedRightMarks
  SuggestionsArePlayable
  NeverFails
CHECK_DEADLOCK FALSE
