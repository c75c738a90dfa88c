CONSTANTS
  Variables <- MCVariables
  Values <- MCValues
  Domain <- MCDomain
  AllDifferent <- MCCategories
  OtherAtoms = {}
  ContradictionIds = {}
  puzzle <- MCPuzzle
  NoValue = none
  ClueModels <- MCClueModels
  Names = {"n1", "n2"}
  MAX_PLAY_EVENTS = 5
SPECIFICATION PlaySpec
INVARIANTS
  MarksFollowHistory
  ShapeIsValid
  ConflictsAreCurrent
  CompletedIsSolved
CHECK_DEADLOCK FALSE
