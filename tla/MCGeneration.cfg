CONSTANTS
  request <- MCRequest
  Lineages <- MCLineages
  CandidateIds = {"c1", "c2"}
  Seeds = {1, 2}
  Recipes = {"r"}
  Verifications <- MCVerifications
  Puzzles <- MCPuzzles
  MaxEvents = 4
SPECIFICATION Spec
INVARIANT GatesAgree
CHECK_DEADLOCK FALSE
