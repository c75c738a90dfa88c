CONSTANTS
  BadText = {"bad"}
  MaxCategories = 3
  MaxItems = 3
  MaxClues = 4
  MaxDepth = 2
  MaxRevisions = 2
  Templates <- MCTemplates
  Expressions <- MCExpressions
  FirstDraft <- MCFirstDraft
  Edits <- MCEdits
SPECIFICATION BuilderSpec
INVARIANTS
  ValidDraftsCompile
  ReadyMeansUnique
CHECK_DEADLOCK FALSE
