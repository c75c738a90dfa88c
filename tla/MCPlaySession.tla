--------------------------- MODULE MCPlaySession ----------------------------
(* Two rows.  The anchor category is fixed by its givens, as every puzzle's is, *)
(* and another by givens of its own; of the third one cell is given as excluded. *)
EXTENDS PlaySession

MCVariables == {"a1", "a2", "p1", "p2", "x", "y"}
MCValues == {"v1", "v2"}
MCCategories == {{"a1", "a2"}, {"p1", "p2"}, {"x", "y"}}
MCDomain == [x \in MCVariables |-> MCValues]
MCPuzzle ==
  [allowed |-> MCDomain,
   givens  |-> <<Assignment("a1", "v1"), Assignment("a2", "v2"),
                 Assignment("p1", "v2"), Assignment("p2", "v1"), Exclusion("y", "v1")>>]
MCClueModels == {f \in [MCVariables -> MCValues] : f["x"] # f["p1"]}
=============================================================================
