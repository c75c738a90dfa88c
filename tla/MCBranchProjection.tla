------------------------ MODULE MCBranchProjection ------------------------
(* A variable with three candidates beside one that the givens decide. *)
EXTENDS BranchProjection, TLC

CONSTANTS x, y, v1, v2, v3, rel

MCDomain == x :> {v1, v2, v3} @@ y :> {v1, v2}
MCAllDifferent == {{x, y}}

Atom(kind, var, val) == [kind |-> kind, var |-> var, val |-> val]

Relation == [kind |-> "other", id |-> rel]

MCPuzzles ==
  {[allowed |-> MCDomain, givens |-> g] :
     g \in {<<Atom("exclusion", y, v1), Atom("assignment", y, v2), Relation>>,
            \* refused: the exclusion comes after the assignment
            <<Atom("assignment", y, v2), Atom("exclusion", y, v1)>>}}

(* Branch identifiers other than the root's are interchangeable. *)
BranchSymmetry == Permutations(BranchIds \ {Root})
=============================================================================
