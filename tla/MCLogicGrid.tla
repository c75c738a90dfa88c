---------------------------- MODULE MCLogicGrid -----------------------------
(* The solve loop with the Logic Grid catalogue on a puzzle of three rows: the *)
(* anchor's items r1..r3, fixed by givens, and the items of two more           *)
(* categories, with a clue for each technique.                                 *)
EXTENDS LogicGridEngine, SequencesExt

Anchor == {"r1", "r2", "r3"}
Ports == {"a1", "a2", "a3"}
Boats == {"b1", "b2", "b3"}
MCVariables == Anchor \cup Ports \cup Boats
MCValues == 1 .. 3
MCDomain == [x \in MCVariables |-> MCValues]
MCAllDifferent == {Anchor, Ports, Boats}
MCOrdinal == [v \in MCValues |-> v]

Relate(shape, x, y) == [shape |-> shape, left |-> x, right |-> y]
Over(shape, X, Test(_)) ==
  [shape |-> shape, variables |-> X, allows |-> {f \in [X -> MCValues] : Test(f)}]

AfterFirst(f) == f["a3"] > 1
NotNext(f) == f["b3"] - f["a1"] # 1
OneOrTwo(f) == Cardinality({p \in {<<"a1", 2>>, <<"a2", 1>>, <<"b3", 1>>} : f[p[1]] = p[2]}) \in 1 .. 2
MCClues ==
  {Relate("equal", "a2", "b1"),
   Relate("not_equal", "b3", "r3"),
   Relate("less_than", "a1", "b2"),
   Relate("greater_than_or_equal", "a3", "b3"),
   Over("ordered_arithmetic", {"a3"}, AfterFirst),
   Over("numeric", {"a1", "b3"}, NotNext),
   Over("compound", {"a1", "a2", "b3"}, OneOrTwo)}
MCTables == {boolean_variables(c) : c \in MCClues}

Placements(X) == {p \in [X -> MCValues] : \A x, y \in X : x # y => p[x] # p[y]}
MCSolutions ==
  {f \in {[r1 |-> 1, r2 |-> 2, r3 |-> 3] @@ p @@ q : p \in Placements(Ports), q \in Placements(Boats)} :
     \A c \in MCClues : evaluate_boolean(c, f)}

AnchorGivens == {Assignment("r1", 1), Assignment("r2", 2), Assignment("r3", 3)}
(* A table holds 18 combinations: those of the last clue once a given excludes a *)
(* row of one of its items, but not those of the puzzle without further givens.  *)
FurtherGivens ==
  {{}} \cup {{[kind |-> k, var |-> x, val |-> v]} :
            k \in {"assignment", "exclusion"}, x \in {"a1", "a2", "b3"}, v \in MCValues}

MCInitial ==
  {create_initial_state([allowed |-> MCDomain, givens |-> SetToSeq(AnchorGivens \cup g)]) :
     g \in FurtherGivens}
=============================================================================
