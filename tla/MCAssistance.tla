---------------------------- MODULE MCAssistance ----------------------------
(* A puzzle of three rows with two solutions: the rows are the anchor category, *)
(* the ports and one boat are given, the clue keeps the second boat behind it   *)
(* and the other two boats may change places.  A mark may be right, wrong, or   *)
(* neither.                                                                     *)
EXTENDS Assistance, TLC

Items(category) == {<<category, v>> : v \in 1 .. 3}
boat(i) == <<"boat", i>>

MCCategories == {Items(category) : category \in {"row", "boat", "port"}}
MCItems == UNION MCCategories
MCRows == 1 .. 3
MCDomain == [x \in MCItems |-> MCRows]
MCOrdinal == [v \in MCRows |-> v]
MCClues == {[shape |-> "less_than", left |-> boat(1), right |-> boat(2)]}
MCTables == {boolean_variables(c) : c \in MCClues}

(* The rows and ports as given, and the boats as the clue and the given boat allow. *)
Placed == [x \in Items("row") \cup Items("port") |-> x[2]]
Placements ==
  {p \in [Items("boat") -> MCRows] : p[boat(1)] = 1 /\ \A x, y \in DOMAIN p : x # y => p[x] # p[y]}
MCSolutions == {f \in {Placed @@ p : p \in Placements} : \A c \in MCClues : evaluate_boolean(c, f)}

MCPuzzle ==
  [allowed |-> MCDomain,
   givens  |-> [i \in MCRows |-> Assignment(<<"row", i>>, i)] \o
               [i \in MCRows |-> Assignment(<<"port", i>>, i)] \o <<Assignment(boat(1), 1)>>]
=============================================================================
