--------------------------- MODULE LogicGridRules ---------------------------
(***************************************************************************)
(* The human rules of the Logic Grid family: what each rule proposes for   *)
(* one clue, or one category, in one state, and which premises it cites.   *)
(*                                                                         *)
(* Every variable ranges over the rows of the anchor category.  A clue     *)
(* that relates two variables directly keeps its shape, since the rules    *)
(* read it; any other clue is the set of assignments it allows.            *)
(***************************************************************************)
EXTENDS Verification, Integers, FiniteSets

CONSTANTS
  Clues,
  Ordinal                 \* the anchor's ordinals: the order of the rows

Orders == {"less_than", "less_than_or_equal", "greater_than", "greater_than_or_equal"}
Relations == Orders \cup {"equal", "not_equal"}
Others == {"ordered_arithmetic", "numeric", "compound"}

IsClue(c) ==
  \/ c.shape \in Relations /\ {c.left, c.right} \subseteq Variables
  \/ /\ c.shape \in Others
     /\ c.variables \subseteq Variables /\ c.allows \subseteq [c.variables -> Values]

boolean_variables(c) == IF c.shape \in Relations THEN {c.left, c.right} ELSE c.variables

technique_for(c) ==
  CASE c.shape \in {"equal", "not_equal"}              -> "association"
    [] c.shape \in Orders \cup {"ordered_arithmetic"}  -> "ordering"
    [] c.shape = "numeric"                             -> "numeric_relation"
    [] OTHER                                           -> "compound_logic"

evaluate_boolean(c, f) ==
  CASE c.shape = "equal"                 -> f[c.left] = f[c.right]
    [] c.shape = "not_equal"             -> f[c.left] # f[c.right]
    [] c.shape = "less_than"             -> Ordinal[f[c.left]] < Ordinal[f[c.right]]
    [] c.shape = "less_than_or_equal"    -> Ordinal[f[c.left]] <= Ordinal[f[c.right]]
    [] c.shape = "greater_than"          -> Ordinal[f[c.left]] > Ordinal[f[c.right]]
    [] c.shape = "greater_than_or_equal" -> Ordinal[f[c.left]] >= Ordinal[f[c.right]]
    [] OTHER                             -> [x \in c.variables |-> f[x]] \in c.allows

(* What LogicGridSpec guarantees: three or more categories share out the items, *)
(* each has one item per row, all items range over the rows, and an ordered     *)
(* anchor numbers them.                                                         *)
LogicGridContract ==
  /\ IsFiniteSet(Values) /\ Cardinality(Values) >= 2
  /\ IsFiniteSet(AllDifferent) /\ Cardinality(AllDifferent) >= 3
  /\ UNION AllDifferent = Variables
  /\ \A g, h \in AllDifferent : g # h => g \cap h = {}
  /\ \A g \in AllDifferent : IsFiniteSet(g) /\ Cardinality(g) = Cardinality(Values)
  /\ \A x \in Variables : Domain[x] = Values
  /\ Ordinal \in [Values -> Int]

ASSUME RowsAssumption == LogicGridContract
ASSUME CluesAssumption == \A c \in Clues : IsClue(c)
ASSUME GridTablesAssumption == Tables = {boolean_variables(c) : c \in Clues}
ASSUME CluesHoldAssumption == \A f \in Solutions, c \in Clues : evaluate_boolean(c, f)

----------------------------------------------------------------------------
(* Candidates.  The supporting constraint is the clue or the category.          *)

Candidate(rule, support, premises, claim) ==
  [rule |-> rule, support |-> support, premises |-> premises, claim |-> claim]

Fixed(s, x) == \E v \in Values : s.cand[x] = {v}
Open(s, x) == \E v, w \in s.cand[x] : v # w

(* The premises "x is at its only row", for a fixed x. *)
assignment(x, s) == {Assignment(x, v) : v \in s.cand[x]}

(* Mutant: the exclusion is cited whether or not it was asserted. *)
absence_premise_Presumed(x, v, s) == {Exclusion(x, v)}

(* The asserted atom that says x is not at v, if there is one. *)
absence_premise(x, v, s) ==
  IF <<x, v>> \in s.excluded THEN {Exclusion(x, v)}
  ELSE {Assignment(x, w) : w \in {u \in Values \ {v} : <<x, u>> \in s.assigned}}

Explained(x, V, s) == \A v \in V : absence_premise(x, v, s) # {}
Absences(x, V, s) == UNION {absence_premise(x, v, s) : v \in V}

----------------------------------------------------------------------------
(* Direct association: x and other are in the same row. *)
MatchCandidates(c, x, other, s) ==
  LET meet == s.cand[x] \cap s.cand[other]
      lost == s.cand[x] \ meet
  IN  {Candidate("association", c,
                 IF Fixed(s, other) THEN assignment(other, s) ELSE Absences(other, lost, s),
                 Assignment(x, v)) :
         v \in {u \in meet : /\ meet = {u} /\ Open(s, x)
                             /\ Fixed(s, other) \/ Explained(other, lost, s)}}
      \cup
      {Candidate("association", c, absence_premise(other, v, s), Exclusion(x, v)) :
         v \in {u \in lost : /\ \E p, q \in meet : p # q
                             /\ absence_premise(other, u, s) # {}}}

(* Direct association: x and other are in different rows. *)
ApartCandidates(c, x, other, s) ==
  {Candidate("association", c, assignment(other, s), Exclusion(x, v)) :
     v \in {u \in s.cand[x] : s.cand[other] = {u} /\ Open(s, x)}}

AssociationRule(c, s) ==
  CASE c.shape = "equal" ->
         MatchCandidates(c, c.left, c.right, s) \cup MatchCandidates(c, c.right, c.left, s)
    [] c.shape = "not_equal" ->
         ApartCandidates(c, c.left, c.right, s) \cup ApartCandidates(c, c.right, c.left, s)
    [] OTHER -> {}

----------------------------------------------------------------------------
(* Category bijection: an occupied row is closed to the others, and a row that *)
(* only one item can take is that item's.                                      *)
OccupiedRows(g, s) ==
  {Candidate("category_bijection", g, {Assignment(p[1], p[3])}, Exclusion(p[2], p[3])) :
     p \in {q \in g \X g \X Values :
              q[1] # q[2] /\ s.cand[q[1]] = {q[3]} /\ q[3] \in s.cand[q[2]]}}

SolePositions(g, s) ==
  {Candidate("category_bijection", g,
             UNION {absence_premise(y, p[2], s) : y \in g \ {p[1]}}, Assignment(p[1], p[2])) :
     p \in {q \in g \X Values :
              /\ {x \in g : q[2] \in s.cand[x]} = {q[1]}
              /\ Open(s, q[1])
              /\ \A y \in g \ {q[1]} : absence_premise(y, q[2], s) # {}}}

CategoryBijectionRule(g, s) == OccupiedRows(g, s) \cup SolePositions(g, s)

----------------------------------------------------------------------------
(* Bounds of an order between two open items: x is at v, which no candidate of *)
(* the other end reaches.  max(...) and min(...) of the code are the bounds     *)
(* that all candidates of the other end satisfy.                                *)
Beyond(shape, v, W) ==
  CASE shape = "less_than"             -> \A w \in W : Ordinal[v] >= Ordinal[w]
    [] shape = "less_than_or_equal"    -> \A w \in W : Ordinal[v] > Ordinal[w]
    [] shape = "greater_than"          -> \A w \in W : Ordinal[v] <= Ordinal[w]
    [] shape = "greater_than_or_equal" -> \A w \in W : Ordinal[v] < Ordinal[w]

Converse(shape) ==
  CASE shape = "less_than"             -> "greater_than"
    [] shape = "less_than_or_equal"    -> "greater_than_or_equal"
    [] shape = "greater_than"          -> "less_than"
    [] shape = "greater_than_or_equal" -> "less_than_or_equal"

(* Mutant: the right end is bounded like the left. *)
ordering_bound_exclusions_OneSided(c, s) ==
  {Exclusion(c.left, v) : v \in {u \in s.cand[c.left] : Beyond(c.shape, u, s.cand[c.right])}}
  \cup
  {Exclusion(c.right, v) : v \in {u \in s.cand[c.right] : Beyond(c.shape, u, s.cand[c.left])}}

ordering_bound_exclusions(c, s) ==
  {Exclusion(c.left, v) : v \in {u \in s.cand[c.left] : Beyond(c.shape, u, s.cand[c.right])}}
  \cup
  {Exclusion(c.right, v) :
     v \in {u \in s.cand[c.right] : Beyond(Converse(c.shape), u, s.cand[c.left])}}

(* The values the only open variable x of the clue may take. *)
Trial(c, x, v, s) ==
  [y \in boolean_variables(c) |-> IF y = x THEN v ELSE CHOOSE w \in Values : s.cand[y] = {w}]

Valid(c, x, s) == {v \in s.cand[x] : evaluate_boolean(c, Trial(c, x, v, s))}

(* Mutant: the fixed items of the clue are not cited. *)
CompletionPremises_None(c, x, s) == {}

CompletionPremises(c, x, s) == UNION {assignment(y, s) : y \in boolean_variables(c) \ {x}}

(* Mutant: the candidates that break the clue are left when several satisfy it. *)
CompletionClaims_AssignOnly(c, x, s) ==
  LET valid == Valid(c, x, s)
  IN  {Assignment(x, v) : v \in {u \in valid : valid = {u}}}

CompletionClaims(c, x, s) ==
  LET valid == Valid(c, x, s)
  IN  {Assignment(x, v) : v \in {u \in valid : valid = {u}}}
      \cup
      {Exclusion(x, v) : v \in {u \in s.cand[x] \ valid : \E p, q \in valid : p # q}}

(* Mutant: an order is used only while both its ends are open. *)
ClueCompletionRule_OpenOrders(c, s) ==
  LET variables  == boolean_variables(c)
      unresolved == {x \in variables : Open(s, x)}
      technique  == technique_for(c)
  IN  CASE technique = "association" -> {}
        [] c.shape \in Orders ->
             {Candidate(technique, c, {}, a) :
                a \in {b \in ordering_bound_exclusions(c, s) : unresolved = {c.left, c.right}}}
        [] OTHER ->
             UNION {{Candidate(technique, c, CompletionPremises(c, x, s), a) :
                       a \in CompletionClaims(c, x, s)} :
                    x \in {y \in variables : unresolved = {y}}}

ClueCompletionRule(c, s) ==
  LET variables  == boolean_variables(c)
      unresolved == {x \in variables : Open(s, x)}
      technique  == technique_for(c)
  IN  CASE technique = "association" -> {}
        [] c.shape \in Orders /\ c.left # c.right /\ unresolved = {c.left, c.right} ->
             {Candidate(technique, c, {}, a) : a \in ordering_bound_exclusions(c, s)}
        [] OTHER ->
             UNION {{Candidate(technique, c, CompletionPremises(c, x, s), a) :
                       a \in CompletionClaims(c, x, s)} :
                    x \in {y \in variables : unresolved = {y}}}

(* The catalogue; discovery orders what it finds, the policy picks. *)
logic_grid_applications(s) ==
  (UNION {AssociationRule(c, s) \cup ClueCompletionRule(c, s) : c \in Clues})
  \cup (UNION {CategoryBijectionRule(g, s) : g \in AllDifferent})
=============================================================================
