------------------------- MODULE LogicEquationsRules ------------------------
(***************************************************************************)
(* The human rules of the Logic Equations family: n variables over 1..n,   *)
(* all different, and arithmetic clues.                                    *)
(*                                                                         *)
(* A clue is what the rules see of its expression: the technique it falls  *)
(* under, its variables, the order it states when it is a comparison of    *)
(* two of them, and the assignments that satisfy it.                       *)
(***************************************************************************)
EXTENDS Verification, Integers, FiniteSets

CONSTANT Clues            \* the clue of each constraint id

Orders == {"less_than", "less_than_or_equal", "greater_than", "greater_than_or_equal"}
Techniques == {"direct_relation", "arithmetic", "parity_divisibility", "disjunction", "implication"}

InOrder(order, v, w) ==
  CASE order = "less_than"             -> v < w
    [] order = "less_than_or_equal"    -> v <= w
    [] order = "greater_than"          -> v > w
    [] order = "greater_than_or_equal" -> v >= w

IsClue(c) ==
  /\ c.technique \in Techniques
  /\ c.variables \subseteq Variables /\ c.allows \subseteq [c.variables -> Values]
  /\ c.order \in Orders \cup {"none"}
  /\ c.order \in Orders =>
       /\ c.technique = "direct_relation"
       /\ c.left # c.right /\ c.variables = {c.left, c.right}
       /\ \A f \in c.allows : InOrder(c.order, f[c.left], f[c.right])

(* What LogicEquationsSpec guarantees. *)
LogicEquationsContract ==
  /\ IsFiniteSet(Values) /\ Values = 1 .. Cardinality(Values) /\ Cardinality(Values) >= 2
  /\ IsFiniteSet(Variables) /\ Cardinality(Variables) = Cardinality(Values)
  /\ AllDifferent = {Variables}
  /\ \A x \in Variables : Domain[x] = Values
  /\ DOMAIN Clues # {}

ASSUME EquationsAssumption == LogicEquationsContract
ASSUME EquationCluesAssumption == \A i \in DOMAIN Clues : IsClue(Clues[i])

ASSUME EquationTablesAssumption == Tables = {Clues[i].variables : i \in DOMAIN Clues}

----------------------------------------------------------------------------
Candidate(rule, support, premises, claim) ==
  [rule |-> rule, support |-> support, premises |-> premises, claim |-> claim]

Fixed(s, x) == \E v \in Values : s.cand[x] = {v}
Open(s, x) == \E v, w \in s.cand[x] : v # w

(* The least and greatest candidates of the other end bound each end of an      *)
(* order: v is out when no candidate of the other end is in order with it.      *)
Beyond(order, v, W) ==
  CASE order = "less_than"             -> \A w \in W : v >= w
    [] order = "less_than_or_equal"    -> \A w \in W : v > w
    [] order = "greater_than"          -> \A w \in W : v <= w
    [] order = "greater_than_or_equal" -> \A w \in W : v < w

Converse(order) ==
  CASE order = "less_than"             -> "greater_than"
    [] order = "less_than_or_equal"    -> "greater_than_or_equal"
    [] order = "greater_than"          -> "less_than"
    [] order = "greater_than_or_equal" -> "less_than_or_equal"

ordering_bound_exclusions(c, s) ==
  IF c.order = "none" THEN {}
  ELSE {Exclusion(c.left, v) : v \in {u \in s.cand[c.left] : Beyond(c.order, u, s.cand[c.right])}}
       \cup
       {Exclusion(c.right, v) :
          v \in {u \in s.cand[c.right] : Beyond(Converse(c.order), u, s.cand[c.left])}}

(* The only open variable x of the clue takes v, the others have their values. *)
Trial(c, x, v, s) ==
  [y \in c.variables |-> IF y = x THEN v ELSE CHOOSE w \in Values : s.cand[y] = {w}]

Valid(c, x, s) == {v \in s.cand[x] : Trial(c, x, v, s) \in c.allows}

FixedPremises(c, x, s) ==
  UNION {{Assignment(y, v) : v \in s.cand[y]} : y \in c.variables \ {x}}

(* Nothing is concluded when no candidate satisfies the clue. *)
Conclusions(c, x, s) ==
  LET valid == Valid(c, x, s)
  IN  {Assignment(x, v) : v \in {u \in valid : valid = {u}}}
      \cup
      {Exclusion(x, v) : v \in {u \in s.cand[x] \ valid : \E p, q \in valid : p # q}}

ConstraintPropagationRule(i, s) ==
  LET c == Clues[i]
      unresolved == {x \in c.variables : Open(s, x)}
  IN  IF c.technique = "direct_relation" /\ \E x, y \in unresolved : x # y
      THEN {Candidate(c.technique, i, {}, a) : a \in ordering_bound_exclusions(c, s)}
      ELSE UNION {{Candidate(c.technique, i, FixedPremises(c, x, s), a) :
                     a \in Conclusions(c, x, s)} :
                  x \in {y \in unresolved : unresolved = {y}}}

(* A variable with one candidate left takes that value from all others. *)
AllDifferentPropagationRule(g, s) ==
  {Candidate("all_different", g, {Assignment(p[1], p[3])}, Exclusion(p[2], p[3])) :
     p \in {q \in g \X g \X Values :
              q[1] # q[2] /\ s.cand[q[1]] = {q[3]} /\ q[3] \in s.cand[q[2]]}}

logic_equations_applications(s) ==
  (UNION {ConstraintPropagationRule(i, s) : i \in DOMAIN Clues})
  \cup (UNION {AllDifferentPropagationRule(g, s) : g \in AllDifferent})
=============================================================================
