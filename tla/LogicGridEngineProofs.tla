------------------------ MODULE LogicGridEngineProofs -----------------------
(***************************************************************************)
(* Every rule of the Logic Grid catalogue is sound, for every puzzle and   *)
(* in every state: what it concludes holds in each assignment that has the *)
(* state's candidates and satisfies the one clue or category it cites.     *)
(*                                                                         *)
(* One lemma per rule.  The sole-position rule is the one that needs the   *)
(* shape of the family: a category has as many items as there are rows, so *)
(* that an assignment without repetition takes every row.                  *)
(*                                                                         *)
(* The catalogue is also confluent: a proposal never removes a candidate   *)
(* that an exhausted state below keeps, so that all orders of proposals    *)
(* end in the same, largest one.                                           *)
(***************************************************************************)
EXTENDS LogicGridEngine, HumanEngineProofs, FiniteSetTheorems, WellFoundedInduction

LEMMA MatchSound ==
  ASSUME NEW c, NEW x, NEW y, NEW s, NEW d \in MatchCandidates(c, x, y, s),
         NEW f, f[x] = f[y], f[x] \in s.cand[x], f[y] \in s.cand[y]
  PROVE  Holds(f, d.claim)
  <1> DEFINE meet == s.cand[x] \cap s.cand[y]
             lost == s.cand[x] \ meet
  <1>1. f[x] \in meet
    OBVIOUS
  <1>2. CASE \E v \in {u \in meet : /\ meet = {u} /\ Open(s, x)
                                    /\ Fixed(s, y) \/ Explained(y, lost, s)} :
               d = Candidate("association", c,
                             IF Fixed(s, y) THEN assignment(y, s) ELSE Absences(y, lost, s),
                             Assignment(x, v))
    BY <1>1, <1>2 DEF Candidate, Assignment, Holds
  <1>3. CASE \E v \in {u \in lost : /\ \E p, q \in meet : p # q
                                    /\ absence_premise(y, u, s) # {}} :
               d = Candidate("association", c, absence_premise(y, v, s), Exclusion(x, v))
    BY <1>1, <1>3 DEF Candidate, Exclusion, Holds
  <1>4. QED
    BY <1>2, <1>3 DEF MatchCandidates

LEMMA ApartSound ==
  ASSUME NEW c, NEW x, NEW y, NEW s, NEW d \in ApartCandidates(c, x, y, s),
         NEW f, f[x] # f[y], f[y] \in s.cand[y]
  PROVE  Holds(f, d.claim)
  <1>1. PICK v \in s.cand[x] :
          s.cand[y] = {v} /\ d = Candidate("association", c, assignment(y, s), Exclusion(x, v))
    BY DEF ApartCandidates
  <1>2. QED
    BY <1>1 DEF Candidate, Exclusion, Holds

LEMMA AssociationSound ==
  ASSUME NEW c, NEW s, NEW d \in AssociationRule(c, s),
         NEW f, \A x \in boolean_variables(c) : f[x] \in s.cand[x], evaluate_boolean(c, f)
  PROVE  Holds(f, d.claim)
  <1>1. CASE c.shape = "equal"
    <2>1. /\ f[c.left] = f[c.right] /\ f[c.left] \in s.cand[c.left]
          /\ f[c.right] \in s.cand[c.right]
      BY <1>1 DEF evaluate_boolean, boolean_variables, Relations
    <2>2. d \in MatchCandidates(c, c.left, c.right, s) \cup MatchCandidates(c, c.right, c.left, s)
      BY <1>1 DEF AssociationRule
    <2>3. QED
      BY <2>1, <2>2, MatchSound
  <1>2. CASE c.shape = "not_equal"
    <2>1. /\ f[c.left] # f[c.right] /\ f[c.left] \in s.cand[c.left]
          /\ f[c.right] \in s.cand[c.right]
      BY <1>2 DEF evaluate_boolean, boolean_variables, Relations
    <2>2. d \in ApartCandidates(c, c.left, c.right, s) \cup ApartCandidates(c, c.right, c.left, s)
      BY <1>2 DEF AssociationRule
    <2>3. QED
      BY <2>1, <2>2, ApartSound
  <1>3. QED
    BY <1>1, <1>2 DEF AssociationRule

(* An assignment of a whole category without repetition takes every row. *)
LEMMA EveryRowIsTaken ==
  ASSUME NEW g \in AllDifferent, NEW f \in [g -> Values],
         \A x, y \in g : x # y => f[x] # f[y], NEW v \in Values
  PROVE  \E x \in g : f[x] = v
  <1>1. f \in Injection(g, Values)
    BY DEF Injection, IsInjective
  <1>2. f \in Surjection(g, Values)
    BY <1>1, RowsAssumption, FS_Injection DEF LogicGridContract
  <1>3. QED
    BY <1>2 DEF Surjection

LEMMA BijectionSound ==
  ASSUME NEW g \in AllDifferent, NEW s, NEW d \in CategoryBijectionRule(g, s),
         NEW f \in [g -> Values], \A x \in g : f[x] \in s.cand[x],
         \A x, y \in g : x # y => f[x] # f[y]
  PROVE  Holds(f, d.claim)
  <1>1. CASE d \in OccupiedRows(g, s)
    <2>1. PICK p \in g \X g \X Values :
            /\ p[1] # p[2] /\ s.cand[p[1]] = {p[3]}
            /\ d.claim = Exclusion(p[2], p[3])
      BY <1>1 DEF OccupiedRows, Candidate
    <2>2. f[p[1]] = p[3] /\ f[p[2]] # p[3]
      BY <2>1
    <2>3. QED
      BY <2>1, <2>2 DEF Exclusion, Holds
  <1>2. CASE d \in SolePositions(g, s)
    <2>1. PICK p \in g \X Values :
            {x \in g : p[2] \in s.cand[x]} = {p[1]} /\ d.claim = Assignment(p[1], p[2])
      BY <1>2 DEF SolePositions, Candidate
    <2>2. PICK x \in g : f[x] = p[2]
      BY EveryRowIsTaken
    <2>3. x = p[1]
      BY <2>1, <2>2
    <2>4. QED
      BY <2>1, <2>2, <2>3 DEF Assignment, Holds
  <1>3. QED
    BY <1>1, <1>2 DEF CategoryBijectionRule

LEMMA OrderBoundSound ==
  ASSUME NEW c, c.shape \in Orders, NEW s,
         s.cand[c.left] \subseteq Values, s.cand[c.right] \subseteq Values,
         NEW a \in ordering_bound_exclusions(c, s),
         NEW f, f[c.left] \in s.cand[c.left], f[c.right] \in s.cand[c.right],
         evaluate_boolean(c, f)
  PROVE  Holds(f, a)
  <1>1. Ordinal[f[c.left]] \in Int /\ Ordinal[f[c.right]] \in Int
    BY RowsAssumption DEF LogicGridContract
  <1> DEFINE l == Ordinal[f[c.left]]
             r == Ordinal[f[c.right]]
  <1>0. /\ c.shape = "less_than" => l < r
        /\ c.shape = "less_than_or_equal" => l <= r
        /\ c.shape = "greater_than" => l > r
        /\ c.shape = "greater_than_or_equal" => l >= r
    BY DEF evaluate_boolean
  <1> HIDE DEF l, r
  <1>2. CASE \E v \in s.cand[c.left] : Beyond(c.shape, v, s.cand[c.right]) /\ a = Exclusion(c.left, v)
    <2>1. PICK v \in s.cand[c.left] : Beyond(c.shape, v, s.cand[c.right]) /\ a = Exclusion(c.left, v)
      BY <1>2
    <2>2. f[c.left] # v
      <3>1. /\ c.shape = "less_than" => Ordinal[v] >= r
            /\ c.shape = "less_than_or_equal" => Ordinal[v] > r
            /\ c.shape = "greater_than" => Ordinal[v] <= r
            /\ c.shape = "greater_than_or_equal" => Ordinal[v] < r
        BY <2>1 DEF Beyond, r
      <3>2. SUFFICES ASSUME l = Ordinal[v] PROVE FALSE
        BY DEF l
      <3>3. QED
        BY <1>0, <1>1, <3>1, <3>2 DEF Orders, l, r
    <2>3. QED
      BY <2>1, <2>2 DEF Exclusion, Holds
  <1>3. CASE \E v \in s.cand[c.right] :
               Beyond(Converse(c.shape), v, s.cand[c.left]) /\ a = Exclusion(c.right, v)
    <2>1. PICK v \in s.cand[c.right] :
            Beyond(Converse(c.shape), v, s.cand[c.left]) /\ a = Exclusion(c.right, v)
      BY <1>3
    <2>2. f[c.right] # v
      <3>1. /\ c.shape = "less_than" => Ordinal[v] <= l
            /\ c.shape = "less_than_or_equal" => Ordinal[v] < l
            /\ c.shape = "greater_than" => Ordinal[v] >= l
            /\ c.shape = "greater_than_or_equal" => Ordinal[v] > l
        BY <2>1 DEF Beyond, Converse, l
      <3>2. SUFFICES ASSUME r = Ordinal[v] PROVE FALSE
        BY DEF r
      <3>3. QED
        BY <1>0, <1>1, <3>1, <3>2 DEF Orders, l, r
    <2>3. QED
      BY <2>1, <2>2 DEF Exclusion, Holds
  <1>4. QED
    BY <1>2, <1>3 DEF ordering_bound_exclusions

(* What the clue says of the fixed items and x is what it says of f. *)
LEMMA CompletionSound ==
  ASSUME NEW c, NEW s, NEW x \in boolean_variables(c),
         \A y \in boolean_variables(c) \ {x} : Fixed(s, y),
         NEW a \in CompletionClaims(c, x, s),
         NEW f \in [boolean_variables(c) -> Values],
         \A y \in boolean_variables(c) : f[y] \in s.cand[y], evaluate_boolean(c, f)
  PROVE  Holds(f, a)
  <1>1. ASSUME NEW y \in boolean_variables(c), y # x
        PROVE  (CHOOSE w \in Values : s.cand[y] = {w}) = f[y]
    BY <1>1 DEF Fixed
  <1>2. Trial(c, x, f[x], s) = f
    BY <1>1 DEF Trial
  <1>3. f[x] \in Valid(c, x, s)
    BY <1>2 DEF Valid
  <1>4. \/ \E v \in Valid(c, x, s) : Valid(c, x, s) = {v} /\ a = Assignment(x, v)
        \/ \E v \in s.cand[x] \ Valid(c, x, s) : a = Exclusion(x, v)
    BY DEF CompletionClaims
  <1>5. QED
    BY <1>3, <1>4 DEF Assignment, Exclusion, Holds

LEMMA ClueCompletionSound ==
  ASSUME NEW c, IsClue(c), NEW s \in PuzzleState,
         NEW d \in ClueCompletionRule(c, s),
         NEW f \in [boolean_variables(c) -> Values],
         \A y \in boolean_variables(c) : f[y] \in s.cand[y], evaluate_boolean(c, f)
  PROVE  Holds(f, d.claim)
  <1> DEFINE unresolved == {x \in boolean_variables(c) : Open(s, x)}
             technique  == technique_for(c)
  <1>1. boolean_variables(c) \subseteq Variables
    BY DEF IsClue, boolean_variables, Relations, Others, Orders
  <1>2. \A x \in Variables : s.cand[x] \subseteq Values
    BY DEF PuzzleState
  <1>3. CASE /\ c.shape \in Orders
             /\ \E a \in ordering_bound_exclusions(c, s) : d = Candidate(technique, c, {}, a)
    <2>1. PICK a \in ordering_bound_exclusions(c, s) : d = Candidate(technique, c, {}, a)
      BY <1>3
    <2>2. /\ {c.left, c.right} \subseteq Variables
          /\ f[c.left] \in s.cand[c.left] /\ f[c.right] \in s.cand[c.right]
      BY <1>1, <1>3 DEF boolean_variables, Relations
    <2>3. Holds(f, a)
      BY <1>2, <1>3, <2>1, <2>2, OrderBoundSound
    <2>4. QED
      BY <2>1, <2>3 DEF Candidate
  <1>4. CASE \E x \in boolean_variables(c) :
               /\ unresolved = {x}
               /\ \E a \in CompletionClaims(c, x, s) :
                    d = Candidate(technique, c, CompletionPremises(c, x, s), a)
    <2>0. PICK x \in boolean_variables(c) :
            /\ unresolved = {x}
            /\ \E a \in CompletionClaims(c, x, s) :
                 d = Candidate(technique, c, CompletionPremises(c, x, s), a)
      BY <1>4
    <2>1. PICK a \in CompletionClaims(c, x, s) :
            unresolved = {x} /\ d = Candidate(technique, c, CompletionPremises(c, x, s), a)
      BY <2>0
    <2>2. ASSUME NEW y \in boolean_variables(c) \ {x} PROVE Fixed(s, y)
      <3>1. ~Open(s, y) /\ y \in Variables
        BY <1>1, <2>1, <2>2
      <3>2. PICK v \in s.cand[y] : TRUE
        OBVIOUS
      <3>3. s.cand[y] = {v} /\ v \in Values
        BY <1>2, <3>1, <3>2 DEF Open
      <3>4. QED
        BY <3>3 DEF Fixed
    <2>3. Holds(f, a)
      BY <2>1, <2>2, CompletionSound
    <2>4. QED
      BY <2>1, <2>3 DEF Candidate
  <1>5. QED
    BY <1>3, <1>4 DEF ClueCompletionRule

(* No discovered application of the catalogue, in any well-formed state, needs   *)
(* more than its own clue or category and the candidates.                        *)
LEMMA CatalogueSound ==
  ASSUME NEW s \in PuzzleState, NEW d \in logic_grid_applications(s),
         NEW f \in SupportModels(d, s.cand)
  PROVE  Holds(f, d.claim)
  <1>1. CASE \E g \in AllDifferent : d \in CategoryBijectionRule(g, s)
    <2>1. PICK g \in AllDifferent : d \in CategoryBijectionRule(g, s)
      BY <1>1
    <2>2. d.rule = "category_bijection" /\ d.support = g
      BY <2>1 DEF CategoryBijectionRule, OccupiedRows, SolePositions, Candidate
    <2>3. QED
      BY <2>1, <2>2, BijectionSound DEF SupportModels
  <1>2. CASE \E c \in Clues : d \in AssociationRule(c, s)
    <2>1. PICK c \in Clues : d \in AssociationRule(c, s)
      BY <1>2
    <2>2. d.rule = "association" /\ d.support = c
      BY <2>1 DEF AssociationRule, MatchCandidates, ApartCandidates, Candidate
    <2>3. /\ \A x \in boolean_variables(c) : f[x] \in s.cand[x]
          /\ evaluate_boolean(c, f)
      BY <2>2 DEF SupportModels
    <2>4. QED
      BY <2>1, <2>3, AssociationSound
  <1>3. CASE \E c \in Clues : d \in ClueCompletionRule(c, s)
    <2>1. PICK c \in Clues : d \in ClueCompletionRule(c, s)
      BY <1>3
    <2>2. d.rule = technique_for(c) /\ d.support = c
      BY <2>1 DEF ClueCompletionRule, Candidate
    <2>3. d.rule # "category_bijection"
      BY <2>2 DEF technique_for
    <2>4. IsClue(c)
      BY CluesAssumption
    <2>5. /\ f \in [boolean_variables(c) -> Values]
          /\ \A x \in boolean_variables(c) : f[x] \in s.cand[x]
          /\ evaluate_boolean(c, f)
      BY <2>2, <2>3 DEF SupportModels
    <2>6. QED
      BY <2>1, <2>4, <2>5, ClueCompletionSound
  <1>4. \/ \E c \in Clues : d \in AssociationRule(c, s) \cup ClueCompletionRule(c, s)
        \/ \E g \in AllDifferent : d \in CategoryBijectionRule(g, s)
    BY DEF logic_grid_applications
  <1>5. QED
    BY <1>1, <1>2, <1>3, <1>4

(* RulesAreSound holds in every state the solve loop reaches, whatever else the   *)
(* loop is offered: the catalogue's find_applications never relies on a solver.   *)
THEOREM CatalogueIsSound == Spec => []RulesAreSound
  <1>1. HInv => RulesAreSound
    BY CatalogueSound DEF HInv, TypeOK, RulesAreSound
  <1>2. QED
    BY <1>1, EngineInvariant, PTL

----------------------------------------------------------------------------
(* Premises.  The same rules, with the cited premises in place of the other    *)
(* items' candidates.                                                           *)

(* The atom cited for an absent candidate says that it is absent. *)
LEMMA AbsenceIsCited ==
  ASSUME NEW x, NEW v, NEW s, absence_premise(x, v, s) # {},
         NEW f, \A p \in absence_premise(x, v, s) : Holds(f, p)
  PROVE  f[x] # v
  <1>1. CASE <<x, v>> \in s.excluded
    <2>1. Exclusion(x, v) \in absence_premise(x, v, s)
      BY <1>1 DEF absence_premise
    <2>2. Holds(f, Exclusion(x, v))
      BY <2>1
    <2> QED
      BY <2>2 DEF Exclusion, Holds
  <1>2. CASE <<x, v>> \notin s.excluded
    <2>1. PICK w \in Values \ {v} : Assignment(x, w) \in absence_premise(x, v, s)
      BY <1>2 DEF absence_premise
    <2>2. Holds(f, Assignment(x, w))
      BY <2>1
    <2> QED
      BY <2>1, <2>2 DEF Assignment, Holds
  <1> QED
    BY <1>1, <1>2

(* A fixed item is cited with its row. *)
LEMMA PlacementIsCited ==
  ASSUME NEW x, NEW v, NEW s, s.cand[x] = {v}, NEW f, \A p \in assignment(x, s) : Holds(f, p)
  PROVE  f[x] = v
  <1>1. Assignment(x, v) \in assignment(x, s)
    BY DEF assignment
  <1>2. Holds(f, Assignment(x, v))
    BY <1>1
  <1> QED
    BY <1>2 DEF Assignment, Holds

LEMMA MatchExplained ==
  ASSUME NEW c, NEW x, NEW y, NEW s, NEW d \in MatchCandidates(c, x, y, s),
         NEW f, f[x] = f[y], f[x] \in s.cand[x], \A p \in d.premises : Holds(f, p)
  PROVE  Holds(f, d.claim) /\ d.claim.var = x
  <1> DEFINE meet == s.cand[x] \cap s.cand[y]
             lost == s.cand[x] \ meet
  <1>1. CASE \E v \in {u \in meet : /\ meet = {u} /\ Open(s, x)
                                    /\ Fixed(s, y) \/ Explained(y, lost, s)} :
               d = Candidate("association", c,
                             IF Fixed(s, y) THEN assignment(y, s) ELSE Absences(y, lost, s),
                             Assignment(x, v))
    <2>1. PICK v : /\ meet = {v}
                   /\ Fixed(s, y) \/ Explained(y, lost, s)
                   /\ d.claim = Assignment(x, v)
                   /\ d.premises = IF Fixed(s, y) THEN assignment(y, s) ELSE Absences(y, lost, s)
      BY <1>1 DEF Candidate
    <2>2. CASE Fixed(s, y)
      <3>1. PICK w \in Values : s.cand[y] = {w}
        BY <2>2 DEF Fixed
      <3>2. f[y] = w
        <4>1. \A p \in assignment(y, s) : Holds(f, p)
          BY <2>1, <2>2
        <4> QED
          BY <3>1, <4>1, PlacementIsCited
      <3>3. f[x] \in meet
        BY <3>1, <3>2
      <3> QED
        BY <2>1, <3>3 DEF Assignment, Holds
    <2>3. CASE ~Fixed(s, y)
      <3>1. \A u \in lost : absence_premise(y, u, s) # {} /\ absence_premise(y, u, s) \subseteq d.premises
        BY <2>1, <2>3 DEF Explained, Absences
      <3>2. \A u \in lost : f[y] # u
        BY <3>1, AbsenceIsCited
      <3>3. f[x] \in meet
        BY <3>2
      <3> QED
        BY <2>1, <3>3 DEF Assignment, Holds
    <2> QED
      BY <2>2, <2>3
  <1>2. CASE \E v \in {u \in lost : /\ \E p, q \in meet : p # q
                                    /\ absence_premise(y, u, s) # {}} :
               d = Candidate("association", c, absence_premise(y, v, s), Exclusion(x, v))
    <2>1. PICK v : /\ absence_premise(y, v, s) # {}
                   /\ d.premises = absence_premise(y, v, s) /\ d.claim = Exclusion(x, v)
      BY <1>2 DEF Candidate
    <2>2. f[y] # v
      BY <2>1, AbsenceIsCited
    <2> QED
      BY <2>1, <2>2 DEF Exclusion, Holds
  <1> QED
    BY <1>1, <1>2 DEF MatchCandidates

LEMMA ApartExplained ==
  ASSUME NEW c, NEW x, NEW y, NEW s, NEW d \in ApartCandidates(c, x, y, s),
         NEW f, f[x] # f[y], \A p \in d.premises : Holds(f, p)
  PROVE  Holds(f, d.claim) /\ d.claim.var = x
  <1>1. PICK v \in s.cand[x] :
          s.cand[y] = {v} /\ d = Candidate("association", c, assignment(y, s), Exclusion(x, v))
    BY DEF ApartCandidates
  <1>2. d.premises = assignment(y, s) /\ d.claim = Exclusion(x, v)
    BY <1>1 DEF Candidate
  <1>3. f[y] = v
    BY <1>1, <1>2, PlacementIsCited
  <1> QED
    BY <1>2, <1>3 DEF Exclusion, Holds

LEMMA AssociationExplained ==
  ASSUME NEW c, NEW s, NEW d \in AssociationRule(c, s), NEW f, evaluate_boolean(c, f),
         d.claim.var \in boolean_variables(c) => f[d.claim.var] \in s.cand[d.claim.var],
         \A p \in d.premises : Holds(f, p)
  PROVE  Holds(f, d.claim)
  <1>1. ASSUME c.shape = "equal", NEW x, NEW y, {x, y} = {c.left, c.right},
               d \in MatchCandidates(c, x, y, s)
        PROVE  Holds(f, d.claim)
    <2>1. f[x] = f[y]
      BY <1>1 DEF evaluate_boolean
    <2>2. d.claim.var = x
      BY <1>1 DEF MatchCandidates, Candidate, Assignment, Exclusion
    <2>3. x \in boolean_variables(c)
      BY <1>1 DEF boolean_variables, Relations
    <2> QED
      BY <1>1, <2>1, <2>2, <2>3, MatchExplained
  <1>2. ASSUME c.shape = "not_equal", NEW x, NEW y, {x, y} = {c.left, c.right},
               x = c.left \/ y = c.left, d \in ApartCandidates(c, x, y, s)
        PROVE  Holds(f, d.claim)
    <2>1. f[x] # f[y]
      <3>1. f[c.left] # f[c.right]
        BY <1>2 DEF evaluate_boolean
      <3> QED
        BY <1>2, <3>1
    <2> QED
      BY <1>2, <2>1, ApartExplained
  <1>3. CASE c.shape = "equal"
    BY <1>1, <1>3 DEF AssociationRule
  <1>4. CASE c.shape = "not_equal"
    BY <1>2, <1>4 DEF AssociationRule
  <1> QED
    BY <1>3, <1>4 DEF AssociationRule

LEMMA BijectionExplained ==
  ASSUME NEW g \in AllDifferent, NEW s, NEW d \in CategoryBijectionRule(g, s),
         NEW f \in [g -> Values], \A x, y \in g : x # y => f[x] # f[y],
         \A p \in d.premises : Holds(f, p)
  PROVE  Holds(f, d.claim)
  <1>1. CASE d \in OccupiedRows(g, s)
    <2>1. PICK q \in g \X g \X Values :
            /\ q[1] # q[2]
            /\ d.premises = {Assignment(q[1], q[3])} /\ d.claim = Exclusion(q[2], q[3])
      BY <1>1 DEF OccupiedRows, Candidate
    <2>2. f[q[1]] = q[3]
      BY <2>1 DEF Assignment, Holds
    <2>3. f[q[2]] # q[3]
      BY <2>1, <2>2
    <2> QED
      BY <2>1, <2>3 DEF Exclusion, Holds
  <1>2. CASE d \in SolePositions(g, s)
    <2>1. PICK q \in g \X Values :
            /\ \A y \in g \ {q[1]} : absence_premise(y, q[2], s) # {}
            /\ d.premises = UNION {absence_premise(y, q[2], s) : y \in g \ {q[1]}}
            /\ d.claim = Assignment(q[1], q[2])
      BY <1>2 DEF SolePositions, Candidate
    <2>2. \A y \in g \ {q[1]} : f[y] # q[2]
      BY <2>1, AbsenceIsCited
    <2>3. PICK x \in g : f[x] = q[2]
      BY EveryRowIsTaken
    <2> QED
      BY <2>1, <2>2, <2>3 DEF Assignment, Holds
  <1> QED
    BY <1>1, <1>2 DEF CategoryBijectionRule

(* An item that is not open has the one candidate that its clue completion cites. *)
LEMMA NotOpenIsFixed ==
  ASSUME NEW s \in PuzzleState, NEW y \in Variables, s.cand[y] # {}, ~Open(s, y)
  PROVE  \E v \in Values : s.cand[y] = {v}
  <1>1. PICK v \in s.cand[y] : TRUE
    OBVIOUS
  <1>2. s.cand[y] = {v} /\ v \in Values
    BY <1>1 DEF Open, PuzzleState
  <1> QED
    BY <1>2

(* What an application of clue completion looks like. *)
LEMMA CompletionShape ==
  ASSUME NEW c, NEW s, NEW d \in ClueCompletionRule(c, s)
  PROVE  /\ d.rule = technique_for(c) /\ d.support = c
         /\ technique_for(c) # "association" /\ technique_for(c) # "category_bijection"
         /\ \/ /\ c.shape \in Orders /\ c.left # c.right
               /\ {x \in boolean_variables(c) : Open(s, x)} = {c.left, c.right}
               /\ d.premises = {} /\ d.claim \in ordering_bound_exclusions(c, s)
            \/ \E x \in boolean_variables(c) :
                 /\ {y \in boolean_variables(c) : Open(s, y)} = {x}
                 /\ d.premises = CompletionPremises(c, x, s) /\ d.claim \in CompletionClaims(c, x, s)
  <1>1. technique_for(c) # "association"
    <2>1. SUFFICES ASSUME technique_for(c) = "association" PROVE FALSE
      OBVIOUS
    <2>2. c.shape \notin Orders
      BY <2>1 DEF technique_for, Orders
    <2>3. ClueCompletionRule(c, s) = {}
      BY <2>1, <2>2 DEF ClueCompletionRule
    <2> QED
      BY <2>3
  <1>2. technique_for(c) # "category_bijection"
    BY DEF technique_for
  <1>3. CASE /\ c.shape \in Orders /\ c.left # c.right
             /\ {x \in boolean_variables(c) : Open(s, x)} = {c.left, c.right}
    <2>1. d \in {Candidate(technique_for(c), c, {}, a) : a \in ordering_bound_exclusions(c, s)}
      BY <1>1, <1>3 DEF ClueCompletionRule
    <2> QED
      BY <1>1, <1>2, <1>3, <2>1 DEF Candidate
  <1>4. CASE ~ (/\ c.shape \in Orders /\ c.left # c.right
                /\ {x \in boolean_variables(c) : Open(s, x)} = {c.left, c.right})
    <2>1. d \in UNION {{Candidate(technique_for(c), c, CompletionPremises(c, x, s), a) :
                          a \in CompletionClaims(c, x, s)} :
                       x \in {y \in boolean_variables(c) :
                                {z \in boolean_variables(c) : Open(s, z)} = {y}}}
      BY <1>1, <1>4 DEF ClueCompletionRule
    <2>2. PICK x \in boolean_variables(c) :
            /\ {z \in boolean_variables(c) : Open(s, z)} = {x}
            /\ d \in {Candidate(technique_for(c), c, CompletionPremises(c, x, s), a) :
                        a \in CompletionClaims(c, x, s)}
      BY <2>1
    <2>3. /\ d.rule = technique_for(c) /\ d.support = c
          /\ d.premises = CompletionPremises(c, x, s) /\ d.claim \in CompletionClaims(c, x, s)
      BY <2>2 DEF Candidate
    <2> QED
      BY <1>1, <1>2, <2>2, <2>3
  <1> QED
    BY <1>3, <1>4

LEMMA CompletionExplained ==
  ASSUME NEW c, IsClue(c), NEW s \in PuzzleState, \A y \in Variables : s.cand[y] # {},
         NEW x \in boolean_variables(c), {y \in boolean_variables(c) : Open(s, y)} = {x},
         NEW a \in CompletionClaims(c, x, s),
         NEW f \in [boolean_variables(c) -> Values], f[x] \in s.cand[x], evaluate_boolean(c, f),
         \A p \in CompletionPremises(c, x, s) : Holds(f, p)
  PROVE  Holds(f, a)
  <1>1. boolean_variables(c) \subseteq Variables
    BY DEF IsClue, boolean_variables, Relations, Others, Orders
  <1>2. ASSUME NEW y \in boolean_variables(c) \ {x}
        PROVE  Fixed(s, y) /\ f[y] \in s.cand[y]
    <2>1. PICK v \in Values : s.cand[y] = {v}
      <3>1. y \in Variables /\ ~Open(s, y)
        BY <1>1, <1>2
      <3> QED
        BY <3>1, NotOpenIsFixed
    <2>2. \A p \in assignment(y, s) : Holds(f, p)
      BY <1>2 DEF CompletionPremises
    <2>3. f[y] = v
      BY <2>1, <2>2, PlacementIsCited
    <2> QED
      BY <2>1, <2>3 DEF Fixed
  <1>3. \A y \in boolean_variables(c) : f[y] \in s.cand[y]
    BY <1>2
  <1> QED
    BY <1>2, <1>3, CompletionSound

(* Any application, with its support and premises in place of the candidates of  *)
(* all items but the concluded one.                                               *)
LEMMA CatalogueExplained ==
  ASSUME NEW s \in PuzzleState, \A y \in Variables : s.cand[y] # {},
         NEW d \in logic_grid_applications(s), ~OrderBound(d),
         NEW f \in SupportModels(d, [y \in Variables |->
                                       IF y = d.claim.var THEN s.cand[y] ELSE Values]),
         \A p \in d.premises : Holds(f, p)
  PROVE  Holds(f, d.claim)
  <1> DEFINE cand == [y \in Variables |-> IF y = d.claim.var THEN s.cand[y] ELSE Values]
  <1>1. CASE \E g \in AllDifferent : d \in CategoryBijectionRule(g, s)
    <2>1. PICK g \in AllDifferent : d \in CategoryBijectionRule(g, s)
      BY <1>1
    <2>2. d.rule = "category_bijection" /\ d.support = g
      BY <2>1 DEF CategoryBijectionRule, OccupiedRows, SolePositions, Candidate
    <2>3. f \in [g -> Values] /\ \A x, y \in g : x # y => f[x] # f[y]
      BY <2>2 DEF SupportModels
    <2> QED
      BY <2>1, <2>3, BijectionExplained
  <1>2. ASSUME NEW c \in Clues, d.support = c, d.rule # "category_bijection"
        PROVE  /\ f \in [boolean_variables(c) -> Values] /\ evaluate_boolean(c, f)
               /\ \A x \in boolean_variables(c) : f[x] \in cand[x]
               /\ boolean_variables(c) \subseteq Variables /\ IsClue(c)
    <2>1. IsClue(c)
      BY CluesAssumption
    <2> QED
      BY <1>2, <2>1 DEF SupportModels, IsClue, boolean_variables, Relations, Others, Orders
  <1>3. CASE \E c \in Clues : d \in AssociationRule(c, s)
    <2>1. PICK c \in Clues : d \in AssociationRule(c, s)
      BY <1>3
    <2>2. d.rule = "association" /\ d.support = c
      BY <2>1 DEF AssociationRule, MatchCandidates, ApartCandidates, Candidate
    <2>3. /\ evaluate_boolean(c, f)
          /\ d.claim.var \in boolean_variables(c) => f[d.claim.var] \in s.cand[d.claim.var]
      BY <1>2, <2>2
    <2> QED
      BY <2>1, <2>3, AssociationExplained
  <1>4. CASE \E c \in Clues : d \in ClueCompletionRule(c, s)
    <2>1. PICK c \in Clues : d \in ClueCompletionRule(c, s)
      BY <1>4
    <2>2. d.rule # "category_bijection" /\ d.rule = technique_for(c) /\ d.support = c
      BY <2>1, CompletionShape
    <2>3. ~(c.shape \in Orders /\ d.premises = {})
      BY <2>2 DEF OrderBound, technique_for, Orders
    <2>4. PICK x \in boolean_variables(c) :
            /\ {y \in boolean_variables(c) : Open(s, y)} = {x}
            /\ d.premises = CompletionPremises(c, x, s) /\ d.claim \in CompletionClaims(c, x, s)
      BY <2>1, <2>3, CompletionShape
    <2>5. d.claim.var = x
      BY <2>4 DEF CompletionClaims, Assignment, Exclusion
    <2>6. /\ f \in [boolean_variables(c) -> Values] /\ evaluate_boolean(c, f)
          /\ f[x] \in s.cand[x] /\ IsClue(c)
      BY <1>2, <2>2, <2>5
    <2>7. \A p \in CompletionPremises(c, x, s) : Holds(f, p)
      BY <2>4
    <2> QED
      BY <2>4, <2>6, <2>7, CompletionExplained
  <1>5. \/ \E c \in Clues : d \in AssociationRule(c, s) \cup ClueCompletionRule(c, s)
        \/ \E g \in AllDifferent : d \in CategoryBijectionRule(g, s)
    BY DEF logic_grid_applications
  <1> QED
    BY <1>1, <1>3, <1>4, <1>5

----------------------------------------------------------------------------
(* The loop on a Logic Grid puzzle: no contradiction, every candidate that is    *)
(* gone has an asserted atom to show for it, and none has come back.            *)

Within(t, s) == \A x \in Variables : t.cand[x] \subseteq s.cand[x]

GInv == HInv /\ GridStart(current) /\ Within(current, initial)

(* A conclusion asserts what it takes away. *)
LEMMA ConclusionIsAsserted ==
  ASSUME NEW s \in PuzzleState, GridStart(s), NEW c, validate_proposal(s, c)
  PROVE  GridStart(apply_verified_event(s, c.claim))
  <1> DEFINE a == c.claim
             t == apply_verified_event(s, a)
  <1>1. a.var \in Variables /\ a.val \in Values /\ s.cand \in [Variables -> SUBSET Values]
    BY DEF validate_proposal, PuzzleState
  <1>2. ASSUME NEW x \in Variables, NEW v \in Values, v \notin t.cand[x],
               \/ <<x, v>> \in t.excluded
               \/ \E w \in Values \ {v} : <<x, w>> \in t.assigned
        PROVE  absence_premise(x, v, t) # {}
    BY <1>2 DEF absence_premise
  <1>3. ASSUME NEW x \in Variables, NEW v \in Values, v \notin s.cand[x]
        PROVE  \/ <<x, v>> \in s.excluded
               \/ \E w \in Values \ {v} : <<x, w>> \in s.assigned
    BY <1>3 DEF GridStart, AbsencesExplained, Explained, absence_premise
  <1>4. CASE a.kind = "assignment"
    <2>1. /\ t.contradictions = s.contradictions /\ t.other = s.other
          /\ t.cand = [s.cand EXCEPT ![a.var] = {a.val}]
          /\ s.assigned \subseteq t.assigned /\ <<a.var, a.val>> \in t.assigned
          /\ s.excluded \subseteq t.excluded
      BY <1>4 DEF apply_verified_event, Assign, build_state
    <2> HIDE DEF t
    <2>2. ASSUME NEW x \in Variables, NEW v \in Values, v \notin t.cand[x]
          PROVE  \/ <<x, v>> \in t.excluded
                 \/ \E w \in Values \ {v} : <<x, w>> \in t.assigned
      BY <1>1, <1>3, <2>1, <2>2
    <2>3. AbsencesExplained(t)
      BY <1>2, <2>2 DEF AbsencesExplained, Explained
    <2> QED
      BY <2>1, <2>3 DEF GridStart, t
  <1>5. CASE a.kind # "assignment"
    <2>1. /\ t.contradictions = s.contradictions /\ t.other = s.other
          /\ t.cand = [s.cand EXCEPT ![a.var] = @ \ {a.val}]
          /\ s.assigned \subseteq t.assigned
          /\ s.excluded \subseteq t.excluded /\ <<a.var, a.val>> \in t.excluded
      BY <1>5 DEF apply_verified_event, Eliminate, build_state
    <2> HIDE DEF t
    <2>2. ASSUME NEW x \in Variables, NEW v \in Values, v \notin t.cand[x]
          PROVE  \/ <<x, v>> \in t.excluded
                 \/ \E w \in Values \ {v} : <<x, w>> \in t.assigned
      BY <1>1, <1>3, <2>1, <2>2
    <2>3. AbsencesExplained(t)
      BY <1>2, <2>2 DEF AbsencesExplained, Explained
    <2> QED
      BY <2>1, <2>3 DEF GridStart, t
  <1> QED
    BY <1>4, <1>5

(* A turn only takes candidates away. *)
LEMMA CandidatesShrink ==
  HInv /\ Within(current, initial) /\ [Next]_vars => Within(current, initial)'
  <1> SUFFICES ASSUME HInv, Within(current, initial), [Next]_vars PROVE Within(current', initial')
    BY DEF Within
  <1>1. ASSUME NEW c \in find_applications(current), Evaluate(c) PROVE Within(current', initial')
    <2>1. PICK r \in Certificates(current, c.premises, c.claim) : Withhold(c, r) \/ Apply(c, r)
      BY <1>1 DEF Evaluate
    <2>2. Try(c) /\ validate_proposal(current, c)
      BY <1>1 DEF Evaluate
    <2>3. CASE Withhold(c, r)
      BY <2>2, <2>3 DEF Withhold, Try
    <2>4. CASE Apply(c, r)
      <3>1. initial' = initial /\ \A x \in Variables : current'.cand[x] \subseteq current.cand[x]
        BY <2>2, <2>4, ApplySucceeds
      <3> QED
        BY <3>1 DEF Within
    <2> QED
      BY <2>1, <2>3, <2>4
  <1>2. CASE UNCHANGED <<initial, current>>
    BY <1>2
  <1> QED
    BY <1>1, <1>2 DEF Next, Turn, Returned, RejectProposal, Try, Stall, Finish, vars

THEOREM GridInvariant == Spec => []GInv
  <1>1. Init => GridStart(current) /\ Within(current, initial)
    BY StartsAssumption DEF Init, Within
  <1>2. HInv /\ HInv' /\ GridStart(current) /\ [Next]_vars => GridStart(current)'
    <2> SUFFICES ASSUME HInv, GridStart(current), [Next]_vars PROVE GridStart(current')
      BY DEF GridStart, AbsencesExplained, Explained, absence_premise
    <2>1. ASSUME NEW c \in find_applications(current), Evaluate(c) PROVE GridStart(current')
      <3>1. current' = current \/ current' = apply_verified_event(current, c.claim)
        BY <2>1 DEF Evaluate, Withhold, Apply
      <3>2. current \in PuzzleState /\ validate_proposal(current, c)
        BY <2>1 DEF Evaluate, HInv, TypeOK
      <3> QED
        BY <3>1, <3>2, ConclusionIsAsserted
    <2>2. CASE UNCHANGED current
      BY <2>2
    <2> QED
      BY <2>1, <2>2 DEF Next, Turn, Returned, RejectProposal, Stall, Finish, vars
  <1> QED
    BY <1>1, <1>2, CandidatesShrink, EngineInvariant, PTL DEF Spec, GInv

LEMMA CandidatesRemain == GInv => \A y \in Variables : current.cand[y] # {}
  BY DEF GInv, HInv, validate_structural_invariants, GridStart

(* The premises a rule cites explain its conclusion: with the cited clue or      *)
(* category they give it, whatever rows the other items may still take.          *)
THEOREM PremisesAreComplete == Spec => []PremisesExplain
  <1>1. GInv => PremisesExplain
    <2> SUFFICES ASSUME GInv, NEW d \in logic_grid_applications(current), ~OrderBound(d),
                        NEW f \in SupportModels(d, [y \in Variables |->
                              IF y = d.claim.var THEN current.cand[d.claim.var] ELSE Values]),
                        \A p \in d.premises : Holds(f, p)
                 PROVE  Holds(f, d.claim)
      BY DEF PremisesExplain
    <2>1. [y \in Variables |-> IF y = d.claim.var THEN current.cand[d.claim.var] ELSE Values]
            = [y \in Variables |-> IF y = d.claim.var THEN current.cand[y] ELSE Values]
      OBVIOUS
    <2>2. current \in PuzzleState
      BY DEF GInv, HInv, TypeOK
    <2> QED
      BY <2>1, <2>2, CandidatesRemain, CatalogueExplained
  <1> QED
    BY <1>1, GridInvariant, PTL

----------------------------------------------------------------------------
(* What the catalogue proposes for a solvable puzzle is never rejected. *)

LEMMA AbsencesAreAsserted ==
  ASSUME NEW s \in PuzzleState, NEW x \in Variables, NEW v \in Values
  PROVE  absence_premise(x, v, s) \subseteq Asserted(s)
  <1>1. \A w \in Values : <<x, w>> \in s.assigned => Assignment(x, w) \in Asserted(s)
    <2>1. ASSUME NEW w \in Values, <<x, w>> \in s.assigned PROVE Assignment(x, w) \in Asserted(s)
      BY <2>1 DEF Asserted
    <2> QED
      BY <2>1
  <1>2. <<x, v>> \in s.excluded => Exclusion(x, v) \in Asserted(s)
    BY DEF Asserted
  <1> QED
    BY <1>1, <1>2 DEF absence_premise

LEMMA PlacementsAreAsserted ==
  ASSUME NEW s \in PuzzleState, validate_structural_invariants(s),
         NEW x \in Variables, ~Open(s, x)
  PROVE  assignment(x, s) \subseteq Asserted(s)
  <1>1. SUFFICES ASSUME NEW v \in s.cand[x] PROVE Assignment(x, v) \in Asserted(s)
    BY DEF assignment
  <1>2. s.cand[x] = {v} /\ v \in Values
    BY DEF Open, PuzzleState
  <1>3. <<x, v>> \in s.assigned
    BY <1>2 DEF validate_structural_invariants, Singletons, Cells
  <1> QED
    BY <1>3 DEF Asserted

LEMMA MatchProposed ==
  ASSUME NEW s \in PuzzleState, validate_structural_invariants(s),
         NEW x \in Variables, NEW y \in Variables, NEW c, NEW d \in MatchCandidates(c, x, y, s)
  PROVE  validate_proposal(s, d) /\ d.claim.var = x
  <1> DEFINE meet == s.cand[x] \cap s.cand[y]
             lost == s.cand[x] \ meet
  <1>1. s.cand[x] \subseteq Values
    BY DEF PuzzleState
  <1>2. CASE \E v \in {u \in meet : /\ meet = {u} /\ Open(s, x)
                                    /\ Fixed(s, y) \/ Explained(y, lost, s)} :
               d = Candidate("association", c,
                             IF Fixed(s, y) THEN assignment(y, s) ELSE Absences(y, lost, s),
                             Assignment(x, v))
    <2>1. PICK v \in meet : /\ meet = {v} /\ Open(s, x) /\ d.claim = Assignment(x, v)
                            /\ d.premises = IF Fixed(s, y) THEN assignment(y, s)
                                                           ELSE Absences(y, lost, s)
      BY <1>2 DEF Candidate
    <2>2. d.premises \subseteq Asserted(s)
      <3>1. CASE Fixed(s, y)
        BY <2>1, <3>1, PlacementsAreAsserted DEF Fixed, Open
      <3>2. CASE ~Fixed(s, y)
        BY <1>1, <2>1, <3>2, AbsencesAreAsserted DEF Absences
      <3> QED
        BY <3>1, <3>2
    <2>3. s.cand[x] # {v}
      BY <2>1 DEF Open
    <2> QED
      BY <2>1, <2>2, <2>3 DEF validate_proposal, Assignment
  <1>3. CASE \E v \in {u \in lost : /\ \E p, q \in meet : p # q
                                    /\ absence_premise(y, u, s) # {}} :
               d = Candidate("association", c, absence_premise(y, v, s), Exclusion(x, v))
    <2>1. PICK v \in lost : /\ \E p, q \in meet : p # q
                            /\ d.premises = absence_premise(y, v, s)
                            /\ d.claim = Exclusion(x, v)
      BY <1>3 DEF Candidate
    <2>2. d.premises \subseteq Asserted(s)
      BY <1>1, <2>1, AbsencesAreAsserted
    <2>3. v \in s.cand[x] /\ s.cand[x] # {v}
      BY <2>1
    <2> QED
      BY <2>1, <2>2, <2>3 DEF validate_proposal, Exclusion
  <1> QED
    BY <1>2, <1>3 DEF MatchCandidates

LEMMA ApartProposed ==
  ASSUME NEW s \in PuzzleState, validate_structural_invariants(s),
         NEW x \in Variables, NEW y \in Variables, NEW c, NEW d \in ApartCandidates(c, x, y, s)
  PROVE  validate_proposal(s, d) /\ d.claim.var = x
  <1>1. PICK v \in s.cand[x] : /\ s.cand[y] = {v} /\ Open(s, x)
                               /\ d.premises = assignment(y, s) /\ d.claim = Exclusion(x, v)
    BY DEF ApartCandidates, Candidate
  <1>2. d.premises \subseteq Asserted(s)
    BY <1>1, PlacementsAreAsserted DEF Open
  <1>3. s.cand[x] # {v}
    BY <1>1 DEF Open
  <1> QED
    BY <1>1, <1>2, <1>3 DEF validate_proposal, Exclusion

(* A solution never leaves two items of a category their only row. *)
LEMMA BijectionProposed ==
  ASSUME NEW s \in PuzzleState, validate_structural_invariants(s), NEW h \in Models(s),
         NEW g \in AllDifferent, NEW d \in CategoryBijectionRule(g, s)
  PROVE  validate_proposal(s, d) /\ d.claim.var \in g
  <1>0. /\ g \subseteq Variables
        /\ \A x \in Variables : h[x] \in s.cand[x] /\ s.cand[x] \subseteq Values
        /\ \A x, y \in g : x # y => h[x] # h[y]
    BY AllDifferentAssumption, SolutionsAssumption DEF Models, PuzzleState
  <1>1. CASE d \in OccupiedRows(g, s)
    <2>1. PICK q \in g \X g \X Values :
            /\ q[1] # q[2] /\ s.cand[q[1]] = {q[3]} /\ q[3] \in s.cand[q[2]]
            /\ d.premises = {Assignment(q[1], q[3])} /\ d.claim = Exclusion(q[2], q[3])
      BY <1>1 DEF OccupiedRows, Candidate
    <2>2. q[1] \in g /\ q[2] \in g /\ q[3] \in Values
      BY <2>1
    <2>3. d.premises \subseteq Asserted(s)
      <3>1. assignment(q[1], s) \subseteq Asserted(s)
        BY <1>0, <2>1, <2>2, PlacementsAreAsserted DEF Open
      <3> QED
        BY <2>1, <3>1 DEF assignment
    <2>4. s.cand[q[2]] # {q[3]}
      <3>1. h[q[1]] = q[3]
        BY <1>0, <2>1, <2>2
      <3>2. h[q[2]] # q[3] /\ h[q[2]] \in s.cand[q[2]]
        BY <1>0, <2>1, <2>2, <3>1
      <3> QED
        BY <3>2
    <2> QED
      BY <1>0, <2>1, <2>2, <2>3, <2>4 DEF validate_proposal, Exclusion
  <1>2. CASE d \in SolePositions(g, s)
    <2>1. PICK q \in g \X Values :
            /\ {x \in g : q[2] \in s.cand[x]} = {q[1]} /\ Open(s, q[1])
            /\ d.premises = UNION {absence_premise(y, q[2], s) : y \in g \ {q[1]}}
            /\ d.claim = Assignment(q[1], q[2])
      BY <1>2 DEF SolePositions, Candidate
    <2>2. q[1] \in g /\ q[2] \in Values /\ q[2] \in s.cand[q[1]]
      BY <2>1
    <2>3. d.premises \subseteq Asserted(s)
      BY <1>0, <2>1, <2>2, AbsencesAreAsserted
    <2>4. s.cand[q[1]] # {q[2]}
      BY <2>1 DEF Open
    <2> QED
      BY <1>0, <2>1, <2>2, <2>3, <2>4 DEF validate_proposal, Assignment
  <1> QED
    BY <1>1, <1>2 DEF CategoryBijectionRule

LEMMA CompletionProposed ==
  ASSUME NEW s \in PuzzleState, validate_structural_invariants(s),
         NEW c, IsClue(c), NEW d \in ClueCompletionRule(c, s)
  PROVE  validate_proposal(s, d) /\ d.claim.var \in boolean_variables(c)
  <1>0. /\ boolean_variables(c) \subseteq Variables
        /\ \A x \in Variables : s.cand[x] \subseteq Values
    BY DEF IsClue, boolean_variables, Relations, Others, Orders, PuzzleState
  <1>1. ASSUME NEW x \in boolean_variables(c), Open(s, x), NEW v \in s.cand[x],
               d.premises \subseteq Asserted(s), d.claim = Assignment(x, v) \/ d.claim = Exclusion(x, v)
        PROVE  validate_proposal(s, d) /\ d.claim.var \in boolean_variables(c)
    <2>1. s.cand[x] # {v}
      BY <1>1 DEF Open
    <2> QED
      BY <1>0, <1>1, <2>1 DEF validate_proposal, Assignment, Exclusion
  <1>2. CASE /\ {x \in boolean_variables(c) : Open(s, x)} = {c.left, c.right}
             /\ d.premises = {} /\ d.claim \in ordering_bound_exclusions(c, s)
    <2>1. \/ \E v \in s.cand[c.left] : d.claim = Exclusion(c.left, v)
          \/ \E v \in s.cand[c.right] : d.claim = Exclusion(c.right, v)
      BY <1>2 DEF ordering_bound_exclusions
    <2>2. /\ c.left \in boolean_variables(c) /\ Open(s, c.left)
          /\ c.right \in boolean_variables(c) /\ Open(s, c.right)
      BY <1>2
    <2> QED
      BY <1>1, <1>2, <2>1, <2>2
  <1>3. ASSUME NEW x \in boolean_variables(c),
               {y \in boolean_variables(c) : Open(s, y)} = {x},
               d.premises = CompletionPremises(c, x, s), d.claim \in CompletionClaims(c, x, s)
        PROVE  validate_proposal(s, d) /\ d.claim.var \in boolean_variables(c)
    <2>1. \E v \in s.cand[x] : d.claim = Assignment(x, v) \/ d.claim = Exclusion(x, v)
      BY <1>3 DEF CompletionClaims, Valid
    <2>2. \A y \in boolean_variables(c) \ {x} : assignment(y, s) \subseteq Asserted(s)
      <3>1. ASSUME NEW y \in boolean_variables(c) \ {x} PROVE assignment(y, s) \subseteq Asserted(s)
        <4>1. y \in Variables /\ ~Open(s, y)
          BY <1>0, <1>3
        <4> QED
          BY <4>1, PlacementsAreAsserted
      <3> QED
        BY <3>1
    <2>3. d.premises \subseteq Asserted(s)
      BY <1>3, <2>2 DEF CompletionPremises
    <2>4. Open(s, x)
      BY <1>3
    <2> QED
      BY <1>1, <2>1, <2>3, <2>4
  <1> QED
    BY <1>2, <1>3, CompletionShape

(* A solution, cut down to the items of a clue, satisfies the clue. *)
LEMMA RestrictedSolution ==
  ASSUME NEW s \in PuzzleState, NEW h \in Models(s), NEW c \in Clues
  PROVE  LET f == [x \in boolean_variables(c) |-> h[x]]
         IN  /\ boolean_variables(c) \subseteq Variables
             /\ f \in [boolean_variables(c) -> Values]
             /\ \A x \in boolean_variables(c) : f[x] \in s.cand[x]
             /\ evaluate_boolean(c, f)
  <1> DEFINE f == [x \in boolean_variables(c) |-> h[x]]
  <1>1. IsClue(c)
    BY CluesAssumption
  <1>2. boolean_variables(c) \subseteq Variables
    BY <1>1 DEF IsClue, boolean_variables, Relations, Others, Orders
  <1>3. /\ h \in Solutions /\ h \in [Variables -> Values] /\ \A x \in Variables : h[x] \in s.cand[x]
        /\ evaluate_boolean(c, h)
    BY SolutionsAssumption, CluesHoldAssumption DEF Models
  <1>4. evaluate_boolean(c, f)
    <2>1. CASE c.shape \in Relations
      <3>1. f[c.left] = h[c.left] /\ f[c.right] = h[c.right]
        BY <2>1 DEF boolean_variables
      <3> HIDE DEF f
      <3> QED
        BY <1>3, <2>1, <3>1 DEF evaluate_boolean, Relations, Orders
    <2>2. CASE c.shape \notin Relations
      <3>1. boolean_variables(c) = c.variables
        BY <2>2 DEF boolean_variables
      <3>2. [x \in c.variables |-> f[x]] = [x \in c.variables |-> h[x]]
        BY <3>1
      <3> HIDE DEF f
      <3> QED
        BY <1>3, <2>2, <3>2 DEF evaluate_boolean, Relations, Orders
    <2> QED
      BY <2>1, <2>2
  <1> QED
    BY <1>2, <1>3, <1>4

(* Every application for a solvable state obeys the proposal contract, and its  *)
(* claim holds in every solution.                                               *)
LEMMA CatalogueProposed ==
  ASSUME NEW s \in PuzzleState, validate_structural_invariants(s), NEW h \in Models(s),
         NEW d \in logic_grid_applications(s)
  PROVE  validate_proposal(s, d) /\ Holds(h, d.claim)
  <1>1. CASE \E g \in AllDifferent : d \in CategoryBijectionRule(g, s)
    <2>1. PICK g \in AllDifferent : d \in CategoryBijectionRule(g, s)
      BY <1>1
    <2>2. validate_proposal(s, d) /\ d.claim.var \in g
      BY <2>1, BijectionProposed
    <2> DEFINE f == [x \in g |-> h[x]]
    <2>3. /\ f \in [g -> Values] /\ \A x \in g : f[x] \in s.cand[x]
          /\ \A x, y \in g : x # y => f[x] # f[y]
      BY AllDifferentAssumption, SolutionsAssumption DEF Models, PuzzleState
    <2>4. f[d.claim.var] = h[d.claim.var]
      BY <2>2
    <2> HIDE DEF f
    <2>5. Holds(f, d.claim)
      BY <2>1, <2>3, BijectionSound
    <2> QED
      BY <2>2, <2>4, <2>5 DEF Holds
  <1>2. ASSUME NEW c \in Clues, d \in AssociationRule(c, s) \/ d \in ClueCompletionRule(c, s)
        PROVE  validate_proposal(s, d) /\ Holds(h, d.claim)
    <2> DEFINE f == [x \in boolean_variables(c) |-> h[x]]
    <2>0. IsClue(c)
      BY CluesAssumption
    <2>1. /\ boolean_variables(c) \subseteq Variables
          /\ f \in [boolean_variables(c) -> Values]
          /\ \A x \in boolean_variables(c) : f[x] \in s.cand[x]
          /\ evaluate_boolean(c, f)
      BY RestrictedSolution
    <2>2. \A x \in boolean_variables(c) : f[x] = h[x]
      OBVIOUS
    <2> HIDE DEF f
    <2>3. CASE d \in AssociationRule(c, s)
      <3>1. Holds(f, d.claim)
        BY <2>1, <2>3, AssociationSound
      <3>2. validate_proposal(s, d) /\ d.claim.var \in {c.left, c.right}
            /\ c.shape \in {"equal", "not_equal"}
        <4>1. CASE c.shape = "equal"
          <5>1. c.left \in Variables /\ c.right \in Variables
            BY <2>1, <4>1 DEF boolean_variables, Relations
          <5> QED
            BY <2>3, <4>1, <5>1, MatchProposed DEF AssociationRule
        <4>2. CASE c.shape = "not_equal"
          <5>1. c.left \in Variables /\ c.right \in Variables
            BY <2>1, <4>2 DEF boolean_variables, Relations
          <5> QED
            BY <2>3, <4>2, <5>1, ApartProposed DEF AssociationRule
        <4> QED
          BY <2>3, <4>1, <4>2 DEF AssociationRule
      <3>3. f[d.claim.var] = h[d.claim.var]
        BY <2>2, <3>2 DEF boolean_variables, Relations
      <3> QED
        BY <3>1, <3>2, <3>3 DEF Holds
    <2>4. CASE d \in ClueCompletionRule(c, s)
      <3>1. Holds(f, d.claim)
        BY <2>0, <2>1, <2>4, ClueCompletionSound
      <3>2. validate_proposal(s, d) /\ d.claim.var \in boolean_variables(c)
        BY <2>0, <2>4, CompletionProposed
      <3> QED
        BY <2>2, <3>1, <3>2 DEF Holds
    <2> QED
      BY <1>2, <2>3, <2>4
  <1>3. \/ \E c \in Clues : d \in AssociationRule(c, s) \/ d \in ClueCompletionRule(c, s)
        \/ \E g \in AllDifferent : d \in CategoryBijectionRule(g, s)
    BY DEF logic_grid_applications
  <1> QED
    BY <1>1, <1>2, <1>3

(* The loop is offered the Logic Grid catalogue. *)
CatalogueInUse == \A s \in PuzzleState : find_applications(s) = logic_grid_applications(s)

(* A clue over some of the items has finitely many combinations of rows. *)
LEMMA CombinationsAreFinite ==
  ASSUME NEW X \in SUBSET Variables
  PROVE  IsFiniteSet([X -> Values])
  <1>1. IsFiniteSet(Variables)
    BY RowsAssumption, FS_UNION DEF LogicGridContract
  <1>2. IsFiniteSet(X) /\ IsFiniteSet(Values)
    BY <1>1, RowsAssumption, FS_Subset DEF LogicGridContract
  <1>3. IsFiniteSet(SUBSET (X \X Values))
    BY <1>2, FS_Product, FS_SUBSET
  <1> DEFINE graph == [f \in [X -> Values] |-> {<<x, f[x]>> : x \in X}]
  <1>4. graph \in Injection([X -> Values], SUBSET (X \X Values))
    <2>1. graph \in [[X -> Values] -> SUBSET (X \X Values)]
      OBVIOUS
    <2>2. ASSUME NEW f \in [X -> Values], NEW g \in [X -> Values], graph[f] = graph[g]
          PROVE  f = g
      <3>1. ASSUME NEW x \in X PROVE f[x] = g[x]
        <4>1. <<x, f[x]>> \in graph[g]
          BY <2>2
        <4> QED
          BY <4>1
      <3> QED
        BY <3>1
    <2> QED
      BY <2>1, <2>2 DEF Injection, IsInjective
  <1> QED
    BY <1>3, <1>4, FS_Injection

(* What can be encoded stays so when candidates are taken away. *)
LEMMA NarrowerIsEncodable ==
  ASSUME NEW s, NEW t, Within(t, s), Encodable(s)
  PROVE  Encodable(t)
  <1> SUFFICES ASSUME NEW b \in Backends, b \in Tabulating, NEW X \in Tables
               PROVE  combinations(t, X) <= MAX_TABLE_COMBINATIONS
    BY DEF Encodable, encodable
  <1> DEFINE all(u) == {f \in [X -> Values] : \A x \in X : f[x] \in u.cand[x]}
  <1>1. X \in SUBSET Variables /\ MAX_TABLE_COMBINATIONS \in Nat
    BY TablesAssumption
  <1>2. all(t) \subseteq all(s)
    BY <1>1 DEF Within
  <1>3. IsFiniteSet(all(s)) /\ IsFiniteSet(all(t))
    BY <1>1, CombinationsAreFinite, FS_Subset
  <1>4. /\ Cardinality(all(t)) <= Cardinality(all(s))
        /\ Cardinality(all(t)) \in Nat /\ Cardinality(all(s)) \in Nat
    BY <1>2, <1>3, FS_Subset, FS_CardinalityType
  <1>5. Cardinality(all(s)) <= MAX_TABLE_COMBINATIONS
    BY DEF Encodable, encodable, combinations
  <1>6. Cardinality(all(t)) <= MAX_TABLE_COMBINATIONS
    BY <1>1, <1>4, <1>5
  <1> QED
    BY <1>6 DEF combinations

(* A correct backend that cannot encode the state blocks every claim about it. *)
LEMMA TooLargeIsNotVerified ==
  ASSUME NEW s, ~Encodable(s), Honest = Backends,
         NEW P, NEW a, NEW r \in Certificates(s, P, a)
  PROVE  coordinator_verify(r) # "verified"
  <1>1. PICK b \in Backends : ~encodable(b, s)
    BY DEF Encodable
  <1>2. r[b] = "invalid"
    BY <1>1, CorrectAnswers DEF BackendAnswers
  <1>3. "invalid" \in {r[h] : h \in Backends}
    BY <1>2
  <1> QED
    BY <1>3 DEF coordinator_verify

(* Correct backends that can encode the state certify such a claim, unless one  *)
(* runs out of time.                                                            *)
LEMMA HonestBackendsAgree ==
  ASSUME NEW s, prepare_problem(s), Encodable(s), NEW P, Assuming(s, P) # {}, NEW a,
         Entails(s, P, a), Honest = Backends, NEW r \in Certificates(s, P, a),
         coordinator_verify(r) # "verified"
  PROVE  coordinator_verify(r) = "inconclusive"
  <1>1. \A b \in Backends : r[b] \in {"unsat", "unknown"}
    <2>1. \A b \in Backends : r[b] \in BackendAnswers(b, s, P, a)
      BY CorrectAnswers
    <2> QED
      BY <2>1 DEF BackendAnswers, Encodable
  <1>2. Backends # {}
    BY BackendsAssumption
  <1> DEFINE results == {r[b] : b \in Backends}
  <1>3. results \subseteq {"unsat", "unknown"} /\ results # {}
    BY <1>1, <1>2
  <1>4. coordinator_verify(r) = IF "unknown" \in results THEN "inconclusive"
                                ELSE IF results = {"unsat"} THEN "verified" ELSE "rejected"
    BY <1>3 DEF coordinator_verify
  <1>5. "unknown" \notin results => results = {"unsat"}
    BY <1>3
  <1> QED
    BY <1>4, <1>5

LEMMA NothingRejectedStep ==
  ASSUME CatalogueInUse, GInv, NothingIsRejected, [Next]_vars
  PROVE  NothingIsRejected'
  <1> SUFFICES ASSUME Honest = Backends, Models(initial)' # {}
               PROVE  IF Encodable(initial)' THEN attempted' = {} \/ status' = "inconclusive"
                      ELSE current' = initial'
    BY DEF NothingIsRejected
  <1>1. initial' = initial
    BY DEF Next, Turn, Returned, RejectProposal, Evaluate, Try, Stall, Finish, vars
  <1>2. Models(initial) # {} /\ Encodable(initial)' = Encodable(initial)
    BY <1>1 DEF Models, Encodable, encodable, combinations
  <1>large. CASE ~Encodable(initial)
    <2>1. current = initial
      BY <1>2, <1>large DEF NothingIsRejected
    <2>2. ASSUME NEW c \in find_applications(current), Evaluate(c) PROVE current' = current
      <3>1. PICK r \in Certificates(current, c.premises, c.claim) : Withhold(c, r) \/ Apply(c, r)
        BY <2>2 DEF Evaluate
      <3>2. coordinator_verify(r) # "verified"
        BY <1>large, <2>1, TooLargeIsNotVerified
      <3> QED
        BY <3>1, <3>2 DEF Withhold, Apply
    <2>3. current' = current
      BY <2>2 DEF Next, Turn, Returned, RejectProposal, Stall, Finish, vars
    <2> QED
      BY <1>1, <1>2, <1>large, <2>1, <2>3
  <1>small. SUFFICES ASSUME Encodable(initial) PROVE attempted' = {} \/ status' = "inconclusive"
    BY <1>2, <1>large
  <1>fits. Encodable(current)
    BY <1>small, NarrowerIsEncodable DEF GInv
  <1>3. /\ current \in PuzzleState /\ validate_structural_invariants(current)
        /\ validate_state(current) /\ Models(current) # {} /\ GridStart(current)
        /\ find_applications(current) = logic_grid_applications(current)
    BY <1>2 DEF GInv, HInv, TypeOK, SolutionsPreserved, VerifiedStatesAreValid, CatalogueInUse
  <1>4. \A d \in find_applications(current) :
          /\ validate_proposal(current, d)
          /\ \A h \in Models(current) : Holds(h, d.claim)
    BY <1>3, CatalogueProposed
  <1>5. ASSUME NEW c \in find_applications(current), RejectProposal(c)
        PROVE  attempted' = {} \/ status' = "inconclusive"
    BY <1>4, <1>5 DEF RejectProposal
  <1>6. ASSUME NEW c \in find_applications(current), Evaluate(c)
        PROVE  attempted' = {} \/ status' = "inconclusive"
    <2>1. PICK r \in Certificates(current, c.premises, c.claim) : Withhold(c, r) \/ Apply(c, r)
      BY <1>6 DEF Evaluate
    <2>2. Try(c) /\ validate_proposal(current, c)
      BY <1>6 DEF Evaluate
    <2>3. CASE Withhold(c, r)
      <3>1. prepare_problem(current)
        BY <1>3 DEF prepare_problem, GridStart
      <3>2. Assuming(current, c.premises) = Models(current)
        BY <1>3, <2>2, AssertedPremises DEF validate_proposal
      <3>3. Entails(current, c.premises, c.claim)
        BY <1>4, <3>2 DEF Entails
      <3>4. coordinator_verify(r) = "inconclusive"
        BY <1>3, <1>fits, <2>3, <3>1, <3>2, <3>3, HonestBackendsAgree DEF Withhold
      <3> QED
        BY <2>3, <3>4 DEF Withhold
    <2>4. CASE Apply(c, r)
      BY <2>2, <2>4, ApplySucceeds DEF GInv
    <2> QED
      BY <2>1, <2>3, <2>4
  <1>7. CASE \/ UNCHANGED <<attempted, status>>
             \/ status = "running" /\ UNCHANGED attempted
    BY <1>2, <1>small, <1>7 DEF NothingIsRejected
  <1> QED
    BY <1>5, <1>6, <1>7 DEF Next, Turn, Returned, Stall, Finish, Continue, vars

(* With correct backends nothing the catalogue proposes for a solvable puzzle is *)
(* rejected, neither by the proposal check nor by a backend, as long as all of   *)
(* them can encode the puzzle; when one cannot, nothing is ever derived.         *)
THEOREM CatalogueIsNeverRejected ==
  ASSUME CatalogueInUse
  PROVE  Spec => []NothingIsRejected
  <1>1. Init => NothingIsRejected
    BY DEF Init, NothingIsRejected
  <1>2. GInv /\ NothingIsRejected /\ [Next]_vars => NothingIsRejected'
    BY NothingRejectedStep
  <1> QED
    BY <1>1, <1>2, GridInvariant, PTL DEF Spec

----------------------------------------------------------------------------
(* When the catalogue proposes nothing, the state is consistent with each clue  *)
(* and category by itself.  s is such a state and h one of its solutions.        *)

Exhausted(s) ==
  /\ s \in PuzzleState
  /\ GridStart(s)
  /\ \A y \in Variables : s.cand[y] # {}
  /\ logic_grid_applications(s) = {}

(* Supported, in any state. *)
SupportedIn(c, x, v, s) ==
  \E f \in [boolean_variables(c) -> Values] :
    /\ f[x] = v
    /\ \A y \in boolean_variables(c) : f[y] \in s.cand[y]
    /\ evaluate_boolean(c, f)

LEMMA ExhaustedRules ==
  ASSUME NEW s, Exhausted(s)
  PROVE  /\ \A c \in Clues : AssociationRule(c, s) = {} /\ ClueCompletionRule(c, s) = {}
         /\ \A g \in AllDifferent : OccupiedRows(g, s) = {} /\ SolePositions(g, s) = {}
  BY DEF Exhausted, logic_grid_applications, CategoryBijectionRule

(* A solution supports the candidates it uses, so also the last one of an item. *)
LEMMA SolutionSupports ==
  ASSUME NEW s \in PuzzleState, NEW h \in Models(s), NEW c \in Clues, NEW x \in boolean_variables(c)
  PROVE  SupportedIn(c, x, h[x], s)
  <1> DEFINE f == [y \in boolean_variables(c) |-> h[y]]
  <1>1. /\ f \in [boolean_variables(c) -> Values]
        /\ \A y \in boolean_variables(c) : f[y] \in s.cand[y]
        /\ evaluate_boolean(c, f) /\ f[x] = h[x]
    BY RestrictedSolution
  <1> HIDE DEF f
  <1> QED
    BY <1>1 DEF SupportedIn

(* Two items that share a row have the same candidates left. *)
LEMMA MatchesAgree ==
  ASSUME NEW s, Exhausted(s), NEW h \in Models(s), NEW x \in Variables, NEW y \in Variables,
         h[x] = h[y], NEW c, MatchCandidates(c, x, y, s) = {}
  PROVE  s.cand[x] \subseteq s.cand[y]
  <1> DEFINE meet == s.cand[x] \cap s.cand[y]
             lost == s.cand[x] \ meet
  <1>1. SUFFICES ASSUME NEW v \in s.cand[x], v \notin s.cand[y] PROVE FALSE
    OBVIOUS
  <1>2. s.cand[x] \subseteq Values /\ v \in lost /\ h[x] \in meet
    <2>1. s.cand[x] \subseteq Values
      BY DEF Exhausted, PuzzleState
    <2>2. h[x] \in s.cand[x] /\ h[y] \in s.cand[y]
      BY DEF Models
    <2> QED
      BY <1>1, <2>1, <2>2
  <1>3. \A u \in lost : absence_premise(y, u, s) # {}
    BY <1>2 DEF Exhausted, GridStart, AbsencesExplained, Explained
  <1>4. CASE meet = {h[x]}
    <2>1. Open(s, x)
      BY <1>2 DEF Open
    <2>2. Explained(y, lost, s)
      BY <1>3 DEF Explained
    <2>3. h[x] \in {u \in meet : /\ meet = {u} /\ Open(s, x)
                                 /\ Fixed(s, y) \/ Explained(y, lost, s)}
      BY <1>4, <2>1, <2>2
    <2> QED
      BY <2>3 DEF MatchCandidates
  <1>5. CASE meet # {h[x]}
    <2>1. \E p, q \in meet : p # q
      BY <1>2, <1>5
    <2>2. v \in {u \in lost : /\ \E p, q \in meet : p # q
                              /\ absence_premise(y, u, s) # {}}
      BY <1>2, <1>3, <2>1
    <2> QED
      BY <2>2 DEF MatchCandidates
  <1> QED
    BY <1>4, <1>5

(* Of two items in different rows, neither holds the other's last candidate. *)
LEMMA ApartLeavesAnother ==
  ASSUME NEW s, Exhausted(s), NEW h \in Models(s), NEW x \in Variables, NEW y \in Variables,
         h[x] # h[y], NEW c, ApartCandidates(c, x, y, s) = {}, NEW v \in s.cand[x]
  PROVE  \E w \in s.cand[y] : w # v
  <1>1. SUFFICES ASSUME \A w \in s.cand[y] : w = v PROVE FALSE
    OBVIOUS
  <1>2. h[x] \in s.cand[x] /\ h[y] \in s.cand[y]
    BY DEF Models
  <1>3. s.cand[y] = {v} /\ Open(s, x)
    BY <1>1, <1>2 DEF Open
  <1>4. v \in {u \in s.cand[x] : s.cand[y] = {u} /\ Open(s, x)}
    BY <1>3
  <1> QED
    BY <1>4 DEF ApartCandidates

(* The last open item of a clue keeps only rows that satisfy it. *)
LEMMA CompletionSupports ==
  ASSUME NEW s, Exhausted(s), NEW h \in Models(s), NEW c \in Clues, NEW x \in boolean_variables(c),
         {y \in boolean_variables(c) : Open(s, y)} = {x}, CompletionClaims(c, x, s) = {},
         NEW v \in s.cand[x]
  PROVE  SupportedIn(c, x, v, s)
  <1> DEFINE valid == Valid(c, x, s)
  <1>1. /\ s \in PuzzleState /\ boolean_variables(c) \subseteq Variables
        /\ \A y \in Variables : s.cand[y] # {} /\ s.cand[y] \subseteq Values /\ h[y] \in s.cand[y]
    BY RestrictedSolution DEF Exhausted, PuzzleState, Models
  <1>2. ASSUME NEW y \in boolean_variables(c), y # x
        PROVE  s.cand[y] = {h[y]} /\ (CHOOSE w \in Values : s.cand[y] = {w}) = h[y]
    <2>1. y \in Variables /\ ~Open(s, y)
      BY <1>1, <1>2
    <2>2. s.cand[y] = {h[y]} /\ h[y] \in Values
      BY <1>1, <2>1 DEF Open
    <2> QED
      BY <2>2
  <1>3. h[x] \in valid
    <2>1. Trial(c, x, h[x], s) = [y \in boolean_variables(c) |-> h[y]]
      BY <1>2 DEF Trial
    <2> QED
      BY <1>1, <2>1, RestrictedSolution DEF Valid
  <1>4. valid # {h[x]} \/ Assignment(x, h[x]) \in CompletionClaims(c, x, s)
    BY <1>3 DEF CompletionClaims
  <1>5. \E p, q \in valid : p # q
    BY <1>3, <1>4
  <1>6. v \in valid
    <2>1. SUFFICES ASSUME v \notin valid PROVE FALSE
      OBVIOUS
    <2>2. Exclusion(x, v) \in CompletionClaims(c, x, s)
      BY <1>5, <2>1 DEF CompletionClaims
    <2> QED
      BY <2>2
  <1>7. evaluate_boolean(c, Trial(c, x, v, s))
    BY <1>6 DEF Valid
  <1>8. \A y \in boolean_variables(c) : Trial(c, x, v, s)[y] = IF y = x THEN v ELSE h[y]
    BY <1>2 DEF Trial
  <1>9. Trial(c, x, v, s) \in [boolean_variables(c) -> Values]
    BY <1>1, <1>2 DEF Trial
  <1> QED
    BY <1>1, <1>7, <1>8, <1>9 DEF SupportedIn

(* A clue over two items admits v for x as soon as it admits v with some        *)
(* candidate w of the other.                                                    *)
LEMMA PairSupports ==
  ASSUME NEW s \in PuzzleState, NEW c \in Clues, c.shape \in Relations,
         NEW x \in boolean_variables(c), NEW y \in boolean_variables(c), x # y,
         NEW v \in s.cand[x], NEW w \in s.cand[y],
         evaluate_boolean(c, [z \in boolean_variables(c) |-> IF z = x THEN v ELSE w])
  PROVE  SupportedIn(c, x, v, s)
  <1>1. IsClue(c)
    BY CluesAssumption
  <1>2. boolean_variables(c) = {c.left, c.right}
    BY DEF boolean_variables
  <1>3. boolean_variables(c) \subseteq Variables
    BY <1>1, <1>2 DEF IsClue, Relations, Others, Orders
  <1>4. boolean_variables(c) = {x, y}
    BY <1>2
  <1>5. s.cand[x] \subseteq Values /\ s.cand[y] \subseteq Values
    BY <1>3 DEF PuzzleState
  <1> DEFINE f == [z \in boolean_variables(c) |-> IF z = x THEN v ELSE w]
  <1>6. f \in [boolean_variables(c) -> Values] /\ f[x] = v /\ f[y] = w
    BY <1>5
  <1>7. \A z \in boolean_variables(c) : f[z] \in s.cand[z]
    BY <1>4, <1>6
  <1> HIDE DEF f
  <1> QED
    BY <1>6, <1>7 DEF SupportedIn, f

(* A value that is not beyond a set of values reaches one of them. *)
LEMMA NotBeyondReaches ==
  ASSUME NEW shape \in Orders, NEW v \in Values, NEW W \in SUBSET Values, ~Beyond(shape, v, W)
  PROVE  \E w \in W : /\ shape = "less_than" => Ordinal[v] < Ordinal[w]
                      /\ shape = "less_than_or_equal" => Ordinal[v] <= Ordinal[w]
                      /\ shape = "greater_than" => Ordinal[v] > Ordinal[w]
                      /\ shape = "greater_than_or_equal" => Ordinal[v] >= Ordinal[w]
  <1>1. \A u \in Values : Ordinal[u] \in Int
    BY RowsAssumption DEF LogicGridContract
  <1>2. CASE shape = "less_than"
    BY <1>1, <1>2 DEF Beyond
  <1>3. CASE shape = "less_than_or_equal"
    BY <1>1, <1>3 DEF Beyond
  <1>4. CASE shape = "greater_than"
    BY <1>1, <1>4 DEF Beyond
  <1>5. CASE shape = "greater_than_or_equal"
    BY <1>1, <1>5 DEF Beyond
  <1> QED
    BY <1>2, <1>3, <1>4, <1>5 DEF Orders

(* What an order clue says of the values of its two ends. *)
LEMMA OrderHolds ==
  ASSUME NEW c, c.shape \in Orders, NEW f,
         c.shape = "less_than" => Ordinal[f[c.left]] < Ordinal[f[c.right]],
         c.shape = "less_than_or_equal" => Ordinal[f[c.left]] <= Ordinal[f[c.right]],
         c.shape = "greater_than" => Ordinal[f[c.left]] > Ordinal[f[c.right]],
         c.shape = "greater_than_or_equal" => Ordinal[f[c.left]] >= Ordinal[f[c.right]]
  PROVE  evaluate_boolean(c, f)
  BY DEF evaluate_boolean, Orders

(* An order between two open items lets each keep what some candidate reaches.  *)
LEMMA OrderSupports ==
  ASSUME NEW s, Exhausted(s), NEW c \in Clues, c.shape \in Orders, c.left # c.right,
         Open(s, c.left), Open(s, c.right),
         NEW x \in boolean_variables(c), NEW v \in s.cand[x]
  PROVE  SupportedIn(c, x, v, s)
  <1>1. IsClue(c) /\ s \in PuzzleState
    BY CluesAssumption DEF Exhausted
  <1>2. boolean_variables(c) = {c.left, c.right} /\ c.shape \in Relations
    BY DEF boolean_variables, Relations
  <1>3. {c.left, c.right} \subseteq Variables
    BY <1>1 DEF IsClue, Relations, Others, Orders
  <1>4. s.cand[c.left] \subseteq Values /\ s.cand[c.right] \subseteq Values
    BY <1>1, <1>3 DEF PuzzleState
  <1>5. \A u \in Values : Ordinal[u] \in Int
    BY RowsAssumption DEF LogicGridContract
  <1>6. ordering_bound_exclusions(c, s) = {}
    <2>1. ClueCompletionRule(c, s) = {}
      BY ExhaustedRules
    <2>2. {y \in boolean_variables(c) : Open(s, y)} = {c.left, c.right}
      BY <1>2
    <2>3. technique_for(c) = "ordering"
      BY DEF technique_for, Orders
    <2>4. ClueCompletionRule(c, s)
            = {Candidate(technique_for(c), c, {}, a) : a \in ordering_bound_exclusions(c, s)}
      BY <2>2, <2>3 DEF ClueCompletionRule
    <2> QED
      BY <2>1, <2>4
  <1>7. CASE x = c.left
    <2>1. ~Beyond(c.shape, v, s.cand[c.right])
      <3>1. SUFFICES ASSUME Beyond(c.shape, v, s.cand[c.right]) PROVE FALSE
        OBVIOUS
      <3>2. Exclusion(c.left, v) \in ordering_bound_exclusions(c, s)
        BY <1>7, <3>1 DEF ordering_bound_exclusions
      <3> QED
        BY <1>6, <3>2
    <2>2. PICK w \in s.cand[c.right] :
            /\ c.shape = "less_than" => Ordinal[v] < Ordinal[w]
            /\ c.shape = "less_than_or_equal" => Ordinal[v] <= Ordinal[w]
            /\ c.shape = "greater_than" => Ordinal[v] > Ordinal[w]
            /\ c.shape = "greater_than_or_equal" => Ordinal[v] >= Ordinal[w]
      BY <1>4, <1>7, <2>1, NotBeyondReaches
    <2> DEFINE f == [z \in boolean_variables(c) |-> IF z = x THEN v ELSE w]
    <2>3. f[c.left] = v /\ f[c.right] = w
      BY <1>2, <1>7
    <2>4. evaluate_boolean(c, f)
      <3> HIDE DEF f
      <3> QED
        BY <2>2, <2>3, OrderHolds
    <2> QED
      BY <1>1, <1>2, <1>7, <2>4, PairSupports
  <1>8. CASE x = c.right
    <2>1. ~Beyond(Converse(c.shape), v, s.cand[c.left])
      <3>1. SUFFICES ASSUME Beyond(Converse(c.shape), v, s.cand[c.left]) PROVE FALSE
        OBVIOUS
      <3>2. Exclusion(c.right, v) \in ordering_bound_exclusions(c, s)
        BY <1>8, <3>1 DEF ordering_bound_exclusions
      <3> QED
        BY <1>6, <3>2
    <2>2. Converse(c.shape) \in Orders
      BY DEF Converse, Orders
    <2>3. PICK w \in s.cand[c.left] :
            /\ Converse(c.shape) = "less_than" => Ordinal[v] < Ordinal[w]
            /\ Converse(c.shape) = "less_than_or_equal" => Ordinal[v] <= Ordinal[w]
            /\ Converse(c.shape) = "greater_than" => Ordinal[v] > Ordinal[w]
            /\ Converse(c.shape) = "greater_than_or_equal" => Ordinal[v] >= Ordinal[w]
      BY <1>4, <1>8, <2>1, <2>2, NotBeyondReaches
    <2>4. Ordinal[v] \in Int /\ Ordinal[w] \in Int
      BY <1>4, <1>5, <1>8
    <2> DEFINE f == [z \in boolean_variables(c) |-> IF z = x THEN v ELSE w]
    <2>5. f[c.left] = w /\ f[c.right] = v
      BY <1>2, <1>8
    <2>6. /\ c.shape = "less_than" => Ordinal[w] < Ordinal[v]
          /\ c.shape = "less_than_or_equal" => Ordinal[w] <= Ordinal[v]
          /\ c.shape = "greater_than" => Ordinal[w] > Ordinal[v]
          /\ c.shape = "greater_than_or_equal" => Ordinal[w] >= Ordinal[v]
      BY <2>3, <2>4 DEF Converse
    <2>7. evaluate_boolean(c, f)
      <3> HIDE DEF f
      <3> QED
        BY <2>5, <2>6, OrderHolds
    <2> QED
      BY <1>1, <1>2, <1>8, <2>7, PairSupports
  <1> QED
    BY <1>2, <1>7, <1>8

(* An exhausted state supports every candidate by each clue that relates two    *)
(* items or has one open item.                                                  *)
LEMMA ClueSupports ==
  ASSUME NEW s, Exhausted(s), NEW h \in Models(s), NEW c \in Clues, NEW x \in boolean_variables(c),
         NEW v \in s.cand[x],
         c.shape \in Relations \/ (\A y \in boolean_variables(c) \ {x} : Fixed(s, y))
  PROVE  SupportedIn(c, x, v, s)
  <1> DEFINE pair == [y \in boolean_variables(c) |-> h[y]]
  <1>1. /\ s \in PuzzleState /\ boolean_variables(c) \subseteq Variables
        /\ \A y \in Variables : s.cand[y] \subseteq Values /\ h[y] \in s.cand[y]
        /\ evaluate_boolean(c, pair)
    BY RestrictedSolution DEF Exhausted, PuzzleState, Models
  <1>2. AssociationRule(c, s) = {} /\ ClueCompletionRule(c, s) = {}
    BY ExhaustedRules
  <1>3. CASE ~Open(s, x)
    <2>1. v = h[x]
      BY <1>1, <1>3 DEF Open
    <2> QED
      BY <1>1, <2>1, SolutionSupports
  <1>4. CASE c.shape = "equal"
    <2>1. boolean_variables(c) = {c.left, c.right} /\ c.shape \in Relations
      BY <1>4 DEF boolean_variables, Relations
    <2>2. h[c.left] = h[c.right]
      BY <1>1, <1>4, <2>1 DEF evaluate_boolean
    <2>3. MatchCandidates(c, c.left, c.right, s) = {} /\ MatchCandidates(c, c.right, c.left, s) = {}
      BY <1>2, <1>4 DEF AssociationRule
    <2>4. s.cand[c.left] \subseteq s.cand[c.right]
      BY <1>1, <2>1, <2>2, <2>3, MatchesAgree
    <2>5. s.cand[c.right] \subseteq s.cand[c.left]
      BY <1>1, <2>1, <2>2, <2>3, MatchesAgree
    <2> DEFINE f == [y \in boolean_variables(c) |-> v]
    <2>6. f \in [boolean_variables(c) -> Values] /\ f[x] = v
      BY <1>1
    <2>7. \A y \in boolean_variables(c) : f[y] \in s.cand[y]
      BY <2>1, <2>4, <2>5
    <2>8. evaluate_boolean(c, f)
      BY <1>4, <2>1 DEF evaluate_boolean
    <2> HIDE DEF f
    <2> QED
      BY <2>6, <2>7, <2>8 DEF SupportedIn
  <1>5. CASE c.shape = "not_equal"
    <2>1. boolean_variables(c) = {c.left, c.right} /\ c.shape \in Relations
      BY <1>5 DEF boolean_variables, Relations
    <2>2. h[c.left] # h[c.right]
      BY <1>1, <1>5, <2>1 DEF evaluate_boolean
    <2>3. ApartCandidates(c, c.left, c.right, s) = {} /\ ApartCandidates(c, c.right, c.left, s) = {}
      BY <1>2, <1>5 DEF AssociationRule
    <2>4. PICK y \in boolean_variables(c) : x # y /\ h[x] # h[y] /\ ApartCandidates(c, x, y, s) = {}
      BY <2>1, <2>2, <2>3
    <2>5. PICK w \in s.cand[y] : w # v
      <3>1. x \in Variables /\ y \in Variables
        BY <1>1
      <3> QED
        BY <2>4, <3>1, ApartLeavesAnother
    <2>6. evaluate_boolean(c, [z \in boolean_variables(c) |-> IF z = x THEN v ELSE w])
      BY <1>5, <2>1, <2>2, <2>4, <2>5 DEF evaluate_boolean
    <2> QED
      BY <1>1, <2>1, <2>4, <2>6, PairSupports
  <1>6. CASE c.shape \in Orders /\ c.left # c.right /\ Open(s, c.left) /\ Open(s, c.right)
    BY <1>6, OrderSupports
  <1>7. CASE /\ Open(s, x) /\ c.shape \notin {"equal", "not_equal"}
             /\ ~(c.shape \in Orders /\ c.left # c.right /\ Open(s, c.left) /\ Open(s, c.right))
    <2>1. {y \in boolean_variables(c) : Open(s, y)} = {x}
      <3>1. CASE c.shape \in Orders
        BY <1>7, <3>1 DEF boolean_variables, Relations
      <3>2. CASE c.shape \notin Orders
        <4>1. \A y \in boolean_variables(c) \ {x} : ~Open(s, y)
          BY <1>7, <3>2 DEF Fixed, Open, Relations
        <4> QED
          BY <1>7, <4>1
      <3> QED
        BY <3>1, <3>2
    <2>2. technique_for(c) # "association"
      BY <1>7 DEF technique_for
    <2>3. ~(c.shape \in Orders /\ c.left # c.right
            /\ {y \in boolean_variables(c) : Open(s, y)} = {c.left, c.right})
      BY <2>1
    <2>4. ClueCompletionRule(c, s)
            = UNION {{Candidate(technique_for(c), c, CompletionPremises(c, z, s), a) :
                        a \in CompletionClaims(c, z, s)} :
                     z \in {y \in boolean_variables(c) :
                              {u \in boolean_variables(c) : Open(s, u)} = {y}}}
      BY <2>2, <2>3 DEF ClueCompletionRule
    <2>5. CompletionClaims(c, x, s) = {}
      <3>1. {Candidate(technique_for(c), c, CompletionPremises(c, x, s), a) :
               a \in CompletionClaims(c, x, s)} \subseteq ClueCompletionRule(c, s)
        BY <2>1, <2>4
      <3> QED
        BY <1>2, <3>1
    <2> QED
      BY <2>1, <2>5, CompletionSupports
  <1> QED
    BY <1>3, <1>4, <1>5, <1>6, <1>7

(* An exhausted state has no placed row open to others and no untaken sole      *)
(* position.                                                                    *)
LEMMA RowsAreTaken ==
  ASSUME NEW s, Exhausted(s), NEW h \in Models(s), NEW g \in AllDifferent,
         NEW v \in Values, NEW x \in g
  PROVE  /\ s.cand[x] = {v} => \A y \in g \ {x} : v \notin s.cand[y]
         /\ (\A y \in g \ {x} : v \notin s.cand[y]) => s.cand[x] = {v}
  <1>1. OccupiedRows(g, s) = {} /\ SolePositions(g, s) = {}
    BY ExhaustedRules
  <1>2. g \subseteq Variables /\ s \in PuzzleState
    BY AllDifferentAssumption DEF Exhausted
  <1>3. ASSUME s.cand[x] = {v}, NEW y \in g \ {x}, v \in s.cand[y] PROVE FALSE
    <2> DEFINE q == <<x, y, v>>
    <2>1. q \in {p \in g \X g \X Values :
                   p[1] # p[2] /\ s.cand[p[1]] = {p[3]} /\ p[3] \in s.cand[p[2]]}
      BY <1>3
    <2>2. Candidate("category_bijection", g, {Assignment(q[1], q[3])}, Exclusion(q[2], q[3]))
            \in OccupiedRows(g, s)
      BY <2>1 DEF OccupiedRows
    <2> QED
      BY <1>1, <2>2
  <1>4. ASSUME \A y \in g \ {x} : v \notin s.cand[y] PROVE s.cand[x] = {v}
    <2>1. v \in s.cand[x]
      <3>1. h \in [Variables -> Values] /\ \A y, z \in g : y # z => h[y] # h[z]
        BY SolutionsAssumption DEF Models
      <3> DEFINE f == [z \in g |-> h[z]]
      <3>2. f \in [g -> Values] /\ \A y, z \in g : y # z => f[y] # f[z]
        BY <1>2, <3>1
      <3>3. PICK z \in g : f[z] = v
        <4> HIDE DEF f
        <4> QED
          BY <3>2, EveryRowIsTaken
      <3>4. h[z] \in s.cand[z]
        BY <1>2, <3>3 DEF Models
      <3> QED
        BY <1>4, <3>3, <3>4
    <2>2. SUFFICES ASSUME Open(s, x) PROVE FALSE
      BY <2>1 DEF Open
    <2>3. {y \in g : v \in s.cand[y]} = {x}
      BY <1>4, <2>1
    <2>4. \A y \in g \ {x} : absence_premise(y, v, s) # {}
      BY <1>2, <1>4 DEF Exhausted, GridStart, AbsencesExplained, Explained
    <2> DEFINE q == <<x, v>>
    <2>5. q \in {p \in g \X Values :
                   /\ {y \in g : p[2] \in s.cand[y]} = {p[1]}
                   /\ Open(s, p[1])
                   /\ \A y \in g \ {p[1]} : absence_premise(y, p[2], s) # {}}
      BY <2>2, <2>3, <2>4
    <2>6. Candidate("category_bijection", g,
                    UNION {absence_premise(y, q[2], s) : y \in g \ {q[1]}}, Assignment(q[1], q[2]))
            \in SolePositions(g, s)
      BY <2>5 DEF SolePositions
    <2> QED
      BY <1>1, <2>6
  <1> QED
    BY <1>3, <1>4

(* A stalled loop with correct backends has nothing left to propose, unless the *)
(* puzzle was too large from the start.                                         *)
StallsExhausted ==
  status = "stalled" /\ Honest = Backends /\ Models(initial) # {} /\ Encodable(initial) =>
    logic_grid_applications(current) = {}

LEMMA StallsExhaustedStep ==
  ASSUME CatalogueInUse
  PROVE  GInv /\ NothingIsRejected /\ StallsExhausted /\ [Next]_vars => StallsExhausted'
  <1> SUFFICES ASSUME GInv, NothingIsRejected, StallsExhausted, [Next]_vars,
                      status' = "stalled", Honest = Backends, Models(initial') # {},
                      Encodable(initial')
               PROVE  logic_grid_applications(current') = {}
    BY DEF StallsExhausted
  <1>1. CASE Stall
    <2>1. /\ status = "running" /\ UNCHANGED <<initial, current>>
          /\ find_applications(current) \subseteq attempted
      BY <1>1 DEF Stall, Continue
    <2>2. attempted = {}
      BY <2>1 DEF NothingIsRejected
    <2>3. find_applications(current) = logic_grid_applications(current)
      BY DEF CatalogueInUse, GInv, HInv, TypeOK
    <2> QED
      BY <2>1, <2>2, <2>3
  <1>2. ASSUME NEW c \in find_applications(current), RejectProposal(c) \/ Evaluate(c) PROVE FALSE
    <2>1. status = "running"
      BY <1>2 DEF RejectProposal, Evaluate, Try, Continue
    <2>2. CASE RejectProposal(c)
      BY <2>1, <2>2 DEF RejectProposal
    <2>3. CASE Evaluate(c)
      <3>1. PICK r \in Certificates(current, c.premises, c.claim) : Withhold(c, r) \/ Apply(c, r)
        BY <2>3 DEF Evaluate
      <3>2. coordinator_verify(r) # "stalled"
        BY DEF coordinator_verify
      <3> QED
        BY <2>1, <3>1, <3>2 DEF Withhold, Apply
    <2> QED
      BY <1>2, <2>2, <2>3
  <1>3. CASE Finish
    BY <1>3 DEF Finish
  <1>4. CASE UNCHANGED vars
    BY <1>4 DEF vars, StallsExhausted
  <1> QED
    BY <1>1, <1>2, <1>3, <1>4 DEF Next, Turn, Returned

(* With correct backends the loop stalls on a solvable puzzle that all of them   *)
(* can encode only where each clue that relates two items or has one open item supports every candidate,   *)
(* and each category's placed rows are closed and its sole positions taken.      *)
THEOREM StallsAreConsistent ==
  ASSUME CatalogueInUse
  PROVE  Spec => []StalledIsConsistent
  <1>1. Init => StallsExhausted
    BY DEF Init, StallsExhausted
  <1>2. GInv /\ NothingIsRejected /\ StallsExhausted /\ [Next]_vars => StallsExhausted'
    BY StallsExhaustedStep
  <1>3. GInv /\ StallsExhausted => StalledIsConsistent
    <2> SUFFICES ASSUME GInv, StallsExhausted,
                        status = "stalled", Honest = Backends, Models(initial) # {},
                        Encodable(initial)
                 PROVE  /\ \A c \in Clues : \A x \in boolean_variables(c) : \A v \in current.cand[x] :
                             c.shape \in Relations \/ (\A y \in boolean_variables(c) \ {x} : Fixed(current, y))
                               => Supported(c, x, v)
                        /\ \A g \in AllDifferent : \A v \in Values : \A x \in g :
                             /\ current.cand[x] = {v} => \A y \in g \ {x} : v \notin current.cand[y]
                             /\ (\A y \in g \ {x} : v \notin current.cand[y]) => current.cand[x] = {v}
      BY DEF StalledIsConsistent
    <2>1. Exhausted(current)
      BY CandidatesRemain DEF Exhausted, StallsExhausted, GInv, HInv, TypeOK
    <2>2. PICK h : h \in Models(current)
      BY DEF GInv, HInv, SolutionsPreserved
    <2>3. ASSUME NEW c \in Clues, NEW x \in boolean_variables(c), NEW v \in current.cand[x],
                 c.shape \in Relations \/ (\A y \in boolean_variables(c) \ {x} : Fixed(current, y))
          PROVE  Supported(c, x, v)
      <3>1. SupportedIn(c, x, v, current)
        BY <2>1, <2>2, <2>3, ClueSupports
      <3> QED
        BY <3>1 DEF Supported, SupportedIn
    <2>4. ASSUME NEW g \in AllDifferent, NEW v \in Values, NEW x \in g
          PROVE  /\ current.cand[x] = {v} => \A y \in g \ {x} : v \notin current.cand[y]
                 /\ (\A y \in g \ {x} : v \notin current.cand[y]) => current.cand[x] = {v}
      BY <2>1, <2>2, <2>4, RowsAreTaken
    <2> QED
      BY <2>3, <2>4
  <1> QED
    BY <1>1, <1>2, <1>3, GridInvariant, CatalogueIsNeverRejected, PTL DEF Spec

----------------------------------------------------------------------------
(* The order of the proposals.  s is a state of a solvable puzzle, h one of its *)
(* solutions.                                                                   *)
Proper(s, h) ==
  /\ s \in PuzzleState
  /\ validate_structural_invariants(s)
  /\ validate_state(s)
  /\ GridStart(s)
  /\ h \in Models(s)

(* The candidates not yet ruled out. *)
Left(s) == {c \in Cells : c[2] \in s.cand[c[1]]}

(* What an application changes. *)
LEMMA CandidatesAfter ==
  ASSUME NEW s, NEW h, Proper(s, h), NEW d \in logic_grid_applications(s)
  PROVE  LET a == d.claim IN
         /\ a.var \in Variables /\ a.val \in s.cand[a.var] /\ s.cand[a.var] # {a.val}
         /\ a.kind \in {"assignment", "exclusion"}
         /\ apply_verified_event(s, a).cand
              = [s.cand EXCEPT ![a.var] = IF a.kind = "assignment" THEN {a.val} ELSE @ \ {a.val}]
  <1>1. validate_proposal(s, d)
    BY CatalogueProposed DEF Proper
  <1>2. s \in PuzzleState /\ ConsistentState(s)
    BY DEF Proper, ConsistentState, validate_structural_invariants, validate_state, GridStart
  <1> QED
    BY <1>1, <1>2, ReducedConsistent DEF validate_proposal

(* Applying a proposal leads to another such state with fewer candidates. *)
LEMMA ApplicationNarrows ==
  ASSUME NEW s, NEW h, Proper(s, h), NEW d \in logic_grid_applications(s)
  PROVE  LET t == apply_verified_event(s, d.claim) IN
         /\ Proper(t, h) /\ Within(t, s)
         /\ Left(t) \subseteq Left(s) /\ Left(t) # Left(s)
  <1> DEFINE t == apply_verified_event(s, d.claim)
             x == d.claim.var
             v == d.claim.val
  <1>1. \A f \in Models(s) : validate_proposal(s, d) /\ Holds(f, d.claim)
    BY CatalogueProposed DEF Proper
  <1>2. validate_proposal(s, d) /\ h \in Models(s) /\ prepare_problem(s)
    BY <1>1 DEF Proper, prepare_problem, GridStart
  <1>3. /\ t \in PuzzleState /\ validate_structural_invariants(t) /\ validate_state(t)
        /\ Models(t) = Models(s) /\ \A y \in Variables : t.cand[y] \subseteq s.cand[y]
    BY <1>1, <1>2, VerifiedStep DEF Proper
  <1>4. GridStart(t)
    BY <1>2, ConclusionIsAsserted DEF Proper
  <1>5. /\ x \in Variables /\ v \in s.cand[x] /\ s.cand[x] # {v} /\ s.cand[x] \subseteq Values
        /\ t.cand = [s.cand EXCEPT ![x] = IF d.claim.kind = "assignment" THEN {v} ELSE @ \ {v}]
        /\ s.cand \in [Variables -> SUBSET Values]
    BY CandidatesAfter DEF Proper, PuzzleState
  <1> HIDE DEF t
  <1>6. PICK w \in s.cand[x] : w \notin t.cand[x]
    BY <1>5
  <1>7. <<x, w>> \in Left(s) /\ <<x, w>> \notin Left(t)
    BY <1>5, <1>6 DEF Left, Cells
  <1>8. Left(t) \subseteq Left(s)
    BY <1>3 DEF Left, Cells
  <1> QED
    BY <1>2, <1>3, <1>4, <1>7, <1>8 DEF t, Proper, Within

(* What a clue proposes concerns one of its items, and if the clue relates more *)
(* than two, the others are fixed.                                              *)
LEMMA ClueProposalShape ==
  ASSUME NEW s, NEW h, Proper(s, h), NEW c \in Clues,
         NEW d \in AssociationRule(c, s) \cup ClueCompletionRule(c, s)
  PROVE  /\ d.claim.var \in boolean_variables(c)
         /\ c.shape \in Relations \/ \A y \in boolean_variables(c) \ {d.claim.var} : ~Open(s, y)
  <1>1. IsClue(c) /\ s \in PuzzleState /\ validate_structural_invariants(s)
    BY CluesAssumption DEF Proper
  <1>2. CASE d \in AssociationRule(c, s)
    <2>1. /\ c.shape \in Relations /\ boolean_variables(c) = {c.left, c.right}
          /\ c.left \in Variables /\ c.right \in Variables
      BY <1>1, <1>2 DEF AssociationRule, boolean_variables, Relations, IsClue, Others, Orders
    <2>2. \/ d \in MatchCandidates(c, c.left, c.right, s) \cup MatchCandidates(c, c.right, c.left, s)
          \/ d \in ApartCandidates(c, c.left, c.right, s) \cup ApartCandidates(c, c.right, c.left, s)
      BY <1>2 DEF AssociationRule
    <2>3. d.claim.var \in {c.left, c.right}
      BY <1>1, <2>1, <2>2, MatchProposed, ApartProposed
    <2> QED
      BY <2>1, <2>3
  <1>3. CASE d \in ClueCompletionRule(c, s)
    <2>1. d.claim.var \in boolean_variables(c)
      BY <1>1, <1>3, CompletionProposed
    <2>2. CASE c.shape \in Orders
      BY <2>1, <2>2 DEF Relations
    <2>3. CASE c.shape \notin Orders
      <3>1. PICK x \in boolean_variables(c) :
              /\ {y \in boolean_variables(c) : Open(s, y)} = {x}
              /\ d.claim \in CompletionClaims(c, x, s)
        BY <1>3, <2>3, CompletionShape
      <3>2. d.claim.var = x
        BY <3>1 DEF CompletionClaims, Assignment, Exclusion
      <3> QED
        BY <2>1, <3>1, <3>2
    <2> QED
      BY <2>2, <2>3
  <1> QED
    BY <1>2, <1>3

(* A clue's conclusion spares each candidate that a smaller exhausted state has *)
(* for the item: that state supports it by the same clue.                       *)
LEMMA ClueSparesExhausted ==
  ASSUME NEW s, NEW h, Proper(s, h), NEW t, Exhausted(t), h \in Models(t), Within(t, s),
         NEW c \in Clues, NEW d \in AssociationRule(c, s) \cup ClueCompletionRule(c, s),
         NEW v \in t.cand[d.claim.var]
  PROVE  \E f : f[d.claim.var] = v /\ Holds(f, d.claim)
  <1> DEFINE x == d.claim.var
  <1>1. /\ IsClue(c) /\ boolean_variables(c) \subseteq Variables
        /\ s \in PuzzleState /\ t \in PuzzleState /\ \A y \in Variables : t.cand[y] # {}
    BY RestrictedSolution, CluesAssumption DEF Proper, Exhausted
  <1>2. /\ x \in boolean_variables(c)
        /\ c.shape \in Relations \/ \A y \in boolean_variables(c) \ {x} : ~Open(s, y)
    BY ClueProposalShape
  <1>3. \A y \in boolean_variables(c) : ~Open(s, y) => Fixed(t, y)
    <2> SUFFICES ASSUME NEW y \in boolean_variables(c), ~Open(s, y) PROVE Fixed(t, y)
      OBVIOUS
    <2>1. ~Open(t, y)
      BY <1>1 DEF Open, Within
    <2> QED
      BY <1>1, <2>1, NotOpenIsFixed DEF Fixed
  <1>4. SupportedIn(c, x, v, t)
    BY <1>2, <1>3, ClueSupports
  <1>5. PICK f \in [boolean_variables(c) -> Values] :
          /\ f[x] = v
          /\ \A y \in boolean_variables(c) : f[y] \in t.cand[y]
          /\ evaluate_boolean(c, f)
    BY <1>4 DEF SupportedIn
  <1>6. \A y \in boolean_variables(c) : f[y] \in s.cand[y]
    BY <1>1, <1>5 DEF Within
  <1>7. Holds(f, d.claim)
    <2>1. CASE d \in AssociationRule(c, s)
      BY <1>5, <1>6, <2>1, AssociationSound
    <2>2. CASE d \in ClueCompletionRule(c, s)
      BY <1>1, <1>5, <1>6, <2>2, ClueCompletionSound
    <2> QED
      BY <2>1, <2>2
  <1> QED
    BY <1>5, <1>7

(* So does a category's. *)
LEMMA CategorySparesExhausted ==
  ASSUME NEW s, NEW h, Proper(s, h), NEW t, Exhausted(t), h \in Models(t), Within(t, s),
         NEW g \in AllDifferent, NEW d \in CategoryBijectionRule(g, s),
         NEW v \in t.cand[d.claim.var]
  PROVE  \E f : f[d.claim.var] = v /\ Holds(f, d.claim)
  <1> DEFINE x == d.claim.var
             f == [y \in {x} |-> v]
  <1>1. /\ g \subseteq Variables /\ \A y \in Variables : t.cand[y] # {} /\ t.cand[y] \subseteq s.cand[y]
    BY AllDifferentAssumption DEF Exhausted, Within
  <1>2. f[x] = v
    OBVIOUS
  <1>3. CASE d \in OccupiedRows(g, s)
    <2>1. PICK q \in g \X g \X Values :
            /\ q[1] # q[2] /\ s.cand[q[1]] = {q[3]}
            /\ d.claim = Exclusion(q[2], q[3])
      BY <1>3 DEF OccupiedRows, Candidate
    <2>2. q[1] \in g /\ q[2] \in g \ {q[1]} /\ q[3] \in Values
      BY <2>1
    <2>3. t.cand[q[1]] = {q[3]}
      BY <1>1, <2>1, <2>2
    <2>4. q[3] \notin t.cand[q[2]]
      BY <2>2, <2>3, RowsAreTaken
    <2>5. x = q[2] /\ d.claim.val = q[3] /\ d.claim.kind = "exclusion"
      BY <2>1 DEF Exclusion
    <2>6. v # d.claim.val /\ d.claim.kind # "assignment"
      BY <2>4, <2>5
    <2> HIDE DEF f
    <2> QED
      BY <1>2, <2>6 DEF Holds
  <1>4. CASE d \in SolePositions(g, s)
    <2>1. PICK q \in g \X Values :
            /\ {y \in g : q[2] \in s.cand[y]} = {q[1]}
            /\ d.claim = Assignment(q[1], q[2])
      BY <1>4 DEF SolePositions, Candidate
    <2>2. q[1] \in g /\ q[2] \in Values /\ \A y \in g \ {q[1]} : q[2] \notin t.cand[y]
      BY <1>1, <2>1
    <2>3. t.cand[q[1]] = {q[2]}
      BY <2>2, RowsAreTaken
    <2>4. x = q[1] /\ d.claim.val = q[2] /\ d.claim.kind = "assignment"
      BY <2>1 DEF Assignment
    <2>5. v = d.claim.val
      BY <2>3, <2>4
    <2> HIDE DEF f
    <2> QED
      BY <1>2, <2>4, <2>5 DEF Holds
  <1> QED
    BY <1>3, <1>4 DEF CategoryBijectionRule

(* No proposal loses what an exhausted state has kept. *)
LEMMA ExhaustedRemainsWithin ==
  ASSUME NEW s, NEW h, Proper(s, h), NEW t, Exhausted(t), h \in Models(t), Within(t, s),
         NEW d \in logic_grid_applications(s)
  PROVE  Within(t, apply_verified_event(s, d.claim))
  <1> DEFINE a == d.claim
             u == apply_verified_event(s, a)
  <1>1. /\ a.var \in Variables
        /\ u.cand = [s.cand EXCEPT ![a.var] = IF a.kind = "assignment" THEN {a.val} ELSE @ \ {a.val}]
        /\ s.cand \in [Variables -> SUBSET Values]
    BY CandidatesAfter DEF Proper, PuzzleState
  <1>2. \A v \in t.cand[a.var] : \E f : f[a.var] = v /\ Holds(f, a)
    <2>1. CASE \E c \in Clues : d \in AssociationRule(c, s) \cup ClueCompletionRule(c, s)
      BY <2>1, ClueSparesExhausted
    <2>2. CASE \E g \in AllDifferent : d \in CategoryBijectionRule(g, s)
      BY <2>2, CategorySparesExhausted
    <2> QED
      BY <2>1, <2>2 DEF logic_grid_applications
  <1>3. \A v \in t.cand[a.var] : IF a.kind = "assignment" THEN v = a.val ELSE v # a.val
    BY <1>2 DEF Holds
  <1>4. \A y \in Variables : t.cand[y] \subseteq s.cand[y]
    BY DEF Within
  <1> HIDE DEF u
  <1>5. ASSUME NEW y \in Variables PROVE t.cand[y] \subseteq u.cand[y]
    <2>1. CASE y # a.var
      BY <1>1, <1>4, <2>1
    <2>2. CASE y = a.var /\ a.kind = "assignment"
      <3>1. u.cand[y] = {a.val}
        BY <1>1, <2>2
      <3> QED
        BY <1>3, <2>2, <3>1
    <2>3. CASE y = a.var /\ a.kind # "assignment"
      <3>1. u.cand[y] = s.cand[y] \ {a.val}
        BY <1>1, <2>3
      <3> QED
        BY <1>3, <1>4, <2>3, <3>1
    <2> QED
      BY <2>1, <2>2, <2>3
  <1> QED
    BY <1>5 DEF u, Within

(* What Outcome computes: the states that taking the first proposal leads       *)
(* through.                                                                     *)
Led(s, n, after) ==
  after = [m \in 0 .. n |-> IF m = 0 THEN s ELSE TakeFirst(after[m - 1])]

(* A nonempty set of numbers has a least one. *)
LEMMA LeastNat ==
  ASSUME NEW S \in SUBSET Nat, S # {}
  PROVE  \E n \in S : \A m \in S : n <= m
  <1>1. PICK n \in S : \A m \in S : ~ (<<m, n>> \in OpToRel(<, Nat))
    BY NatLessThanWellFounded, WFMin
  <1>2. \A m \in S : ~ (m < n)
    BY <1>1 DEF OpToRel
  <1> QED
    BY <1>2

(* They exist, however many are asked for. *)
LEMMA LedExists ==
  ASSUME NEW s, NEW n \in Nat
  PROVE  \E after : Led(s, n, after)
  <1> DEFINE Stuck == {m \in Nat : ~ \E after : Led(s, m, after)}
  <1>1. SUFFICES ASSUME n \in Stuck PROVE FALSE
    OBVIOUS
  <1>2. PICK m \in Stuck : \A k \in Stuck : m <= k
    <2> HIDE DEF Stuck
    <2>1. Stuck \subseteq Nat
      BY DEF Stuck
    <2> QED
      BY <1>1, <2>1, LeastNat
  <1>3. m # 0
    <2>1. Led(s, 0, [k \in 0 .. 0 |-> s])
      BY DEF Led
    <2> QED
      BY <2>1
  <1>4. PICK a : Led(s, m - 1, a)
    <2>1. m - 1 \in Nat /\ m - 1 \notin Stuck
      BY <1>2, <1>3
    <2> QED
      BY <2>1
  <1> DEFINE b == [k \in 0 .. m |-> IF k = m THEN TakeFirst(a[m - 1]) ELSE a[k]]
  <1>5. \A k \in 0 .. m : b[k] = IF k = 0 THEN s ELSE TakeFirst(b[k - 1])
    <2>1. \A k \in 0 .. m - 1 : a[k] = IF k = 0 THEN s ELSE TakeFirst(a[k - 1])
      BY <1>4 DEF Led
    <2>2. m \in Nat
      OBVIOUS
    <2>3. ASSUME NEW k \in 0 .. m
          PROVE  b[k] = IF k = 0 THEN s ELSE TakeFirst(b[k - 1])
      <3>1. CASE k = m
        <4>1. b[k - 1] = a[m - 1] /\ k # 0
          BY <3>1, <1>3, <2>2
        <4>2. b[k] = TakeFirst(a[m - 1])
          BY <3>1
        <4> HIDE DEF b
        <4> QED
          BY <4>1, <4>2, <3>1
      <3>2. CASE k # m /\ k # 0
        <4>1. b[k] = a[k] /\ b[k - 1] = a[k - 1] /\ k \in 0 .. m - 1
          BY <3>2, <2>2
        <4> HIDE DEF b
        <4> QED
          BY <4>1, <3>2, <2>1
      <3>3. CASE k = 0 /\ k # m
        BY <3>3, <2>1, <2>2
      <3> QED
        BY <3>1, <3>2, <3>3
    <2> QED
      BY <2>3
  <1>6. Led(s, m, b)
    <2>1. b = [k \in 0 .. m |-> b[k]]
      OBVIOUS
    <2> HIDE DEF b
    <2> QED
      BY <1>5, <2>1 DEF Led
  <1> QED
    BY <1>6

(* Outcome takes that many first proposals, one after the other. *)
LEMMA OutcomeIsLed ==
  ASSUME NEW s, NEW n \in Nat, n = Cardinality(Cells)
  PROVE  \E after :
           /\ after[0] = s /\ Outcome(s) = after[n].cand
           /\ \A m \in 1 .. n : after[m] = TakeFirst(after[m - 1])
  <1> DEFINE a == CHOOSE after : Led(s, n, after)
  <1>1. Led(s, n, a)
    BY LedExists
  <1>2. Outcome(s) = a[n].cand
    BY DEF Outcome, Led
  <1> HIDE DEF a
  <1>3. /\ a[0] = s
        /\ \A m \in 1 .. n : a[m] = TakeFirst(a[m - 1])
    BY <1>1 DEF Led
  <1> QED
    BY <1>2, <1>3

(* A set of numbers that contains 0 and each successor contains them all. *)
LEMMA Upwards ==
  ASSUME NEW n \in Nat, NEW P, 0 \in P, \A m \in 1 .. n : m - 1 \in P => m \in P
  PROVE  \A m \in 0 .. n : m \in P
  <1> DEFINE Bad == {m \in 0 .. n : m \notin P}
  <1>1. SUFFICES ASSUME Bad # {} PROVE FALSE
    OBVIOUS
  <1>2. PICK m \in Bad : \A k \in Bad : m <= k
    <2>1. Bad \subseteq Nat
      OBVIOUS
    <2> HIDE DEF Bad
    <2> QED
      BY <1>1, <2>1, LeastNat
  <1>3. m \in 1 .. n /\ m - 1 \in 0 .. n /\ m - 1 \notin Bad
    BY <1>2
  <1> QED
    BY <1>2, <1>3

(* There are finitely many candidates. *)
LEMMA CellsAreFinite ==
  /\ IsFiniteSet(Cells) /\ Cardinality(Cells) \in Nat
  /\ \A s : IsFiniteSet(Left(s)) /\ Cardinality(Left(s)) \in 0 .. Cardinality(Cells)
  <1>1. IsFiniteSet(Variables)
    BY RowsAssumption, FS_UNION DEF LogicGridContract
  <1>2. IsFiniteSet(Cells)
    BY <1>1, RowsAssumption, FS_Product DEF LogicGridContract, Cells
  <1>3. \A s : Left(s) \subseteq Cells
    BY DEF Left
  <1> QED
    BY <1>2, <1>3, FS_Subset, FS_CardinalityType

(* There is an item: three categories share them out, each with two or more. *)
LEMMA SomeItem == Variables # {}
  <1>1. SUFFICES ASSUME Variables = {} PROVE FALSE
    OBVIOUS
  <1>2. AllDifferent # {}
    <2>1. Cardinality(AllDifferent) # 0
      BY RowsAssumption DEF LogicGridContract
    <2> QED
      BY <2>1, FS_EmptySet
  <1>3. PICK g \in AllDifferent : TRUE
    BY <1>2
  <1>4. g = {}
    BY <1>1, <1>3, AllDifferentAssumption
  <1>5. Cardinality(g) # 0
    BY <1>3, RowsAssumption, FS_CardinalityType DEF LogicGridContract
  <1> QED
    BY <1>4, <1>5, FS_EmptySet

(* The chain of first proposals stays proper and keeps within it every          *)
(* exhausted state that its start contains, and each of its steps removes a     *)
(* candidate or finds nothing to propose.                                       *)
LEMMA ChainNarrows ==
  ASSUME NEW s, NEW h, Proper(s, h), NEW n \in Nat, n = Cardinality(Cells),
         NEW after, after[0] = s, \A m \in 1 .. n : after[m] = TakeFirst(after[m - 1])
  PROVE  /\ Proper(after[n], h) /\ Within(after[n], s)
         /\ logic_grid_applications(after[n]) = {}
         /\ \A t : Exhausted(t) /\ h \in Models(t) /\ Within(t, s) => Within(t, after[n])
  <1> DEFINE Good(u) ==
               /\ Proper(u, h) /\ Within(u, s)
               /\ \A t : Exhausted(t) /\ h \in Models(t) /\ Within(t, s) => Within(t, u)
             Spent(m) == \/ logic_grid_applications(after[m]) = {}
                         \/ Cardinality(Left(after[m])) + m <= n
             P == {m \in 0 .. n : Good(after[m]) /\ Spent(m)}
  <1>1. 0 \in P
    <2>1. Good(after[0])
      BY DEF Within
    <2>2. Cardinality(Left(after[0])) \in 0 .. n
      BY CellsAreFinite
    <2> QED
      BY <2>1, <2>2
  <1>2. ASSUME NEW m \in 1 .. n, m - 1 \in P PROVE m \in P
    <2> DEFINE u == after[m - 1]
               found == logic_grid_applications(u)
               d == CHOOSE e \in found : TRUE
    <2>1. Good(u) /\ Spent(m - 1) /\ after[m] = TakeFirst(u)
      BY <1>2
    <2>2. CASE found = {}
      <3>1. after[m] = u
        BY <2>1, <2>2 DEF TakeFirst
      <3> QED
        BY <2>1, <2>2, <3>1
    <2>3. CASE found # {}
      <3>1. d \in found
        BY <2>3
      <3>2. after[m] = apply_verified_event(u, d.claim)
        BY <2>1, <2>3 DEF TakeFirst
      <3> HIDE DEF d, u
      <3>3. /\ Proper(after[m], h) /\ Within(after[m], u)
            /\ Left(after[m]) \subseteq Left(u) /\ Left(after[m]) # Left(u)
        BY <2>1, <3>1, <3>2, ApplicationNarrows
      <3>4. Within(after[m], s)
        BY <2>1, <3>3 DEF Within
      <3>5. \A t : Exhausted(t) /\ h \in Models(t) /\ Within(t, s) => Within(t, after[m])
        BY <2>1, <3>1, <3>2, ExhaustedRemainsWithin
      <3>6. Cardinality(Left(after[m])) < Cardinality(Left(u))
        <4>1. IsFiniteSet(Left(u))
          BY CellsAreFinite
        <4> QED
          BY <3>3, <4>1, FS_Subset, FS_CardinalityType
      <3>7. Cardinality(Left(after[m])) \in Nat /\ Cardinality(Left(u)) \in Nat
        BY CellsAreFinite
      <3>8. Cardinality(Left(u)) + (m - 1) <= n
        BY <2>1, <2>3 DEF u
      <3>9. Cardinality(Left(after[m])) + m <= n
        BY <3>6, <3>7, <3>8
      <3> QED
        BY <3>3, <3>4, <3>5, <3>9
    <2> QED
      BY <2>2, <2>3
  <1>3. n \in P
    <2> HIDE DEF P
    <2> QED
      BY <1>1, <1>2, Upwards
  <1>4. Cardinality(Left(after[n])) # 0
    <2>1. PICK x \in Variables : TRUE
      BY SomeItem
    <2>2. h[x] \in after[n].cand[x] /\ after[n].cand[x] \subseteq Values
      BY <1>3, <2>1 DEF Proper, Models, PuzzleState
    <2>3. <<x, h[x]>> \in Left(after[n])
      BY <2>1, <2>2 DEF Left, Cells
    <2> QED
      BY <2>3, CellsAreFinite, FS_EmptySet
  <1>5. Cardinality(Left(after[n])) \in Nat
    BY CellsAreFinite
  <1> QED
    BY <1>3, <1>4, <1>5

(* Outcome gives the candidates of an exhausted state that contains every       *)
(* other one.                                                                   *)
LEMMA OutcomeIsExhausted ==
  ASSUME NEW s, NEW h, Proper(s, h)
  PROVE  \E u : /\ Exhausted(u) /\ h \in Models(u) /\ Within(u, s) /\ Outcome(s) = u.cand
                /\ \A t : Exhausted(t) /\ h \in Models(t) /\ Within(t, s) => Within(t, u)
  <1> DEFINE n == Cardinality(Cells)
  <1>1. n \in Nat
    BY CellsAreFinite
  <1>2. PICK after : /\ after[0] = s /\ Outcome(s) = after[n].cand
                     /\ \A m \in 1 .. n : after[m] = TakeFirst(after[m - 1])
    <2> HIDE DEF n
    <2> QED
      BY <1>1, OutcomeIsLed DEF n
  <1>3. /\ Proper(after[n], h) /\ Within(after[n], s)
        /\ logic_grid_applications(after[n]) = {}
        /\ \A t : Exhausted(t) /\ h \in Models(t) /\ Within(t, s) => Within(t, after[n])
    <2> HIDE DEF n
    <2> QED
      BY <1>1, <1>2, ChainNarrows DEF n
  <1>4. Exhausted(after[n]) /\ h \in Models(after[n])
    BY <1>3 DEF Exhausted, Proper, Models
  <1> QED
    BY <1>2, <1>3, <1>4

(* Along the loop: the start stays a proper state, the current one narrows it,  *)
(* and no step loses what an exhausted state has kept.                          *)
OrderInv ==
  \A h \in Models(initial) :
    /\ Proper(initial, h)
    /\ Within(current, initial)
    /\ \A t : Exhausted(t) /\ h \in Models(t) /\ Within(t, initial) => Within(t, current)

(* The current state is proper for every solution of the puzzle. *)
LEMMA CurrentIsProper == GInv => \A h \in Models(initial) : Proper(current, h)
  BY DEF GInv, HInv, TypeOK, SolutionsPreserved, VerifiedStatesAreValid, Proper

(* At the start nothing is lost. *)
LEMMA OrderInit == Init => OrderInv
  BY InitialStatesAssumption, StartsAssumption DEF Init, OrderInv, Proper, Within

(* A turn leaves the state alone or applies one proposal. *)
LEMMA OrderStep ==
  ASSUME CatalogueInUse, GInv, OrderInv, [Next]_vars
  PROVE  OrderInv'
  <1>1. initial' = initial
    BY DEF Next, Turn, Returned, RejectProposal, Evaluate, Try, Stall, Finish, vars
  <1>2. find_applications(current) = logic_grid_applications(current)
    BY DEF CatalogueInUse, GInv, HInv, TypeOK
  <1>3. \/ current' = current
        \/ \E c \in logic_grid_applications(current) :
             current' = apply_verified_event(current, c.claim)
    <2>1. ASSUME NEW c \in find_applications(current), Evaluate(c)
          PROVE  current' \in {current, apply_verified_event(current, c.claim)}
      BY <2>1 DEF Evaluate, Withhold, Apply
    <2> QED
      BY <1>2, <2>1 DEF Next, Turn, Returned, RejectProposal, Stall, Finish, vars
  <1>4. SUFFICES ASSUME NEW h \in Models(initial)
                 PROVE  /\ Proper(initial, h)
                        /\ Within(current', initial)
                        /\ \A t : Exhausted(t) /\ h \in Models(t) /\ Within(t, initial)
                             => Within(t, current')
    BY <1>1 DEF OrderInv, Within, Models, Proper
  <1>5. /\ Proper(initial, h) /\ Within(current, initial) /\ Proper(current, h)
        /\ \A t : Exhausted(t) /\ h \in Models(t) /\ Within(t, initial) => Within(t, current)
    BY CurrentIsProper DEF OrderInv
  <1>6. CASE current' = current
    BY <1>5, <1>6
  <1>7. ASSUME NEW c \in logic_grid_applications(current),
               current' = apply_verified_event(current, c.claim)
        PROVE  /\ Within(current', initial)
               /\ \A t : Exhausted(t) /\ h \in Models(t) /\ Within(t, initial)
                    => Within(t, current')
    <2>1. Within(current', current)
      BY <1>5, <1>7, ApplicationNarrows
    <2>2. Within(current', initial)
      BY <1>5, <2>1 DEF Within
    <2>3. \A t : Exhausted(t) /\ h \in Models(t) /\ Within(t, initial) => Within(t, current')
      BY <1>5, <1>7, ExhaustedRemainsWithin
    <2> QED
      BY <2>2, <2>3
  <1> QED
    BY <1>3, <1>5, <1>6, <1>7

(* States with the same candidates. *)
LEMMA WithinEachOther ==
  ASSUME NEW s \in PuzzleState, NEW t \in PuzzleState, Within(s, t), Within(t, s)
  PROVE  s.cand = t.cand
  <1>1. s.cand \in [Variables -> SUBSET Values] /\ t.cand \in [Variables -> SUBSET Values]
    BY DEF PuzzleState
  <1>2. \A x \in Variables : s.cand[x] = t.cand[x]
    BY DEF Within
  <1> QED
    BY <1>1, <1>2

(* The order in which proposals are taken never decides the outcome: with       *)
(* correct backends a solvable puzzle ends, stalled or solved, with the         *)
(* candidates that taking the first proposal each time leads to.                *)
THEOREM OutcomeNeverDependsOnOrder ==
  ASSUME CatalogueInUse
  PROVE  Spec => []OutcomeIsOrderIndependent
  <1>1. GInv /\ NothingIsRejected /\ StallsExhausted /\ OrderInv => OutcomeIsOrderIndependent
    <2> SUFFICES ASSUME GInv, NothingIsRejected, StallsExhausted, OrderInv,
                        status \in {"stalled", "solved"}, Honest = Backends, Models(initial) # {}
                 PROVE  current.cand = IF Encodable(initial) THEN Outcome(initial) ELSE initial.cand
      BY DEF OutcomeIsOrderIndependent
    <2>large. CASE ~Encodable(initial)
      BY <2>large DEF NothingIsRejected
    <2>small. SUFFICES ASSUME Encodable(initial) PROVE current.cand = Outcome(initial)
      BY <2>large
    <2>1. PICK h \in Models(initial) : TRUE
      OBVIOUS
    <2>2. Proper(initial, h) /\ Proper(current, h) /\ Within(current, initial)
      BY CurrentIsProper DEF OrderInv
    <2>3. PICK u : /\ Exhausted(u) /\ h \in Models(u) /\ Within(u, initial)
                   /\ Outcome(initial) = u.cand
                   /\ \A t : Exhausted(t) /\ h \in Models(t) /\ Within(t, initial) => Within(t, u)
      BY <2>2, OutcomeIsExhausted
    <2>4. Within(u, current)
      BY <2>1, <2>3 DEF OrderInv
    <2>5. Within(current, u)
      <3>1. CASE status = "stalled"
        <4>1. Exhausted(current)
          BY <2>small, <2>2, <3>1 DEF Exhausted, Proper, StallsExhausted, Models
        <4> QED
          BY <2>2, <2>3, <4>1 DEF Proper
      <3>2. CASE status = "solved"
        <4>1. Solved(current)
          BY <3>2 DEF GInv, HInv
        <4>2. \A x \in Variables : current.cand[x] = {h[x]}
          BY <2>2, <4>1 DEF Solved, Proper, Models
        <4> QED
          BY <2>3, <4>2 DEF Within, Models
      <3> QED
        BY <3>1, <3>2
    <2> QED
      BY <2>2, <2>3, <2>4, <2>5, WithinEachOther DEF Proper, Exhausted
  <1>2. Init => StallsExhausted
    BY DEF Init, StallsExhausted
  <1>3. GInv /\ NothingIsRejected /\ StallsExhausted /\ [Next]_vars => StallsExhausted'
    BY StallsExhaustedStep
  <1>4. GInv /\ OrderInv /\ [Next]_vars => OrderInv'
    BY OrderStep
  <1> QED
    BY <1>1, <1>2, <1>3, <1>4, OrderInit, GridInvariant, CatalogueIsNeverRejected, PTL DEF Spec
=============================================================================
