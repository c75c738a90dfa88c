------------------------- MODULE ClueSemanticsProofs ------------------------
(***************************************************************************)
(* What clues mean, proved.  Every rule of the Logic Equations catalogue   *)
(* is sound; the rules, both encodings and the final checker read every    *)
(* Logic Equations clue alike; a builder's draft without faults compiles,  *)
(* and a puzzle it calls ready means to every reader what its author said. *)
(*                                                                         *)
(* Expressions and clue templates are made of parts made before them, so a *)
(* fact about all of them is proved from the first to the last made.       *)
(***************************************************************************)
EXTENDS LogicEquationsReaders, LogicGridBuilder, HumanEngineProofs, FiniteSetTheorems

(* A bound excludes only values that no candidate of the other end fits. *)
LEMMA EquationBoundSound ==
  ASSUME NEW c, IsClue(c), NEW s \in PuzzleState,
         NEW a \in ordering_bound_exclusions(c, s),
         NEW f \in c.allows, \A x \in c.variables : f[x] \in s.cand[x]
  PROVE  Holds(f, a)
  <1>1. /\ c.order \in Orders
        /\ c.left \in c.variables /\ c.right \in c.variables
        /\ c.variables \subseteq Variables
        /\ InOrder(c.order, f[c.left], f[c.right])
    BY DEF ordering_bound_exclusions, IsClue
  <1> DEFINE l == f[c.left]
             r == f[c.right]
  <1>2. l \in s.cand[c.left] /\ r \in s.cand[c.right] /\ l \in Int /\ r \in Int
    <2>1. PICK n : Values = 1 .. n
      BY EquationsAssumption DEF LogicEquationsContract
    <2>2. s.cand[c.left] \subseteq Values /\ s.cand[c.right] \subseteq Values
      BY <1>1 DEF PuzzleState
    <2>3. QED
      BY <1>1, <2>1, <2>2
  <1>3. /\ c.order = "less_than" => l < r
        /\ c.order = "less_than_or_equal" => l <= r
        /\ c.order = "greater_than" => l > r
        /\ c.order = "greater_than_or_equal" => l >= r
    BY <1>1 DEF InOrder
  <1> HIDE DEF l, r
  <1>4. CASE \E v \in s.cand[c.left] : Beyond(c.order, v, s.cand[c.right]) /\ a = Exclusion(c.left, v)
    <2>1. PICK v \in s.cand[c.left] : Beyond(c.order, v, s.cand[c.right]) /\ a = Exclusion(c.left, v)
      BY <1>4
    <2>2. /\ c.order = "less_than" => v >= r
          /\ c.order = "less_than_or_equal" => v > r
          /\ c.order = "greater_than" => v <= r
          /\ c.order = "greater_than_or_equal" => v < r
      BY <1>2, <2>1 DEF Beyond
    <2>3. l # v
      BY <1>1, <1>2, <1>3, <2>2 DEF Orders
    <2>4. QED
      BY <2>1, <2>3 DEF Exclusion, Holds, l
  <1>5. CASE \E v \in s.cand[c.right] :
               Beyond(Converse(c.order), v, s.cand[c.left]) /\ a = Exclusion(c.right, v)
    <2>1. PICK v \in s.cand[c.right] :
            Beyond(Converse(c.order), v, s.cand[c.left]) /\ a = Exclusion(c.right, v)
      BY <1>5
    <2>2. /\ c.order = "less_than" => v <= l
          /\ c.order = "less_than_or_equal" => v < l
          /\ c.order = "greater_than" => v >= l
          /\ c.order = "greater_than_or_equal" => v > l
      BY <1>2, <2>1 DEF Beyond, Converse
    <2>3. r # v
      BY <1>1, <1>2, <1>3, <2>2 DEF Orders
    <2>4. QED
      BY <2>1, <2>3 DEF Exclusion, Holds, r
  <1>6. QED
    BY <1>1, <1>4, <1>5 DEF ordering_bound_exclusions, Orders

(* With all other variables fixed, the trial of f's value is f itself. *)
LEMMA TrialSound ==
  ASSUME NEW c, NEW s, NEW x \in c.variables,
         \A y \in c.variables \ {x} : Fixed(s, y),
         NEW a \in Conclusions(c, x, s),
         NEW f \in [c.variables -> Values], f \in c.allows,
         \A y \in c.variables : f[y] \in s.cand[y]
  PROVE  Holds(f, a)
  <1>1. ASSUME NEW y \in c.variables, y # x
        PROVE  (CHOOSE w \in Values : s.cand[y] = {w}) = f[y]
    BY <1>1 DEF Fixed
  <1>2. Trial(c, x, f[x], s) = f
    BY <1>1 DEF Trial
  <1>3. f[x] \in Valid(c, x, s)
    BY <1>2 DEF Valid
  <1>4. \/ \E v \in Valid(c, x, s) : Valid(c, x, s) = {v} /\ a = Assignment(x, v)
        \/ \E v \in s.cand[x] \ Valid(c, x, s) : a = Exclusion(x, v)
    BY DEF Conclusions
  <1>5. QED
    BY <1>3, <1>4 DEF Assignment, Exclusion, Holds

(* What propagation concludes holds: it tries each value with all others fixed. *)
LEMMA PropagationSound ==
  ASSUME NEW i \in DOMAIN Clues, NEW s \in PuzzleState,
         NEW d \in ConstraintPropagationRule(i, s),
         NEW f \in Clues[i].allows, \A y \in Clues[i].variables : f[y] \in s.cand[y]
  PROVE  Holds(f, d.claim)
  <1> DEFINE c == Clues[i]
             unresolved == {x \in c.variables : Open(s, x)}
  <1>1. IsClue(c)
    BY EquationCluesAssumption
  <1>2. c.variables \subseteq Variables /\ f \in [c.variables -> Values]
    BY <1>1 DEF IsClue
  <1> HIDE DEF c
  <1>3. CASE \E a \in ordering_bound_exclusions(c, s) : d = Candidate(c.technique, i, {}, a)
    BY <1>1, <1>3, EquationBoundSound DEF Candidate, c
  <1>4. CASE \E x \in c.variables :
               /\ unresolved = {x}
               /\ \E a \in Conclusions(c, x, s) :
                    d = Candidate(c.technique, i, FixedPremises(c, x, s), a)
    <2>1. PICK x \in c.variables :
            /\ unresolved = {x}
            /\ \E a \in Conclusions(c, x, s) :
                 d = Candidate(c.technique, i, FixedPremises(c, x, s), a)
      BY <1>4
    <2>2. PICK a \in Conclusions(c, x, s) : d.claim = a
      BY <2>1 DEF Candidate
    <2>3. ASSUME NEW y \in c.variables \ {x} PROVE Fixed(s, y)
      <3>1. ~Open(s, y) /\ f[y] \in s.cand[y] /\ s.cand[y] \subseteq Values
        BY <1>2, <2>1 DEF PuzzleState, c
      <3>2. s.cand[y] = {f[y]} /\ f[y] \in Values
        BY <3>1 DEF Open
      <3>3. QED
        BY <3>2 DEF Fixed
    <2>4. QED
      BY <1>2, <2>2, <2>3, TrialSound DEF c
  <1>5. QED
    BY <1>3, <1>4 DEF ConstraintPropagationRule, c

(* What the all-different rule concludes holds in every assignment that satisfies it. *)
LEMMA AllDifferentSound ==
  ASSUME NEW g, NEW s, NEW d \in AllDifferentPropagationRule(g, s),
         NEW f, \A x \in g : f[x] \in s.cand[x], \A x, y \in g : x # y => f[x] # f[y]
  PROVE  Holds(f, d.claim)
  <1>1. PICK p \in g \X g \X Values :
          p[1] # p[2] /\ s.cand[p[1]] = {p[3]} /\ d.claim = Exclusion(p[2], p[3])
    BY DEF AllDifferentPropagationRule, Candidate
  <1>2. f[p[1]] = p[3] /\ f[p[2]] # p[3]
    BY <1>1
  <1>3. QED
    BY <1>1, <1>2 DEF Exclusion, Holds

(* No discovered application, in any well-formed state, needs more than its own  *)
(* constraint and the candidates.                                                *)
LEMMA EquationsCatalogueSound ==
  ASSUME NEW s \in PuzzleState, NEW d \in logic_equations_applications(s),
         NEW f \in EquationModels(d, s.cand)
  PROVE  Holds(f, d.claim)
  <1>1. CASE \E g \in AllDifferent : d \in AllDifferentPropagationRule(g, s)
    <2>1. PICK g \in AllDifferent : d \in AllDifferentPropagationRule(g, s)
      BY <1>1
    <2>2. d.rule = "all_different" /\ d.support = g
      BY <2>1 DEF AllDifferentPropagationRule, Candidate
    <2>3. QED
      BY <2>1, <2>2, AllDifferentSound DEF EquationModels
  <1>2. CASE \E i \in DOMAIN Clues : d \in ConstraintPropagationRule(i, s)
    <2>1. PICK i \in DOMAIN Clues : d \in ConstraintPropagationRule(i, s)
      BY <1>2
    <2>2. d.rule = Clues[i].technique /\ d.support = i
      BY <2>1 DEF ConstraintPropagationRule, Candidate
    <2>3. d.rule # "all_different"
      BY <2>2, EquationCluesAssumption DEF IsClue, Techniques
    <2>4. f \in Clues[i].allows /\ \A x \in Clues[i].variables : f[x] \in s.cand[x]
      BY <2>2, <2>3 DEF EquationModels
    <2>5. QED
      BY <2>1, <2>4, PropagationSound
  <1>3. QED
    BY <1>1, <1>2 DEF logic_equations_applications

(* EquationRulesAreSound holds in every state the solve loop reaches, whatever   *)
(* the backends answer: discover_logic_equations_applications relies on no       *)
(* solver.                                                                       *)
THEOREM EquationsCatalogueIsSound == Spec => []EquationRulesAreSound
  <1>1. HInv => EquationRulesAreSound
    BY EquationsCatalogueSound DEF HInv, TypeOK, EquationRulesAreSound
  <1>2. QED
    BY <1>1, EngineInvariant, PTL

----------------------------------------------------------------------------
(* Expressions. *)

(* A nonempty set of numbers has a least one. *)
LEMMA LeastNumber ==
  ASSUME NEW S \in SUBSET Nat, S # {}
  PROVE  \E n \in S : \A m \in S : n <= m
  <1>1. PICK n \in S : \A m \in S : ~ (<<m, n>> \in OpToRel(<, Nat))
    BY NatLessThanWellFounded, WFMin
  <1>2. \A m \in S : ~ (m < n)
    BY <1>1 DEF OpToRel
  <1> QED
    BY <1>2

(* An expression is made of its parts: a number or comparison of numbers, any     *)
(* other of booleans.                                                            *)
LEMMA PartsOfExpression ==
  ASSUME NEW e, NEW parts, IsExpression(e, parts)
  PROVE  /\ Children(e) \subseteq parts
         /\ e.kind \in NumericKinds \cup Comparisons => Children(e) \subseteq Numerics(parts)
         /\ e.kind \notin NumericKinds \cup Comparisons => Children(e) \subseteq Booleans(parts)
  <1> DEFINE numeric == e.kind \in NumericKinds \cup Comparisons
             made == IF numeric THEN Numerics(parts) ELSE Booleans(parts)
  <1>1. SUFFICES Children(e) \subseteq made
    BY DEF Numerics, Booleans
  <1>2. CASE e.kind \in {"add", "multiply", "and", "or", "cardinality"}
    <2>1. e.operands \in Seq(made)
      BY <1>2 DEF IsExpression, Comparisons, NumericKinds
    <2> HIDE DEF made
    <2>2. \A i \in 1 .. Len(e.operands) : e.operands[i] \in made
      BY <2>1
    <2>3. Children(e) = {e.operands[i] : i \in 1 .. Len(e.operands)}
      BY <1>2 DEF Children, Comparisons
    <2> QED
      BY <2>2, <2>3
  <1>3. CASE e.kind \in {"exact_divide", "modulo", "negate", "not", "implies", "constant",
                         "variable_reference"}
    BY <1>3 DEF IsExpression, Comparisons, Children, NumericKinds
  <1>4. CASE e.kind \in {"subtract", "xor", "equivalent"} \cup Comparisons
    BY <1>4 DEF IsExpression, Comparisons, Children, NumericKinds
  <1> QED
    BY <1>2, <1>3, <1>4 DEF IsExpression

(* An expression is made of parts made before it. *)
LEMMA PartsComeFirst ==
  ASSUME NEW n \in 1 .. Len(Expressions)
  PROVE  Children(Expressions[n]) \subseteq Made(n - 1)
  BY ExpressionsAssumption, PartsOfExpression

(* What was made before some moment is closed under parts. *)
LEMMA MadeIsClosed ==
  ASSUME NEW n \in 0 .. Len(Expressions), NEW d \in Made(n)
  PROVE  Children(d) \subseteq Made(n)
  <1>1. PICK k \in 1 .. n : d = Expressions[k]
    BY DEF Made
  <1>2. Len(Expressions) \in Nat
    BY ExpressionsAssumption
  <1>3. Children(d) \subseteq Made(k - 1)
    BY <1>1, <1>2, PartsComeFirst
  <1>4. Made(k - 1) \subseteq Made(n)
    BY DEF Made
  <1> QED
    BY <1>3, <1>4

(* Expressions up to the n-th, with the next. *)
LEMMA MadeNext ==
  ASSUME NEW n \in 1 .. Len(Expressions)
  PROVE  /\ Made(n) = Made(n - 1) \cup {Expressions[n]}
         /\ \A d \in Made(n) : Children(d) \subseteq Made(n - 1) \/ d \in Made(n - 1)
  <1>1. Made(n) = Made(n - 1) \cup {Expressions[n]}
    BY ExpressionsAssumption DEF Made
  <1> QED
    BY <1>1, PartsComeFirst

(* What boolean_variables computes up to the n-th expression. *)
VariablesUpTo(n, variables) ==
  variables = [d \in Made(n) |->
                 IF d.kind = "variable_reference" THEN {d.variable}
                 ELSE UNION {variables[c] : c \in Children(d)}]

(* boolean_variables is computed one expression after the other. *)
LEMMA VariablesExist ==
  ASSUME NEW n \in 0 .. Len(Expressions)
  PROVE  \E variables : VariablesUpTo(n, variables)
  <1> DEFINE Stuck == {m \in 0 .. Len(Expressions) : ~ \E variables : VariablesUpTo(m, variables)}
  <1>1. SUFFICES ASSUME n \in Stuck PROVE FALSE
    OBVIOUS
  <1>2. Len(Expressions) \in Nat
    BY ExpressionsAssumption
  <1>3. PICK m \in Stuck : \A k \in Stuck : m <= k
    <2>1. Stuck \subseteq Nat
      BY <1>2
    <2> HIDE DEF Stuck
    <2> QED
      BY <1>1, <2>1, LeastNumber
  <1>4. m # 0
    <2>1. Made(0) = {}
      BY DEF Made
    <2>2. VariablesUpTo(0, [d \in {} |-> {}])
      BY <2>1 DEF VariablesUpTo
    <2> QED
      BY <2>2
  <1>5. PICK a : VariablesUpTo(m - 1, a)
    BY <1>2, <1>3, <1>4
  <1> DEFINE new == Expressions[m]
             body(d, g) == IF d.kind = "variable_reference" THEN {d.variable}
                           ELSE UNION {g[c] : c \in Children(d)}
             b == [d \in Made(m) |-> IF d \in Made(m - 1) THEN a[d] ELSE body(d, a)]
  <1>6. m \in 1 .. Len(Expressions) /\ m - 1 \in 0 .. Len(Expressions)
    BY <1>2, <1>3, <1>4
  <1>7. ASSUME NEW d \in Made(m) PROVE b[d] = body(d, b)
    <2>1. \A c \in Made(m - 1) : b[c] = a[c]
      BY <1>6, MadeNext
    <2>2. Children(d) \subseteq Made(m - 1)
      BY <1>6, <1>7, MadeNext, MadeIsClosed
    <2>3. b[d] = body(d, a)
      BY <1>5, <1>7 DEF VariablesUpTo
    <2> HIDE DEF b
    <2> QED
      BY <2>1, <2>2, <2>3
  <1>8. VariablesUpTo(m, b)
    <2>1. b = [d \in Made(m) |-> b[d]]
      OBVIOUS
    <2> HIDE DEF b
    <2>2. b = [d \in Made(m) |-> body(d, b)]
      BY <1>7, <2>1
    <2> QED
      BY <2>2 DEF VariablesUpTo
  <1> QED
    BY <1>3, <1>8

(* boolean_variables, one expression at a time. *)
LEMMA VariablesOfParts ==
  ASSUME NEW e \in AllExpressions
  PROVE  boolean_variables(e) = IF e.kind = "variable_reference" THEN {e.variable}
                                ELSE UNION {boolean_variables(c) : c \in Children(e)}
  <1> DEFINE a == CHOOSE variables : VariablesUpTo(Len(Expressions), variables)
  <1>1. VariablesUpTo(Len(Expressions), a)
    BY VariablesExist, ExpressionsAssumption
  <1>2. \A d \in AllExpressions : boolean_variables(d) = a[d]
    BY DEF boolean_variables, VariablesUpTo, AllExpressions
  <1> HIDE DEF a
  <1>3. Children(e) \subseteq AllExpressions
    BY MadeIsClosed, ExpressionsAssumption DEF AllExpressions
  <1>4. a[e] = IF e.kind = "variable_reference" THEN {e.variable}
               ELSE UNION {a[c] : c \in Children(e)}
    BY <1>1 DEF VariablesUpTo, AllExpressions
  <1>5. {a[c] : c \in Children(e)} = {boolean_variables(c) : c \in Children(e)}
    BY <1>2, <1>3
  <1> QED
    BY <1>2, <1>4, <1>5

(* What equation_numeric computes up to the n-th expression. *)
NumbersUpTo(reader, f, n, value) ==
  value = [d \in Made(n) |->
             IF d.kind = "variable_reference" THEN Number(f[d.variable])
             ELSE IF \E c \in Children(d) : ~value[c].valid THEN Invalid
             ELSE calculate(reader, d, [c \in Children(d) |-> value[c].n])]

(* equation_numeric is computed one expression after the other. *)
LEMMA NumbersExist ==
  ASSUME NEW reader, NEW f, NEW n \in 0 .. Len(Expressions)
  PROVE  \E value : NumbersUpTo(reader, f, n, value)
  <1> DEFINE Stuck == {m \in 0 .. Len(Expressions) : ~ \E value : NumbersUpTo(reader, f, m, value)}
  <1>1. SUFFICES ASSUME n \in Stuck PROVE FALSE
    OBVIOUS
  <1>2. Len(Expressions) \in Nat
    BY ExpressionsAssumption
  <1>3. PICK m \in Stuck : \A k \in Stuck : m <= k
    <2>1. Stuck \subseteq Nat
      BY <1>2
    <2> HIDE DEF Stuck
    <2> QED
      BY <1>1, <2>1, LeastNumber
  <1>4. m # 0
    <2>1. Made(0) = {}
      BY DEF Made
    <2>2. NumbersUpTo(reader, f, 0, [d \in {} |-> {}])
      BY <2>1 DEF NumbersUpTo
    <2> QED
      BY <2>2
  <1>5. PICK a : NumbersUpTo(reader, f, m - 1, a)
    BY <1>2, <1>3, <1>4
  <1> DEFINE body(d, g) == IF d.kind = "variable_reference" THEN Number(f[d.variable])
                           ELSE IF \E c \in Children(d) : ~g[c].valid THEN Invalid
                           ELSE calculate(reader, d, [c \in Children(d) |-> g[c].n])
             b == [d \in Made(m) |-> IF d \in Made(m - 1) THEN a[d] ELSE body(d, a)]
  <1>6. m \in 1 .. Len(Expressions) /\ m - 1 \in 0 .. Len(Expressions)
    BY <1>2, <1>3, <1>4
  <1>7. ASSUME NEW d \in Made(m) PROVE b[d] = body(d, b)
    <2>1. \A c \in Made(m - 1) : b[c] = a[c]
      BY <1>6, MadeNext
    <2>2. Children(d) \subseteq Made(m - 1)
      BY <1>6, <1>7, MadeNext, MadeIsClosed
    <2>3. b[d] = body(d, a)
      BY <1>5, <1>7 DEF NumbersUpTo
    <2> HIDE DEF b
    <2>4. [c \in Children(d) |-> b[c].n] = [c \in Children(d) |-> a[c].n]
      BY <2>1, <2>2
    <2> QED
      BY <2>1, <2>2, <2>3, <2>4
  <1>8. NumbersUpTo(reader, f, m, b)
    <2>1. b = [d \in Made(m) |-> b[d]]
      OBVIOUS
    <2> HIDE DEF b
    <2>2. b = [d \in Made(m) |-> body(d, b)]
      BY <1>7, <2>1
    <2> QED
      BY <2>2 DEF NumbersUpTo
  <1> QED
    BY <1>3, <1>8

(* equation_numeric, one expression at a time. *)
LEMMA NumberOfParts ==
  ASSUME NEW reader, NEW f, NEW e \in AllExpressions
  PROVE  equation_numeric(reader, e, f) =
           IF e.kind = "variable_reference" THEN Number(f[e.variable])
           ELSE IF \E c \in Children(e) : ~equation_numeric(reader, c, f).valid THEN Invalid
           ELSE calculate(reader, e, [c \in Children(e) |-> equation_numeric(reader, c, f).n])
  <1> DEFINE a == CHOOSE value : NumbersUpTo(reader, f, Len(Expressions), value)
  <1>1. NumbersUpTo(reader, f, Len(Expressions), a)
    BY NumbersExist, ExpressionsAssumption
  <1>2. \A d \in AllExpressions : equation_numeric(reader, d, f) = a[d]
    BY DEF equation_numeric, NumbersUpTo, AllExpressions
  <1> HIDE DEF a
  <1>3. Children(e) \subseteq AllExpressions
    BY MadeIsClosed, ExpressionsAssumption DEF AllExpressions
  <1>4. a[e] = IF e.kind = "variable_reference" THEN Number(f[e.variable])
               ELSE IF \E c \in Children(e) : ~a[c].valid THEN Invalid
               ELSE calculate(reader, e, [c \in Children(e) |-> a[c].n])
    BY <1>1 DEF NumbersUpTo, AllExpressions
  <1>5. [c \in Children(e) |-> a[c].n] = [c \in Children(e) |-> equation_numeric(reader, c, f).n]
    BY <1>2, <1>3
  <1> QED
    BY <1>2, <1>3, <1>4, <1>5

(* What equation computes up to the n-th expression. *)
TruthUpTo(reader, f, n, holds) ==
  holds = [d \in Made(n) |->
             IF d.kind \in Comparisons
             THEN compare_numbers(d.kind, equation_numeric(reader, d.left, f),
                                          equation_numeric(reader, d.right, f))
             ELSE Connect(d, {c \in Children(d) : holds[c]})]

(* equation is computed one expression after the other. *)
LEMMA TruthExists ==
  ASSUME NEW reader, NEW f, NEW n \in 0 .. Len(Expressions)
  PROVE  \E holds : TruthUpTo(reader, f, n, holds)
  <1> DEFINE Stuck == {m \in 0 .. Len(Expressions) : ~ \E holds : TruthUpTo(reader, f, m, holds)}
  <1>1. SUFFICES ASSUME n \in Stuck PROVE FALSE
    OBVIOUS
  <1>2. Len(Expressions) \in Nat
    BY ExpressionsAssumption
  <1>3. PICK m \in Stuck : \A k \in Stuck : m <= k
    <2>1. Stuck \subseteq Nat
      BY <1>2
    <2> HIDE DEF Stuck
    <2> QED
      BY <1>1, <2>1, LeastNumber
  <1>4. m # 0
    <2>1. Made(0) = {}
      BY DEF Made
    <2>2. TruthUpTo(reader, f, 0, [d \in {} |-> {}])
      BY <2>1 DEF TruthUpTo
    <2> QED
      BY <2>2
  <1>5. PICK a : TruthUpTo(reader, f, m - 1, a)
    BY <1>2, <1>3, <1>4
  <1> DEFINE compared(d) == compare_numbers(d.kind, equation_numeric(reader, d.left, f),
                                                    equation_numeric(reader, d.right, f))
  <1> HIDE DEF compared
  <1> DEFINE body(d, g) == IF d.kind \in Comparisons THEN compared(d)
                           ELSE Connect(d, {c \in Children(d) : g[c]})
             b == [d \in Made(m) |-> IF d \in Made(m - 1) THEN a[d] ELSE body(d, a)]
  <1>6. m \in 1 .. Len(Expressions) /\ m - 1 \in 0 .. Len(Expressions)
    BY <1>2, <1>3, <1>4
  <1>7. ASSUME NEW d \in Made(m) PROVE b[d] = body(d, b)
    <2>1. \A c \in Made(m - 1) : b[c] = a[c]
      BY <1>6, MadeNext
    <2>2. Children(d) \subseteq Made(m - 1)
      BY <1>6, <1>7, MadeNext, MadeIsClosed
    <2>3. b[d] = body(d, a)
      BY <1>5, <1>7 DEF TruthUpTo, compared
    <2> HIDE DEF b
    <2>4. {c \in Children(d) : b[c]} = {c \in Children(d) : a[c]}
      BY <2>1, <2>2
    <2> QED
      BY <2>3, <2>4
  <1>8. TruthUpTo(reader, f, m, b)
    <2>1. b = [d \in Made(m) |-> b[d]]
      OBVIOUS
    <2> HIDE DEF b
    <2>2. b = [d \in Made(m) |-> body(d, b)]
      BY <1>7, <2>1
    <2> QED
      BY <2>2 DEF TruthUpTo, compared
  <1> QED
    BY <1>3, <1>8

(* equation, one expression at a time. *)
LEMMA TruthOfParts ==
  ASSUME NEW reader, NEW f, NEW e \in AllExpressions
  PROVE  equation(reader, e, f) =
           IF e.kind \in Comparisons
           THEN compare_numbers(e.kind, equation_numeric(reader, e.left, f),
                                        equation_numeric(reader, e.right, f))
           ELSE Connect(e, {c \in Children(e) : equation(reader, c, f)})
  <1> DEFINE a == CHOOSE holds : TruthUpTo(reader, f, Len(Expressions), holds)
  <1>1. TruthUpTo(reader, f, Len(Expressions), a)
    BY TruthExists, ExpressionsAssumption
  <1>2. \A d \in AllExpressions : equation(reader, d, f) = a[d]
    BY DEF equation, TruthUpTo, AllExpressions
  <1> HIDE DEF a
  <1>3. Children(e) \subseteq AllExpressions
    BY MadeIsClosed, ExpressionsAssumption DEF AllExpressions
  <1>4. {c \in Children(e) : a[c]} = {c \in Children(e) : equation(reader, c, f)}
    BY <1>2, <1>3
  <1>5. a[e] = IF e.kind \in Comparisons
               THEN compare_numbers(e.kind, equation_numeric(reader, e.left, f),
                                            equation_numeric(reader, e.right, f))
               ELSE Connect(e, {c \in Children(e) : a[c]})
    BY <1>1 DEF TruthUpTo, AllExpressions
  <1> QED
    BY <1>2, <1>4, <1>5

(* What negative_modulus computes up to the n-th expression. *)
NegativesUpTo(f, n, found) ==
  found = [d \in Made(n) |->
             \/ d.kind = "modulo" /\ equation_numeric("rules", d.divisor, f).n < 0
             \/ \E c \in Children(d) : found[c]]

(* negative_modulus is computed one expression after the other. *)
LEMMA NegativesExist ==
  ASSUME NEW f, NEW n \in 0 .. Len(Expressions)
  PROVE  \E found : NegativesUpTo(f, n, found)
  <1> DEFINE Stuck == {m \in 0 .. Len(Expressions) : ~ \E found : NegativesUpTo(f, m, found)}
  <1>1. SUFFICES ASSUME n \in Stuck PROVE FALSE
    OBVIOUS
  <1>2. Len(Expressions) \in Nat
    BY ExpressionsAssumption
  <1>3. PICK m \in Stuck : \A k \in Stuck : m <= k
    <2>1. Stuck \subseteq Nat
      BY <1>2
    <2> HIDE DEF Stuck
    <2> QED
      BY <1>1, <2>1, LeastNumber
  <1>4. m # 0
    <2>1. Made(0) = {}
      BY DEF Made
    <2>2. NegativesUpTo(f, 0, [d \in {} |-> {}])
      BY <2>1 DEF NegativesUpTo
    <2> QED
      BY <2>2
  <1>5. PICK a : NegativesUpTo(f, m - 1, a)
    BY <1>2, <1>3, <1>4
  <1> DEFINE negative(d) == d.kind = "modulo" /\ equation_numeric("rules", d.divisor, f).n < 0
  <1> HIDE DEF negative
  <1> DEFINE body(d, g) == negative(d) \/ \E c \in Children(d) : g[c]
             b == [d \in Made(m) |-> IF d \in Made(m - 1) THEN a[d] ELSE body(d, a)]
  <1>6. m \in 1 .. Len(Expressions) /\ m - 1 \in 0 .. Len(Expressions)
    BY <1>2, <1>3, <1>4
  <1>7. ASSUME NEW d \in Made(m) PROVE b[d] = body(d, b)
    <2>1. \A c \in Made(m - 1) : b[c] = a[c]
      BY <1>6, MadeNext
    <2>2. Children(d) \subseteq Made(m - 1)
      BY <1>6, <1>7, MadeNext, MadeIsClosed
    <2>3. b[d] = body(d, a)
      BY <1>5, <1>7 DEF NegativesUpTo, negative
    <2> HIDE DEF b
    <2> QED
      BY <2>1, <2>2, <2>3
  <1>8. NegativesUpTo(f, m, b)
    <2>1. b = [d \in Made(m) |-> b[d]]
      OBVIOUS
    <2> HIDE DEF b
    <2>2. b = [d \in Made(m) |-> body(d, b)]
      BY <1>7, <2>1
    <2> QED
      BY <2>2 DEF NegativesUpTo, negative
  <1> QED
    BY <1>3, <1>8

(* negative_modulus, one expression at a time. *)
LEMMA NegativesOfParts ==
  ASSUME NEW f, NEW e \in AllExpressions
  PROVE  negative_modulus(e, f) =
           \/ e.kind = "modulo" /\ equation_numeric("rules", e.divisor, f).n < 0
           \/ \E c \in Children(e) : negative_modulus(c, f)
  <1> DEFINE a == CHOOSE found : NegativesUpTo(f, Len(Expressions), found)
  <1>1. NegativesUpTo(f, Len(Expressions), a)
    BY NegativesExist, ExpressionsAssumption
  <1>2. \A d \in AllExpressions : negative_modulus(d, f) = a[d]
    BY DEF negative_modulus, NegativesUpTo, AllExpressions
  <1> HIDE DEF a
  <1>3. Children(e) \subseteq AllExpressions
    BY MadeIsClosed, ExpressionsAssumption DEF AllExpressions
  <1>4. a[e] = \/ e.kind = "modulo" /\ equation_numeric("rules", e.divisor, f).n < 0
               \/ \E c \in Children(e) : a[c]
    BY <1>1 DEF NegativesUpTo, AllExpressions
  <1> QED
    BY <1>2, <1>3, <1>4

----------------------------------------------------------------------------
(* Arithmetic. *)

(* A running total g of m steps from z. *)
Runs(m, z, step, g) ==
  /\ g \in [0 .. m -> Int]
  /\ g[0] = z
  /\ \A i \in 1 .. m : g[i] = step[<<i, g[i - 1]>>]

(* A running total is computed one number after the other. *)
LEMMA RunningExists ==
  ASSUME NEW m \in Nat, NEW z \in Int, NEW step \in [(1 .. m) \X Int -> Int]
  PROVE  \E g : Runs(m, z, step, g)
  <1> DEFINE Stuck == {k \in 0 .. m : ~ \E g : Runs(k, z, step, g)}
  <1>1. SUFFICES ASSUME m \in Stuck PROVE FALSE
    OBVIOUS
  <1>2. PICK k \in Stuck : \A j \in Stuck : k <= j
    <2>1. Stuck \subseteq Nat
      OBVIOUS
    <2> HIDE DEF Stuck
    <2> QED
      BY <1>1, <2>1, LeastNumber
  <1>3. k # 0
    <2>1. Runs(0, z, step, [i \in 0 .. 0 |-> z])
      BY DEF Runs
    <2> QED
      BY <2>1
  <1>4. k \in 1 .. m
    BY <1>2, <1>3
  <1>5. PICK a : Runs(k - 1, z, step, a)
    BY <1>2, <1>4
  <1> DEFINE b == [i \in 0 .. k |-> IF i = k THEN step[<<k, a[k - 1]>>] ELSE a[i]]
  <1>6. a \in [0 .. k - 1 -> Int] /\ a[0] = z
    BY <1>5 DEF Runs
  <1>7. step[<<k, a[k - 1]>>] \in Int
    <2>1. a[k - 1] \in Int
      BY <1>4, <1>6
    <2> QED
      BY <1>4, <2>1
  <1>8. b \in [0 .. k -> Int] /\ b[0] = z
    BY <1>4, <1>6, <1>7
  <1>9. ASSUME NEW i \in 1 .. k PROVE b[i] = step[<<i, b[i - 1]>>]
    <2>1. b[i - 1] = a[i - 1]
      BY <1>4
    <2>2. CASE i = k
      <3>1. b[k] = step[<<k, a[k - 1]>>]
        BY <1>4
      <3> HIDE DEF b
      <3> QED
        BY <2>1, <2>2, <3>1
    <2>3. CASE i \in 1 .. k - 1
      <3>1. a[i] = step[<<i, a[i - 1]>>]
        BY <1>5, <2>3 DEF Runs
      <3>2. b[i] = a[i]
        BY <1>4, <2>3
      <3> QED
        BY <2>1, <3>1, <3>2
    <2> QED
      BY <1>4, <2>2, <2>3
  <1>10. Runs(k, z, step, b)
    BY <1>8, <1>9 DEF Runs
  <1> QED
    BY <1>2, <1>10

(* Sums and products of integers are integers. *)
LEMMA TotalsAreIntegers ==
  ASSUME NEW m \in Nat, NEW n \in [1 .. m -> Int]
  PROVE  Sum(n, m) \in Int /\ Product(n, m) \in Int
  <1>1. Sum(n, m) \in Int
    <2> DEFINE Totals(g) == g = [i \in 0 .. m |-> IF i = 0 THEN 0 ELSE g[i - 1] + n[i]]
               a == CHOOSE g : Totals(g)
               step == [p \in (1 .. m) \X Int |-> p[2] + n[p[1]]]
    <2>1. step \in [(1 .. m) \X Int -> Int]
      OBVIOUS
    <2>2. PICK g : Runs(m, 0, step, g)
      <3> HIDE DEF step
      <3>1. 0 \in Int
        OBVIOUS
      <3> QED
        BY <2>1, <3>1, RunningExists
    <2>3. Totals(g)
      <3>1. ASSUME NEW i \in 1 .. m PROVE g[i] = g[i - 1] + n[i]
        <4>1. i - 1 \in 0 .. m /\ g[i - 1] \in Int /\ g[i] = step[<<i, g[i - 1]>>]
          <5> HIDE DEF step
          <5> QED
            BY <2>2 DEF Runs
        <4> QED
          BY <4>1
      <3>2. g = [i \in 0 .. m |-> g[i]] /\ g[0] = 0
        BY <2>2 DEF Runs
      <3>3. ASSUME NEW i \in 0 .. m PROVE g[i] = IF i = 0 THEN 0 ELSE g[i - 1] + n[i]
        <4>1. CASE i = 0
          BY <3>2, <4>1
        <4>2. CASE i \in 1 .. m
          BY <3>1, <4>2
        <4> QED
          BY <4>1, <4>2
      <3> QED
        BY <3>2, <3>3
    <2>4. Totals(a)
      BY <2>3
    <2>5. Sum(n, m) = a[m]
      BY DEF Sum
    <2> HIDE DEF a
    <2>6. a[m] \in Int
      <3> DEFINE Bad == {i \in 0 .. m : a[i] \notin Int}
      <3>1. SUFFICES ASSUME m \in Bad PROVE FALSE
        OBVIOUS
      <3>2. PICK i \in Bad : \A j \in Bad : i <= j
        <4>1. Bad \subseteq Nat
          OBVIOUS
        <4> HIDE DEF Bad
        <4> QED
          BY <3>1, <4>1, LeastNumber
      <3>3. i # 0
        BY <2>4, <3>2
      <3>4. i - 1 \in 0 .. m /\ i \in 1 .. m /\ a[i - 1] \in Int
        BY <3>2, <3>3
      <3> QED
        BY <2>4, <3>2, <3>4
    <2> QED
      BY <2>5, <2>6
  <1>2. Product(n, m) \in Int
    <2> DEFINE Totals(g) == g = [i \in 0 .. m |-> IF i = 0 THEN 1 ELSE g[i - 1] * n[i]]
               a == CHOOSE g : Totals(g)
               step == [p \in (1 .. m) \X Int |-> p[2] * n[p[1]]]
    <2>1. step \in [(1 .. m) \X Int -> Int]
      OBVIOUS
    <2>2. PICK g : Runs(m, 1, step, g)
      <3> HIDE DEF step
      <3>1. 1 \in Int
        OBVIOUS
      <3> QED
        BY <2>1, <3>1, RunningExists
    <2>3. Totals(g)
      <3>1. ASSUME NEW i \in 1 .. m PROVE g[i] = g[i - 1] * n[i]
        <4>1. i - 1 \in 0 .. m /\ g[i - 1] \in Int /\ g[i] = step[<<i, g[i - 1]>>]
          <5> HIDE DEF step
          <5> QED
            BY <2>2 DEF Runs
        <4> QED
          BY <4>1
      <3>2. g = [i \in 0 .. m |-> g[i]] /\ g[0] = 1
        BY <2>2 DEF Runs
      <3>3. ASSUME NEW i \in 0 .. m PROVE g[i] = IF i = 0 THEN 1 ELSE g[i - 1] * n[i]
        <4>1. CASE i = 0
          BY <3>2, <4>1
        <4>2. CASE i \in 1 .. m
          BY <3>1, <4>2
        <4> QED
          BY <4>1, <4>2
      <3> QED
        BY <3>2, <3>3
    <2>4. Totals(a)
      BY <2>3
    <2>5. Product(n, m) = a[m]
      BY DEF Product
    <2> HIDE DEF a
    <2>6. a[m] \in Int
      <3> DEFINE Bad == {i \in 0 .. m : a[i] \notin Int}
      <3>1. SUFFICES ASSUME m \in Bad PROVE FALSE
        OBVIOUS
      <3>2. PICK i \in Bad : \A j \in Bad : i <= j
        <4>1. Bad \subseteq Nat
          OBVIOUS
        <4> HIDE DEF Bad
        <4> QED
          BY <3>1, <4>1, LeastNumber
      <3>3. i # 0
        BY <2>4, <3>2
      <3>4. i - 1 \in 0 .. m /\ i \in 1 .. m /\ a[i - 1] \in Int
        BY <3>2, <3>3
      <3> QED
        BY <2>4, <3>2, <3>4
    <2> QED
      BY <2>5, <2>6
  <1> QED
    BY <1>1, <1>2

(* A divisor and its opposite divide the same integers. *)
LEMMA SameMultiples ==
  ASSUME NEW a \in Int, NEW b \in Int, b < 0
  PROVE  a % (-b) = 0 <=> (-a) % (-b) = 0
  <1> DEFINE d == -b
  <1>1. d \in Int /\ d > 0
    OBVIOUS
  <1> HIDE DEF d
  <1>2. \A x \in Int : x = d * (x \div d) + (x % d) /\ x % d \in 0 .. d - 1 /\ x \div d \in Int
    BY <1>1
  <1>3. \A x \in Int : x % d = 0 => (-x) % d = 0
    <2>1. SUFFICES ASSUME NEW x \in Int, x % d = 0 PROVE (-x) % d = 0
      OBVIOUS
    <2> DEFINE q == x \div d
               p == (-x) \div d
               r == (-x) % d
    <2>2. x = d * q /\ q \in Int
      <3>1. x = d * (x \div d) + (x % d) /\ x \div d \in Int
        BY <1>2
      <3> QED
        BY <1>1, <2>1, <3>1
    <2>3. -x = d * p + r /\ p \in Int /\ r \in 0 .. d - 1
      BY <1>2
    <2> HIDE DEF q, p, r
    <2>4. d * (p + q) = -r
      BY <1>1, <2>2, <2>3
    <2>5. p + q = 0
      BY <1>1, <2>2, <2>3, <2>4
    <2> QED
      BY <1>1, <2>3, <2>4, <2>5 DEF r
  <1>4. a % d = 0 <=> (-a) % d = 0
    BY <1>3
  <1> QED
    BY <1>4 DEF d

(* The value of an expression from its parts', whatever the reader: the rules    *)
(* and the checker calculate alike, and so do the encodings; the two pairs       *)
(* differ only on a modulus with a negative divisor.                             *)
Numerals == [valid : BOOLEAN, n : Int]

Twin(reader) == IF reader \in {"rules", "checker"} THEN "rules" ELSE "z3"

(* A number, valid or not, is one. *)
LEMMA NumbersAreNumerals == (\A i \in Int : Number(i) \in Numerals) /\ Invalid \in Numerals
  BY DEF Number, Invalid, Numerals

(* The readers divide alike, and take remainders alike unless the divisor is negative. *)
LEMMA QuotientsAgree ==
  ASSUME NEW reader \in Readers, NEW a \in Int, NEW b \in Int
  PROVE  /\ exact_divide(reader, a, b) = exact_divide("rules", a, b)
         /\ exact_divide(reader, a, b) \in Numerals
         /\ modulo(reader, a, b) = modulo(Twin(reader), a, b)
         /\ modulo(reader, a, b) \in Numerals
         /\ b >= 0 => modulo(reader, a, b) = modulo("rules", a, b)
  <1>1. \A m \in Int, d \in Int : d > 0 => m \div d \in Int /\ m % d \in Int
    OBVIOUS
  <1>2. CASE b > 0
    <2>1. \A r : Remainder(r, a, b) = a % b /\ a % b \in Int
      BY <1>1, <1>2 DEF Remainder
    <2>2. \A r : exact_divide(r, a, b) = IF a % b # 0 THEN Invalid ELSE Number(a \div b)
      BY <1>2, <2>1 DEF exact_divide
    <2>3. \A r : modulo(r, a, b) = Number(a % b)
      BY <1>2, <2>1 DEF modulo
    <2>4. a \div b \in Int /\ a % b \in Int
      BY <1>1, <1>2
    <2> QED
      BY <2>2, <2>3, <2>4, NumbersAreNumerals
  <1>3. CASE b = 0
    <2>1. \A r : exact_divide(r, a, b) = Invalid /\ modulo(r, a, b) = Invalid
      BY <1>3 DEF exact_divide, modulo
    <2> QED
      BY <2>1, NumbersAreNumerals
  <1>4. CASE b < 0
    <2>1. (a % (-b)) \in Int /\ ((-a) % (-b)) \in Int /\ ((-a) \div (-b)) \in Int
      BY <1>1, <1>4
    <2>a. a % (-b) = 0 <=> (-a) % (-b) = 0
      BY <1>4, SameMultiples
    <2>b. \A r : Remainder(r, a, b) = IF r = "z3" THEN a % (-b) ELSE -((-a) % (-b))
      BY <1>4 DEF Remainder
    <2>2. \A r : Remainder(r, a, b) = 0 <=> a % (-b) = 0
      BY <2>a, <2>b, <2>1
    <2>3. \A r : exact_divide(r, a, b) = IF a % (-b) # 0 THEN Invalid ELSE Number((-a) \div (-b))
      BY <1>4, <2>1, <2>2 DEF exact_divide
    <2>4. exact_divide(reader, a, b) = exact_divide("rules", a, b)
      BY <2>3
    <2>5. exact_divide(reader, a, b) \in Numerals
      BY <2>1, <2>3, NumbersAreNumerals
    <2>6. ~(b >= 0)
      BY <1>4
    <2>7. \A r \in {"rules", "checker"} : modulo(r, a, b) = Number(-((-a) % (-b)))
      BY <1>4 DEF modulo, Remainder
    <2>8. \A r \in {"z3", "cpsat"} : modulo(r, a, b) = Invalid
      BY <1>4 DEF modulo
    <2>9. -((-a) % (-b)) \in Int
      BY <2>1
    <2>10. reader \in {"rules", "checker"} \/ reader \in {"z3", "cpsat"}
      BY DEF Readers
    <2> QED
      BY <2>4, <2>5, <2>6, <2>7, <2>8, <2>9, <2>10, NumbersAreNumerals DEF Twin
  <1> QED
    BY <1>2, <1>3, <1>4

(* The readers calculate alike. *)
LEMMA CalculationsAgree ==
  ASSUME NEW reader \in Readers, NEW e, NEW parts, IsExpression(e, parts),
         e.kind \in NumericKinds, e.kind # "variable_reference", NEW n \in [Children(e) -> Int]
  PROVE  /\ calculate(reader, e, n) = calculate(Twin(reader), e, n)
         /\ calculate(reader, e, n) \in Numerals
         /\ (e.kind = "modulo" => n[e.divisor] >= 0)
              => calculate(reader, e, n) = calculate("rules", e, n)
  <1>0. Twin(reader) \in Readers
    BY DEF Twin, Readers
  <1>1. CASE e.kind \in {"add", "multiply"}
    <2> DEFINE numbers == [i \in 1 .. Len(e.operands) |-> n[e.operands[i]]]
    <2>1. Children(e) = {e.operands[i] : i \in 1 .. Len(e.operands)}
      BY <1>1 DEF Children, Comparisons
    <2>2. Len(e.operands) \in Nat
      BY <1>1 DEF IsExpression, Comparisons
    <2>3. numbers \in [1 .. Len(e.operands) -> Int]
      BY <2>1
    <2> HIDE DEF numbers
    <2>4. Sum(numbers, Len(e.operands)) \in Int /\ Product(numbers, Len(e.operands)) \in Int
      BY <2>2, <2>3, TotalsAreIntegers
    <2>5. \A r : /\ e.kind = "add" => calculate(r, e, n) = Number(Sum(numbers, Len(e.operands)))
                 /\ e.kind = "multiply" => calculate(r, e, n) = Number(Product(numbers, Len(e.operands)))
      BY DEF calculate, numbers
    <2> QED
      BY <1>1, <2>4, <2>5, NumbersAreNumerals
  <1>2. CASE e.kind = "constant"
    <2>1. e.value \in Int
      BY <1>2 DEF IsExpression, Comparisons
    <2>2. \A r : calculate(r, e, n) = Number(e.value)
      BY <1>2 DEF calculate
    <2> QED
      BY <2>1, <2>2, NumbersAreNumerals
  <1>3. CASE e.kind = "subtract"
    <2>1. n[e.left] \in Int /\ n[e.right] \in Int
      BY <1>3 DEF Children, Comparisons
    <2>2. \A r : calculate(r, e, n) = Number(n[e.left] - n[e.right])
      BY <1>3 DEF calculate
    <2> QED
      BY <2>1, <2>2, NumbersAreNumerals
  <1>4. CASE e.kind = "negate"
    <2>1. n[e.operand] \in Int
      BY <1>4 DEF Children, Comparisons
    <2>2. \A r : calculate(r, e, n) = Number(-n[e.operand])
      BY <1>4 DEF calculate
    <2> QED
      BY <2>1, <2>2, NumbersAreNumerals
  <1>5. CASE e.kind \in {"exact_divide", "modulo"}
    <2>1. n[e.dividend] \in Int /\ n[e.divisor] \in Int
      BY <1>5 DEF Children, Comparisons
    <2>2. \A r : /\ e.kind = "exact_divide" =>
                      calculate(r, e, n) = exact_divide(r, n[e.dividend], n[e.divisor])
                 /\ e.kind = "modulo" =>
                      calculate(r, e, n) = modulo(r, n[e.dividend], n[e.divisor])
      BY DEF calculate
    <2> QED
      BY <1>0, <1>5, <2>1, <2>2, QuotientsAgree
  <1> QED
    BY <1>1, <1>2, <1>3, <1>4, <1>5 DEF NumericKinds

----------------------------------------------------------------------------
(* The readers. *)

(* Each reader agrees with its twin on an expression over the variables X, and    *)
(* it matters to none of them whether the assignment says more than these.       *)
(* Without a negative modulus all agree.                                         *)
NumberAgrees(e, f, X) ==
  /\ \A reader \in Readers : \A g \in {f, [x \in X |-> f[x]]} :
       /\ equation_numeric(reader, e, g) = equation_numeric(Twin(reader), e, f)
       /\ equation_numeric(reader, e, g) \in Numerals
  /\ negative_modulus(e, f) \/ equation_numeric("z3", e, f) = equation_numeric("rules", e, f)

(* Every number of an expression is the same to both readers of a pair. *)
LEMMA NumbersAgree ==
  ASSUME NEW X \in SUBSET Variables, NEW f \in [Variables -> Values],
         NEW e \in Numerics(AllExpressions), boolean_variables(e) \subseteq X
  PROVE  NumberAgrees(e, f, X)
  <1> DEFINE Concerned(d) == d.kind \in NumericKinds /\ boolean_variables(d) \subseteq X
             Bad == {n \in 1 .. Len(Expressions) :
                       Concerned(Expressions[n]) /\ ~NumberAgrees(Expressions[n], f, X)}
  <1>1. Len(Expressions) \in Nat
    BY ExpressionsAssumption
  <1>2. Values \subseteq Int
    <2>1. PICK n : Values = 1 .. n
      BY EquationsAssumption DEF LogicEquationsContract
    <2> QED
      BY <2>1
  <1>3. SUFFICES ASSUME Bad # {} PROVE FALSE
    <2>1. PICK n \in 1 .. Len(Expressions) : e = Expressions[n]
      BY DEF Numerics, AllExpressions, Made
    <2>2. Concerned(e)
      BY DEF Numerics
    <2> QED
      BY <2>1, <2>2
  <1>4. PICK n \in Bad : \A m \in Bad : n <= m
    <2>1. Bad \subseteq Nat
      OBVIOUS
    <2> HIDE DEF Bad
    <2> QED
      BY <1>3, <2>1, LeastNumber
  <1> DEFINE d == Expressions[n]
  <1>5. d \in AllExpressions /\ Concerned(d) /\ IsExpression(d, Made(n - 1))
    BY <1>1, <1>4, ExpressionsAssumption DEF AllExpressions, Made
  <1>6. ~NumberAgrees(d, f, X)
    BY <1>4
  <1>7. ASSUME NEW c \in Children(d) PROVE NumberAgrees(c, f, X)
    <2>1. c \in Numerics(Made(n - 1))
      BY <1>5, PartsOfExpression
    <2>2. PICK m \in 1 .. n - 1 : c = Expressions[m]
      BY <2>1 DEF Numerics, Made
    <2>3. m \in 1 .. Len(Expressions) /\ ~(n <= m)
      BY <1>1, <1>4
    <2>4. Concerned(c)
      <3>1. c.kind \in NumericKinds
        BY <2>1 DEF Numerics
      <3>2. d.kind # "variable_reference"
        BY DEF Children, Comparisons
      <3>3. boolean_variables(d) = UNION {boolean_variables(b) : b \in Children(d)}
        BY <1>5, <3>2, VariablesOfParts
      <3> QED
        BY <1>5, <3>1, <3>3
    <2> QED
      BY <1>4, <2>2, <2>3, <2>4
  <1> DEFINE V(reader, b, g) == equation_numeric(reader, b, g)
             cut == [x \in X |-> f[x]]
  <1>8. ASSUME NEW reader \in Readers, NEW g \in {f, cut}
        PROVE  V(reader, d, g) = V(Twin(reader), d, f) /\ V(reader, d, g) \in Numerals
    <2> DEFINE twin == Twin(reader)
    <2>1. \A b \in Children(d) : V(reader, b, g) = V(twin, b, f) /\ V(reader, b, g) \in Numerals
      BY <1>7 DEF NumberAgrees
    <2> HIDE DEF twin
    <2>2. CASE d.kind = "variable_reference"
      <3>1. d.variable \in X
        BY <1>5, <2>2, VariablesOfParts
      <3>2. g[d.variable] = f[d.variable]
        BY <1>8, <3>1
      <3>3. f[d.variable] \in Int
        BY <1>2, <3>1
      <3>4. V(reader, d, g) = Number(g[d.variable])
        BY <1>5, <2>2, NumberOfParts
      <3>5. V(twin, d, f) = Number(f[d.variable])
        BY <1>5, <2>2, NumberOfParts
      <3> QED
        BY <3>2, <3>3, <3>4, <3>5, NumbersAreNumerals DEF twin
    <2>3. CASE d.kind # "variable_reference" /\ \E b \in Children(d) : ~V(twin, b, f).valid
      <3>1. V(reader, d, g) = Invalid
        <4>1. \E b \in Children(d) : ~V(reader, b, g).valid
          BY <2>1, <2>3
        <4> QED
          BY <1>5, <2>3, <4>1, NumberOfParts
      <3>2. V(twin, d, f) = Invalid
        BY <1>5, <2>3, NumberOfParts
      <3> QED
        BY <3>1, <3>2, NumbersAreNumerals DEF twin
    <2>4. CASE d.kind # "variable_reference" /\ \A b \in Children(d) : V(twin, b, f).valid
      <3> DEFINE n1 == [b \in Children(d) |-> V(reader, b, g).n]
                 n2 == [b \in Children(d) |-> V(twin, b, f).n]
      <3>1. n1 = n2
        BY <2>1
      <3>2. V(reader, d, g) = calculate(reader, d, n1)
        BY <1>5, <2>1, <2>4, NumberOfParts
      <3>3. V(twin, d, f) = calculate(twin, d, n2)
        BY <1>5, <2>4, NumberOfParts
      <3>4. n2 \in [Children(d) -> Int]
        BY <2>1 DEF Numerals
      <3> HIDE DEF n1, n2
      <3>5. /\ calculate(reader, d, n2) = calculate(twin, d, n2)
            /\ calculate(reader, d, n2) \in Numerals
        BY <1>5, <2>4, <3>4, CalculationsAgree DEF twin
      <3> QED
        BY <3>1, <3>2, <3>3, <3>5 DEF twin
    <2> QED
      BY <2>2, <2>3, <2>4
  <1>9. ASSUME ~negative_modulus(d, f) PROVE V("z3", d, f) = V("rules", d, f)
    <2>1. \A b \in Children(d) : V("z3", b, f) = V("rules", b, f) /\ V("rules", b, f) \in Numerals
      <3>1. \A b \in Children(d) : ~negative_modulus(b, f)
        BY <1>5, <1>9, NegativesOfParts
      <3>2. "rules" \in Readers
        BY DEF Readers
      <3> QED
        BY <1>7, <3>1, <3>2 DEF NumberAgrees
    <2>2. CASE d.kind = "variable_reference"
      BY <1>5, <2>2, NumberOfParts
    <2>3. CASE d.kind # "variable_reference" /\ \E b \in Children(d) : ~V("rules", b, f).valid
      <3>1. V("rules", d, f) = Invalid
        BY <1>5, <2>3, NumberOfParts
      <3>2. \E b \in Children(d) : ~V("z3", b, f).valid
        BY <2>1, <2>3
      <3>3. V("z3", d, f) = Invalid
        BY <1>5, <2>3, <3>2, NumberOfParts
      <3> QED
        BY <3>1, <3>3
    <2>4. CASE d.kind # "variable_reference" /\ \A b \in Children(d) : V("rules", b, f).valid
      <3> DEFINE n1 == [b \in Children(d) |-> V("z3", b, f).n]
                 n2 == [b \in Children(d) |-> V("rules", b, f).n]
      <3>1. n1 = n2
        BY <2>1
      <3>2. V("z3", d, f) = calculate("z3", d, n1)
        BY <1>5, <2>1, <2>4, NumberOfParts
      <3>3. V("rules", d, f) = calculate("rules", d, n2)
        BY <1>5, <2>4, NumberOfParts
      <3>4. n2 \in [Children(d) -> Int]
        BY <2>1 DEF Numerals
      <3>5. d.kind = "modulo" => n2[d.divisor] >= 0
        <4>1. SUFFICES ASSUME d.kind = "modulo" PROVE n2[d.divisor] >= 0
          OBVIOUS
        <4>2. d.divisor \in Children(d)
          BY <4>1 DEF Children, Comparisons
        <4>3. ~(V("rules", d.divisor, f).n < 0)
          BY <1>5, <1>9, <4>1, NegativesOfParts
        <4>4. n2[d.divisor] = V("rules", d.divisor, f).n /\ n2[d.divisor] \in Int
          BY <3>4, <4>2
        <4> QED
          BY <4>3, <4>4
      <3>6. "z3" \in Readers
        BY DEF Readers
      <3> HIDE DEF n1, n2
      <3>7. calculate("z3", d, n2) = calculate("rules", d, n2)
        BY <1>5, <2>4, <3>4, <3>5, <3>6, CalculationsAgree
      <3> QED
        BY <3>1, <3>2, <3>3, <3>7
    <2> QED
      BY <2>2, <2>3, <2>4
  <1> QED
    BY <1>6, <1>8, <1>9 DEF NumberAgrees

TruthAgrees(e, f, X) ==
  /\ \A reader \in Readers : \A g \in {f, [x \in X |-> f[x]]} :
       equation(reader, e, g) = equation(Twin(reader), e, f)
  /\ negative_modulus(e, f) \/ equation("z3", e, f) = equation("rules", e, f)

(* Every boolean of an expression is the same to both readers of a pair. *)
LEMMA TruthsAgree ==
  ASSUME NEW X \in SUBSET Variables, NEW f \in [Variables -> Values],
         NEW e \in Booleans(AllExpressions), boolean_variables(e) \subseteq X
  PROVE  TruthAgrees(e, f, X)
  <1> DEFINE Concerned(d) == d.kind \notin NumericKinds /\ boolean_variables(d) \subseteq X
             Bad == {n \in 1 .. Len(Expressions) :
                       Concerned(Expressions[n]) /\ ~TruthAgrees(Expressions[n], f, X)}
  <1>1. Len(Expressions) \in Nat
    BY ExpressionsAssumption
  <1>2. SUFFICES ASSUME Bad # {} PROVE FALSE
    <2>1. PICK n \in 1 .. Len(Expressions) : e = Expressions[n]
      BY DEF Booleans, AllExpressions, Made
    <2>2. Concerned(e)
      BY DEF Booleans
    <2> QED
      BY <2>1, <2>2
  <1>3. PICK n \in Bad : \A m \in Bad : n <= m
    <2>1. Bad \subseteq Nat
      OBVIOUS
    <2> HIDE DEF Bad
    <2> QED
      BY <1>2, <2>1, LeastNumber
  <1> DEFINE d == Expressions[n]
  <1>4. d \in AllExpressions /\ Concerned(d) /\ IsExpression(d, Made(n - 1))
    BY <1>1, <1>3, ExpressionsAssumption DEF AllExpressions, Made
  <1>5. ~TruthAgrees(d, f, X)
    BY <1>3
  <1>6. boolean_variables(d) = UNION {boolean_variables(b) : b \in Children(d)}
    BY <1>4, VariablesOfParts DEF NumericKinds
  <1>7. \A c \in Children(d) : boolean_variables(c) \subseteq X
    BY <1>4, <1>6
  <1> DEFINE cut == [x \in X |-> f[x]]
             N(reader, b, g) == equation_numeric(reader, b, g)
             T(reader, b, g) == equation(reader, b, g)
  <1>8. ASSUME d.kind \in Comparisons
        PROVE  /\ {d.left, d.right} = Children(d)
               /\ NumberAgrees(d.left, f, X) /\ NumberAgrees(d.right, f, X)
    <2>1. {d.left, d.right} = Children(d)
      BY <1>8 DEF Children, Comparisons
    <2>2. d.left \in Numerics(AllExpressions) /\ d.right \in Numerics(AllExpressions)
      <3>1. Children(d) \subseteq Numerics(Made(n - 1))
        BY <1>4, <1>8, PartsOfExpression
      <3>2. Made(n - 1) \subseteq AllExpressions
        BY <1>1, <1>3 DEF Made, AllExpressions
      <3> QED
        BY <2>1, <3>1, <3>2 DEF Numerics
    <2> QED
      BY <1>7, <2>1, <2>2, NumbersAgree
  <1>9. ASSUME d.kind \notin Comparisons, NEW c \in Children(d) PROVE TruthAgrees(c, f, X)
    <2>1. c \in Booleans(Made(n - 1))
      BY <1>4, <1>9, PartsOfExpression
    <2>2. PICK m \in 1 .. n - 1 : c = Expressions[m]
      BY <2>1 DEF Booleans, Made
    <2>3. m \in 1 .. Len(Expressions) /\ ~(n <= m)
      BY <1>1, <1>3
    <2>4. Concerned(c)
      BY <1>7, <2>1 DEF Booleans
    <2> QED
      BY <1>3, <2>2, <2>3, <2>4
  <1>10. ASSUME NEW reader \in Readers, NEW g \in {f, cut}
         PROVE  T(reader, d, g) = T(Twin(reader), d, f)
    <2> DEFINE twin == Twin(reader)
    <2>1. CASE d.kind \in Comparisons
      <3>1. N(reader, d.left, g) = N(twin, d.left, f) /\ N(reader, d.right, g) = N(twin, d.right, f)
        BY <1>8, <2>1 DEF NumberAgrees
      <3> HIDE DEF twin
      <3>2. T(reader, d, g) = compare_numbers(d.kind, N(reader, d.left, g), N(reader, d.right, g))
        BY <1>4, <2>1, TruthOfParts
      <3>3. T(twin, d, f) = compare_numbers(d.kind, N(twin, d.left, f), N(twin, d.right, f))
        BY <1>4, <2>1, TruthOfParts
      <3> QED
        BY <3>1, <3>2, <3>3 DEF twin
    <2>2. CASE d.kind \notin Comparisons
      <3>1. \A c \in Children(d) : T(reader, c, g) = T(twin, c, f)
        BY <1>9, <2>2 DEF TruthAgrees
      <3> HIDE DEF twin
      <3>2. {c \in Children(d) : T(reader, c, g)} = {c \in Children(d) : T(twin, c, f)}
        BY <3>1
      <3>3. T(reader, d, g) = Connect(d, {c \in Children(d) : T(reader, c, g)})
        BY <1>4, <2>2, TruthOfParts
      <3>4. T(twin, d, f) = Connect(d, {c \in Children(d) : T(twin, c, f)})
        BY <1>4, <2>2, TruthOfParts
      <3> QED
        BY <3>2, <3>3, <3>4 DEF twin
    <2> QED
      BY <2>1, <2>2
  <1>11. ASSUME ~negative_modulus(d, f) PROVE T("z3", d, f) = T("rules", d, f)
    <2>0. \A c \in Children(d) : ~negative_modulus(c, f)
      BY <1>4, <1>11, NegativesOfParts
    <2>1. CASE d.kind \in Comparisons
      <3>1. N("z3", d.left, f) = N("rules", d.left, f) /\ N("z3", d.right, f) = N("rules", d.right, f)
        BY <1>8, <2>0, <2>1 DEF NumberAgrees
      <3>2. T("z3", d, f) = compare_numbers(d.kind, N("z3", d.left, f), N("z3", d.right, f))
        BY <1>4, <2>1, TruthOfParts
      <3>3. T("rules", d, f) = compare_numbers(d.kind, N("rules", d.left, f), N("rules", d.right, f))
        BY <1>4, <2>1, TruthOfParts
      <3> QED
        BY <3>1, <3>2, <3>3
    <2>2. CASE d.kind \notin Comparisons
      <3>1. \A c \in Children(d) : T("z3", c, f) = T("rules", c, f)
        BY <1>9, <2>0, <2>2 DEF TruthAgrees
      <3>2. {c \in Children(d) : T("z3", c, f)} = {c \in Children(d) : T("rules", c, f)}
        BY <3>1
      <3>3. T("z3", d, f) = Connect(d, {c \in Children(d) : T("z3", c, f)})
        BY <1>4, <2>2, TruthOfParts
      <3>4. T("rules", d, f) = Connect(d, {c \in Children(d) : T("rules", c, f)})
        BY <1>4, <2>2, TruthOfParts
      <3> QED
        BY <3>2, <3>3, <3>4
    <2> QED
      BY <2>1, <2>2
  <1> QED
    BY <1>5, <1>10, <1>11 DEF TruthAgrees

(* On every clue the readers of a pair agree, all four do unless it has a         *)
(* negative modulus, and the rules see of an assignment only the clue's own      *)
(* variables.                                                                    *)
LEMMA CluesReadAlike ==
  ASSUME NEW i \in DOMAIN ClueExpressions, NEW f \in [Variables -> Values]
  PROVE  LET e == ClueExpressions[i] IN
         /\ equations_z3(e, f) = equations_cpsat(e, f)
         /\ equations_rules(e, f) = equations_checker(e, f)
         /\ equations_rules(e, f) = equations_z3(e, f) \/ negative_modulus(e, f)
         /\ equations_rules(e, [x \in boolean_variables(e) |-> f[x]]) = equations_rules(e, f)
  <1> DEFINE e == ClueExpressions[i]
             X == boolean_variables(e)
  <1>1. e \in Booleans(AllExpressions) /\ X \in SUBSET Variables
    BY ReadersAssumption
  <1>2. TruthAgrees(e, f, X)
    BY <1>1, TruthsAgree
  <1> HIDE DEF e
  <1>3. /\ equation("checker", e, f) = equation("rules", e, f)
        /\ equation("cpsat", e, f) = equation("z3", e, f)
        /\ equation("rules", e, [x \in X |-> f[x]]) = equation("rules", e, f)
    BY <1>2 DEF TruthAgrees, Readers, Twin
  <1>4. negative_modulus(e, f) \/ equation("z3", e, f) = equation("rules", e, f)
    BY <1>2 DEF TruthAgrees
  <1> QED
    BY <1>3, <1>4 DEF e, equations_rules, equations_checker, equations_z3, equations_cpsat

(* Both encodings have the same solutions. *)
LEMMA EncodingsAgree == CpsatSolutions = Solutions
  <1>1. Values = 1 .. ValuesCount
    BY EquationsAssumption DEF LogicEquationsContract, ValuesCount
  <1>2. \A f \in [Variables -> Values] : \A i \in DOMAIN ClueExpressions :
          read_equation("z3", ClueExpressions[i], f) = read_equation("cpsat", ClueExpressions[i], f)
    BY CluesReadAlike DEF read_equation
  <1>3. CpsatSolutions = Z3Solutions
    BY <1>1, <1>2 DEF CpsatSolutions, Z3Solutions, encoded_solutions
  <1> QED
    BY <1>3, ReadersAssumption

(* A solution satisfies each clue as the rules read it, unless the clue has a     *)
(* negative modulus under it.                                                    *)
LEMMA SolutionsAreAllowed ==
  ASSUME NEW f \in Solutions, NEW i \in DOMAIN Clues, ~negative_modulus(ClueExpressions[i], f)
  PROVE  [x \in Clues[i].variables |-> f[x]] \in Clues[i].allows
  <1> DEFINE e == ClueExpressions[i]
             X == boolean_variables(e)
             cut == [x \in X |-> f[x]]
  <1>1. i \in DOMAIN ClueExpressions /\ Clues[i] = rules_clue(e, ValuesCount)
    BY ReadersAssumption
  <1>2. X \subseteq Variables
    BY <1>1, ReadersAssumption
  <1>3. Values = 1 .. ValuesCount
    BY EquationsAssumption DEF LogicEquationsContract, ValuesCount
  <1>4. f \in [Variables -> Values] /\ equations_z3(e, f)
    BY <1>1, <1>3, ReadersAssumption DEF Z3Solutions, encoded_solutions, read_equation
  <1>5. equations_rules(e, cut)
    BY <1>1, <1>4, CluesReadAlike
  <1>6. cut \in [X -> Values]
    BY <1>2, <1>4
  <1>7. Clues[i].variables = X /\ Clues[i].allows = {h \in [X -> 1 .. ValuesCount] : equations_rules(e, h)}
    BY <1>1 DEF rules_clue
  <1> QED
    BY <1>3, <1>5, <1>6, <1>7

(* A rule that cites a clue concludes about a variable of the clue. *)
LEMMA PropagationConcerns ==
  ASSUME NEW i \in DOMAIN Clues, NEW s, NEW d \in ConstraintPropagationRule(i, s)
  PROVE  d.claim.var \in Clues[i].variables /\ d.claim.kind \in {"assignment", "exclusion"}
  <1> DEFINE c == Clues[i]
  <1>1. IsClue(c)
    BY EquationCluesAssumption
  <1> HIDE DEF c
  <1>2. CASE \E a \in ordering_bound_exclusions(c, s) : d = Candidate(c.technique, i, {}, a)
    <2>1. PICK a \in ordering_bound_exclusions(c, s) : d = Candidate(c.technique, i, {}, a)
      BY <1>2
    <2>2. c.left \in c.variables /\ c.right \in c.variables
      BY <1>1, <2>1 DEF IsClue, ordering_bound_exclusions
    <2>3. d.claim = a
      BY <2>1 DEF Candidate
    <2>4. \E v : a = Exclusion(c.left, v) \/ a = Exclusion(c.right, v)
      BY <2>1 DEF ordering_bound_exclusions
    <2> QED
      BY <2>2, <2>3, <2>4 DEF Exclusion, c
  <1>3. CASE \E x \in c.variables : \E a \in Conclusions(c, x, s) :
               d = Candidate(c.technique, i, FixedPremises(c, x, s), a)
    <2>1. PICK x \in c.variables : \E a \in Conclusions(c, x, s) :
            d = Candidate(c.technique, i, FixedPremises(c, x, s), a)
      BY <1>3
    <2>2. PICK a \in Conclusions(c, x, s) : d = Candidate(c.technique, i, FixedPremises(c, x, s), a)
      BY <2>1
    <2>3. d.claim = a
      BY <2>2 DEF Candidate
    <2>4. \E v : a = Assignment(x, v) \/ a = Exclusion(x, v)
      BY <2>2 DEF Conclusions
    <2> QED
      BY <2>3, <2>4 DEF Assignment, Exclusion, c
  <1> QED
    BY <1>2, <1>3 DEF ConstraintPropagationRule, c

(* In the solve loop the four readers agree: what a rule proposes holds in every *)
(* solution either encoding admits, and the checker accepts what the loop        *)
(* solves, but for clues with a negative modulus under that solution.            *)
THEOREM ReadersAlwaysAgree == Spec => []ReadersAgree
  <1>1. HInv /\ SolvedIsUnique => ReadersAgree
    <2> SUFFICES ASSUME HInv, SolvedIsUnique PROVE ReadersAgree
      OBVIOUS
    <2>1. ASSUME NEW d \in logic_equations_applications(current), NEW f \in Models(current),
                 ~Misread(d, f)
          PROVE  Holds(f, d.claim)
      <3>1. current \in PuzzleState
        BY DEF HInv, TypeOK
      <3>2. f \in Solutions /\ \A x \in Variables : f[x] \in current.cand[x]
        BY DEF Models
      <3>3. ASSUME NEW i \in DOMAIN Clues, d \in ConstraintPropagationRule(i, current)
            PROVE  Holds(f, d.claim)
        <4> DEFINE X == Clues[i].variables
                   cut == [x \in X |-> f[x]]
        <4>0. ~negative_modulus(ClueExpressions[i], f)
          <5>1. d.rule = Clues[i].technique /\ d.support = i
            BY <3>3 DEF ConstraintPropagationRule, Candidate
          <5>2. d.rule # "all_different"
            BY <5>1, EquationCluesAssumption DEF IsClue, Techniques
          <5> QED
            BY <2>1, <5>1, <5>2 DEF Misread
        <4>1. cut \in Clues[i].allows
          BY <3>2, <4>0, SolutionsAreAllowed
        <4>2. X \subseteq Variables
          BY EquationCluesAssumption DEF IsClue
        <4>3. \A x \in X : cut[x] \in current.cand[x]
          BY <3>2, <4>2
        <4>4. Holds(cut, d.claim)
          <5> HIDE DEF cut
          <5> QED
            BY <3>1, <3>3, <4>1, <4>3, PropagationSound
        <4>5. d.claim.var \in X /\ d.claim.kind \in {"assignment", "exclusion"}
          BY <3>3, PropagationConcerns
        <4>6. cut[d.claim.var] = f[d.claim.var]
          BY <4>5
        <4> HIDE DEF cut
        <4> QED
          BY <4>4, <4>5, <4>6 DEF Holds
      <3>4. ASSUME NEW g \in AllDifferent, d \in AllDifferentPropagationRule(g, current)
            PROVE  Holds(f, d.claim)
        <4>1. \A x \in g : f[x] \in current.cand[x]
          BY <3>2, AllDifferentAssumption
        <4>2. \A x, y \in g : x # y => f[x] # f[y]
          BY <3>2, SolutionsAssumption
        <4> QED
          BY <3>4, <4>1, <4>2, AllDifferentSound
      <3> QED
        BY <3>3, <3>4 DEF logic_equations_applications
    <2>2. {g \in CpsatSolutions : \A v \in Variables : g[v] \in current.cand[v]} = Models(current)
      BY EncodingsAgree DEF Models
    <2>3. ASSUME status = "solved", applied_steps > 0
          PROVE  LET f == [v \in Variables |-> CHOOSE n \in current.cand[v] : TRUE]
                 IN  check_logic_equations_solution(PlainClues(f), f)
      <3>1. PICK f \in Solutions : \A x \in Variables : current.cand[x] = {f[x]}
        BY <2>3 DEF SolvedIsUnique
      <3>2. f \in [Variables -> Values]
        BY SolutionsAssumption
      <3>3. [v \in Variables |-> CHOOSE n \in current.cand[v] : TRUE] = f
        <4>1. \A v \in Variables : (CHOOSE n \in current.cand[v] : TRUE) = f[v]
          BY <3>1
        <4> QED
          BY <3>2, <4>1
      <3>4. \A x, y \in DOMAIN f : x # y => f[x] # f[y]
        <4>1. Variables \in AllDifferent
          BY EquationsAssumption DEF LogicEquationsContract
        <4> QED
          BY <3>1, <3>2, <4>1, SolutionsAssumption
      <3>5. ASSUME NEW i \in DOMAIN PlainClues(f)
            PROVE  equations_checker(PlainClues(f)[i], f)
        <4>1. /\ i \in DOMAIN ClueExpressions /\ PlainClues(f)[i] = ClueExpressions[i]
              /\ ~negative_modulus(ClueExpressions[i], f)
          BY DEF PlainClues
        <4>2. equations_z3(ClueExpressions[i], f)
          BY <3>1, <4>1, ReadersAssumption DEF Z3Solutions, encoded_solutions, read_equation
        <4> QED
          BY <3>2, <4>1, <4>2, CluesReadAlike
      <3>6. check_logic_equations_solution(PlainClues(f), f)
        BY <3>4, <3>5 DEF check_logic_equations_solution
      <3> QED
        BY <3>3, <3>6
    <2>4. CluesAreReadAlike
      BY CluesReadAlike DEF CluesAreReadAlike
    <2> QED
      BY <2>1, <2>2, <2>3, <2>4 DEF ReadersAgree
  <1> QED
    BY <1>1, EngineInvariant, SolvedVerdictIsUnique, PTL

----------------------------------------------------------------------------
(* A set of numbers that contains 0 and each successor contains them all. *)
LEMMA Upwards ==
  ASSUME NEW n \in Nat, NEW P, 0 \in P, \A m \in 1 .. n : m - 1 \in P => m \in P
  PROVE  \A m \in 0 .. n : m \in P
  <1> DEFINE Bad == {m \in 0 .. n : m \notin P}
  <1>1. SUFFICES ASSUME Bad # {} PROVE FALSE
    OBVIOUS
  <1>2. PICK m \in Bad : \A k \in Bad : m <= k
    <2>1. Bad \subseteq Nat
      OBVIOUS
    <2> HIDE DEF Bad
    <2> QED
      BY <1>1, <2>1, LeastNumber
  <1>3. m \in 1 .. n /\ m - 1 \in 0 .. n /\ m - 1 \notin Bad
    BY <1>2
  <1> QED
    BY <1>2, <1>3

----------------------------------------------------------------------------
(* Templates. *)

(* A template is made of templates made before it. *)
LEMMA PartsOfTemplate ==
  ASSUME NEW p, NEW parts, IsTemplate(p, parts)
  PROVE  predicate_children(p) \subseteq parts
  <1>1. CASE p.kind \in {"all", "any", "cardinality"}
    <2>1. p.operands \in Seq(parts)
      BY <1>1 DEF IsTemplate
    <2>2. \A i \in 1 .. Len(p.operands) : p.operands[i] \in parts
      BY <2>1
    <2>3. predicate_children(p) = {p.operands[i] : i \in 1 .. Len(p.operands)}
      BY <1>1 DEF predicate_children
    <2> QED
      BY <2>2, <2>3
  <1>2. CASE p.kind \in {"not", "exclusive", "equivalent", "conditional", "association", "ordering",
                         "numeric_difference"}
    BY <1>2 DEF IsTemplate, predicate_children
  <1> QED
    BY <1>1, <1>2 DEF IsTemplate

(* Templates up to the n-th, with the next. *)
LEMMA TemplatesNext ==
  ASSUME NEW n \in 1 .. Len(Templates)
  PROVE  /\ TemplatesMade(n) = TemplatesMade(n - 1) \cup {Templates[n]}
         /\ \A d \in TemplatesMade(n) :
              predicate_children(d) \subseteq TemplatesMade(n - 1) \/ d \in TemplatesMade(n - 1)
  <1>1. TemplatesMade(n) = TemplatesMade(n - 1) \cup {Templates[n]}
    BY TemplatesAssumption DEF TemplatesMade
  <1>2. predicate_children(Templates[n]) \subseteq TemplatesMade(n - 1)
    BY TemplatesAssumption, PartsOfTemplate
  <1> QED
    BY <1>1, <1>2

(* What was made before some moment is closed under parts. *)
LEMMA TemplatesClosed ==
  ASSUME NEW n \in 0 .. Len(Templates), NEW d \in TemplatesMade(n)
  PROVE  predicate_children(d) \subseteq TemplatesMade(n)
  <1>1. PICK k \in 1 .. n : d = Templates[k]
    BY DEF TemplatesMade
  <1>2. Len(Templates) \in Nat
    BY TemplatesAssumption
  <1>3. predicate_children(d) \subseteq TemplatesMade(k - 1)
    BY <1>1, <1>2, TemplatesAssumption, PartsOfTemplate
  <1>4. TemplatesMade(k - 1) \subseteq TemplatesMade(n)
    BY DEF TemplatesMade
  <1> QED
    BY <1>3, <1>4

(* Every template is what the template models validate. *)
LEMMA TemplatesAreTemplates ==
  ASSUME NEW d \in AllTemplates
  PROVE  IsTemplate(d, AllTemplates)
  <1>1. PICK k \in 1 .. Len(Templates) : d = Templates[k]
    BY DEF AllTemplates, TemplatesMade
  <1>2. TemplatesMade(k - 1) \subseteq AllTemplates
    BY TemplatesAssumption DEF AllTemplates, TemplatesMade
  <1>3. IsTemplate(d, TemplatesMade(k - 1))
    BY <1>1, TemplatesAssumption
  <1> HIDE DEF AllTemplates
  <1>4. \A s : s \in Seq(TemplatesMade(k - 1)) => s \in Seq(AllTemplates)
    BY <1>2
  <1> QED
    BY <1>2, <1>3, <1>4 DEF IsTemplate

(* The parts of a template, from its children's. *)
PartsBody(q, g) == {q} \cup UNION {g[r] : r \in predicate_children(q)}

(* Only the children's parts matter. *)
LEMMA PartsLocal ==
  ASSUME NEW q \in AllTemplates, NEW g, NEW h, \A r \in predicate_children(q) : g[r] = h[r]
  PROVE  PartsBody(q, g) = PartsBody(q, h)
  BY DEF PartsBody

(* What is computed up to the n-th one. *)
PartsUpTo(n, g) == g = [d \in TemplatesMade(n) |-> PartsBody(d, g)]

(* Computed one after the other, all are. *)
LEMMA PartsExists ==
  ASSUME NEW n \in 0 .. Len(Templates)
  PROVE  \E g : PartsUpTo(n, g)
  <1> DEFINE Reached == {m \in 0 .. Len(Templates) : \E g : PartsUpTo(m, g)}
  <1>1. Len(Templates) \in Nat
    BY TemplatesAssumption
  <1>2. 0 \in Reached
    <2>1. TemplatesMade(0) = {}
      BY DEF TemplatesMade
    <2>2. PartsUpTo(0, [d \in {} |-> d])
      BY <2>1 DEF PartsUpTo
    <2> QED
      BY <1>1, <2>2
  <1>3. ASSUME NEW m \in 1 .. Len(Templates), m - 1 \in Reached PROVE m \in Reached
    <2>1. PICK a : PartsUpTo(m - 1, a)
      BY <1>3
    <2> DEFINE b == [d \in TemplatesMade(m) |->
                   IF d \in TemplatesMade(m - 1) THEN a[d] ELSE PartsBody(d, a)]
    <2>2. \A c \in TemplatesMade(m - 1) : b[c] = a[c]
      BY TemplatesNext
    <2>3. ASSUME NEW d \in TemplatesMade(m) PROVE b[d] = PartsBody(d, b)
      <3>1. predicate_children(d) \subseteq TemplatesMade(m - 1)
        BY <1>1, TemplatesNext, TemplatesClosed
      <3>2. b[d] = PartsBody(d, a)
        BY <2>1 DEF PartsUpTo
      <3> HIDE DEF b
      <3>3. \A c \in predicate_children(d) : b[c] = a[c]
        BY <2>2, <3>1
      <3>4. d \in AllTemplates
        BY <1>1 DEF TemplatesMade, AllTemplates
      <3> QED
        BY <3>2, <3>3, <3>4, PartsLocal
    <2>4. PartsUpTo(m, b)
      <3>1. b = [d \in TemplatesMade(m) |-> b[d]]
        OBVIOUS
      <3> HIDE DEF b
      <3> QED
        BY <2>3, <3>1 DEF PartsUpTo
    <2> QED
      BY <2>4
  <1> HIDE DEF Reached
  <1>4. n \in Reached
    BY <1>1, <1>2, <1>3, Upwards
  <1> QED
    BY <1>4 DEF Reached

(* Parts, one template at a time. *)
LEMMA PartsUnfolds ==
  ASSUME NEW d \in AllTemplates
  PROVE  /\ predicate_children(d) \subseteq AllTemplates
         /\ Parts(d)
              = PartsBody(d, [c \in AllTemplates |-> Parts(c)])
  <1> DEFINE a == CHOOSE g : PartsUpTo(Len(Templates), g)
  <1>1. a = [c \in AllTemplates |-> PartsBody(c, a)]
    <2>1. \E g : PartsUpTo(Len(Templates), g)
      <3>1. Len(Templates) \in 0 .. Len(Templates)
        BY TemplatesAssumption
      <3> QED
        BY <3>1, PartsExists
    <2> QED
      BY <2>1 DEF PartsUpTo, AllTemplates
  <1>2. \A c \in AllTemplates : Parts(c) = a[c]
    BY DEF Parts, PartsBody, PartsUpTo, AllTemplates
  <1> HIDE DEF a
  <1>3. [c \in AllTemplates |-> Parts(c)] = a
    BY <1>1, <1>2
  <1>4. predicate_children(d) \subseteq AllTemplates
    BY TemplatesClosed, TemplatesAssumption DEF AllTemplates
  <1> QED
    BY <1>1, <1>2, <1>3, <1>4

(* What a template compiles to depends on what its children compile to. *)
LEMMA CompiledLocal ==
  ASSUME NEW q \in AllTemplates, NEW g, NEW h, \A r \in predicate_children(q) : g[r] = h[r]
  PROVE  Compiled(q, g) = Compiled(q, h)
  <1>1. IsTemplate(q, AllTemplates)
    BY TemplatesAreTemplates
  <1>2. CASE q.kind \in {"all", "any", "cardinality"}
    <2>1. predicate_children(q) = {q.operands[i] : i \in 1 .. Len(q.operands)}
      BY <1>2 DEF predicate_children
    <2>2. [i \in 1 .. Len(q.operands) |-> g[q.operands[i]]]
            = [i \in 1 .. Len(q.operands) |-> h[q.operands[i]]]
      BY <2>1
    <2> QED
      BY <1>2, <2>2 DEF Compiled
  <1>3. CASE q.kind \in {"association", "ordering", "numeric_difference"}
    BY <1>3 DEF Compiled
  <1>4. CASE q.kind = "not"
    <2>1. g[q.operand] = h[q.operand]
      BY <1>4 DEF predicate_children
    <2> QED
      BY <1>4, <2>1 DEF Compiled
  <1>5. CASE q.kind \in {"exclusive", "equivalent"}
    <2>1. g[q.left] = h[q.left] /\ g[q.right] = h[q.right]
      BY <1>5 DEF predicate_children
    <2> QED
      BY <1>5, <2>1 DEF Compiled
  <1>6. CASE q.kind = "conditional"
    <2>1. g[q.premise] = h[q.premise] /\ g[q.conclusion] = h[q.conclusion]
      BY <1>6 DEF predicate_children
    <2> QED
      BY <1>6, <2>1 DEF Compiled
  <1> QED
    BY <1>1, <1>2, <1>3, <1>4, <1>5, <1>6 DEF IsTemplate

(* What is computed up to the n-th one. *)
CompiledUpTo(n, g) == g = [d \in TemplatesMade(n) |-> Compiled(d, g)]

(* Computed one after the other, all are. *)
LEMMA CompiledExists ==
  ASSUME NEW n \in 0 .. Len(Templates)
  PROVE  \E g : CompiledUpTo(n, g)
  <1> DEFINE Reached == {m \in 0 .. Len(Templates) : \E g : CompiledUpTo(m, g)}
  <1>1. Len(Templates) \in Nat
    BY TemplatesAssumption
  <1>2. 0 \in Reached
    <2>1. TemplatesMade(0) = {}
      BY DEF TemplatesMade
    <2>2. CompiledUpTo(0, [d \in {} |-> d])
      BY <2>1 DEF CompiledUpTo
    <2> QED
      BY <1>1, <2>2
  <1>3. ASSUME NEW m \in 1 .. Len(Templates), m - 1 \in Reached PROVE m \in Reached
    <2>1. PICK a : CompiledUpTo(m - 1, a)
      BY <1>3
    <2> DEFINE b == [d \in TemplatesMade(m) |->
                   IF d \in TemplatesMade(m - 1) THEN a[d] ELSE Compiled(d, a)]
    <2>2. \A c \in TemplatesMade(m - 1) : b[c] = a[c]
      BY TemplatesNext
    <2>3. ASSUME NEW d \in TemplatesMade(m) PROVE b[d] = Compiled(d, b)
      <3>1. predicate_children(d) \subseteq TemplatesMade(m - 1)
        BY <1>1, TemplatesNext, TemplatesClosed
      <3>2. b[d] = Compiled(d, a)
        BY <2>1 DEF CompiledUpTo
      <3> HIDE DEF b
      <3>3. \A c \in predicate_children(d) : b[c] = a[c]
        BY <2>2, <3>1
      <3>4. d \in AllTemplates
        BY <1>1 DEF TemplatesMade, AllTemplates
      <3> QED
        BY <3>2, <3>3, <3>4, CompiledLocal
    <2>4. CompiledUpTo(m, b)
      <3>1. b = [d \in TemplatesMade(m) |-> b[d]]
        OBVIOUS
      <3> HIDE DEF b
      <3> QED
        BY <2>3, <3>1 DEF CompiledUpTo
    <2> QED
      BY <2>4
  <1> HIDE DEF Reached
  <1>4. n \in Reached
    BY <1>1, <1>2, <1>3, Upwards
  <1> QED
    BY <1>4 DEF Reached

(* compile_predicate, one template at a time. *)
LEMMA CompiledUnfolds ==
  ASSUME NEW d \in AllTemplates
  PROVE  /\ predicate_children(d) \subseteq AllTemplates
         /\ compile_predicate(d)
              = Compiled(d, [c \in AllTemplates |-> compile_predicate(c)])
  <1> DEFINE a == CHOOSE g : CompiledUpTo(Len(Templates), g)
  <1>1. a = [c \in AllTemplates |-> Compiled(c, a)]
    <2>1. \E g : CompiledUpTo(Len(Templates), g)
      <3>1. Len(Templates) \in 0 .. Len(Templates)
        BY TemplatesAssumption
      <3> QED
        BY <3>1, CompiledExists
    <2> QED
      BY <2>1 DEF CompiledUpTo, AllTemplates
  <1>2. \A c \in AllTemplates : compile_predicate(c) = a[c]
    BY DEF compile_predicate, CompiledUpTo, AllTemplates
  <1> HIDE DEF a
  <1>3. [c \in AllTemplates |-> compile_predicate(c)] = a
    BY <1>1, <1>2
  <1>4. predicate_children(d) \subseteq AllTemplates
    BY TemplatesClosed, TemplatesAssumption DEF AllTemplates
  <1> QED
    BY <1>1, <1>2, <1>3, <1>4

MeansBody(f, number, q, g) == Says(q, f, number, {r \in predicate_children(q) : g[r]})

(* Only what the children say matters. *)
LEMMA MeansLocal ==
  ASSUME NEW f, NEW number,
         NEW q \in AllTemplates, NEW g, NEW h, \A r \in predicate_children(q) : g[r] = h[r]
  PROVE  MeansBody(f, number, q, g) = MeansBody(f, number, q, h)
  <1>1. {r \in predicate_children(q) : g[r]} = {r \in predicate_children(q) : h[r]}
    OBVIOUS
  <1> QED
    BY <1>1 DEF MeansBody

(* What is computed up to the n-th one. *)
MeansUpTo(f, number, n, g) == g = [d \in TemplatesMade(n) |-> MeansBody(f, number, d, g)]

(* Computed one after the other, all are. *)
LEMMA MeansExists ==
  ASSUME NEW f, NEW number, NEW n \in 0 .. Len(Templates)
  PROVE  \E g : MeansUpTo(f, number, n, g)
  <1> DEFINE Reached == {m \in 0 .. Len(Templates) : \E g : MeansUpTo(f, number, m, g)}
  <1>1. Len(Templates) \in Nat
    BY TemplatesAssumption
  <1>2. 0 \in Reached
    <2>1. TemplatesMade(0) = {}
      BY DEF TemplatesMade
    <2>2. MeansUpTo(f, number, 0, [d \in {} |-> d])
      BY <2>1 DEF MeansUpTo
    <2> QED
      BY <1>1, <2>2
  <1>3. ASSUME NEW m \in 1 .. Len(Templates), m - 1 \in Reached PROVE m \in Reached
    <2>1. PICK a : MeansUpTo(f, number, m - 1, a)
      BY <1>3
    <2> DEFINE b == [d \in TemplatesMade(m) |->
                   IF d \in TemplatesMade(m - 1) THEN a[d] ELSE MeansBody(f, number, d, a)]
    <2>2. \A c \in TemplatesMade(m - 1) : b[c] = a[c]
      BY TemplatesNext
    <2>3. ASSUME NEW d \in TemplatesMade(m) PROVE b[d] = MeansBody(f, number, d, b)
      <3>1. predicate_children(d) \subseteq TemplatesMade(m - 1)
        BY <1>1, TemplatesNext, TemplatesClosed
      <3>2. b[d] = MeansBody(f, number, d, a)
        BY <2>1 DEF MeansUpTo
      <3> HIDE DEF b
      <3>3. \A c \in predicate_children(d) : b[c] = a[c]
        BY <2>2, <3>1
      <3>4. d \in AllTemplates
        BY <1>1 DEF TemplatesMade, AllTemplates
      <3> QED
        BY <3>2, <3>3, <3>4, MeansLocal
    <2>4. MeansUpTo(f, number, m, b)
      <3>1. b = [d \in TemplatesMade(m) |-> b[d]]
        OBVIOUS
      <3> HIDE DEF b
      <3> QED
        BY <2>3, <3>1 DEF MeansUpTo
    <2> QED
      BY <2>4
  <1> HIDE DEF Reached
  <1>4. n \in Reached
    BY <1>1, <1>2, <1>3, Upwards
  <1> QED
    BY <1>4 DEF Reached

(* Means, one template at a time. *)
LEMMA MeansUnfolds ==
  ASSUME NEW f, NEW number, NEW d \in AllTemplates
  PROVE  /\ predicate_children(d) \subseteq AllTemplates
         /\ Means(d, f, number)
              = MeansBody(f, number, d, [c \in AllTemplates |-> Means(c, f, number)])
  <1> DEFINE a == CHOOSE g : MeansUpTo(f, number, Len(Templates), g)
  <1>1. a = [c \in AllTemplates |-> MeansBody(f, number, c, a)]
    <2>1. \E g : MeansUpTo(f, number, Len(Templates), g)
      <3>1. Len(Templates) \in 0 .. Len(Templates)
        BY TemplatesAssumption
      <3> QED
        BY <3>1, MeansExists
    <2> QED
      BY <2>1 DEF MeansUpTo, AllTemplates
  <1>2. \A c \in AllTemplates : Means(c, f, number) = a[c]
    BY DEF Means, MeansBody, MeansUpTo, AllTemplates
  <1> HIDE DEF a
  <1>3. [c \in AllTemplates |-> Means(c, f, number)] = a
    BY <1>1, <1>2
  <1>4. predicate_children(d) \subseteq AllTemplates
    BY TemplatesClosed, TemplatesAssumption DEF AllTemplates
  <1> QED
    BY <1>1, <1>2, <1>3, <1>4

(* The value of a number in a grid depends on its parts' values. *)
LEMMA GridNumberLocal ==
  ASSUME NEW f, NEW anchor,
         NEW q \in AllExpressions, NEW g, NEW h, \A r \in Children(q) : g[r] = h[r]
  PROVE  grid_number(q, f, anchor, g) = grid_number(q, f, anchor, h)
  <1>1. CASE q.kind = "subtract"
    <2>1. g[q.left] = h[q.left] /\ g[q.right] = h[q.right]
      BY <1>1 DEF Children, Comparisons
    <2> QED
      BY <1>1, <2>1 DEF grid_number
  <1> QED
    BY <1>1 DEF grid_number

(* What is computed up to the n-th one. *)
GridNumberUpTo(f, anchor, n, g) == g = [d \in Made(n) |-> grid_number(d, f, anchor, g)]

(* Computed one after the other, all are. *)
LEMMA GridNumberExists ==
  ASSUME NEW f, NEW anchor, NEW n \in 0 .. Len(Expressions)
  PROVE  \E g : GridNumberUpTo(f, anchor, n, g)
  <1> DEFINE Reached == {m \in 0 .. Len(Expressions) : \E g : GridNumberUpTo(f, anchor, m, g)}
  <1>1. Len(Expressions) \in Nat
    BY ExpressionsAssumption
  <1>2. 0 \in Reached
    <2>1. Made(0) = {}
      BY DEF Made
    <2>2. GridNumberUpTo(f, anchor, 0, [d \in {} |-> d])
      BY <2>1 DEF GridNumberUpTo
    <2> QED
      BY <1>1, <2>2
  <1>3. ASSUME NEW m \in 1 .. Len(Expressions), m - 1 \in Reached PROVE m \in Reached
    <2>1. PICK a : GridNumberUpTo(f, anchor, m - 1, a)
      BY <1>3
    <2> DEFINE b == [d \in Made(m) |->
                   IF d \in Made(m - 1) THEN a[d] ELSE grid_number(d, f, anchor, a)]
    <2>2. \A c \in Made(m - 1) : b[c] = a[c]
      BY MadeNext
    <2>3. ASSUME NEW d \in Made(m) PROVE b[d] = grid_number(d, f, anchor, b)
      <3>1. Children(d) \subseteq Made(m - 1)
        BY <1>1, MadeNext, MadeIsClosed
      <3>2. b[d] = grid_number(d, f, anchor, a)
        BY <2>1 DEF GridNumberUpTo
      <3> HIDE DEF b
      <3>3. \A c \in Children(d) : b[c] = a[c]
        BY <2>2, <3>1
      <3>4. d \in AllExpressions
        BY <1>1 DEF Made, AllExpressions
      <3> QED
        BY <3>2, <3>3, <3>4, GridNumberLocal
    <2>4. GridNumberUpTo(f, anchor, m, b)
      <3>1. b = [d \in Made(m) |-> b[d]]
        OBVIOUS
      <3> HIDE DEF b
      <3> QED
        BY <2>3, <3>1 DEF GridNumberUpTo
    <2> QED
      BY <2>4
  <1> HIDE DEF Reached
  <1>4. n \in Reached
    BY <1>1, <1>2, <1>3, Upwards
  <1> QED
    BY <1>4 DEF Reached

(* grid_numeric, one expression at a time. *)
LEMMA GridNumberUnfolds ==
  ASSUME NEW f, NEW anchor, NEW d \in AllExpressions
  PROVE  /\ Children(d) \subseteq AllExpressions
         /\ grid_numeric(d, f, anchor)
              = grid_number(d, f, anchor, [c \in AllExpressions |-> grid_numeric(c, f, anchor)])
  <1> DEFINE a == CHOOSE g : GridNumberUpTo(f, anchor, Len(Expressions), g)
  <1>1. a = [c \in AllExpressions |-> grid_number(c, f, anchor, a)]
    <2>1. \E g : GridNumberUpTo(f, anchor, Len(Expressions), g)
      <3>1. Len(Expressions) \in 0 .. Len(Expressions)
        BY ExpressionsAssumption
      <3> QED
        BY <3>1, GridNumberExists
    <2> QED
      BY <2>1 DEF GridNumberUpTo, AllExpressions
  <1>2. \A c \in AllExpressions : grid_numeric(c, f, anchor) = a[c]
    BY DEF grid_numeric, GridNumberUpTo, AllExpressions
  <1> HIDE DEF a
  <1>3. [c \in AllExpressions |-> grid_numeric(c, f, anchor)] = a
    BY <1>1, <1>2
  <1>4. Children(d) \subseteq AllExpressions
    BY MadeIsClosed, ExpressionsAssumption DEF AllExpressions
  <1> QED
    BY <1>1, <1>2, <1>3, <1>4

(* Whether an expression holds in a grid, from whether its children do. *)
GridTruthBody(reader, f, anchor, d, g) ==
  IF direct_relation(d)
  THEN Compare(d.kind, Place(reader, f[d.left.variable], anchor),
                       Place(reader, f[d.right.variable], anchor))
  ELSE IF d.kind \in Comparisons
  THEN Compare(d.kind, grid_numeric(d.left, f, anchor), grid_numeric(d.right, f, anchor))
  ELSE Connect(d, {c \in Children(d) : g[c]})

(* Only which children hold matters. *)
LEMMA GridTruthLocal ==
  ASSUME NEW reader, NEW f, NEW anchor,
         NEW q \in AllExpressions, NEW g, NEW h, \A r \in Children(q) : g[r] = h[r]
  PROVE  GridTruthBody(reader, f, anchor, q, g) = GridTruthBody(reader, f, anchor, q, h)
  <1>1. {c \in Children(q) : g[c]} = {c \in Children(q) : h[c]}
    OBVIOUS
  <1> QED
    BY <1>1 DEF GridTruthBody

(* What is computed up to the n-th one. *)
GridTruthUpTo(reader, f, anchor, n, g) == g = [d \in Made(n) |-> GridTruthBody(reader, f, anchor, d, g)]

(* Computed one after the other, all are. *)
LEMMA GridTruthExists ==
  ASSUME NEW reader, NEW f, NEW anchor, NEW n \in 0 .. Len(Expressions)
  PROVE  \E g : GridTruthUpTo(reader, f, anchor, n, g)
  <1> DEFINE Reached == {m \in 0 .. Len(Expressions) : \E g : GridTruthUpTo(reader, f, anchor, m, g)}
  <1>1. Len(Expressions) \in Nat
    BY ExpressionsAssumption
  <1>2. 0 \in Reached
    <2>1. Made(0) = {}
      BY DEF Made
    <2>2. GridTruthUpTo(reader, f, anchor, 0, [d \in {} |-> d])
      BY <2>1 DEF GridTruthUpTo
    <2> QED
      BY <1>1, <2>2
  <1>3. ASSUME NEW m \in 1 .. Len(Expressions), m - 1 \in Reached PROVE m \in Reached
    <2>1. PICK a : GridTruthUpTo(reader, f, anchor, m - 1, a)
      BY <1>3
    <2> DEFINE b == [d \in Made(m) |->
                   IF d \in Made(m - 1) THEN a[d] ELSE GridTruthBody(reader, f, anchor, d, a)]
    <2>2. \A c \in Made(m - 1) : b[c] = a[c]
      BY MadeNext
    <2>3. ASSUME NEW d \in Made(m) PROVE b[d] = GridTruthBody(reader, f, anchor, d, b)
      <3>1. Children(d) \subseteq Made(m - 1)
        BY <1>1, MadeNext, MadeIsClosed
      <3>2. b[d] = GridTruthBody(reader, f, anchor, d, a)
        BY <2>1 DEF GridTruthUpTo
      <3> HIDE DEF b
      <3>3. \A c \in Children(d) : b[c] = a[c]
        BY <2>2, <3>1
      <3>4. d \in AllExpressions
        BY <1>1 DEF Made, AllExpressions
      <3> QED
        BY <3>2, <3>3, <3>4, GridTruthLocal
    <2>4. GridTruthUpTo(reader, f, anchor, m, b)
      <3>1. b = [d \in Made(m) |-> b[d]]
        OBVIOUS
      <3> HIDE DEF b
      <3> QED
        BY <2>3, <3>1 DEF GridTruthUpTo
    <2> QED
      BY <2>4
  <1> HIDE DEF Reached
  <1>4. n \in Reached
    BY <1>1, <1>2, <1>3, Upwards
  <1> QED
    BY <1>4 DEF Reached

(* grid, one expression at a time. *)
LEMMA GridTruthUnfolds ==
  ASSUME NEW reader, NEW f, NEW anchor, NEW d \in AllExpressions
  PROVE  /\ Children(d) \subseteq AllExpressions
         /\ grid(reader, d, f, anchor)
              = GridTruthBody(reader, f, anchor, d, [c \in AllExpressions |-> grid(reader, c, f, anchor)])
  <1> DEFINE a == CHOOSE g : GridTruthUpTo(reader, f, anchor, Len(Expressions), g)
  <1>1. a = [c \in AllExpressions |-> GridTruthBody(reader, f, anchor, c, a)]
    <2>1. \E g : GridTruthUpTo(reader, f, anchor, Len(Expressions), g)
      <3>1. Len(Expressions) \in 0 .. Len(Expressions)
        BY ExpressionsAssumption
      <3> QED
        BY <3>1, GridTruthExists
    <2> QED
      BY <2>1 DEF GridTruthUpTo, AllExpressions
  <1>2. \A c \in AllExpressions : grid(reader, c, f, anchor) = a[c]
    BY DEF grid, GridTruthBody, GridTruthUpTo, AllExpressions
  <1> HIDE DEF a
  <1>3. [c \in AllExpressions |-> grid(reader, c, f, anchor)] = a
    BY <1>1, <1>2
  <1>4. Children(d) \subseteq AllExpressions
    BY MadeIsClosed, ExpressionsAssumption DEF AllExpressions
  <1> QED
    BY <1>1, <1>2, <1>3, <1>4

(* Whether the specification accepts an expression, from whether it does its children. *)
AcceptedBody(spec, d, g) ==
  /\ CASE d.kind = "variable_reference" -> d.variable \in AllVariables(spec)
       [] d.kind \in {"constant", "subtract"} -> HasNumbers(AnchorDomain(spec))
       [] d.kind \in {"equal", "not_equal"} ->
            direct_relation(d) \/ HasNumbers(AnchorDomain(spec))
       [] d.kind \in Comparisons \ {"equal", "not_equal"} -> AnchorDomain(spec).ordered
       [] d.kind \notin Comparisons \cup {"variable_reference", "constant", "subtract"} -> TRUE
  /\ \A x \in Children(d) : g[x]

(* Only which children are accepted matters. *)
LEMMA AcceptedLocal ==
  ASSUME NEW spec,
         NEW q \in AllExpressions, NEW g, NEW h, \A r \in Children(q) : g[r] = h[r]
  PROVE  AcceptedBody(spec, q, g) = AcceptedBody(spec, q, h)
  BY DEF AcceptedBody

(* What is computed up to the n-th one. *)
AcceptedUpTo(spec, n, g) == g = [d \in Made(n) |-> AcceptedBody(spec, d, g)]

(* Computed one after the other, all are. *)
LEMMA AcceptedExists ==
  ASSUME NEW spec, NEW n \in 0 .. Len(Expressions)
  PROVE  \E g : AcceptedUpTo(spec, n, g)
  <1> DEFINE Reached == {m \in 0 .. Len(Expressions) : \E g : AcceptedUpTo(spec, m, g)}
  <1>1. Len(Expressions) \in Nat
    BY ExpressionsAssumption
  <1>2. 0 \in Reached
    <2>1. Made(0) = {}
      BY DEF Made
    <2>2. AcceptedUpTo(spec, 0, [d \in {} |-> d])
      BY <2>1 DEF AcceptedUpTo
    <2> QED
      BY <1>1, <2>2
  <1>3. ASSUME NEW m \in 1 .. Len(Expressions), m - 1 \in Reached PROVE m \in Reached
    <2>1. PICK a : AcceptedUpTo(spec, m - 1, a)
      BY <1>3
    <2> DEFINE b == [d \in Made(m) |->
                   IF d \in Made(m - 1) THEN a[d] ELSE AcceptedBody(spec, d, a)]
    <2>2. \A c \in Made(m - 1) : b[c] = a[c]
      BY MadeNext
    <2>3. ASSUME NEW d \in Made(m) PROVE b[d] = AcceptedBody(spec, d, b)
      <3>1. Children(d) \subseteq Made(m - 1)
        BY <1>1, MadeNext, MadeIsClosed
      <3>2. b[d] = AcceptedBody(spec, d, a)
        BY <2>1 DEF AcceptedUpTo
      <3> HIDE DEF b
      <3>3. \A c \in Children(d) : b[c] = a[c]
        BY <2>2, <3>1
      <3>4. d \in AllExpressions
        BY <1>1 DEF Made, AllExpressions
      <3> QED
        BY <3>2, <3>3, <3>4, AcceptedLocal
    <2>4. AcceptedUpTo(spec, m, b)
      <3>1. b = [d \in Made(m) |-> b[d]]
        OBVIOUS
      <3> HIDE DEF b
      <3> QED
        BY <2>3, <3>1 DEF AcceptedUpTo
    <2> QED
      BY <2>4
  <1> HIDE DEF Reached
  <1>4. n \in Reached
    BY <1>1, <1>2, <1>3, Upwards
  <1> QED
    BY <1>4 DEF Reached

(* validate_expression, one expression at a time. *)
LEMMA AcceptedUnfolds ==
  ASSUME NEW spec, NEW d \in AllExpressions
  PROVE  /\ Children(d) \subseteq AllExpressions
         /\ validate_expression(d, spec)
              = AcceptedBody(spec, d, [c \in AllExpressions |-> validate_expression(c, spec)])
  <1> DEFINE a == CHOOSE g : AcceptedUpTo(spec, Len(Expressions), g)
  <1>1. a = [c \in AllExpressions |-> AcceptedBody(spec, c, a)]
    <2>1. \E g : AcceptedUpTo(spec, Len(Expressions), g)
      <3>1. Len(Expressions) \in 0 .. Len(Expressions)
        BY ExpressionsAssumption
      <3> QED
        BY <3>1, AcceptedExists
    <2> QED
      BY <2>1 DEF AcceptedUpTo, AllExpressions
  <1>2. \A c \in AllExpressions : validate_expression(c, spec) = a[c]
    BY DEF validate_expression, AcceptedBody, AcceptedUpTo, AllExpressions
  <1> HIDE DEF a
  <1>3. [c \in AllExpressions |-> validate_expression(c, spec)] = a
    BY <1>1, <1>2
  <1>4. Children(d) \subseteq AllExpressions
    BY MadeIsClosed, ExpressionsAssumption DEF AllExpressions
  <1> QED
    BY <1>1, <1>2, <1>3, <1>4
----------------------------------------------------------------------------
(* What a compiled template means. *)

(* A relation of two items, as every reader has it. *)
LEMMA RelationsOfItems ==
  ASSUME NEW reader \in Readers, NEW f, NEW rows, NEW kind \in Comparisons, NEW l, NEW r,
         Relation(kind, Reference(l), Reference(r)) \in AllExpressions,
         f[l] \in DOMAIN rows, f[r] \in DOMAIN rows,
         \A i \in DOMAIN rows : rows[i].ordinal = i
  PROVE  read_grid(reader, Relation(kind, Reference(l), Reference(r)), f, rows)
           = Compare(kind, f[l], f[r])
  <1> DEFINE e == Relation(kind, Reference(l), Reference(r))
             g == [c \in AllExpressions |-> grid(reader, c, f, rows)]
  <1>1. read_grid(reader, e, f, rows) = grid(reader, e, f, rows)
    BY DEF read_grid, Readers, grid_rules, grid_checker, grid_z3, grid_cpsat
  <1>2. grid(reader, e, f, rows) = GridTruthBody(reader, f, rows, e, g)
    BY GridTruthUnfolds
  <1>3. /\ direct_relation(e) /\ e.kind = kind
        /\ e.left.variable = l /\ e.right.variable = r
    BY DEF direct_relation, Relation, Reference
  <1>4. Place(reader, f[l], rows) = f[l] /\ Place(reader, f[r], rows) = f[r]
    BY DEF Place
  <1> HIDE DEF e, g
  <1>5. grid(reader, e, f, rows) = Compare(kind, f[l], f[r])
    BY <1>2, <1>3, <1>4 DEF GridTruthBody
  <1> QED
    BY <1>1, <1>5 DEF e

(* A difference of two items' numbers, as every reader has it. *)
LEMMA DifferencesOfItems ==
  ASSUME NEW reader \in Readers, NEW f, NEW rows, NEW value, NEW l, NEW r,
         Relation("equal", Relation("subtract", Reference(l), Reference(r)),
                  [kind |-> "constant", value |-> value]) \in AllExpressions
  PROVE  read_grid(reader, Relation("equal", Relation("subtract", Reference(l), Reference(r)),
                                    [kind |-> "constant", value |-> value]), f, rows)
           = (rows[f[l]].numeric_value - rows[f[r]].numeric_value = value)
  <1> DEFINE n == [kind |-> "constant", value |-> value]
             s == Relation("subtract", Reference(l), Reference(r))
             e == Relation("equal", s, n)
             g == [c \in AllExpressions |-> grid(reader, c, f, rows)]
             h == [c \in AllExpressions |-> grid_numeric(c, f, rows)]
  <1>1. read_grid(reader, e, f, rows) = grid(reader, e, f, rows)
    BY DEF read_grid, Readers, grid_rules, grid_checker, grid_z3, grid_cpsat
  <1>2. /\ Children(e) \subseteq AllExpressions
        /\ grid(reader, e, f, rows) = GridTruthBody(reader, f, rows, e, g)
    BY GridTruthUnfolds
  <1>3. e.kind = "equal" /\ e.left = s /\ e.right = n
    BY DEF Relation
  <1>4. s.kind = "subtract" /\ s.left = Reference(l) /\ s.right = Reference(r)
    BY DEF Relation
  <1>5. s \in AllExpressions /\ n \in AllExpressions
    <2>1. Children(e) = {s, n}
      BY <1>3 DEF Children, Comparisons
    <2> QED
      BY <1>2, <2>1
  <1>6. Reference(l) \in AllExpressions /\ Reference(r) \in AllExpressions
    <2>1. Children(s) \subseteq AllExpressions
      BY <1>5, GridNumberUnfolds
    <2>2. Children(s) = {Reference(l), Reference(r)}
      BY <1>4 DEF Children, Comparisons
    <2> QED
      BY <2>1, <2>2
  <1>7. \A x \in AllExpressions : grid_numeric(x, f, rows) = grid_number(x, f, rows, h)
    BY GridNumberUnfolds
  <1>8. grid_numeric(n, f, rows) = value
    BY <1>5, <1>7 DEF grid_number
  <1>9. /\ grid_numeric(Reference(l), f, rows) = rows[f[l]].numeric_value
        /\ grid_numeric(Reference(r), f, rows) = rows[f[r]].numeric_value
    BY <1>6, <1>7 DEF grid_number, Reference
  <1>10. grid_numeric(s, f, rows) = rows[f[l]].numeric_value - rows[f[r]].numeric_value
    <2>1. h[Reference(l)] = rows[f[l]].numeric_value /\ h[Reference(r)] = rows[f[r]].numeric_value
      BY <1>6, <1>9
    <2>2. grid_numeric(s, f, rows) = grid_number(s, f, rows, h)
      BY <1>5, <1>7
    <2> HIDE DEF h, s
    <2> QED
      BY <1>4, <2>1, <2>2 DEF grid_number
  <1>11. ~direct_relation(e)
    BY <1>3, <1>4 DEF direct_relation
  <1> HIDE DEF e, g, h, s, n
  <1>12. grid(reader, e, f, rows) = Compare("equal", grid_numeric(s, f, rows), grid_numeric(n, f, rows))
    BY <1>2, <1>3, <1>11 DEF GridTruthBody, Comparisons
  <1>13. read_grid(reader, e, f, rows)
           = (rows[f[l]].numeric_value - rows[f[r]].numeric_value = value)
    BY <1>1, <1>8, <1>10, <1>12 DEF Compare
  <1> QED
    BY <1>13 DEF e, s, n

(* A connective, as every reader has it. *)
LEMMA ConnectivesOfParts ==
  ASSUME NEW reader \in Readers, NEW f, NEW rows, NEW e \in AllExpressions,
         e.kind \notin Comparisons
  PROVE  read_grid(reader, e, f, rows)
           = Connect(e, {c \in Children(e) : read_grid(reader, c, f, rows)})
  <1> DEFINE g == [c \in AllExpressions |-> grid(reader, c, f, rows)]
  <1>1. \A x : read_grid(reader, x, f, rows) = grid(reader, x, f, rows)
    BY DEF read_grid, Readers, grid_rules, grid_checker, grid_z3, grid_cpsat
  <1>2. /\ Children(e) \subseteq AllExpressions
        /\ grid(reader, e, f, rows) = GridTruthBody(reader, f, rows, e, g)
    BY GridTruthUnfolds
  <1>3. ~direct_relation(e)
    BY DEF direct_relation
  <1>4. {c \in Children(e) : g[c]} = {c \in Children(e) : read_grid(reader, c, f, rows)}
    BY <1>1, <1>2
  <1> HIDE DEF g
  <1>5. grid(reader, e, f, rows) = Connect(e, {c \in Children(e) : g[c]})
    BY <1>2, <1>3 DEF GridTruthBody
  <1> QED
    BY <1>1, <1>4, <1>5

(* Whether all, some or a number of an expression's operands hold, by their count. *)
LEMMA OperandsCount ==
  ASSUME NEW n \in Nat, NEW e, Len(e.operands) = n, NEW holding, NEW I \in SUBSET (1 .. n),
         \A i \in 1 .. n : i \in I <=> e.operands[i] \in holding
  PROVE  /\ Cardinality(I) \in Nat
         /\ e.kind = "and" => Connect(e, holding) = (Cardinality(I) = n)
         /\ e.kind = "or" => Connect(e, holding) = (Cardinality(I) > 0)
         /\ e.kind = "cardinality" =>
              Connect(e, holding) = (Cardinality(I) \in e.minimum .. e.maximum)
  <1> DEFINE J == {i \in 1 .. n : e.operands[i] \in holding}
  <1>1. I = J
    OBVIOUS
  <1>2. IsFiniteSet(1 .. n) /\ Cardinality(1 .. n) = n
    BY FS_Interval
  <1>3. IsFiniteSet(I) /\ Cardinality(I) \in Nat /\ (Cardinality(1 .. n) = Cardinality(I) => I = 1 .. n)
    <2>1. IsFiniteSet(I) /\ (Cardinality(1 .. n) = Cardinality(I) => 1 .. n = I)
      BY <1>2, FS_Subset
    <2> QED
      BY <2>1, FS_CardinalityType
  <1>4. (I = 1 .. n) = (Cardinality(I) = n)
    BY <1>2, <1>3
  <1>5. (I # {}) = (Cardinality(I) > 0)
    <2>1. Cardinality(I) = 0 <=> I = {}
      BY <1>3, FS_EmptySet
    <2> DEFINE count == Cardinality(I)
    <2>2. count \in Nat
      BY <1>3
    <2> HIDE DEF count
    <2>3. count = 0 <=> I = {}
      BY <2>1 DEF count
    <2>4. (I # {}) = (count > 0)
      <3>1. count # 0 <=> count > 0
        BY <2>2
      <3>2. I # {} <=> count > 0
        BY <2>3, <3>1
      <3> QED
        BY <3>2
    <2> QED
      BY <2>4 DEF count
  <1>6. CASE e.kind = "and"
    <2>1. Connect(e, holding) = (J = 1 .. n)
      BY <1>6 DEF Connect
    <2> HIDE DEF J
    <2> QED
      BY <1>1, <1>3, <1>4, <1>6, <2>1
  <1>7. CASE e.kind = "or"
    <2>1. Connect(e, holding) = (J # {})
      BY <1>7 DEF Connect
    <2> HIDE DEF J
    <2> QED
      BY <1>1, <1>3, <1>5, <1>7, <2>1
  <1>8. CASE e.kind = "cardinality"
    <2>1. Connect(e, holding) = (Cardinality(J) \in e.minimum .. e.maximum)
      BY <1>8 DEF Connect
    <2> HIDE DEF J
    <2> QED
      BY <1>1, <1>3, <1>8, <2>1
  <1> QED
    BY <1>3, <1>6, <1>7, <1>8

(* Rows are counted from one and have their numbers. *)
Counted(rows, number) ==
  \A i \in DOMAIN rows : /\ i \in Int /\ rows[i].ordinal = i
                         /\ rows[i].numeric_value \in Int
                         /\ number[i] = rows[i].numeric_value

(* A template means to every reader what the author said, when its parts do. *)
LEMMA TemplateMeans ==
  ASSUME NEW reader \in Readers, NEW f, NEW rows, NEW number, NEW p \in AllTemplates,
         \A r \in direct_refs(p) : f[r] \in DOMAIN rows,
         Counted(rows, number),
         \A r \in predicate_children(p) :
           /\ Means(r, f, number) \in BOOLEAN
           /\ read_grid(reader, compile_predicate(r), f, rows) = Means(r, f, number)
  PROVE  /\ Means(p, f, number) \in BOOLEAN
         /\ read_grid(reader, compile_predicate(p), f, rows) = Means(p, f, number)
  <1>0. \A i \in DOMAIN rows : /\ i \in Int /\ rows[i].ordinal = i
                                /\ rows[i].numeric_value \in Int
                                /\ number[i] = rows[i].numeric_value
    BY DEF Counted
  <1> DEFINE compiled == [c \in AllTemplates |-> compile_predicate(c)]
             said == [c \in AllTemplates |-> Means(c, f, number)]
             true == {r \in predicate_children(p) : said[r]}
             e == compile_predicate(p)
             holding == {c \in Children(e) : read_grid(reader, c, f, rows)}
  <1>1. /\ predicate_children(p) \subseteq AllTemplates
        /\ e = Compiled(p, compiled)
    BY CompiledUnfolds
  <1>2. Means(p, f, number) = Says(p, f, number, true)
    BY MeansUnfolds DEF MeansBody
  <1>3. e \in AllExpressions
    BY CompiledAssumption
  <1>4. IsTemplate(p, AllTemplates)
    BY TemplatesAreTemplates
  <1>5. e.kind \notin Comparisons => read_grid(reader, e, f, rows) = Connect(e, holding)
    BY <1>3, ConnectivesOfParts
  <1>6. \A r \in predicate_children(p) : compiled[r] \in Children(e) =>
          (compiled[r] \in holding <=> r \in true)
    BY <1>1
  <1>7. \A r \in predicate_children(p) : compiled[r] = compile_predicate(r)
    BY <1>1
  <1> HIDE DEF compiled, said, true, e, holding
  <1>8. CASE p.kind = "association"
    <2> DEFINE kind == IF p.relation = "same" THEN "equal" ELSE "not_equal"
    <2>1. e = Relation(kind, Reference(p.left), Reference(p.right))
      BY <1>1, <1>8 DEF Compiled
    <2>2. kind \in Comparisons
      BY DEF Comparisons
    <2>3. f[p.left] \in DOMAIN rows /\ f[p.right] \in DOMAIN rows
      BY <1>8 DEF direct_refs
    <2> HIDE DEF kind
    <2>4. read_grid(reader, e, f, rows) = Compare(kind, f[p.left], f[p.right])
      BY <1>0, <1>3, <2>1, <2>2, <2>3, RelationsOfItems
    <2>5. Says(p, f, number, true) = ((f[p.left] = f[p.right]) = (p.relation = "same"))
      BY <1>8 DEF Says
    <2>6. Compare(kind, f[p.left], f[p.right]) = ((f[p.left] = f[p.right]) = (p.relation = "same"))
      BY DEF Compare, kind
    <2>7. Says(p, f, number, true) \in BOOLEAN
      BY <2>5
    <2>8. read_grid(reader, e, f, rows) = Says(p, f, number, true)
      BY <2>4, <2>5, <2>6
    <2> QED
      BY <1>2, <2>7, <2>8 DEF e
  <1>9. CASE p.kind = "ordering"
    <2>1. e = Relation("less_than", Reference(p.earlier), Reference(p.later))
      BY <1>1, <1>9 DEF Compiled
    <2>2. f[p.earlier] \in DOMAIN rows /\ f[p.later] \in DOMAIN rows
      BY <1>9 DEF direct_refs
    <2>3. read_grid(reader, e, f, rows) = Compare("less_than", f[p.earlier], f[p.later])
      BY <1>0, <1>3, <2>1, <2>2, RelationsOfItems DEF Comparisons
    <2>4. Says(p, f, number, true) = (f[p.earlier] < f[p.later])
      BY <1>9 DEF Says
    <2>5. read_grid(reader, e, f, rows) = (f[p.earlier] < f[p.later])
      BY <2>3 DEF Compare
    <2>6. (f[p.earlier] < f[p.later]) \in BOOLEAN
      BY <1>0, <2>2
    <2> QED
      BY <1>2, <2>4, <2>5, <2>6 DEF e
  <1>10. CASE p.kind = "numeric_difference"
    <2> DEFINE m == rows[f[p.greater]].numeric_value
               l == rows[f[p.lesser]].numeric_value
    <2>1. e = Relation("equal", Relation("subtract", Reference(p.greater), Reference(p.lesser)),
                       [kind |-> "constant", value |-> p.difference])
      BY <1>1, <1>10 DEF Compiled
    <2>2. f[p.greater] \in DOMAIN rows /\ f[p.lesser] \in DOMAIN rows
      BY <1>10 DEF direct_refs
    <2>3. /\ number[f[p.greater]] = m /\ m \in Int
          /\ number[f[p.lesser]] = l /\ l \in Int
      BY <1>0, <2>2
    <2>4. p.difference \in Int
      BY <1>4, <1>10 DEF IsTemplate
    <2>5. read_grid(reader, e, f, rows) = (m - l = p.difference)
      BY <1>3, <2>1, DifferencesOfItems
    <2>6. Says(p, f, number, true) = (number[f[p.greater]] = number[f[p.lesser]] + p.difference)
      BY <1>10 DEF Says
    <2> HIDE DEF m, l
    <2> QED
      BY <1>2, <2>3, <2>4, <2>5, <2>6 DEF e
  <1>11. CASE p.kind \in {"all", "any", "cardinality"}
    <2> DEFINE n == Len(p.operands)
               operands == p.operands
               I == {i \in 1 .. n : operands[i] \in true}
               count == Cardinality(I)
    <2>1. operands \in Seq(AllTemplates) /\ n \in Nat
      BY <1>4, <1>11 DEF IsTemplate
    <2>2. predicate_children(p) = {operands[i] : i \in 1 .. n}
      BY <1>11 DEF predicate_children
    <2>3. /\ e.kind = IF p.kind = "all" THEN "and" ELSE IF p.kind = "any" THEN "or" ELSE p.kind
          /\ e.operands = [i \in 1 .. n |-> compiled[operands[i]]]
          /\ p.kind = "cardinality" => e.minimum = p.minimum /\ e.maximum = p.maximum
      BY <1>1, <1>11 DEF Compiled
    <2> HIDE DEF n, operands
    <2>4. Len(e.operands) = n
      BY <2>1, <2>3
    <2>5. \A i \in 1 .. n : compiled[operands[i]] \in holding <=> operands[i] \in true
      <3>1. Children(e) = {e.operands[i] : i \in 1 .. n}
        BY <1>11, <2>3, <2>4 DEF Children, Comparisons
      <3>2. \A i \in 1 .. n :
              operands[i] \in predicate_children(p) /\ compiled[operands[i]] \in Children(e)
        BY <2>2, <2>3, <3>1
      <3> QED
        BY <1>6, <3>2
    <2>6. /\ count \in Nat
          /\ e.kind = "and" => Connect(e, holding) = (count = n)
          /\ e.kind = "or" => Connect(e, holding) = (count > 0)
          /\ e.kind = "cardinality" => Connect(e, holding) = (count \in e.minimum .. e.maximum)
      <3>1. I \in SUBSET (1 .. n) /\ \A i \in 1 .. n : i \in I <=> e.operands[i] \in holding
        BY <2>3, <2>5
      <3> HIDE DEF I
      <3> QED
        BY <2>1, <2>4, <3>1, OperandsCount
    <2>7. /\ p.kind = "all" => Says(p, f, number, true) = (count = n)
          /\ p.kind = "any" => Says(p, f, number, true) = (count > 0)
          /\ p.kind = "cardinality" =>
               Says(p, f, number, true) = (p.minimum <= count /\ count <= p.maximum)
      BY DEF Says, n, operands
    <2>8. p.kind = "cardinality" => p.minimum \in Int /\ p.maximum \in Int
      BY <1>4 DEF IsTemplate
    <2> HIDE DEF count
    <2>9. e.kind \notin Comparisons
      BY <1>11, <2>3 DEF Comparisons
    <2>10. CASE p.kind = "all"
      <3>1. Connect(e, holding) = (count = n)
        BY <2>3, <2>6, <2>10
      <3> QED
        BY <1>2, <1>5, <2>7, <2>9, <2>10, <3>1 DEF e
    <2>11. CASE p.kind = "any"
      <3>1. Connect(e, holding) = (count > 0)
        BY <2>3, <2>6, <2>11
      <3> QED
        BY <1>2, <1>5, <2>7, <2>9, <2>11, <3>1 DEF e
    <2>12. CASE p.kind = "cardinality"
      <3>1. Connect(e, holding) = (p.minimum <= count /\ count <= p.maximum)
        BY <2>3, <2>6, <2>8, <2>12
      <3> QED
        BY <1>2, <1>5, <2>7, <2>9, <2>12, <3>1 DEF e
    <2> QED
      BY <1>11, <2>10, <2>11, <2>12
  <1>12. CASE p.kind = "not"
    <2>1. e.kind = "not" /\ e.operand = compiled[p.operand]
      BY <1>1, <1>12 DEF Compiled
    <2>2. p.operand \in predicate_children(p)
      BY <1>12 DEF predicate_children
    <2>3. e.operand \in Children(e)
      BY <2>1 DEF Children, Comparisons
    <2>4. Connect(e, holding) = (e.operand \notin holding)
      BY <2>1 DEF Connect
    <2>5. Says(p, f, number, true) = (p.operand \notin true)
      BY <1>12 DEF Says
    <2> QED
      BY <1>2, <1>5, <1>6, <2>1, <2>2, <2>3, <2>4, <2>5 DEF e, Comparisons
  <1>13. CASE p.kind \in {"exclusive", "equivalent"}
    <2>1. /\ e.kind = IF p.kind = "exclusive" THEN "xor" ELSE "equivalent"
          /\ e.left = compiled[p.left] /\ e.right = compiled[p.right]
      BY <1>1, <1>13 DEF Compiled, exclusive, Relation
    <2>2. {p.left, p.right} \subseteq predicate_children(p)
      BY <1>13 DEF predicate_children
    <2>3. {e.left, e.right} \subseteq Children(e)
      BY <1>13, <2>1 DEF Children
    <2>4. /\ e.left \in holding <=> p.left \in true
          /\ e.right \in holding <=> p.right \in true
      BY <1>6, <2>1, <2>2, <2>3
    <2>5. e.kind \notin Comparisons
      BY <1>13, <2>1 DEF Comparisons
    <2>6. CASE p.kind = "exclusive"
      <3>1. Connect(e, holding) = ((e.left \in holding) # (e.right \in holding))
        BY <2>1, <2>6 DEF Connect
      <3>2. Says(p, f, number, true) = ((p.left \in true) # (p.right \in true))
        BY <2>6 DEF Says
      <3> QED
        BY <1>2, <1>5, <2>4, <2>5, <3>1, <3>2 DEF e
    <2>7. CASE p.kind = "equivalent"
      <3>1. Connect(e, holding) = ((e.left \in holding) = (e.right \in holding))
        BY <2>1, <2>7 DEF Connect
      <3>2. Says(p, f, number, true) = ((p.left \in true) = (p.right \in true))
        BY <2>7 DEF Says
      <3> QED
        BY <1>2, <1>5, <2>4, <2>5, <3>1, <3>2 DEF e
    <2> QED
      BY <1>13, <2>6, <2>7
  <1>14. CASE p.kind = "conditional"
    <2>1. e.kind = "implies" /\ e.premise = compiled[p.premise] /\ e.conclusion = compiled[p.conclusion]
      BY <1>1, <1>14 DEF Compiled
    <2>2. {p.premise, p.conclusion} \subseteq predicate_children(p)
      BY <1>14 DEF predicate_children
    <2>3. {e.premise, e.conclusion} \subseteq Children(e)
      BY <2>1 DEF Children, Comparisons
    <2>4. /\ e.premise \in holding <=> p.premise \in true
          /\ e.conclusion \in holding <=> p.conclusion \in true
      BY <1>6, <2>1, <2>2, <2>3
    <2>5. Connect(e, holding) = (e.premise \in holding => e.conclusion \in holding)
      BY <2>1 DEF Connect
    <2>6. Says(p, f, number, true) = (p.premise \notin true \/ p.conclusion \in true)
      BY <1>14 DEF Says
    <2>7. e.kind \notin Comparisons
      BY <2>1 DEF Comparisons
    <2> QED
      BY <1>2, <1>5, <2>4, <2>5, <2>6, <2>7 DEF e
  <1> QED
    BY <1>4, <1>8, <1>9, <1>10, <1>11, <1>12, <1>13, <1>14 DEF IsTemplate

(* Each of some items has a row. *)
Placed(f, items, rows) == \A r \in items : f[r] \in DOMAIN rows

(* So it does for every template whose items have rows. *)
LEMMA TemplatesMean ==
  ASSUME NEW reader \in Readers, NEW f, NEW rows, NEW number, NEW items,
         Placed(f, items, rows),
         Counted(rows, number),
         NEW p \in AllTemplates, predicate_refs(p) \subseteq items
  PROVE  read_grid(reader, compile_predicate(p), f, rows) = Means(p, f, number)
  <1> DEFINE Meant(q) == /\ Means(q, f, number) \in BOOLEAN
                         /\ read_grid(reader, compile_predicate(q), f, rows) = Means(q, f, number)
             Settled == {n \in 0 .. Len(Templates) :
                           \A q \in TemplatesMade(n) : predicate_refs(q) \subseteq items => Meant(q)}
  <1>1. Len(Templates) \in Nat
    BY TemplatesAssumption
  <1>2. 0 \in Settled
    <2>1. TemplatesMade(0) = {}
      BY DEF TemplatesMade
    <2> QED
      BY <1>1, <2>1
  <1>3. ASSUME NEW n \in 1 .. Len(Templates), n - 1 \in Settled PROVE n \in Settled
    <2>1. SUFFICES ASSUME NEW q \in TemplatesMade(n), predicate_refs(q) \subseteq items PROVE Meant(q)
      BY <1>1
    <2>2. q \in AllTemplates
      BY <1>1 DEF TemplatesMade, AllTemplates
    <2>3. predicate_children(q) \subseteq TemplatesMade(n - 1) \/ q \in TemplatesMade(n - 1)
      BY TemplatesNext
    <2>4. \A r \in TemplatesMade(n - 1) : predicate_refs(r) \subseteq items => Meant(r)
      BY <1>3
    <2> HIDE DEF Settled
    <2>5. /\ predicate_children(q) \subseteq AllTemplates
          /\ Parts(q) = PartsBody(q, [c \in AllTemplates |-> Parts(c)])
      BY <2>2, PartsUnfolds
    <2>6. \A r \in predicate_children(q) : predicate_refs(r) \subseteq items
      <3>1. \A r \in predicate_children(q) : Parts(r) \subseteq Parts(q)
        BY <2>5 DEF PartsBody
      <3> QED
        BY <2>1, <3>1 DEF predicate_refs
    <2>7. direct_refs(q) \subseteq items
      <3>1. q \in Parts(q)
        BY <2>5 DEF PartsBody
      <3> QED
        BY <2>1, <3>1 DEF predicate_refs
    <2>8. CASE predicate_children(q) \subseteq TemplatesMade(n - 1)
      <3>1. \A r \in predicate_children(q) :
              /\ Means(r, f, number) \in BOOLEAN
              /\ read_grid(reader, compile_predicate(r), f, rows) = Means(r, f, number)
        BY <2>4, <2>6, <2>8
      <3>2. \A r \in direct_refs(q) : f[r] \in DOMAIN rows
        BY <2>7 DEF Placed
      <3> QED
        BY <2>2, <3>1, <3>2, TemplateMeans
    <2> QED
      BY <2>1, <2>3, <2>4, <2>8
  <1> HIDE DEF Settled
  <1>4. \A n \in 0 .. Len(Templates) : n \in Settled
    BY <1>1, <1>2, <1>3, Upwards
  <1> QED
    BY <1>1, <1>4 DEF Settled, AllTemplates

----------------------------------------------------------------------------
(* What a draft is when its messages are warnings at most. *)
FaultFree(d) ==
  /\ ~(Len(d.categories) < 3)
  /\ ~Repeats(Keys(d.categories)) /\ ~Repeats(Labels(d.categories))
  /\ \A c \in Range(d.categories) :
       /\ ~(Len(c.items) < 2)
       /\ ~(Len(d.categories[1].items) >= 2 /\ Len(c.items) # Len(d.categories[1].items))
       /\ ~Repeats(Keys(c.items)) /\ ~Repeats(Labels(c.items))
  /\ d.anchor \in Range(Keys(d.categories))
  /\ \A c \in Anchor(d) : ~((\E i \in DOMAIN Numbers(c) : Numbers(c)[i] # {})
                            /\ ({} \in Range(Numbers(c)) \/ Repeats(Numbers(c))))
  /\ d.clues # <<>> /\ ~Repeats(Keys(d.clues))
  /\ \A i \in DOMAIN d.clues : predicate_refs(d.clues[i].predicate) \subseteq Items(d)
  /\ (\E c \in Range(d.clues) : \E q \in Parts(c.predicate) : q.kind = "numeric_difference") =>
       \E a \in Anchor(d) : a.items # <<>> /\ {} \notin Range(Numbers(a))

(* What validate_draft has nothing against. *)
LEMMA FaultsAreReported ==
  ASSUME NEW d, "invalid" \notin validate_draft(d), "incomplete" \notin validate_draft(d)
  PROVE  FaultFree(d)
  <1> DEFINE messages == validate_draft(d)
  <1>0. /\ When(Len(d.categories) < 3, "incomplete") \subseteq messages
        /\ When(\/ Len(d.categories) > MaxCategories
                \/ Repeats(Keys(d.categories)) \/ Repeats(Labels(d.categories)), "invalid")
             \subseteq messages
        /\ \A c \in Range(d.categories) : CategoryMessages(d, c) \subseteq messages
        /\ AnchorMessages(d) \subseteq messages /\ NumberMessages(d) \subseteq messages
        /\ When(d.clues = <<>>, "incomplete") \subseteq messages
        /\ When(Len(d.clues) > MaxClues \/ Repeats(Keys(d.clues)), "invalid") \subseteq messages
        /\ \A i \in DOMAIN d.clues : ClueMessages(d, i) \subseteq messages
        /\ NumericClueMessages(d) \subseteq messages
    <2> DEFINE profile == When(d.title = "", "incomplete")
                          \cup When((d.profile \cup {d.title}) \cap BadText # {}, "invalid")
               few == When(Len(d.categories) < 3, "incomplete")
               many == When(\/ Len(d.categories) > MaxCategories
                            \/ Repeats(Keys(d.categories)) \/ Repeats(Labels(d.categories)), "invalid")
               each == UNION {CategoryMessages(d, c) : c \in Range(d.categories)}
               anchor == AnchorMessages(d)
               numbers == NumberMessages(d)
               none == When(d.clues = <<>>, "incomplete")
               several == When(Len(d.clues) > MaxClues \/ Repeats(Keys(d.clues)), "invalid")
               clues == UNION {ClueMessages(d, i) : i \in DOMAIN d.clues}
               numeric == NumericClueMessages(d)
    <2>1. messages = profile \cup few \cup many \cup each \cup anchor \cup numbers
                       \cup none \cup several \cup clues \cup numeric
      BY DEF validate_draft
    <2>2. /\ \A c \in Range(d.categories) : CategoryMessages(d, c) \subseteq each
          /\ \A i \in DOMAIN d.clues : ClueMessages(d, i) \subseteq clues
      BY Zenon
    <2> HIDE DEF messages, profile, few, many, each, anchor, numbers, none, several, clues, numeric
    <2>3. /\ few \subseteq messages /\ many \subseteq messages /\ each \subseteq messages
          /\ anchor \subseteq messages /\ numbers \subseteq messages /\ none \subseteq messages
          /\ several \subseteq messages /\ clues \subseteq messages /\ numeric \subseteq messages
      BY <2>1
    <2>4. /\ \A c \in Range(d.categories) : CategoryMessages(d, c) \subseteq messages
          /\ \A i \in DOMAIN d.clues : ClueMessages(d, i) \subseteq messages
      BY <2>2, <2>3, Zenon
    <2> QED
      BY <2>3, <2>4, Zenon DEF few, many, anchor, numbers, none, several, numeric
  <1> HIDE DEF messages
  <1>00. "invalid" \notin messages /\ "incomplete" \notin messages
    BY DEF messages
  <1>1. ~(Len(d.categories) < 3)
    BY <1>0, <1>00 DEF When
  <1>2. ~Repeats(Keys(d.categories)) /\ ~Repeats(Labels(d.categories))
    BY <1>0, <1>00 DEF When
  <1>3. ASSUME NEW c \in Range(d.categories)
        PROVE  /\ ~(Len(c.items) < 2)
               /\ ~(Len(d.categories[1].items) >= 2 /\ Len(c.items) # Len(d.categories[1].items))
               /\ ~Repeats(Keys(c.items)) /\ ~Repeats(Labels(c.items))
    <2>1. "invalid" \notin CategoryMessages(d, c) /\ "incomplete" \notin CategoryMessages(d, c)
      BY <1>0, <1>00
    <2> QED
      BY <2>1 DEF CategoryMessages, When
  <1>4. d.anchor \in Range(Keys(d.categories))
    <2>1. "invalid" \notin AnchorMessages(d) /\ "incomplete" \notin AnchorMessages(d)
      BY <1>0, <1>00
    <2> QED
      BY <2>1 DEF AnchorMessages, When
  <1>5. ASSUME NEW c \in Anchor(d)
        PROVE  ~((\E i \in DOMAIN Numbers(c) : Numbers(c)[i] # {})
                 /\ ({} \in Range(Numbers(c)) \/ Repeats(Numbers(c))))
    <2>1. "invalid" \notin NumberMessages(d)
      BY <1>0, <1>00
    <2> QED
      BY <2>1 DEF NumberMessages, When
  <1>6. d.clues # <<>> /\ ~Repeats(Keys(d.clues))
    BY <1>0, <1>00 DEF When
  <1>7. ASSUME NEW i \in DOMAIN d.clues
        PROVE  predicate_refs(d.clues[i].predicate) \subseteq Items(d)
    <2>1. "invalid" \notin ClueMessages(d, i)
      BY <1>0, <1>00
    <2> QED
      BY <2>1 DEF ClueMessages, When
  <1>8. (\E c \in Range(d.clues) : \E q \in Parts(c.predicate) : q.kind = "numeric_difference") =>
          \E a \in Anchor(d) : a.items # <<>> /\ {} \notin Range(Numbers(a))
    <2>1. "invalid" \notin NumericClueMessages(d)
      BY <1>0, <1>00
    <2> QED
      BY <2>1 DEF NumericClueMessages, When
  <1> QED
    BY <1>1, <1>2, <1>3, <1>4, <1>5, <1>6, <1>7, <1>8 DEF FaultFree

(* The m-th category is the anchor, and the m-th domain the anchor's. *)
AnchorAt(d, m) ==
  /\ d.categories[m].key = d.anchor
  /\ Anchor(d) = {d.categories[m]}
  /\ compile(d).anchor = d.anchor
  /\ AnchorDomain(compile(d)) = compile(d).domains[m]
  /\ compile(d).domains[m].id = d.anchor
  /\ compile(d).domains[m].ordered = TRUE
  /\ compile(d).domains[m].values =
       [i \in DOMAIN d.categories[m].items |->
          [id |-> <<d.anchor, d.categories[m].items[i].key>>,
           label |-> d.categories[m].items[i].label, ordinal |-> i,
           numeric_value |-> d.categories[m].items[i].numeric_value]]
  /\ DOMAIN compile(d).givens = Range(ItemVariables(d.categories[m]))
  /\ \A v \in DOMAIN compile(d).givens : compile(d).givens[v] = v

(* The anchor is found among the categories, and its domain among the domains. *)
LEMMA AnchorHasDomain ==
  ASSUME NEW d, ~Repeats(Keys(d.categories)), d.anchor \in Range(Keys(d.categories))
  PROVE  \E m \in DOMAIN d.categories : AnchorAt(d, m)
  <1> DEFINE spec == compile(d)
             cats == d.categories
  <1>1. PICK m \in DOMAIN cats : cats[m].key = d.anchor
    BY DEF Range, Keys
  <1>2. \A k \in DOMAIN cats : cats[k].key = d.anchor => k = m
    BY <1>1 DEF Repeats, IsInjective, Keys
  <1>3. Anchor(d) = {cats[m]}
    BY <1>1, <1>2 DEF Anchor, Range
  <1>4. (CHOOSE c \in Anchor(d) : TRUE) = cats[m]
    BY <1>3
  <1>5. spec.anchor = d.anchor
    BY <1>1, <1>4 DEF compile
  <1>6. /\ DOMAIN spec.categories = DOMAIN cats
        /\ \A k \in DOMAIN cats : spec.categories[k].id = cats[k].key /\ spec.categories[k].domain = cats[k].key
    BY DEF compile
  <1>7. /\ DOMAIN spec.domains = DOMAIN cats
        /\ \A k \in DOMAIN cats : spec.domains[k].id = cats[k].key
    BY DEF compile
  <1>8. AnchorDomain(spec) = spec.domains[m]
    <2> DEFINE category == CHOOSE c \in Range(spec.categories) : c.id = spec.anchor
    <2>1. \E c \in Range(spec.categories) : c.id = spec.anchor
      BY <1>1, <1>5, <1>6 DEF Range
    <2> HIDE DEF spec
    <2>2. category \in Range(spec.categories) /\ category.id = spec.anchor
      BY <2>1
    <2>3. category.domain = d.anchor
      BY <1>5, <1>6, <2>2 DEF Range
    <2>4. \A e \in Range(spec.domains) : e.id = category.domain => e = spec.domains[m]
      BY <1>2, <1>7, <2>3 DEF Range
    <2>5. spec.domains[m] \in Range(spec.domains) /\ spec.domains[m].id = category.domain
      BY <1>1, <1>7, <2>3 DEF Range
    <2>6. AnchorDomain(spec) = CHOOSE e \in Range(spec.domains) : e.id = category.domain
      BY DEF AnchorDomain
    <2> HIDE DEF category
    <2> QED
      BY <2>4, <2>5, <2>6
  <1>9. /\ spec.domains[m].ordered = TRUE
        /\ spec.domains[m].values =
             [i \in DOMAIN cats[m].items |->
                [id |-> <<d.anchor, cats[m].items[i].key>>, label |-> cats[m].items[i].label,
                 ordinal |-> i, numeric_value |-> cats[m].items[i].numeric_value]]
    BY <1>1, <1>4 DEF compile
  <1>10. spec.givens = [v \in Range(ItemVariables(cats[m])) |-> v]
    BY <1>4 DEF compile
  <1> QED
    BY <1>1, <1>3, <1>5, <1>7, <1>8, <1>9, <1>10 DEF AnchorAt

(* The variables of a specification are the items of its draft. *)
LEMMA VariablesAreItems ==
  ASSUME NEW d
  PROVE  AllVariables(compile(d)) = Items(d)
  <1> DEFINE spec == compile(d)
             cats == d.categories
  <1>1. /\ DOMAIN spec.categories = DOMAIN cats
        /\ \A k \in DOMAIN cats : spec.categories[k].variables = ItemVariables(cats[k])
    BY DEF compile
  <1>2. \A c : Range(ItemVariables(c)) = {<<c.key, i.key>> : i \in Range(c.items)}
    BY DEF Range, ItemVariables
  <1> HIDE DEF spec
  <1>3. {Range(c.variables) : c \in Range(spec.categories)} = {Range(ItemVariables(c)) : c \in Range(cats)}
    BY <1>1 DEF Range
  <1>4. {Range(ItemVariables(c)) : c \in Range(cats)}
          = {{<<c.key, i.key>> : i \in Range(c.items)} : c \in Range(cats)}
    BY <1>2
  <1> QED
    BY <1>3, <1>4 DEF AllVariables, Items, spec

(* In an arrangement every item has a row, and rows are counted from one. *)
LEMMA ArrangementsHaveRows ==
  ASSUME NEW d, IsDraft(d), FaultFree(d), validate_logic_grid_contract(compile(d)),
         NEW f \in Arrangements(compile(d))
  PROVE  /\ \A r \in Items(d) : f[r] \in DOMAIN Rows(compile(d))
         /\ \A i \in DOMAIN Rows(compile(d)) :
              /\ i \in Int /\ Rows(compile(d))[i].ordinal = i
              /\ Rows(compile(d))[i].numeric_value \in Int
  <1> DEFINE spec == compile(d)
             rows == Rows(spec)
  <1>0. PICK m \in DOMAIN d.categories : AnchorAt(d, m)
    BY AnchorHasDomain DEF FaultFree
  <1>1. /\ AnchorDomain(spec) = spec.domains[m]
        /\ spec.domains[m].values =
             [i \in DOMAIN d.categories[m].items |->
                [id |-> <<d.anchor, d.categories[m].items[i].key>>,
                 label |-> d.categories[m].items[i].label, ordinal |-> i,
                 numeric_value |-> d.categories[m].items[i].numeric_value]]
    BY <1>0 DEF AnchorAt
  <1> DEFINE items == d.categories[m].items
             n == Len(items)
  <1>2. items \in Seq(Range(items)) /\ n \in Nat /\ DOMAIN items = 1 .. n
    <2>1. d.categories[m] \in Range(d.categories)
      BY DEF Range
    <2>2. items \in Seq(Range(items))
      BY <2>1 DEF IsDraft, IsSequence
    <2> HIDE DEF items
    <2> QED
      BY <2>2
  <1>3. \A i \in DOMAIN items : \/ items[i].numeric_value = {}
                                \/ \E k \in Int : items[i].numeric_value = {k}
    <2>1. d.categories[m] \in Range(d.categories)
      BY DEF Range
    <2>2. \A x \in Range(items) : x.numeric_value = {}
             \/ \E k \in x.numeric_value : k \in Int /\ x.numeric_value = {k}
      BY <2>1 DEF IsDraft
    <2> QED
      BY <2>2 DEF Range
  <1> HIDE DEF items
  <1>4. DOMAIN rows = 1 .. n
    BY <1>1, <1>2 DEF Rows, items
  <1>5. ASSUME NEW i \in 1 .. n
        PROVE  rows[i].ordinal = i /\ rows[i].numeric_value \in Int
    <2>1. /\ AnchorDomain(spec).values[i].ordinal = i
          /\ AnchorDomain(spec).values[i].numeric_value = items[i].numeric_value
          /\ DOMAIN AnchorDomain(spec).values = 1 .. n
      BY <1>1, <1>2 DEF items
    <2>2. rows[i] = [ordinal |-> i,
                     numeric_value |-> IF items[i].numeric_value = {} THEN 0
                                       ELSE CHOOSE k \in items[i].numeric_value : TRUE]
      BY <2>1 DEF Rows
    <2>3. items[i].numeric_value # {} => (CHOOSE k \in items[i].numeric_value : TRUE) \in Int
      BY <1>2, <1>3
    <2> QED
      BY <2>2, <2>3
  <1>6. ASSUME NEW r \in Items(d) PROVE f[r] \in 1 .. n
    <2>1. Len(spec.domains[1].values) = n
      <3>1. spec.domains[m] \in Range(spec.domains)
        BY DEF compile, Range
      <3>2. Len(spec.domains[m].values) = Len(spec.domains[1].values)
        BY <3>1 DEF validate_logic_grid_contract
      <3>3. spec.domains[m].values = [i \in 1 .. n |-> spec.domains[m].values[i]]
        BY <1>1, <1>2 DEF items
      <3> HIDE DEF spec, n
      <3>4. Len(spec.domains[m].values) = n
        BY <1>2, <3>3
      <3> QED
        BY <3>2, <3>4
    <2>2. f \in [AllVariables(spec) -> 1 .. n]
      BY <2>1 DEF Arrangements
    <2>3. AllVariables(spec) = Items(d)
      BY VariablesAreItems
    <2> QED
      BY <2>2, <2>3
  <1> QED
    BY <1>2, <1>4, <1>5, <1>6

(* So the clues of a specification mean to every reader what the author said. *)
LEMMA CluesMean ==
  ASSUME NEW d, IsDraft(d), FaultFree(d), validate_logic_grid_contract(compile(d)),
         NEW f \in Arrangements(compile(d)), NEW reader \in Readers, NEW number,
         \A i \in DOMAIN Rows(compile(d)) : number[i] = Rows(compile(d))[i].numeric_value,
         NEW k \in DOMAIN d.clues
  PROVE  /\ compile(d).clue_constraints[k].expression = compile_predicate(d.clues[k].predicate)
         /\ read_grid(reader, compile_predicate(d.clues[k].predicate), f, Rows(compile(d)))
              = Means(d.clues[k].predicate, f, number)
  <1> DEFINE rows == Rows(compile(d))
             items == Items(d)
             p == d.clues[k].predicate
  <1>1. compile(d).clue_constraints[k].expression = compile_predicate(p)
    BY DEF compile
  <1>2. p \in AllTemplates
    BY DEF IsDraft, Range
  <1>3. predicate_refs(p) \subseteq items
    BY DEF FaultFree
  <1>4. /\ \A r \in items : f[r] \in DOMAIN rows
        /\ \A i \in DOMAIN rows : /\ i \in Int /\ rows[i].ordinal = i /\ rows[i].numeric_value \in Int
    BY ArrangementsHaveRows
  <1>5. Counted(rows, number)
    BY <1>4 DEF Counted
  <1> HIDE DEF rows, items, p
  <1>6. read_grid(reader, compile_predicate(p), f, rows) = Means(p, f, number)
    <2>1. Placed(f, items, rows)
      BY <1>4 DEF Placed
    <2> QED
      BY <1>2, <1>3, <1>5, <2>1, TemplatesMean
  <1> QED
    BY <1>1, <1>6 DEF p, rows

(* What the builder knows of its draft and the assessment it shows. *)
BuilderInv ==
  /\ IsDraft(draft)
  /\ \/ assessment = Assessment(None, None)
     \/ \E verify \in BOOLEAN : assessment \in Assessments(draft, verify)

(* It is inductive: a draft is only ever replaced by a draft, not yet assessed. *)
LEMMA BuilderInvariant == BuilderSpec => []BuilderInv
  <1>1. BuilderInit => BuilderInv
    BY FirstDraftAssumption DEF BuilderInit, BuilderInv
  <1>2. BuilderInv /\ [BuilderNext]_builder_vars => BuilderInv'
    <2> SUFFICES ASSUME BuilderInv, [BuilderNext]_builder_vars PROVE BuilderInv'
      OBVIOUS
    <2>1. ASSUME NEW verify \in BOOLEAN, assess_logic_grid_builder(verify) PROVE BuilderInv'
      BY <2>1 DEF assess_logic_grid_builder, BuilderInv
    <2>2. CASE Revise
      BY <2>2 DEF Revise, BuilderInv
    <2>3. CASE UNCHANGED builder_vars
      BY <2>3 DEF builder_vars, BuilderInv
    <2> QED
      BY <2>1, <2>2, <2>3 DEF BuilderNext
  <1> QED
    BY <1>1, <1>2, PTL DEF BuilderSpec

(* A proof accepted leaves one arrangement that satisfies the constraints. *)
LEMMA ReadyIsProved ==
  ASSUME BuilderInv, assessment.stage = "ready"
  PROVE  /\ IsDraft(draft) /\ FaultFree(draft) /\ validate_logic_grid_contract(compile(draft))
         /\ \E f \in Satisfying(compile(draft), "z3") :
              Satisfying(compile(draft), "z3") = {f} /\ assessment.solution = {f}
  <1> DEFINE levels == validate_draft(draft)
             spec == compile(draft)
  <1>1. \A s, t : Assessment(s, t).stage = t
    BY DEF Assessment
  <1>2. PICK verify \in BOOLEAN : assessment \in Assessments(draft, verify)
    BY <1>1 DEF BuilderInv, None
  <1>3. "invalid" \notin levels
    BY <1>1, <1>2 DEF Assessments
  <1>4. "incomplete" \notin levels
    BY <1>1, <1>2, <1>3 DEF Assessments, incomplete_stage
  <1>5. validate_logic_grid_contract(spec)
    BY <1>1, <1>2, <1>3, <1>4 DEF Assessments
  <1>6. PICK p \in proofs(spec) :
          assessment = IF ~p.proved THEN Assessment(p.level, "proof")
                       ELSE [status |-> IF "warning" \in levels THEN "warning" ELSE "valid",
                             stage |-> "ready", solution |-> {p.solution}]
    BY <1>1, <1>2, <1>3, <1>4, <1>5 DEF Assessments
  <1>7. p.proved /\ assessment.solution = {p.solution}
    BY <1>1, <1>6
  <1>8. PICK f \in Satisfying(spec, "z3") :
          Satisfying(spec, "z3") = {f} /\ p.solution = f
    BY <1>7 DEF proofs
  <1>9. FaultFree(draft)
    BY <1>3, <1>4, FaultsAreReported
  <1> QED
    BY <1>5, <1>7, <1>8, <1>9 DEF BuilderInv

(* A puzzle called ready has exactly one arrangement that satisfies the author's *)
(* templates, the one assess_logic_grid_builder shows, and its clues mean to the *)
(* rules, the final checker and both encodings what the author said: for every   *)
(* draft, however deep its templates.                                            *)
THEOREM ReadyAlwaysMeansUnique == BuilderSpec => []ReadyMeansUnique
  <1>1. ASSUME BuilderInv PROVE ReadyMeansUnique
    <2> DEFINE spec   == compile(draft)
               rows   == Rows(spec)
               number == [i \in DOMAIN rows |-> rows[i].numeric_value]
               meant  == {f \in Arrangements(spec) :
                            \A c \in Range(draft.clues) : Means(c.predicate, f, number)}
    <2>1. SUFFICES ASSUME assessment.stage = "ready"
                   PROVE  /\ Cardinality(meant) = 1 /\ meant = assessment.solution
                          /\ \A f \in Arrangements(spec) : \A k \in DOMAIN draft.clues :
                               \A reader \in Readers :
                                 read_grid(reader, spec.clue_constraints[k].expression, f, rows)
                                   = Means(draft.clues[k].predicate, f, number)
      BY DEF ReadyMeansUnique
    <2>2. /\ IsDraft(draft) /\ FaultFree(draft) /\ validate_logic_grid_contract(spec)
          /\ \E f \in Satisfying(spec, "z3") :
               Satisfying(spec, "z3") = {f} /\ assessment.solution = {f}
      BY <1>1, <2>1, ReadyIsProved
    <2>3. \A f \in Arrangements(spec) : \A k \in DOMAIN draft.clues : \A reader \in Readers :
            read_grid(reader, spec.clue_constraints[k].expression, f, rows)
              = Means(draft.clues[k].predicate, f, number)
      BY <2>2, CluesMean
    <2>4. DOMAIN spec.clue_constraints = DOMAIN draft.clues
      BY DEF compile
    <2> HIDE DEF spec, number, rows
    <2>5. meant = Satisfying(spec, "z3")
      <3>1. ASSUME NEW f \in Arrangements(spec)
            PROVE  (\A c \in Range(draft.clues) : Means(c.predicate, f, number))
                   <=> (\A x \in Range(spec.clue_constraints) : read_grid("z3", x.expression, f, rows))
        <4>1. \A k \in DOMAIN draft.clues :
                read_grid("z3", spec.clue_constraints[k].expression, f, rows)
                  = Means(draft.clues[k].predicate, f, number)
          BY <2>3 DEF Readers
        <4> QED
          BY <2>4, <4>1 DEF Range
      <3> QED
        BY <3>1 DEF Satisfying, rows
    <2>6. \E f : meant = {f} /\ assessment.solution = {f}
      BY <2>2, <2>5
    <2> HIDE DEF meant
    <2>7. Cardinality(meant) = 1
      BY <2>6, FS_Singleton
    <2> QED
      BY <2>3, <2>6, <2>7
  <1> QED
    BY <1>1, BuilderInvariant, PTL

----------------------------------------------------------------------------
(* What the specification accepts. *)

(* An expression the specification accepts, and that is about some item. *)
Fit(e, spec) == validate_expression(e, spec) /\ boolean_variables(e) # {}

(* A reference to an item. *)
LEMMA ReferencesFit ==
  ASSUME NEW spec, NEW v \in AllVariables(spec), Reference(v) \in AllExpressions
  PROVE  Fit(Reference(v), spec)
  <1> DEFINE e == Reference(v)
             g == [c \in AllExpressions |-> validate_expression(c, spec)]
  <1>1. e.kind = "variable_reference" /\ e.variable = v
    BY DEF Reference
  <1>2. boolean_variables(e) = {v}
    BY <1>1, VariablesOfParts
  <1>3. validate_expression(e, spec) = AcceptedBody(spec, e, g)
    BY AcceptedUnfolds
  <1>4. Children(e) = {}
    BY <1>1 DEF Children, Comparisons
  <1> HIDE DEF e, g
  <1>5. AcceptedBody(spec, e, g)
    BY <1>1, <1>4 DEF AcceptedBody, Comparisons
  <1> QED
    BY <1>2, <1>3, <1>5 DEF Fit, e

(* An expression of a kind that says nothing itself, whose parts are fit. *)
LEMMA ConnectivesFit ==
  ASSUME NEW spec, NEW e \in AllExpressions,
         e.kind \notin Comparisons \cup {"variable_reference", "constant", "subtract"},
         Children(e) # {}, \A c \in Children(e) : Fit(c, spec)
  PROVE  Fit(e, spec)
  <1> DEFINE g == [c \in AllExpressions |-> validate_expression(c, spec)]
  <1>1. /\ Children(e) \subseteq AllExpressions
        /\ validate_expression(e, spec) = AcceptedBody(spec, e, g)
    BY AcceptedUnfolds
  <1>2. \A c \in Children(e) : g[c]
    BY <1>1 DEF Fit
  <1> HIDE DEF g
  <1>3. AcceptedBody(spec, e, g)
    BY <1>2 DEF AcceptedBody, Comparisons
  <1>4. boolean_variables(e) = UNION {boolean_variables(c) : c \in Children(e)}
    BY VariablesOfParts
  <1>5. boolean_variables(e) # {}
    BY <1>4 DEF Fit
  <1> QED
    BY <1>1, <1>3, <1>5 DEF Fit

(* A relation of two items, which orders them only if their rows are ordered. *)
LEMMA RelationsFit ==
  ASSUME NEW spec, NEW kind \in Comparisons, NEW l \in AllVariables(spec), NEW r \in AllVariables(spec),
         kind \in {"equal", "not_equal"} \/ AnchorDomain(spec).ordered,
         Relation(kind, Reference(l), Reference(r)) \in AllExpressions
  PROVE  Fit(Relation(kind, Reference(l), Reference(r)), spec)
  <1> DEFINE e == Relation(kind, Reference(l), Reference(r))
             g == [c \in AllExpressions |-> validate_expression(c, spec)]
  <1>1. /\ Children(e) \subseteq AllExpressions
        /\ validate_expression(e, spec) = AcceptedBody(spec, e, g)
    BY AcceptedUnfolds
  <1>2. e.kind = kind /\ e.left = Reference(l) /\ e.right = Reference(r) /\ direct_relation(e)
    BY DEF Relation, Reference, direct_relation
  <1>3. Children(e) = {Reference(l), Reference(r)}
    BY <1>2 DEF Children, Comparisons
  <1>4. Fit(Reference(l), spec) /\ Fit(Reference(r), spec)
    BY <1>1, <1>3, ReferencesFit
  <1>5. \A c \in Children(e) : g[c]
    BY <1>1, <1>3, <1>4 DEF Fit
  <1>6. boolean_variables(e) = UNION {boolean_variables(c) : c \in Children(e)}
    BY <1>2, VariablesOfParts DEF Comparisons
  <1> HIDE DEF e, g
  <1>7. AcceptedBody(spec, e, g)
    <2>1. CASE kind \in {"equal", "not_equal"}
      BY <1>2, <1>5, <2>1 DEF AcceptedBody, Comparisons
    <2>2. CASE kind \notin {"equal", "not_equal"}
      <3>1. AnchorDomain(spec).ordered
        BY <2>2
      <3>2. e.kind \in Comparisons \ {"equal", "not_equal"}
        BY <1>2, <2>2
      <3> QED
        BY <1>5, <3>1, <3>2 DEF AcceptedBody, Comparisons
    <2> QED
      BY <2>1, <2>2
  <1>8. boolean_variables(e) # {}
    BY <1>3, <1>4, <1>6 DEF Fit
  <1> QED
    BY <1>1, <1>7, <1>8 DEF Fit, e

(* A difference of two items' numbers, if every row has one. *)
LEMMA DifferencesFit ==
  ASSUME NEW spec, NEW value, NEW l \in AllVariables(spec), NEW r \in AllVariables(spec),
         HasNumbers(AnchorDomain(spec)),
         Relation("equal", Relation("subtract", Reference(l), Reference(r)),
                  [kind |-> "constant", value |-> value]) \in AllExpressions
  PROVE  Fit(Relation("equal", Relation("subtract", Reference(l), Reference(r)),
                      [kind |-> "constant", value |-> value]), spec)
  <1> DEFINE n == [kind |-> "constant", value |-> value]
             s == Relation("subtract", Reference(l), Reference(r))
             e == Relation("equal", s, n)
             g == [c \in AllExpressions |-> validate_expression(c, spec)]
  <1>1. /\ Children(e) \subseteq AllExpressions
        /\ validate_expression(e, spec) = AcceptedBody(spec, e, g)
    BY AcceptedUnfolds
  <1>2. e.kind = "equal" /\ e.left = s /\ e.right = n
    BY DEF Relation
  <1>3. s.kind = "subtract" /\ s.left = Reference(l) /\ s.right = Reference(r)
    BY DEF Relation
  <1>4. n.kind = "constant"
    OBVIOUS
  <1>5. Children(e) = {s, n}
    BY <1>2 DEF Children, Comparisons
  <1>6. /\ Children(s) \subseteq AllExpressions
        /\ validate_expression(s, spec) = AcceptedBody(spec, s, g)
    BY <1>1, <1>5, AcceptedUnfolds
  <1>7. validate_expression(n, spec) = AcceptedBody(spec, n, g)
    BY <1>1, <1>5, AcceptedUnfolds
  <1>8. Children(s) = {Reference(l), Reference(r)} /\ Children(n) = {}
    BY <1>3, <1>4 DEF Children, Comparisons
  <1>9. Fit(Reference(l), spec) /\ Fit(Reference(r), spec)
    BY <1>6, <1>8, ReferencesFit
  <1>10. \A c \in Children(s) : g[c]
    BY <1>6, <1>8, <1>9 DEF Fit
  <1>11. boolean_variables(s) = UNION {boolean_variables(c) : c \in Children(s)}
    BY <1>1, <1>3, <1>5, VariablesOfParts
  <1>12. boolean_variables(e) = UNION {boolean_variables(c) : c \in Children(e)}
    BY <1>2, VariablesOfParts
  <1>13. validate_expression(s, spec)
    <2> HIDE DEF s, g
    <2>1. AcceptedBody(spec, s, g)
      BY <1>3, <1>10 DEF AcceptedBody, Comparisons
    <2> QED
      BY <1>6, <2>1
  <1>14. validate_expression(n, spec)
    <2> HIDE DEF n, g
    <2>1. AcceptedBody(spec, n, g)
      BY <1>4, <1>8 DEF AcceptedBody, Comparisons
    <2> QED
      BY <1>7, <2>1
  <1>15. \A c \in Children(e) : g[c]
    BY <1>1, <1>5, <1>13, <1>14
  <1> HIDE DEF e, g, s, n
  <1>16. AcceptedBody(spec, e, g)
    BY <1>2, <1>15 DEF AcceptedBody, Comparisons
  <1>17. boolean_variables(s) # {}
    BY <1>8, <1>9, <1>11 DEF Fit
  <1>18. boolean_variables(e) # {}
    BY <1>5, <1>12, <1>17
  <1> QED
    BY <1>1, <1>16, <1>18 DEF Fit, e, s, n

(* What a specification must have for a template. *)
Supports(spec, p) ==
  /\ predicate_refs(p) \subseteq AllVariables(spec)
  /\ AnchorDomain(spec).ordered
  /\ (\E q \in Parts(p) : q.kind = "numeric_difference") => HasNumbers(AnchorDomain(spec))

(* A template whose parts compile to fit expressions compiles to one. *)
LEMMA TemplateFits ==
  ASSUME NEW spec, NEW p \in AllTemplates, Supports(spec, p),
         \A r \in predicate_children(p) : Fit(compile_predicate(r), spec)
  PROVE  Fit(compile_predicate(p), spec)
  <1> DEFINE compiled == [c \in AllTemplates |-> compile_predicate(c)]
             e == compile_predicate(p)
  <1>1. /\ predicate_children(p) \subseteq AllTemplates
        /\ e = Compiled(p, compiled)
    BY CompiledUnfolds
  <1>2. e \in AllExpressions
    BY CompiledAssumption
  <1>3. IsTemplate(p, AllTemplates)
    BY TemplatesAreTemplates
  <1>4. \A r \in predicate_children(p) : Fit(compiled[r], spec)
    BY <1>1
  <1>5. p \in Parts(p)
    BY PartsUnfolds DEF PartsBody
  <1>6. direct_refs(p) \subseteq AllVariables(spec)
    BY <1>5 DEF Supports, predicate_refs
  <1> HIDE DEF compiled, e
  <1>7. CASE p.kind = "association"
    <2> DEFINE kind == IF p.relation = "same" THEN "equal" ELSE "not_equal"
    <2>1. e = Relation(kind, Reference(p.left), Reference(p.right))
      BY <1>1, <1>7 DEF Compiled
    <2>2. kind \in Comparisons /\ kind \in {"equal", "not_equal"}
      BY DEF Comparisons
    <2>3. p.left \in AllVariables(spec) /\ p.right \in AllVariables(spec)
      BY <1>6, <1>7 DEF direct_refs
    <2> HIDE DEF kind
    <2>4. Fit(Relation(kind, Reference(p.left), Reference(p.right)), spec)
      BY <1>2, <2>1, <2>2, <2>3, RelationsFit
    <2> QED
      BY <2>1, <2>4 DEF e
  <1>8. CASE p.kind = "ordering"
    <2>1. e = Relation("less_than", Reference(p.earlier), Reference(p.later))
      BY <1>1, <1>8 DEF Compiled
    <2>2. p.earlier \in AllVariables(spec) /\ p.later \in AllVariables(spec)
      BY <1>6, <1>8 DEF direct_refs
    <2>3. AnchorDomain(spec).ordered
      BY DEF Supports
    <2>4. Fit(Relation("less_than", Reference(p.earlier), Reference(p.later)), spec)
      BY <1>2, <2>1, <2>2, <2>3, RelationsFit DEF Comparisons
    <2> QED
      BY <2>1, <2>4 DEF e
  <1>9. CASE p.kind = "numeric_difference"
    <2>1. e = Relation("equal", Relation("subtract", Reference(p.greater), Reference(p.lesser)),
                       [kind |-> "constant", value |-> p.difference])
      BY <1>1, <1>9 DEF Compiled
    <2>2. p.greater \in AllVariables(spec) /\ p.lesser \in AllVariables(spec)
      BY <1>6, <1>9 DEF direct_refs
    <2>3. HasNumbers(AnchorDomain(spec))
      BY <1>5, <1>9 DEF Supports
    <2>4. Fit(Relation("equal", Relation("subtract", Reference(p.greater), Reference(p.lesser)),
                       [kind |-> "constant", value |-> p.difference]), spec)
      BY <1>2, <2>1, <2>2, <2>3, DifferencesFit
    <2> QED
      BY <2>1, <2>4 DEF e
  <1>10. CASE p.kind \in {"all", "any", "cardinality"}
    <2> DEFINE n == Len(p.operands)
               operands == p.operands
    <2>1. operands \in Seq(AllTemplates) /\ n \in Nat /\ n >= 1
      BY <1>3, <1>10 DEF IsTemplate
    <2>2. predicate_children(p) = {operands[i] : i \in 1 .. n}
      BY <1>10 DEF predicate_children
    <2>3. /\ e.kind \in {"and", "or", "cardinality"}
          /\ e.operands = [i \in 1 .. n |-> compiled[operands[i]]]
      BY <1>1, <1>10 DEF Compiled
    <2> HIDE DEF n, operands
    <2>4. Len(e.operands) = n
      BY <2>1, <2>3
    <2>5. Children(e) = {e.operands[i] : i \in 1 .. n}
      BY <2>3, <2>4 DEF Children, Comparisons
    <2>6. Children(e) = {compiled[operands[i]] : i \in 1 .. n}
      BY <2>3, <2>5
    <2>7. Children(e) # {}
      <3>1. 1 \in 1 .. n
        BY <2>1
      <3> QED
        BY <2>6, <3>1
    <2>8. \A c \in Children(e) : Fit(c, spec)
      BY <1>4, <2>2, <2>6
    <2>9. Fit(e, spec)
      BY <1>2, <2>3, <2>7, <2>8, ConnectivesFit DEF Comparisons
    <2> QED
      BY <2>9 DEF e
  <1>11. CASE p.kind = "not"
    <2>1. e.kind = "not" /\ e.operand = compiled[p.operand]
      BY <1>1, <1>11 DEF Compiled
    <2>2. p.operand \in predicate_children(p)
      BY <1>11 DEF predicate_children
    <2>3. Children(e) = {e.operand}
      BY <2>1 DEF Children, Comparisons
    <2>4. Fit(e, spec)
      BY <1>2, <1>4, <2>1, <2>2, <2>3, ConnectivesFit DEF Comparisons
    <2> QED
      BY <2>4 DEF e
  <1>12. CASE p.kind \in {"exclusive", "equivalent"}
    <2>1. /\ e.kind \in {"xor", "equivalent"}
          /\ e.left = compiled[p.left] /\ e.right = compiled[p.right]
      BY <1>1, <1>12 DEF Compiled, exclusive, Relation
    <2>2. {p.left, p.right} \subseteq predicate_children(p)
      BY <1>12 DEF predicate_children
    <2>3. Children(e) = {e.left, e.right}
      BY <2>1 DEF Children, Comparisons
    <2>4. Fit(e, spec)
      BY <1>2, <1>4, <2>1, <2>2, <2>3, ConnectivesFit DEF Comparisons
    <2> QED
      BY <2>4 DEF e
  <1>13. CASE p.kind = "conditional"
    <2>1. e.kind = "implies" /\ e.premise = compiled[p.premise] /\ e.conclusion = compiled[p.conclusion]
      BY <1>1, <1>13 DEF Compiled
    <2>2. {p.premise, p.conclusion} \subseteq predicate_children(p)
      BY <1>13 DEF predicate_children
    <2>3. Children(e) = {e.premise, e.conclusion}
      BY <2>1 DEF Children, Comparisons
    <2>4. Fit(e, spec)
      BY <1>2, <1>4, <2>1, <2>2, <2>3, ConnectivesFit DEF Comparisons
    <2> QED
      BY <2>4 DEF e
  <1> QED
    BY <1>3, <1>7, <1>8, <1>9, <1>10, <1>11, <1>12, <1>13 DEF IsTemplate

(* So does every template the specification supports. *)
LEMMA TemplatesFit ==
  ASSUME NEW spec, NEW p \in AllTemplates, Supports(spec, p)
  PROVE  Fit(compile_predicate(p), spec)
  <1> DEFINE Settled == {n \in 0 .. Len(Templates) :
                           \A q \in TemplatesMade(n) :
                             Supports(spec, q) => Fit(compile_predicate(q), spec)}
  <1>1. Len(Templates) \in Nat
    BY TemplatesAssumption
  <1>2. 0 \in Settled
    <2>1. TemplatesMade(0) = {}
      BY DEF TemplatesMade
    <2> QED
      BY <1>1, <2>1
  <1>3. ASSUME NEW n \in 1 .. Len(Templates), n - 1 \in Settled PROVE n \in Settled
    <2>1. SUFFICES ASSUME NEW q \in TemplatesMade(n), Supports(spec, q)
                   PROVE  Fit(compile_predicate(q), spec)
      BY <1>1
    <2>2. q \in AllTemplates
      BY <1>1 DEF TemplatesMade, AllTemplates
    <2>3. predicate_children(q) \subseteq TemplatesMade(n - 1) \/ q \in TemplatesMade(n - 1)
      BY TemplatesNext
    <2>4. \A r \in TemplatesMade(n - 1) : Supports(spec, r) => Fit(compile_predicate(r), spec)
      BY <1>3
    <2> HIDE DEF Settled
    <2>5. /\ predicate_children(q) \subseteq AllTemplates
          /\ Parts(q) = PartsBody(q, [c \in AllTemplates |-> Parts(c)])
      BY <2>2, PartsUnfolds
    <2>6. \A r \in predicate_children(q) : Supports(spec, r)
      <3>1. \A r \in predicate_children(q) : Parts(r) \subseteq Parts(q)
        BY <2>5 DEF PartsBody
      <3>2. \A r \in predicate_children(q) : predicate_refs(r) \subseteq predicate_refs(q)
        BY <3>1 DEF predicate_refs
      <3> QED
        BY <2>1, <3>1, <3>2 DEF Supports
    <2>7. CASE predicate_children(q) \subseteq TemplatesMade(n - 1)
      BY <2>1, <2>2, <2>4, <2>6, <2>7, TemplateFits
    <2> QED
      BY <2>1, <2>3, <2>4, <2>7
  <1> HIDE DEF Settled
  <1>4. \A n \in 0 .. Len(Templates) : n \in Settled
    BY <1>1, <1>2, <1>3, Upwards
  <1> QED
    BY <1>1, <1>4 DEF Settled, AllTemplates

----------------------------------------------------------------------------
(* A draft without faults compiles to a specification within the contract. *)

(* Categories, clues and items are sequences, the categories all of one size. *)
LEMMA DraftShape ==
  ASSUME NEW d, IsDraft(d), FaultFree(d)
  PROVE  /\ Len(d.categories) \in Nat /\ DOMAIN d.categories = 1 .. Len(d.categories)
         /\ Len(d.categories) >= 3
         /\ Len(d.clues) \in Nat \ {0} /\ DOMAIN d.clues = 1 .. Len(d.clues)
         /\ Len(d.categories[1].items) \in Nat /\ Len(d.categories[1].items) >= 2
         /\ \A k \in DOMAIN d.categories :
              /\ Len(d.categories[k].items) = Len(d.categories[1].items)
              /\ DOMAIN d.categories[k].items = 1 .. Len(d.categories[1].items)
  <1>1. ASSUME NEW s, IsSequence(s)
        PROVE  Len(s) \in Nat /\ DOMAIN s = 1 .. Len(s) /\ (Len(s) = 0 => s = <<>>)
    BY <1>1 DEF IsSequence
  <1>2. /\ Len(d.categories) \in Nat /\ DOMAIN d.categories = 1 .. Len(d.categories)
        /\ Len(d.clues) \in Nat /\ DOMAIN d.clues = 1 .. Len(d.clues)
        /\ Len(d.clues) = 0 => d.clues = <<>>
    BY <1>1 DEF IsDraft
  <1>3. Len(d.categories) >= 3 /\ d.clues # <<>>
    <2>1. ~(Len(d.categories) < 3) /\ d.clues # <<>>
      BY DEF FaultFree
    <2> QED
      BY <1>2, <2>1
  <1>4. \A k \in DOMAIN d.categories : d.categories[k] \in Range(d.categories)
    BY DEF Range
  <1>5. \A k \in DOMAIN d.categories :
          /\ Len(d.categories[k].items) \in Nat
          /\ DOMAIN d.categories[k].items = 1 .. Len(d.categories[k].items)
    <2>1. \A k \in DOMAIN d.categories : IsSequence(d.categories[k].items)
      BY <1>4 DEF IsDraft
    <2> QED
      BY <1>1, <2>1
  <1>6. \A k \in DOMAIN d.categories :
          /\ ~(Len(d.categories[k].items) < 2)
          /\ ~(Len(d.categories[1].items) >= 2
               /\ Len(d.categories[k].items) # Len(d.categories[1].items))
    BY <1>4 DEF FaultFree
  <1>7. 1 \in DOMAIN d.categories
    BY <1>2, <1>3
  <1>8. Len(d.categories[1].items) >= 2 /\ Len(d.categories[1].items) \in Nat
    BY <1>5, <1>6, <1>7
  <1>9. \A k \in DOMAIN d.categories : Len(d.categories[k].items) = Len(d.categories[1].items)
    BY <1>6, <1>8
  <1> QED
    BY <1>2, <1>3, <1>5, <1>8, <1>9

(* What the parts of a specification are compiled from. *)
LEMMA CompiledParts ==
  ASSUME NEW d
  PROVE  /\ DOMAIN compile(d).domains = DOMAIN d.categories
         /\ DOMAIN compile(d).categories = DOMAIN d.categories
         /\ DOMAIN compile(d).bijections = DOMAIN d.categories
         /\ DOMAIN compile(d).clue_constraints = DOMAIN d.clues
         /\ DOMAIN compile(d).clues = DOMAIN d.clues
         /\ \A k \in DOMAIN d.categories :
              /\ compile(d).domains[k].id = d.categories[k].key
              /\ DOMAIN compile(d).domains[k].values = DOMAIN d.categories[k].items
              /\ \A i \in DOMAIN d.categories[k].items :
                   /\ compile(d).domains[k].values[i].id
                        = <<d.categories[k].key, d.categories[k].items[i].key>>
                   /\ compile(d).domains[k].values[i].label = d.categories[k].items[i].label
              /\ compile(d).categories[k].id = d.categories[k].key
              /\ compile(d).categories[k].label = d.categories[k].label
              /\ compile(d).categories[k].variables = ItemVariables(d.categories[k])
              /\ compile(d).bijections[k].id = <<d.categories[k].key, "bijection">>
              /\ compile(d).bijections[k].variables = ItemVariables(d.categories[k])
         /\ \A k \in DOMAIN d.clues :
              /\ compile(d).clue_constraints[k].id = <<d.clues[k].key>>
              /\ compile(d).clue_constraints[k].source_clue = d.clues[k].key
              /\ compile(d).clue_constraints[k].expression = compile_predicate(d.clues[k].predicate)
              /\ compile(d).clues[k].id = d.clues[k].key
              /\ compile(d).clues[k].constraints = {<<d.clues[k].key>>}
  BY DEF compile

(* A function on the first numbers is a sequence. *)
LEMMA LengthOfFunction ==
  ASSUME NEW n \in Nat, NEW f, f = [i \in 1 .. n |-> f[i]]
  PROVE  Len(f) = n
  OBVIOUS

(* The components a specification has, as functions. *)
LEMMA CompiledSequences ==
  ASSUME NEW d
  PROVE  /\ compile(d).categories = [k \in DOMAIN d.categories |-> compile(d).categories[k]]
         /\ \A k \in DOMAIN d.categories : compile(d).domains[k].values
              = [i \in DOMAIN d.categories[k].items |-> compile(d).domains[k].values[i]]
  BY DEF compile

(* No identifier, label, item or value of the specification occurs twice. *)
LEMMA CompiledIdsDiffer ==
  ASSUME NEW d, IsDraft(d), FaultFree(d)
  PROVE  /\ ~Repeats(Ids(compile(d).domains)) /\ ~Repeats(Ids(compile(d).categories))
         /\ ~Repeats(Labels(compile(d).categories)) /\ ~Repeats(Ids(compile(d).clues))
         /\ ~Repeats(Ids(compile(d).bijections)) /\ ~Repeats(Ids(compile(d).clue_constraints))
         /\ \A e \in Range(compile(d).domains) : ~Repeats(Labels(e.values))
         /\ Distinct([k \in DOMAIN compile(d).categories |-> compile(d).categories[k].variables])
         /\ Distinct([k \in DOMAIN compile(d).domains |-> Ids(compile(d).domains[k].values)])
  <1> DEFINE spec == compile(d)
             cats == d.categories
             clues == d.clues
  <1>1. \A k, l \in DOMAIN cats : \/ k = l
                                  \/ cats[k].key # cats[l].key /\ cats[k].label # cats[l].label
    BY DEF FaultFree, Repeats, IsInjective, Keys, Labels
  <1>2. \A k, l \in DOMAIN clues : k = l \/ clues[k].key # clues[l].key
    BY DEF FaultFree, Repeats, IsInjective, Keys
  <1>3. \A k \in DOMAIN cats : \A i, j \in DOMAIN cats[k].items :
          \/ i = j
          \/ /\ cats[k].items[i].key # cats[k].items[j].key
             /\ cats[k].items[i].label # cats[k].items[j].label
    <2>1. \A k \in DOMAIN cats : ~Repeats(Keys(cats[k].items)) /\ ~Repeats(Labels(cats[k].items))
      BY DEF FaultFree, Range
    <2> QED
      BY <2>1 DEF Repeats, IsInjective, Keys, Labels
  <1>4. ~Repeats(Ids(spec.domains)) /\ ~Repeats(Ids(spec.categories))
    BY <1>1, CompiledParts DEF Repeats, IsInjective, Ids
  <1>5. ~Repeats(Labels(spec.categories))
    BY <1>1, CompiledParts DEF Repeats, IsInjective, Labels
  <1>6. ~Repeats(Ids(spec.clues))
    BY <1>2, CompiledParts DEF Repeats, IsInjective, Ids
  <1>7. ~Repeats(Ids(spec.bijections))
    BY <1>1, CompiledParts DEF Repeats, IsInjective, Ids
  <1>8. ~Repeats(Ids(spec.clue_constraints))
    BY <1>2, CompiledParts DEF Repeats, IsInjective, Ids
  <1>9. ASSUME NEW e \in Range(spec.domains) PROVE ~Repeats(Labels(e.values))
    <2>1. PICK k \in DOMAIN cats : e = spec.domains[k]
      BY CompiledParts DEF Range
    <2>2. /\ DOMAIN e.values = DOMAIN cats[k].items
          /\ \A i \in DOMAIN cats[k].items : e.values[i].label = cats[k].items[i].label
      BY <2>1, CompiledParts
    <2> QED
      BY <1>3, <2>2 DEF Repeats, IsInjective, Labels
  <1>10. Distinct([k \in DOMAIN spec.categories |-> spec.categories[k].variables])
    <2>1. [k \in DOMAIN spec.categories |-> spec.categories[k].variables]
            = [k \in DOMAIN cats |-> ItemVariables(cats[k])]
      BY CompiledParts
    <2> HIDE DEF spec
    <2>2. Distinct([k \in DOMAIN cats |-> ItemVariables(cats[k])])
      BY <1>1, <1>3 DEF Distinct, ItemVariables
    <2> QED
      BY <2>1, <2>2
  <1>11. Distinct([k \in DOMAIN spec.domains |-> Ids(spec.domains[k].values)])
    <2>1. ASSUME NEW k \in DOMAIN cats PROVE Ids(spec.domains[k].values) = ItemVariables(cats[k])
      <3> DEFINE values == spec.domains[k].values
      <3>1. /\ DOMAIN values = DOMAIN cats[k].items
            /\ \A i \in DOMAIN cats[k].items : values[i].id = <<cats[k].key, cats[k].items[i].key>>
        BY CompiledParts
      <3> HIDE DEF values
      <3>2. Ids(values) = ItemVariables(cats[k])
        BY <3>1 DEF Ids, ItemVariables
      <3> QED
        BY <3>2 DEF values
    <2>2. [k \in DOMAIN spec.domains |-> Ids(spec.domains[k].values)]
            = [k \in DOMAIN cats |-> ItemVariables(cats[k])]
      BY <2>1, CompiledParts
    <2> HIDE DEF spec
    <2>3. Distinct([k \in DOMAIN cats |-> ItemVariables(cats[k])])
      BY <1>1, <1>3 DEF Distinct, ItemVariables
    <2> QED
      BY <2>2, <2>3
  <1> QED
    BY <1>4, <1>5, <1>6, <1>7, <1>8, <1>9, <1>10, <1>11

(* No identifier of a bijection is one of a clue's constraint: one is a pair. *)
LEMMA ConstraintIdsDiffer ==
  ASSUME NEW d, IsDraft(d), FaultFree(d)
  PROVE  ~Repeats(Ids(compile(d).bijections) \o Ids(compile(d).clue_constraints))
  <1> DEFINE s == Ids(compile(d).bijections)
             t == Ids(compile(d).clue_constraints)
             n == Len(d.categories)
             m == Len(d.clues)
  <1>1. n \in Nat /\ m \in Nat /\ DOMAIN d.categories = 1 .. n /\ DOMAIN d.clues = 1 .. m
    BY DraftShape
  <1>2. /\ s = [k \in 1 .. n |-> <<d.categories[k].key, "bijection">>]
        /\ t = [k \in 1 .. m |-> <<d.clues[k].key>>]
    BY <1>1, CompiledParts DEF Ids
  <1>3. /\ \A k, l \in 1 .. n : s[k] = s[l] => k = l
        /\ \A k, l \in 1 .. m : t[k] = t[l] => k = l
    BY <1>1, <1>2, CompiledIdsDiffer DEF Repeats, IsInjective
  <1>4. \A k \in 1 .. n, l \in 1 .. m : s[k] # t[l]
    <2>1. \A k \in 1 .. n : Len(s[k]) = 2
      BY <1>2
    <2>2. \A k \in 1 .. m : Len(t[k]) = 1
      BY <1>2
    <2> QED
      BY <2>1, <2>2
  <1>5. Len(s) = n /\ Len(t) = m /\ s \in Seq(Range(s)) /\ t \in Seq(Range(t))
    <2>1. /\ s = [k \in 1 .. n |-> s[k]] /\ DOMAIN s = 1 .. n
          /\ t = [k \in 1 .. m |-> t[k]] /\ DOMAIN t = 1 .. m
      BY <1>2
    <2> HIDE DEF s, t, n, m
    <2>2. Len(s) = n /\ Len(t) = m
      BY <1>1, <2>1, LengthOfFunction
    <2>3. /\ \A k \in 1 .. n : s[k] \in Range(s)
          /\ \A k \in 1 .. m : t[k] \in Range(t)
      BY <2>1 DEF Range
    <2>4. s \in [1 .. n -> Range(s)] /\ t \in [1 .. m -> Range(t)]
      BY <2>1, <2>3
    <2> QED
      BY <1>1, <2>2, <2>4
  <1> HIDE DEF s, t, n, m
  <1>6. DOMAIN (s \o t) = 1 .. n + m
        /\ \A k \in 1 .. n + m : (s \o t)[k] = IF k <= n THEN s[k] ELSE t[k - n]
    BY <1>1, <1>5
  <1>7. ASSUME NEW k \in 1 .. n + m, NEW l \in 1 .. n + m, (s \o t)[k] = (s \o t)[l]
        PROVE  k = l
    <2>1. CASE k <= n /\ l <= n
      BY <1>1, <1>3, <1>6, <1>7, <2>1
    <2>2. CASE k > n /\ l > n
      <3>1. t[k - n] = t[l - n] /\ k - n \in 1 .. m /\ l - n \in 1 .. m
        BY <1>1, <1>6, <1>7, <2>2
      <3>2. k - n = l - n
        BY <1>3, <3>1
      <3> QED
        BY <1>1, <3>2
    <2>3. CASE k <= n /\ l > n
      <3>1. s[k] = t[l - n] /\ k \in 1 .. n /\ l - n \in 1 .. m
        BY <1>1, <1>6, <1>7, <2>3
      <3> QED
        BY <1>4, <3>1
    <2>4. CASE k > n /\ l <= n
      <3>1. s[l] = t[k - n] /\ l \in 1 .. n /\ k - n \in 1 .. m
        BY <1>1, <1>6, <1>7, <2>4
      <3> QED
        BY <1>4, <3>1
    <2> QED
      BY <1>1, <2>1, <2>2, <2>3, <2>4
  <1>8. ~Repeats(s \o t)
    BY <1>6, <1>7 DEF Repeats, IsInjective
  <1> QED
    BY <1>8 DEF s, t

(* The anchor's domain is in order, its numbers are all there or none, and differ. *)
LEMMA AnchorDomainValid ==
  ASSUME NEW d, IsDraft(d), FaultFree(d)
  PROVE  /\ validate_anchor_domain(AnchorDomain(compile(d)))
         /\ AnchorDomain(compile(d)).ordered
         /\ (\E a \in Anchor(d) : a.items # <<>> /\ {} \notin Range(Numbers(a)))
              => HasNumbers(AnchorDomain(compile(d)))
         /\ \A i \in DOMAIN AnchorDomain(compile(d)).values :
              LET v == AnchorDomain(compile(d)).values[i].id
              IN  v \in DOMAIN compile(d).givens /\ compile(d).givens[v] = v
  <1>1. PICK m \in DOMAIN d.categories : AnchorAt(d, m)
    BY AnchorHasDomain DEF FaultFree
  <1> DEFINE domain == AnchorDomain(compile(d))
             c == d.categories[m]
             n == [i \in DOMAIN domain.values |-> domain.values[i].numeric_value]
  <1>2. /\ domain.ordered = TRUE
        /\ domain.values = [i \in DOMAIN c.items |->
                              [id |-> <<d.anchor, c.items[i].key>>, label |-> c.items[i].label,
                               ordinal |-> i, numeric_value |-> c.items[i].numeric_value]]
        /\ c.key = d.anchor /\ Anchor(d) = {c}
        /\ DOMAIN compile(d).givens = Range(ItemVariables(c))
        /\ \A v \in DOMAIN compile(d).givens : compile(d).givens[v] = v
    BY <1>1 DEF AnchorAt
  <1> HIDE DEF domain, c
  <1>3. n = Numbers(c)
    BY <1>2 DEF Numbers
  <1>4. (\E i \in DOMAIN n : n[i] # {}) => {} \notin Range(n) /\ ~Repeats(n)
    <2>1. c \in Anchor(d)
      BY <1>2
    <2>2. ~((\E i \in DOMAIN Numbers(c) : Numbers(c)[i] # {})
            /\ ({} \in Range(Numbers(c)) \/ Repeats(Numbers(c))))
      BY <2>1 DEF FaultFree
    <2> HIDE DEF n
    <2> QED
      BY <1>3, <2>2
  <1>5. \A i \in DOMAIN domain.values : domain.values[i].ordinal = i
    BY <1>2
  <1>6. validate_anchor_domain(domain)
    BY <1>4, <1>5 DEF validate_anchor_domain
  <1>7. (\E a \in Anchor(d) : a.items # <<>> /\ {} \notin Range(Numbers(a))) => HasNumbers(domain)
    <2>1. (\E a \in Anchor(d) : a.items # <<>> /\ {} \notin Range(Numbers(a))) => {} \notin Range(n)
      BY <1>2, <1>3
    <2>2. {} \notin Range(n) => HasNumbers(domain)
      BY DEF HasNumbers, Range
    <2> QED
      BY <2>1, <2>2
  <1>8. ASSUME NEW i \in DOMAIN domain.values
        PROVE  /\ domain.values[i].id \in DOMAIN compile(d).givens
               /\ compile(d).givens[domain.values[i].id] = domain.values[i].id
    <2>1. i \in DOMAIN c.items /\ domain.values[i].id = <<c.key, c.items[i].key>>
      BY <1>2
    <2>2. domain.values[i].id \in Range(ItemVariables(c))
      BY <2>1 DEF Range, ItemVariables
    <2> QED
      BY <1>2, <2>2
  <1> QED
    BY <1>2, <1>6, <1>7, <1>8 DEF domain

(* Every clue is about items of the specification, and compiles to its constraint. *)
LEMMA CompiledCluesValid ==
  ASSUME NEW d, IsDraft(d), FaultFree(d)
  PROVE  /\ \A x \in Range(compile(d).clue_constraints) :
              validate_expression(x.expression, compile(d)) /\ boolean_variables(x.expression) # {}
         /\ validate_clues(compile(d))
         /\ compile(d).clue_constraints # <<>>
  <1> DEFINE spec == compile(d)
  <1>1. ASSUME NEW k \in DOMAIN d.clues
        PROVE  Fit(compile_predicate(d.clues[k].predicate), spec)
    <2> DEFINE p == d.clues[k].predicate
    <2>1. p \in AllTemplates
      BY DEF IsDraft, Range
    <2>2. predicate_refs(p) \subseteq AllVariables(spec)
      BY VariablesAreItems DEF FaultFree
    <2>3. (\E q \in Parts(p) : q.kind = "numeric_difference") => HasNumbers(AnchorDomain(spec))
      <3>1. d.clues[k] \in Range(d.clues)
        BY DEF Range
      <3>2. (\E q \in Parts(p) : q.kind = "numeric_difference") =>
              \E a \in Anchor(d) : a.items # <<>> /\ {} \notin Range(Numbers(a))
        BY <3>1 DEF FaultFree
      <3> QED
        BY <3>2, AnchorDomainValid
    <2>4. Supports(spec, p)
      BY <2>2, <2>3, AnchorDomainValid DEF Supports
    <2> QED
      BY <2>1, <2>4, TemplatesFit
  <1>2. \A x \in Range(spec.clue_constraints) :
          \E k \in DOMAIN d.clues : /\ x = spec.clue_constraints[k]
                                    /\ x.expression = compile_predicate(d.clues[k].predicate)
                                    /\ x.id = <<d.clues[k].key>> /\ x.source_clue = d.clues[k].key
    BY CompiledParts DEF Range
  <1>3. \A x \in Range(spec.clue_constraints) :
          validate_expression(x.expression, spec) /\ boolean_variables(x.expression) # {}
    BY <1>1, <1>2 DEF Fit
  <1>4. validate_clues(spec)
    <2>0. /\ DOMAIN spec.clue_constraints = DOMAIN d.clues /\ DOMAIN spec.clues = DOMAIN d.clues
          /\ \A k \in DOMAIN d.clues :
               /\ spec.clues[k].id = spec.clue_constraints[k].source_clue
               /\ spec.clues[k].constraints = {spec.clue_constraints[k].id}
      <3>1. ASSUME NEW k \in DOMAIN d.clues
            PROVE  spec.clues[k].constraints = {spec.clue_constraints[k].id}
        <4> DEFINE id == <<d.clues[k].key>>
        <4>1. spec.clue_constraints[k].id = id
          BY CompiledParts
        <4>2. spec.clues[k].constraints = {id}
          BY CompiledParts
        <4> HIDE DEF id
        <4> QED
          BY <4>1, <4>2
      <3> QED
        BY <3>1, CompiledParts
    <2> HIDE DEF spec
    <2>1. Range(Ids(spec.clue_constraints)) = {spec.clue_constraints[k].id : k \in DOMAIN d.clues}
      BY <2>0 DEF Range, Ids
    <2>2. ASSUME NEW x
          PROVE  (\E c \in Range(spec.clues) : x \in c.constraints)
                 <=> (\E k \in DOMAIN d.clues : x = spec.clue_constraints[k].id)
      BY <2>0 DEF Range
    <2>3. ASSUME NEW x \in Range(spec.clue_constraints)
          PROVE  \E c \in Range(spec.clues) : c.id = x.source_clue /\ x.id \in c.constraints
      <3>1. PICK k \in DOMAIN d.clues : x = spec.clue_constraints[k]
        BY <1>2
      <3>2. spec.clues[k] \in Range(spec.clues)
        BY <2>0 DEF Range
      <3> QED
        BY <2>0, <3>1, <3>2
    <2>4. (UNION {c.constraints : c \in Range(spec.clues)}) = Range(Ids(spec.clue_constraints))
      BY <2>1, <2>2
    <2> QED
      BY <2>3, <2>4 DEF validate_clues
  <1>5. spec.clue_constraints # <<>>
    <2>1. 1 \in DOMAIN spec.clue_constraints
      BY DraftShape, CompiledParts
    <2> QED
      BY <2>1
  <1> QED
    BY <1>3, <1>4, <1>5

(* So a draft whose messages are warnings at most compiles to a valid specification. *)
LEMMA FaultFreeDraftsCompile ==
  ASSUME NEW d, IsDraft(d), FaultFree(d)
  PROVE  validate_logic_grid_contract(compile(d))
  <1> DEFINE spec == compile(d)
             size == Len(spec.domains[1].values)
  <1>1. \A k \in DOMAIN d.categories :
          Len(spec.domains[k].values) = Len(d.categories[1].items)
    <2>1. ASSUME NEW k \in DOMAIN d.categories
          PROVE  Len(spec.domains[k].values) = Len(d.categories[1].items)
      <3> DEFINE values == spec.domains[k].values
                 n == Len(d.categories[1].items)
      <3>1. n \in Nat /\ DOMAIN d.categories[k].items = 1 .. n
        BY DraftShape
      <3>2. values = [i \in DOMAIN d.categories[k].items |-> values[i]]
        BY CompiledSequences
      <3> HIDE DEF values, n
      <3>3. Len(values) = n
        BY <3>1, <3>2, LengthOfFunction
      <3> QED
        BY <3>3 DEF values, n
    <2> QED
      BY <2>1
  <1>2. Len(spec.categories) >= 3 /\ size >= 2
    <2> DEFINE cats == spec.categories
    <2>1. cats = [k \in 1 .. Len(d.categories) |-> cats[k]]
      BY CompiledSequences, DraftShape
    <2> HIDE DEF cats
    <2>2. Len(cats) = Len(d.categories)
      BY <2>1, DraftShape, LengthOfFunction
    <2>3. 1 \in DOMAIN d.categories
      BY DraftShape
    <2>4. size = Len(d.categories[1].items)
      BY <1>1, <2>3
    <2> QED
      BY <2>2, <2>4, DraftShape DEF cats
  <1>3. \A ids \in {Ids(spec.domains), Ids(spec.categories), Labels(spec.categories), Ids(spec.clues),
                    Ids(spec.bijections) \o Ids(spec.clue_constraints)} : ~Repeats(ids)
    BY CompiledIdsDiffer, ConstraintIdsDiffer
  <1>4. spec.anchor \in Range(Ids(spec.categories))
    <2>1. PICK m \in DOMAIN d.categories : AnchorAt(d, m)
      BY AnchorHasDomain DEF FaultFree
    <2>2. spec.anchor = d.categories[m].key
      BY <2>1 DEF AnchorAt
    <2> QED
      BY <2>2, CompiledParts DEF Range, Ids
  <1>5. \A e \in Range(spec.domains) : Len(e.values) = size /\ ~Repeats(Labels(e.values))
    <2>1. 1 \in DOMAIN d.categories
      BY DraftShape
    <2>2. \A e \in Range(spec.domains) : \E k \in DOMAIN d.categories : e = spec.domains[k]
      BY CompiledParts DEF Range
    <2> QED
      BY <1>1, <2>1, <2>2, CompiledIdsDiffer
  <1>6. /\ Distinct([k \in DOMAIN spec.categories |-> spec.categories[k].variables])
        /\ Distinct([k \in DOMAIN spec.domains |-> Ids(spec.domains[k].values)])
    BY CompiledIdsDiffer
  <1>7. {b.variables : b \in Range(spec.bijections)} = {c.variables : c \in Range(spec.categories)}
    <2>0. /\ DOMAIN spec.bijections = DOMAIN d.categories
          /\ DOMAIN spec.categories = DOMAIN d.categories
          /\ \A k \in DOMAIN d.categories :
               /\ spec.bijections[k].variables = ItemVariables(d.categories[k])
               /\ spec.categories[k].variables = ItemVariables(d.categories[k])
      BY CompiledParts
    <2> HIDE DEF spec
    <2>1. {b.variables : b \in Range(spec.bijections)}
            = {ItemVariables(d.categories[k]) : k \in DOMAIN d.categories}
      BY <2>0 DEF Range
    <2>2. {c.variables : c \in Range(spec.categories)}
            = {ItemVariables(d.categories[k]) : k \in DOMAIN d.categories}
      BY <2>0 DEF Range
    <2> QED
      BY <2>1, <2>2
  <1>8. /\ validate_anchor_domain(AnchorDomain(spec))
        /\ \A i \in DOMAIN AnchorDomain(spec).values :
             LET v == AnchorDomain(spec).values[i].id IN v \in DOMAIN spec.givens /\ spec.givens[v] = v
    BY AnchorDomainValid
  <1>9. /\ spec.clue_constraints # <<>>
        /\ \A x \in Range(spec.clue_constraints) :
             validate_expression(x.expression, spec) /\ boolean_variables(x.expression) # {}
        /\ validate_clues(spec)
    BY CompiledCluesValid
  <1> HIDE DEF spec
  <1> QED
    BY <1>2, <1>3, <1>4, <1>5, <1>6, <1>7, <1>8, <1>9 DEF validate_logic_grid_contract, spec

(* A draft whose messages are warnings at most is accepted by the specification  *)
(* it compiles to: assess_logic_grid_builder returns an assessment instead of    *)
(* raising, for every draft and every clue template.                             *)
THEOREM ValidDraftsAlwaysCompile == BuilderSpec => []ValidDraftsCompile
  <1>1. ASSUME BuilderInv PROVE ValidDraftsCompile
    <2>1. SUFFICES ASSUME assessment.status = "raised" PROVE FALSE
      BY DEF ValidDraftsCompile
    <2> DEFINE levels == validate_draft(draft)
    <2>2. \A s, t : Assessment(s, t).status = s
      BY DEF Assessment
    <2>3. PICK verify \in BOOLEAN : assessment \in Assessments(draft, verify)
      BY <1>1, <2>1, <2>2 DEF BuilderInv, None
    <2>4. "invalid" \notin levels
      BY <2>1, <2>2, <2>3 DEF Assessments
    <2>5. "incomplete" \notin levels
      BY <2>1, <2>2, <2>3, <2>4 DEF Assessments
    <2>6. validate_logic_grid_contract(compile(draft))
      <3>1. FaultFree(draft)
        BY <2>4, <2>5, FaultsAreReported
      <3> QED
        BY <1>1, <3>1, FaultFreeDraftsCompile DEF BuilderInv
    <2>7. verify => \E p \in proofs(compile(draft)) :
            assessment = IF ~p.proved THEN Assessment(p.level, "proof")
                         ELSE [status |-> IF "warning" \in levels THEN "warning" ELSE "valid",
                               stage |-> "ready", solution |-> {p.solution}]
      BY <2>3, <2>4, <2>5, <2>6 DEF Assessments
    <2>8. ~verify => assessment = Assessment("unproven", "preview")
      BY <2>3, <2>4, <2>5, <2>6 DEF Assessments
    <2>9. \A p \in proofs(compile(draft)) : p.level \in {"unproven", "invalid"}
      BY DEF proofs
    <2> QED
      BY <2>1, <2>2, <2>7, <2>8, <2>9
  <1> QED
    BY <1>1, BuilderInvariant, PTL
=============================================================================
