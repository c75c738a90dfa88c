------------------------ MODULE LogicEquationsReaders -----------------------
(* One Logic Equations puzzle as each part of the program reads it: the rules  *)
(* and the loop, the two encodings the backends solve, and the final checker.  *)
EXTENDS LogicEquationsEngine, LogicEquationsClues

CONSTANT ClueExpressions  \* the expression of each constraint

ValuesCount == Cardinality(Values)

Z3Solutions == encoded_solutions("z3", ClueExpressions, Variables, ValuesCount)
CpsatSolutions == encoded_solutions("cpsat", ClueExpressions, Variables, ValuesCount)

ASSUME ReadersAssumption ==
  /\ \A i \in DOMAIN ClueExpressions :
       /\ ClueExpressions[i] \in Booleans(AllExpressions)
       /\ boolean_variables(ClueExpressions[i]) \subseteq Variables
  /\ Clues = [i \in DOMAIN ClueExpressions |-> rules_clue(ClueExpressions[i], ValuesCount)]
  /\ Solutions = Z3Solutions

(* Some modulus of the expression has a negative divisor under f.  The           *)
(* encodings' documentation says "Modulo requires a positive divisor", and both  *)
(* refuse another, but nothing keeps a puzzle from having one.                   *)
negative_modulus(e, f) ==
  LET found[d \in AllExpressions] ==
        \/ d.kind = "modulo" /\ equation_numeric("rules", d.divisor, f).n < 0
        \/ \E c \in Children(d) : found[c]
  IN  found[e]

(* On every clue and assignment the two encodings agree, and the rules with the  *)
(* final checker; these differ from the encodings on a negative modulus only.    *)
CluesAreReadAlike ==
  \A i \in DOMAIN ClueExpressions : \A f \in [Variables -> Values] :
    LET e == ClueExpressions[i] IN
    /\ equations_z3(e, f) = equations_cpsat(e, f)
    /\ equations_rules(e, f) = equations_checker(e, f)
    /\ equations_rules(e, f) = equations_z3(e, f) \/ negative_modulus(e, f)

(* The proposal cites a clue that the rules read differently under f. *)
Misread(c, f) == c.rule # "all_different" /\ negative_modulus(ClueExpressions[c.support], f)

(* The clues without a negative modulus under f. *)
PlainClues(f) ==
  [i \in {j \in DOMAIN ClueExpressions : ~negative_modulus(ClueExpressions[j], f)} |-> ClueExpressions[i]]

(* The rules, the two encodings and the final checker evaluate a clue with code  *)
(* of their own, yet agree: what a rule proposes holds in every solution either  *)
(* encoding admits, and the checker accepts what the loop solves, in both cases  *)
(* but for the clues that have a negative modulus under that very solution.      *)
ReadersAgree ==
  /\ CluesAreReadAlike
  /\ \A c \in logic_equations_applications(current) :
       \A f \in Models(current)
               \cup {g \in CpsatSolutions :
                       \A v \in Variables : g[v] \in current.cand[v]} :
         Holds(f, c.claim) \/ Misread(c, f)
  /\ status = "solved" /\ applied_steps > 0 =>
       LET f == [v \in Variables |-> CHOOSE n \in current.cand[v] : TRUE]
       IN  check_logic_equations_solution(PlainClues(f), f)
=============================================================================
