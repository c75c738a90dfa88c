------------------------- MODULE LogicEquationsClues ------------------------
(* From the expressions of a Logic Equations puzzle to what the rules, the     *)
(* backends and the final checker make of them.                                *)
EXTENDS ClueSemantics

simple(e) == e.kind \in {"constant", "variable_reference"}

is_direct_relation(e) == e.kind \in Comparisons /\ simple(e.left) /\ simple(e.right)

technique_for(e) ==
  CASE e.kind = "implies"    -> "implication"
    [] e.kind = "or"         -> "disjunction"
    [] contains_modulo(e)    -> "parity_divisibility"
    [] is_direct_relation(e) -> "direct_relation"
    [] OTHER                 -> "arithmetic"

(* The two ends of an order between different variables. *)
states_order(e) ==
  /\ e.kind \in Comparisons \ {"equal", "not_equal"}
  /\ direct_relation(e)
  /\ e.left.variable # e.right.variable

(* The clue as the rules read it, over the values 1..n. *)
rules_clue(e, n) ==
  LET variables == boolean_variables(e) IN
  [technique |-> technique_for(e),
   variables |-> variables,
   allows    |-> {f \in [variables -> 1 .. n] : equations_rules(e, f)},
   order     |-> IF states_order(e) THEN e.kind ELSE "none",
   left      |-> IF states_order(e) THEN e.left.variable ELSE "none",
   right     |-> IF states_order(e) THEN e.right.variable ELSE "none"]

(* The complete assignments an encoding of the clues admits. *)
encoded_solutions(reader, expressions, variables, n) ==
  {f \in [variables -> 1 .. n] :
     /\ \A x, y \in variables : x # y => f[x] # f[y]
     /\ \A i \in DOMAIN expressions : read_equation(reader, expressions[i], f)}

(* A complete assignment is accepted when all values differ and every clue holds. *)
check_logic_equations_solution(expressions, f) ==
  /\ \A x, y \in DOMAIN f : x # y => f[x] # f[y]
  /\ \A i \in DOMAIN expressions : equations_checker(expressions[i], f)
=============================================================================
