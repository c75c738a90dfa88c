------------------------- MODULE LogicEquationsEngine -----------------------
(* The solve loop with the Logic Equations catalogue. *)
EXTENDS HumanEngine, LogicEquationsRules

(* The assignments a candidate's supporting constraint admits when each        *)
(* variable has the given candidates.                                          *)
EquationModels(c, cand) ==
  IF c.rule = "all_different"
  THEN {f \in [c.support -> Values] :
          /\ \A x \in c.support : f[x] \in cand[x]
          /\ \A x, y \in c.support : x # y => f[x] # f[y]}
  ELSE {f \in Clues[c.support].allows :
          \A x \in Clues[c.support].variables : f[x] \in cand[x]}

(* Every application the six rules discover follows from the candidates and    *)
(* from the one constraint it cites, as the rules read it.                     *)
EquationRulesAreSound ==
  \A c \in logic_equations_applications(current) :
    \A f \in EquationModels(c, current.cand) : Holds(f, c.claim)
=============================================================================
