--------------------------- MODULE LogicGridEngine --------------------------
(* The solve loop with the Logic Grid catalogue: what its rules propose in the *)
(* states the loop reaches, and how far they lead.                             *)
EXTENDS HumanEngine, LogicGridRules

(* What create_initial_state makes of a Logic Grid puzzle: its givens are       *)
(* assignments and exclusions, and only a given takes a candidate away.         *)
AbsencesExplained(s) == \A x \in Variables : Explained(x, Values \ s.cand[x], s)
GridStart(s) == s.contradictions = {} /\ s.other = {} /\ AbsencesExplained(s)

ASSUME StartsAssumption == \A s \in InitialStates : GridStart(s)

(* The assignments that a candidate's supporting clue or category admits when   *)
(* each variable has the given candidates.                                      *)
SupportModels(c, cand) ==
  IF c.rule = "category_bijection"
  THEN {f \in [c.support -> Values] :
          /\ \A x \in c.support : f[x] \in cand[x]
          /\ \A x, y \in c.support : x # y => f[x] # f[y]}
  ELSE {f \in [boolean_variables(c.support) -> Values] :
          /\ \A x \in boolean_variables(c.support) : f[x] \in cand[x]
          /\ evaluate_boolean(c.support, f)}

(* Every application the rules discover follows from the candidates and from    *)
(* the one clue or category it cites: no rule needs the solvers to be right.    *)
RulesAreSound ==
  \A c \in logic_grid_applications(current) :
    \A f \in SupportModels(c, current.cand) : Holds(f, c.claim)

OrderBound(c) == c.rule = "ordering" /\ c.premises = {}

(* The premises a rule cites are complete: with the cited clue and the current  *)
(* candidates of the concluded variable they give the conclusion, whatever the  *)
(* other variables' candidates are.  Order bounds cite no premises; they are    *)
(* read off the current candidates of both ends.                                *)
PremisesExplain ==
  \A c \in logic_grid_applications(current) :
    LET x == c.claim.var
        cand == [y \in Variables |-> IF y = x THEN current.cand[x] ELSE Values]
    IN  ~OrderBound(c) =>
          \A f \in SupportModels(c, cand) : (\A p \in c.premises : Holds(f, p)) => Holds(f, c.claim)

(* Whether all backends can encode the state: CP-SAT refuses one in which a     *)
(* clue has more combinations of candidates than a table may hold.              *)
Encodable(s) == \A b \in Backends : encodable(b, s)

(* When every backend is correct, nothing the catalogue proposes for a solvable *)
(* puzzle is ever rejected, neither for a premise that the state does not       *)
(* assert nor by the backends: each turn narrows the state, unless time runs    *)
(* out.  A puzzle too large to be tabulated at the start is the exception: then  *)
(* no step is ever verified, not even one that would make the tables smaller.   *)
NothingIsRejected ==
  Honest = Backends /\ Models(initial) # {} =>
    IF Encodable(initial) THEN attempted = {} \/ status = "inconclusive"
    ELSE current = initial

Supported(c, x, v) ==
  \E f \in [boolean_variables(c) -> Values] :
    /\ f[x] = v
    /\ \A y \in boolean_variables(c) : f[y] \in current.cand[y]
    /\ evaluate_boolean(c, f)

(* With correct backends, and a puzzle they can all encode, the loop stalls     *)
(* only when the local rules are exhausted: every candidate is supported by     *)
(* each clue that relates two items or has one open item, and each category's   *)
(* placed rows are closed and sole positions taken.                             *)
StalledIsConsistent ==
  status = "stalled" /\ Honest = Backends /\ Models(initial) # {} /\ Encodable(initial) =>
    /\ \A c \in Clues : \A x \in boolean_variables(c) : \A v \in current.cand[x] :
         c.shape \in Relations \/ (\A y \in boolean_variables(c) \ {x} : Fixed(current, y))
           => Supported(c, x, v)
    /\ \A g \in AllDifferent : \A v \in Values : \A x \in g :
         /\ current.cand[x] = {v} => \A y \in g \ {x} : v \notin current.cand[y]
         /\ (\A y \in g \ {x} : v \notin current.cand[y]) => current.cand[x] = {v}

(* Where the rules lead when the first proposal is always taken: every step     *)
(* removes a candidate, so that so many steps exhaust them.                     *)
TakeFirst(s) ==
  LET found == logic_grid_applications(s) IN
  IF found = {} THEN s ELSE apply_verified_event(s, (CHOOSE d \in found : TRUE).claim)

Outcome(s) ==
  LET bound == Cardinality(Cells)
      after[n \in 0 .. bound] == IF n = 0 THEN s ELSE TakeFirst(after[n - 1])
  IN  after[bound].cand

(* The policy's choices decide the explanation, never the outcome: whatever     *)
(* order it picks candidates in, with correct backends a solvable puzzle ends   *)
(* with the same candidates.  Those of a puzzle that some backend cannot encode *)
(* are the ones it started with.                                                *)
OutcomeIsOrderIndependent ==
  status \in {"stalled", "solved"} /\ Honest = Backends /\ Models(initial) # {} =>
    current.cand = IF Encodable(initial) THEN Outcome(initial) ELSE initial.cand
=============================================================================
