--------------------------- MODULE MCHumanEngine ---------------------------
(* Three variables over 1..3 with one clue for each technique of the Logic      *)
(* Equations rules; beside these rules, one that guesses, one that presumes and *)
(* one that breaks its contract.                                                *)
EXTENDS LogicEquationsReaders, FiniteSetsExt, TLC

MCVariables == {"x", "y", "z"}
MCValues == {1, 2, 3}
MCDomain == [v \in MCVariables |-> MCValues]
MCAllDifferent == {MCVariables}

Num(n) == [kind |-> "constant", value |-> n]
Var(v) == [kind |-> "variable_reference", variable |-> v]
Op(kind, l, r) == [kind |-> kind, left |-> l, right |-> r]
Div(kind, l, r) == [kind |-> kind, dividend |-> l, divisor |-> r]
Is(v, n) == Op("equal", Var(v), Num(n))
Minus(l, r) == Op("subtract", Var(l), Var(r))

(* x < y; x - y leaves 2 modulo 3; (z - y) / (x - y) is whole and at most 2; if   *)
(* z leaves nothing modulo x - y, which x < y makes negative, then z = 1, a       *)
(* premise that the rules find true of each solution and the encodings of none;   *)
(* z = 1 or y = 2.                                                                *)
MCClueExpressions ==
  <<Op("less_than", Var("x"), Var("y")),
    Op("equal", Div("modulo", Minus("x", "y"), Num(3)), Num(2)),
    Op("less_than_or_equal", Div("exact_divide", Minus("z", "y"), Minus("x", "y")), Num(2)),
    [kind |-> "implies",
     premise |-> Op("equal", Div("modulo", Var("z"), Minus("x", "y")), Num(0)),
     conclusion |-> Is("z", 1)],
    [kind |-> "or", operands |-> <<Is("z", 1), Is("y", 2)>>]>>

(* The parts of an expression, then itself. *)
RECURSIVE Make(_)
Make(e) == Append(FoldSet(LAMBDA d, s : s \o Make(d), <<>>, Children(e)), e)
MCExpressions ==
  FoldSet(LAMBDA i, s : s \o Make(MCClueExpressions[i]), <<>>, DOMAIN MCClueExpressions)

MCClues == [i \in DOMAIN MCClueExpressions |-> rules_clue(MCClueExpressions[i], 3)]
MCTables == {MCClues[i].variables : i \in DOMAIN MCClues}
MCSolutions == encoded_solutions("z3", MCClueExpressions, MCVariables, 3)

Proposal(rule, premises, claim) ==
  [rule |-> rule, support |-> 0, premises |-> premises, claim |-> claim]

MCFind(s) ==
  logic_equations_applications(s)
  \cup {Proposal("guess", {}, Assignment(p[1], p[2])) :
          p \in {q \in {<<"x", 2>>, <<"z", 1>>} : q[2] \in s.cand[q[1]]}}
  \cup IF s.sequence_no > 0 THEN {}
       ELSE {Proposal("presumed", {Exclusion("z", 3)}, Assignment("y", 3)),
             Proposal("broken", {}, [kind |-> "other", id |-> "rel"])}

State(cand, excluded, other, contradictions) ==
  build_state(cand, {}, excluded, other, contradictions, 0)

(* The open puzzle; two decided further by givens, of which the checker refuses  *)
(* the solution of the second; one whose givens admit no solution, one decided   *)
(* against the clue, a contradictory state and one with an unsupported atom.     *)
MCInitial ==
  {State(MCDomain, {}, {}, {}),
   State([MCDomain EXCEPT !["x"] = {2}], {<<"x", 1>>, <<"x", 3>>}, {}, {}),
   State([MCDomain EXCEPT !["x"] = {1}], {<<"x", 2>>, <<"x", 3>>}, {}, {}),
   State([MCDomain EXCEPT !["x"] = {3}], {}, {}, {}),
   State([x |-> {2}, y |-> {1}, z |-> {3}], {}, {}, {}),
   State(MCDomain, {}, {}, {"c1"}),
   State(MCDomain, {}, {"rel"}, {})}
=============================================================================
