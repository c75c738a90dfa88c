----------------------------- MODULE ScopeStack -----------------------------
(***************************************************************************)
(* What retained branches promise a reasoner: nested scopes of hypothetical*)
(* reasoning.  A scope narrows the candidates of the scope around it, only *)
(* the innermost scope changes, a refuted scope accepts nothing more, and  *)
(* leaving a scope restores the enclosing one exactly as it was entered.   *)
(***************************************************************************)
EXTENDS Naturals, Sequences

CONSTANTS Variables, Values

VARIABLE stack        \* the scopes, outermost first

Narrower(c, d) == \A x \in Variables : c[x] \subseteq d[x]

Top == stack[Len(stack)]

Init == stack \in [1 .. 1 -> [cand : [Variables -> SUBSET Values], refuted : {FALSE}]]

Narrowings == {c \in [Variables -> SUBSET Values] : Narrower(c, Top.cand)}

Enter ==
  /\ ~Top.refuted
  /\ Len(stack') = Len(stack) + 1
  /\ \E c \in Narrowings : stack' = Append(stack, [cand |-> c, refuted |-> FALSE])

Narrow ==
  /\ ~Top.refuted
  /\ Len(stack') = Len(stack)
  /\ \E c \in Narrowings : stack' = [stack EXCEPT ![Len(stack)].cand = c]

Refute ==
  /\ ~Top.refuted
  /\ stack' = [stack EXCEPT ![Len(stack)].refuted = TRUE]

Leave ==
  /\ Len(stack) > 1
  /\ stack' = SubSeq(stack, 1, Len(stack) - 1)

Next == Enter \/ Narrow \/ Refute \/ Leave

Spec == Init /\ [][Next]_stack
=============================================================================
