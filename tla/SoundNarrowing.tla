--------------------------- MODULE SoundNarrowing ---------------------------
(***************************************************************************)
(* What verified human reasoning promises: candidates are only removed,    *)
(* never at the cost of a solution, and once a verdict is given nothing    *)
(* changes any more.  A puzzle is declared solved only when one candidate  *)
(* is left everywhere.                                                     *)
(***************************************************************************)
CONSTANTS Variables, Values, Solutions

VARIABLES cand, verdict

vars == <<cand, verdict>>

Verdicts == {"solved", "stalled", "inconclusive", "quarantined", "limit_reached"}

Within(f, c) == \A x \in Variables : f[x] \in c[x]
Decided(c) == \A x \in Variables : \E v \in Values : c[x] = {v}

Init ==
  /\ cand \in [Variables -> SUBSET Values]
  /\ verdict = "none"

Deduce ==
  /\ verdict = "none"
  /\ cand' \in [Variables -> SUBSET Values]
  /\ \A x \in Variables : cand'[x] \subseteq cand[x]
  /\ \A f \in Solutions : Within(f, cand) => Within(f, cand')
  /\ UNCHANGED verdict

Conclude ==
  /\ verdict = "none"
  /\ verdict' \in Verdicts
  /\ verdict' = "solved" => Decided(cand)
  /\ UNCHANGED cand

Next == Deduce \/ Conclude

Spec == Init /\ [][Next]_vars
=============================================================================
