---------------------------- MODULE Verification ----------------------------
(***************************************************************************)
(* The verification authority: what a backend may certify about one claim  *)
(* in one state, and what the coordinator makes of all certificates.       *)
(*                                                                         *)
(* A backend in Honest answers as a correct solver would, times out, or     *)
(* refuses a clue whose table would be too large; the others may answer    *)
(* anything.                                                               *)
(***************************************************************************)
EXTENDS ReasoningState, FiniteSets

CONSTANTS
  Solutions,              \* the assignments that satisfy every constraint
  Backends, Honest,
  Tabulating,             \* the backends that write each clue out as a table (CP-SAT)
  Tables,                 \* the variables of each clue
  MAX_TABLE_COMBINATIONS  \* rows a table is built from, 1,000,000 in the code

ASSUME SolutionsAssumption ==
  /\ Solutions \subseteq [Variables -> Values]
  /\ \A f \in Solutions : \A x \in Variables : f[x] \in Domain[x]
  /\ \A f \in Solutions : \A g \in AllDifferent : \A x, y \in g : x # y => f[x] # f[y]
ASSUME BackendsAssumption == Honest \subseteq Backends /\ Honest # {}
ASSUME TablesAssumption == Tables \subseteq SUBSET Variables /\ MAX_TABLE_COMBINATIONS \in Nat

Results == {"sat", "unsat", "unknown", "invalid"}

(* The backends' question: do the solutions that the state still admits, and *)
(* that satisfy the obligation's assumptions, all satisfy the claim?  The     *)
(* state's asserted atoms are added to the problem as well; validate_state    *)
(* has them agree with the candidates, so they exclude nothing more.          *)

Models(s) == {f \in Solutions : \A x \in Variables : f[x] \in s.cand[x]}

Holds(f, a) == IF a.kind = "assignment" THEN f[a.var] = a.val ELSE f[a.var] # a.val

Assuming(s, P) == {f \in Models(s) : \A p \in P : Holds(f, p)}

Entails(s, P, a) == \A f \in Assuming(s, P) : Holds(f, a)

(* prepare_problem refuses contradictory, invalid or unsupported states. *)
prepare_problem(s) ==
  /\ s.contradictions = {}
  /\ validate_state(s)
  /\ s.other = {}

(* The combinations of current candidates that a clue over X is tabulated from. *)
combinations(s, X) == Cardinality({f \in [X -> Values] : \A x \in X : f[x] \in s.cand[x]})

(* Whether backend b can encode the state: no table exceeds the limit. *)
encodable(b, s) ==
  b \in Tabulating => \A X \in Tables : combinations(s, X) <= MAX_TABLE_COMBINATIONS

(* Mutant: the satisfiability of the source state is not checked first. *)
BackendAnswers_NoBaseCheck(b, s, P, a) ==
  IF ~prepare_problem(s) \/ ~encodable(b, s) THEN {"invalid"}
  ELSE IF Entails(s, P, a) THEN {"unsat", "unknown"} ELSE {"sat", "unknown"}

(* What a correct backend b may certify; it may run out of time on either check. *)
BackendAnswers(b, s, P, a) ==
  IF ~prepare_problem(s) \/ ~encodable(b, s) THEN {"invalid"}
  ELSE IF Assuming(s, P) = {} THEN {"invalid", "unknown"}
  ELSE IF Entails(s, P, a) THEN {"unsat", "unknown"} ELSE {"sat", "unknown"}

Certificates(s, P, a) ==
  LET correct == UNION {{b} \X BackendAnswers(b, s, P, a) : b \in Honest}
  IN  {r \in [Backends -> Results] : \A b \in Honest : <<b, r[b]>> \in correct}

(* Mutant: a backend that timed out is left out of the decision. *)
coordinator_verify_TimeoutIgnored(r) ==
  LET results == {r[b] : b \in Backends} \ {"unknown"} IN
  IF {"sat", "unsat"} \subseteq results THEN "quarantined"
  ELSE IF "invalid" \in results THEN "rejected"
  ELSE IF results = {"unsat"} THEN "verified"
  ELSE "rejected"

(* The coordinator's decision over all certificates. *)
coordinator_verify(r) ==
  LET results == {r[b] : b \in Backends} IN
  IF {"sat", "unsat"} \subseteq results THEN "quarantined"
  ELSE IF "invalid" \in results THEN "rejected"
  ELSE IF "unknown" \in results THEN "inconclusive"
  ELSE IF results = {"unsat"} THEN "verified"   \* backend_ or cross_verified
  ELSE "rejected"
=============================================================================
