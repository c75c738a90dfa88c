---------------------------- MODULE HumanEngine ----------------------------
(***************************************************************************)
(* The human-rule solve loop with its verification authority.  Each turn   *)
(* picks an untried rule candidate, checks the proposal, asks every        *)
(* verification backend whether the negated conclusion is satisfiable, and *)
(* reduces the state only when all of them answer unsat.                   *)
(*                                                                         *)
(* Rules are external: find_applications(s) is what they discover in s,    *)
(* right or wrong.  The turn is one step: it runs in one thread on         *)
(* immutable values.                                                       *)
(***************************************************************************)
EXTENDS Verification

CONSTANTS
  find_applications(_),
  InitialStates,          \* the states solve may be called with
  MaxSteps                \* the caller's max_steps

ASSUME InitialStatesAssumption == InitialStates \subseteq PuzzleState
ASSUME MaxStepsAssumption == MaxSteps \in Nat \ {0}

VARIABLES
  initial,                \* the state solve was called with
  current,
  attempted,              \* candidates tried in the current state
  applied_steps,
  status

vars == <<initial, current, attempted, applied_steps, status>>

Finals == {"solved", "stalled", "inconclusive", "quarantined", "limit_reached"}
Statuses == Finals \cup {"running", "contract_error"}

(* States stay well formed, and the loop neither passes its step limit nor remembers *)
(* a candidate of another state.                                                     *)
TypeOK ==
  /\ initial \in PuzzleState
  /\ current \in PuzzleState
  /\ attempted \subseteq find_applications(current)
  /\ applied_steps \in 0 .. MaxSteps
  /\ status \in Statuses

----------------------------------------------------------------------------
(* Mutant: the premises need not be facts of the state. *)
validate_proposal_Premises(s, c) ==
  LET a == c.claim IN
  /\ a.kind \in {"assignment", "exclusion"}
  /\ a.var \in Variables
  /\ a.val \in s.cand[a.var]
  /\ s.cand[a.var] # {a.val}

(* A proposal cites asserted atoms and concludes one assignment or exclusion of  *)
(* a current candidate of a variable that is still undecided.  A claim of any    *)
(* other kind stands for each other way a proposal can break its contract.       *)
validate_proposal(s, c) ==
  LET a == c.claim IN
  /\ c.premises \subseteq Asserted(s)
  /\ a.kind \in {"assignment", "exclusion"}
  /\ a.var \in Variables
  /\ a.val \in s.cand[a.var]
  /\ s.cand[a.var] # {a.val}

(* The event carries exactly the proved conclusion and is reduced at once. *)
apply_verified_event(s, a) ==
  IF a.kind = "assignment" THEN Assign(s, a.var, a.val, s.sequence_no + 1)
  ELSE Eliminate(s, a.var, {a.val}, s.sequence_no + 1)

----------------------------------------------------------------------------
Init ==
  /\ initial \in InitialStates
  /\ validate_structural_invariants(initial)
  /\ validate_state(initial)
  /\ current = initial
  /\ attempted = {}
  /\ applied_steps = 0
  /\ status = "running"

Continue ==
  /\ status = "running"
  /\ ~Solved(current)
  /\ applied_steps < MaxSteps

(* Any policy picks one of the candidates not yet tried in this state.  The code *)
(* keeps (state hash, candidate) pairs; the hash covers the sequence number, so   *)
(* the pairs of earlier states never match again and are dropped here.            *)
Try(c) ==
  /\ Continue
  /\ c \notin attempted
  /\ UNCHANGED initial

(* Mutant: a proposal that broke its contract is forgotten. *)
RejectProposal_NotRecorded(c) ==
  /\ Try(c)
  /\ ~validate_proposal(current, c)
  /\ UNCHANGED <<current, attempted, applied_steps, status>>

RejectProposal(c) ==
  /\ Try(c)
  /\ ~validate_proposal(current, c)
  /\ attempted' = attempted \cup {c}
  /\ UNCHANGED <<current, applied_steps, status>>

(* The authority withheld the result: rejection moves on, the rest halts. *)
Withhold(c, r) ==
  /\ attempted' = attempted \cup {c}
  /\ coordinator_verify(r) # "verified"
  /\ status' = IF coordinator_verify(r) = "rejected" THEN status ELSE coordinator_verify(r)
  /\ UNCHANGED <<current, applied_steps>>

(* A verified result that fails validate_state raises instead of being kept. *)
Apply(c, r) ==
  /\ coordinator_verify(r) = "verified"
  /\ LET result == apply_verified_event(current, c.claim)
         valid  == validate_state(result)
     IN  /\ current' = IF valid THEN result ELSE current
         /\ applied_steps' = IF valid THEN applied_steps + 1 ELSE applied_steps
         /\ attempted' = IF valid THEN {} ELSE attempted \cup {c}
         /\ status' = IF valid THEN status ELSE "contract_error"

Evaluate(c) ==
  /\ Try(c)
  /\ validate_proposal(current, c)
  /\ \E r \in Certificates(current, c.premises, c.claim) : Withhold(c, r) \/ Apply(c, r)

Stall ==
  /\ Continue
  /\ find_applications(current) \subseteq attempted
  /\ status' = "stalled"
  /\ UNCHANGED <<initial, current, attempted, applied_steps>>

(* Mutant: leaving the loop counts as solving. *)
Finish_AlwaysSolved ==
  /\ status = "running"
  /\ Solved(current) \/ applied_steps >= MaxSteps
  /\ status' = "solved"
  /\ UNCHANGED <<initial, current, attempted, applied_steps>>

Finish ==
  /\ status = "running"
  /\ Solved(current) \/ applied_steps >= MaxSteps
  /\ status' = IF Solved(current) THEN "solved" ELSE "limit_reached"
  /\ UNCHANGED <<initial, current, attempted, applied_steps>>

Turn ==
  \/ \E c \in find_applications(current) :
       \/ RejectProposal(c)
       \/ Evaluate(c)
  \/ Stall
  \/ Finish

(* solve has returned or raised. *)
Returned == status # "running" /\ UNCHANGED vars

Next == Turn \/ Returned

Spec == Init /\ [][Next]_vars

(* The loop runs in one thread that nothing blocks: backends answer within *)
(* their timeout.                                                          *)
FairSpec == Spec /\ WF_vars(Turn)

----------------------------------------------------------------------------
(* Properties. *)

(* However many backends are wrong, as long as one is correct no reasoning step *)
(* loses or gains a solution of the state solve was called with.                *)
SolutionsPreserved == Models(current) = Models(initial)

(* The guard "verified rule produced invalid state" never fires: a state that   *)
(* passes verification also passes validate_state, all-different included,      *)
(* though neither the proposal check nor reduce_state looks at all-different.   *)
VerifiedStatesAreValid == status # "contract_error" /\ validate_state(current)

(* A solved verdict is the puzzle's only solution, whenever the puzzle has one  *)
(* or at least one deduction was verified.  (With no step to verify, a state    *)
(* whose givens already decide everything is reported solved unchecked.)        *)
SolvedIsUnique ==
  status = "solved" /\ (applied_steps > 0 \/ Models(initial) # {}) =>
    \E f \in Solutions : Models(initial) = {f} /\ \A x \in Variables : current.cand[x] = {f[x]}

(* solve returns within its step limit: rejected candidates are not tried again *)
(* in the same state and every accepted one removes a candidate.                *)
Terminates == <>(status # "running") /\ [](applied_steps <= MaxSteps)

Narrowing == INSTANCE SoundNarrowing WITH
  cand    <- current.cand,
  verdict <- IF status = "running" THEN "none" ELSE status

(* The loop implements sound narrowing: only candidates no solution uses are    *)
(* removed, and a verdict is final.                                             *)
ImplementsNarrowing == Narrowing!Spec
=============================================================================
