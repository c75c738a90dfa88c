------------------------- MODULE HumanEngineProofs -------------------------
(***************************************************************************)
(* Why verified human reasoning is sound, for every puzzle, every set of   *)
(* rules and every set of backends of which at least one is correct.       *)
(*                                                                         *)
(* The inductive invariant adds to the properties that the current state   *)
(* satisfies the constructor's checks and that a state reached by a        *)
(* verified step still has a solution: the backend that certified the step *)
(* had checked satisfiability first.                                       *)
(***************************************************************************)
EXTENDS HumanEngine, TLAPS

HInv ==
  /\ TypeOK
  /\ validate_structural_invariants(current)
  /\ SolutionsPreserved
  /\ VerifiedStatesAreValid
  /\ applied_steps > 0 => Models(current) # {}
  /\ status = "solved" => Solved(current)

(* What a correct backend certifies is what it may answer. *)
LEMMA CorrectAnswers ==
  ASSUME NEW s, NEW P, NEW a, NEW r \in Certificates(s, P, a), NEW b \in Honest
  PROVE  r[b] \in BackendAnswers(b, s, P, a)
  <1>1. PICK h \in Honest : <<b, r[b]>> \in {h} \X BackendAnswers(h, s, P, a)
    BY DEF Certificates
  <1> QED
    BY <1>1

(* One correct backend is enough: its unsat answer is needed for a verdict. *)
LEMMA VerifiedMeansEntailed ==
  ASSUME NEW s, NEW P, NEW a, NEW r \in Certificates(s, P, a), coordinator_verify(r) = "verified"
  PROVE  prepare_problem(s) /\ Assuming(s, P) # {} /\ Entails(s, P, a)
  <1>1. PICK h \in Honest : h \in Backends
    BY BackendsAssumption
  <1>2. {r[b] : b \in Backends} = {"unsat"}
    BY DEF coordinator_verify
  <1>3. r[h] = "unsat"
    BY <1>1, <1>2
  <1>4. r[h] \in BackendAnswers(h, s, P, a)
    BY CorrectAnswers
  <1>5. CASE ~prepare_problem(s) \/ ~encodable(h, s)
    BY <1>3, <1>4, <1>5 DEF BackendAnswers
  <1>6. CASE prepare_problem(s) /\ encodable(h, s) /\ Assuming(s, P) = {}
    BY <1>3, <1>4, <1>6 DEF BackendAnswers
  <1>7. CASE prepare_problem(s) /\ encodable(h, s) /\ Assuming(s, P) # {} /\ ~Entails(s, P, a)
    BY <1>3, <1>4, <1>7 DEF BackendAnswers
  <1> QED
    BY <1>5, <1>6, <1>7

(* Premises that a valid state asserts assume nothing its candidates do not say. *)
LEMMA AssertedPremises ==
  ASSUME NEW s \in PuzzleState, validate_state(s), NEW P, P \subseteq Asserted(s)
  PROVE  Assuming(s, P) = Models(s)
  <1>1. SUFFICES ASSUME NEW f \in Models(s), NEW p \in P PROVE Holds(f, p)
    BY DEF Assuming
  <1>2. \A x \in Variables : f[x] \in s.cand[x]
    BY DEF Models
  <1>3. CASE \E c \in s.assigned : p = Assignment(c[1], c[2])
    BY <1>2, <1>3 DEF validate_state, AssignmentsAreCandidates, PuzzleState, Cells, Assignment, Holds
  <1>4. CASE \E c \in s.excluded : p = Exclusion(c[1], c[2])
    BY <1>2, <1>4 DEF validate_state, ExclusionsAreNotCandidates, PuzzleState, Cells, Exclusion, Holds
  <1> QED
    BY <1>3, <1>4 DEF Asserted

(* In a consistent state with a solution, decided all-different cells differ. *)
LEMMA ModelsSeparateCells ==
  ASSUME NEW s \in PuzzleState, ConsistentState(s), Models(s) # {}
  PROVE  AssignedValuesDiffer(s)
  <1>1. PICK f \in Models(s) : TRUE
    OBVIOUS
  <1>2. f \in Solutions /\ \A x \in Variables : f[x] \in s.cand[x]
    BY <1>1 DEF Models
  <1>3. \A c \in s.assigned : c[1] \in Variables /\ f[c[1]] = c[2]
    BY <1>2 DEF ConsistentState, AssignmentsAreCandidates, PuzzleState, Cells
  <1>4. SUFFICES ASSUME NEW g \in AllDifferent, NEW c \in s.assigned, NEW d \in s.assigned,
                        c[1] \in g, d[1] \in g, c[1] # d[1]
                 PROVE  c[2] # d[2]
    BY DEF AssignedValuesDiffer
  <1>5. f[c[1]] # f[d[1]]
    BY <1>2, <1>4, SolutionsAssumption
  <1> QED
    BY <1>3, <1>4, <1>5

(* Reducing a conclusion that narrows an undecided variable keeps a state        *)
(* consistent: the singletons it asserts agree with the facts already there.     *)
LEMMA ReducedConsistent ==
  ASSUME NEW s \in PuzzleState, ConsistentState(s), NEW a,
         a.var \in Variables, a.val \in s.cand[a.var], s.cand[a.var] # {a.val}
  PROVE  LET t == apply_verified_event(s, a) IN
           /\ t \in PuzzleState /\ ConsistentState(t)
           /\ t.cand = [s.cand EXCEPT ![a.var] = IF a.kind = "assignment" THEN {a.val} ELSE @ \ {a.val}]
  <1> DEFINE x == a.var
             v == a.val
             assigns == a.kind = "assignment"
             cand == [s.cand EXCEPT ![x] = IF assigns THEN {v} ELSE @ \ {v}]
             asg  == s.assigned \cup IF assigns THEN {<<x, v>>} ELSE {}
             exc  == s.excluded \cup IF assigns THEN {x} \X (s.cand[x] \ {v}) ELSE {x} \X {v}
             t    == apply_verified_event(s, a)
  <1>1. /\ s.cand \in [Variables -> SUBSET Values] /\ s.sequence_no + 1 \in Nat
        /\ s.assigned \in SUBSET Cells /\ s.excluded \in SUBSET Cells
        /\ s.other \in SUBSET OtherAtoms /\ s.contradictions \in SUBSET ContradictionIds
        /\ v \in Values /\ v \in Domain[x]
    BY DEF PuzzleState, ConsistentState, CandidatesInDomain
  <1>2. t = build_state(cand, asg, exc, s.other, s.contradictions, s.sequence_no + 1)
    <2>1. CASE assigns
      BY <2>1 DEF apply_verified_event, Assign
    <2>2. CASE ~assigns
      <3>1. cand = [s.cand EXCEPT ![x] = @ \ {v}] /\ asg = s.assigned /\ exc = s.excluded \cup ({x} \X {v})
        BY <2>2
      <3> HIDE DEF cand, asg, exc
      <3> QED
        BY <2>2, <3>1 DEF apply_verified_event, Eliminate
    <2> QED
      BY <2>1, <2>2
  <1>3. cand \in [Variables -> SUBSET Values] /\ asg \in SUBSET Cells /\ exc \in SUBSET Cells
    BY <1>1 DEF Cells
  <1>4. \A y \in Variables : cand[y] # {} /\ cand[y] \subseteq Domain[y]
    BY <1>1 DEF ConsistentState, CandidatesInDomain
  <1>5. \A c \in asg : cand[c[1]] = {c[2]}
    <2>1. \A c \in s.assigned : c[1] \in Variables /\ s.cand[c[1]] = {c[2]} /\ c[1] # x
      BY <1>1 DEF ConsistentState, AssignmentsAreCandidates, Cells
    <2> QED
      BY <1>1, <2>1
  <1>6. \A c \in exc : c[2] \notin cand[c[1]]
    BY <1>1 DEF ConsistentState, ExclusionsAreNotCandidates, Cells
  <1> HIDE DEF cand, asg, exc, t
  <1>7. t \in PuzzleState
    BY <1>1, <1>2, <1>3 DEF build_state, PuzzleState, Singletons
  <1>8. t.cand = cand /\ t.excluded = exc /\ t.assigned = asg \cup Singletons(cand)
    BY <1>2 DEF build_state
  <1>9. ConsistentState(t)
    BY <1>4, <1>5, <1>6, <1>8 DEF ConsistentState, CandidatesInDomain, AssignmentsAreCandidates,
                                   ExclusionsAreNotCandidates, Singletons
  <1> QED
    BY <1>7, <1>8, <1>9 DEF t, cand

(* A verified conclusion can be applied: the new state is valid and has exactly *)
(* the solutions of the old one.                                                *)
LEMMA VerifiedStep ==
  ASSUME NEW s \in PuzzleState, validate_structural_invariants(s), validate_state(s),
         NEW c, validate_proposal(s, c),
         prepare_problem(s), Models(s) # {}, \A f \in Models(s) : Holds(f, c.claim)
  PROVE  LET t == apply_verified_event(s, c.claim) IN
           /\ t \in PuzzleState
           /\ validate_structural_invariants(t)
           /\ validate_state(t)
           /\ Models(t) = Models(s)
           /\ \A x \in Variables : t.cand[x] \subseteq s.cand[x]
  <1> DEFINE a == c.claim
  <1> DEFINE t == apply_verified_event(s, a)
  <1>1. ConsistentState(s)
    BY DEF ConsistentState, validate_structural_invariants, validate_state, prepare_problem
  <1>2. /\ s.sequence_no + 1 \in Nat
        /\ s.cand \in [Variables -> SUBSET Values]
        /\ a.var \in Variables /\ a.val \in Values
        /\ a.val \in s.cand[a.var] /\ s.cand[a.var] # {a.val}
    BY DEF PuzzleState, validate_proposal
  <1>3. /\ t \in PuzzleState /\ ConsistentState(t)
        /\ t.cand = [s.cand EXCEPT ![a.var] = IF a.kind = "assignment" THEN {a.val} ELSE @ \ {a.val}]
    BY <1>1, <1>2, ReducedConsistent
  <1> HIDE DEF t
  <1>4. \A x \in Variables : t.cand[x] \subseteq s.cand[x]
    BY <1>2, <1>3
  <1>5. Models(t) = Models(s)
    <2>1. CASE a.kind = "assignment"
      <3>1. \A f \in Models(s) : f[a.var] = a.val
        BY <2>1 DEF Holds
      <3> QED
        BY <1>2, <1>3, <1>4, <2>1, <3>1 DEF Models
    <2>2. CASE a.kind # "assignment"
      <3>1. \A f \in Models(s) : f[a.var] # a.val
        BY <2>2 DEF Holds
      <3> QED
        BY <1>2, <1>3, <1>4, <2>2, <3>1 DEF Models
    <2> QED
      BY <2>1, <2>2
  <1>6. AssignedValuesDiffer(t)
    BY <1>3, <1>5, ModelsSeparateCells
  <1>7. validate_state(t) /\ validate_structural_invariants(t)
    BY <1>3, <1>6 DEF ConsistentState, validate_state, validate_structural_invariants
  <1> QED
    BY <1>3, <1>4, <1>5, <1>7 DEF t

(* What an accepted candidate does to the state: a verified step succeeds. *)
LEMMA ApplySucceeds ==
  ASSUME HInv, NEW c, NEW r \in Certificates(current, c.premises, c.claim), Try(c),
         validate_proposal(current, c), Apply(c, r)
  PROVE  /\ current' \in PuzzleState
         /\ validate_structural_invariants(current')
         /\ validate_state(current')
         /\ Models(current') = Models(current)
         /\ Models(current) # {}
         /\ \A x \in Variables : current'.cand[x] \subseteq current.cand[x]
         /\ applied_steps' = applied_steps + 1
         /\ attempted' = {}
         /\ status' = status
         /\ initial' = initial
         /\ status = "running"
         /\ applied_steps < MaxSteps
  <1> DEFINE t == apply_verified_event(current, c.claim)
  <1>0. Assuming(current, c.premises) = Models(current)
    BY AssertedPremises DEF validate_proposal, HInv, TypeOK, VerifiedStatesAreValid
  <1>1. /\ prepare_problem(current)
        /\ Models(current) # {}
        /\ \A f \in Models(current) : Holds(f, c.claim)
    BY <1>0, VerifiedMeansEntailed DEF Apply, Entails
  <1>2. /\ t \in PuzzleState
        /\ validate_structural_invariants(t)
        /\ validate_state(t)
        /\ Models(t) = Models(current)
        /\ \A x \in Variables : t.cand[x] \subseteq current.cand[x]
    BY <1>1, VerifiedStep DEF HInv, TypeOK, VerifiedStatesAreValid
  <1>3. /\ current' = t
        /\ applied_steps' = applied_steps + 1
        /\ attempted' = {}
        /\ status' = status
    BY <1>2 DEF Apply
  <1>4. initial' = initial /\ status = "running" /\ applied_steps < MaxSteps
    BY DEF Try, Continue
  <1> HIDE DEF t
  <1> QED
    BY <1>1, <1>2, <1>3, <1>4

----------------------------------------------------------------------------
(* The loop starts with the state it was called with. *)
LEMMA HInvInit == Init => HInv
  BY InitialStatesAssumption, MaxStepsAssumption
     DEF Init, HInv, TypeOK, SolutionsPreserved, VerifiedStatesAreValid, Statuses

(* Every turn keeps the invariant. *)
LEMMA HInvNext == HInv /\ [Next]_vars => HInv'
  <1> SUFFICES ASSUME HInv, [Next]_vars PROVE HInv'
    OBVIOUS
  <1> USE DEF HInv
  <1>1. ASSUME NEW c \in find_applications(current), RejectProposal(c) PROVE HInv'
    BY <1>1 DEF RejectProposal, Try, Continue, TypeOK, SolutionsPreserved, VerifiedStatesAreValid
  <1>2. ASSUME NEW c \in find_applications(current), Evaluate(c) PROVE HInv'
    <2>1. PICK r \in Certificates(current, c.premises, c.claim) : Withhold(c, r) \/ Apply(c, r)
      BY <1>2 DEF Evaluate
    <2>2. Try(c) /\ validate_proposal(current, c)
      BY <1>2 DEF Evaluate
    <2>3. CASE Withhold(c, r)
      <3>1. status' \in Statuses /\ status' # "contract_error" /\ status' # "solved"
        <4>1. coordinator_verify(r) \in {"quarantined", "rejected", "inconclusive", "verified"}
          BY DEF coordinator_verify
        <4> QED
          BY <2>2, <2>3, <4>1 DEF Withhold, Try, Continue, Statuses, Finals
      <3> QED
        BY <2>2, <2>3, <3>1 DEF Withhold, Try, TypeOK, SolutionsPreserved,
                                VerifiedStatesAreValid
    <2>4. CASE Apply(c, r)
      <3>1. /\ current' \in PuzzleState
            /\ validate_structural_invariants(current')
            /\ validate_state(current')
            /\ Models(current') = Models(current)
            /\ Models(current) # {}
            /\ applied_steps' = applied_steps + 1
            /\ attempted' = {}
            /\ status' = status
            /\ initial' = initial
            /\ status = "running"
            /\ applied_steps < MaxSteps
        BY <2>2, <2>4, ApplySucceeds
      <3>2. TypeOK'
        BY <3>1, MaxStepsAssumption DEF TypeOK
      <3>3. SolutionsPreserved'
        BY <3>1 DEF SolutionsPreserved, Models
      <3>4. VerifiedStatesAreValid' /\ validate_structural_invariants(current)'
        BY <3>1 DEF VerifiedStatesAreValid, validate_state, validate_structural_invariants,
                    CandidatesInDomain, AssignmentsAreCandidates, ExclusionsAreNotCandidates,
                    AssignedValuesDiffer, Singletons
      <3>5. (Models(current) # {})'
        BY <3>1 DEF Models
      <3> QED
        BY <3>1, <3>2, <3>3, <3>4, <3>5
    <2> QED
      BY <2>1, <2>3, <2>4
  <1>3. CASE Stall
    BY <1>3 DEF Stall, TypeOK, Solved, SolutionsPreserved, VerifiedStatesAreValid, Statuses, Finals
  <1>4. CASE Finish
    BY <1>4 DEF Finish, TypeOK, Solved, SolutionsPreserved, VerifiedStatesAreValid, Statuses, Finals
  <1>5. CASE UNCHANGED vars
    BY <1>5 DEF vars, TypeOK, Solved, SolutionsPreserved, VerifiedStatesAreValid
  <1> QED
    BY <1>1, <1>2, <1>3, <1>4, <1>5 DEF Next, Turn, Returned

(* The inductive invariant holds throughout the solve loop. *)
THEOREM EngineInvariant == Spec => []HInv
  BY HInvInit, HInvNext, PTL DEF Spec

(* No run of the engine loses or gains a solution of the state it started from. *)
THEOREM SolutionsArePreserved == Spec => []SolutionsPreserved
  <1>1. HInv => SolutionsPreserved
    BY DEF HInv
  <1> QED
    BY <1>1, EngineInvariant, PTL

(* The check on the result of a verified step never fails: all-different holds *)
(* because the certified state has a solution.                                 *)
THEOREM VerifiedStatesStayValid == Spec => []VerifiedStatesAreValid
  <1>1. HInv => VerifiedStatesAreValid
    BY DEF HInv
  <1> QED
    BY <1>1, EngineInvariant, PTL

(* A solved verdict of a puzzle that has a solution is its only solution. *)
LEMMA SolvedStateIsUnique == HInv => SolvedIsUnique
  <1> SUFFICES ASSUME HInv, status = "solved", applied_steps > 0 \/ Models(initial) # {}
               PROVE  \E f \in Solutions :
                        /\ Models(initial) = {f}
                        /\ \A x \in Variables : current.cand[x] = {f[x]}
    BY DEF SolvedIsUnique
  <1>1. Models(current) = Models(initial) /\ Models(current) # {} /\ Solved(current)
    BY DEF HInv, SolutionsPreserved
  <1>2. PICK f \in Models(current) : TRUE
    BY <1>1
  <1>3. f \in Solutions /\ \A x \in Variables : current.cand[x] = {f[x]}
    BY <1>1, <1>2 DEF Models, Solved
  <1>4. ASSUME NEW h \in Models(current) PROVE h = f
    <2>1. h \in [Variables -> Values] /\ f \in [Variables -> Values]
      BY <1>3, <1>4, SolutionsAssumption DEF Models
    <2>2. \A x \in Variables : h[x] = f[x]
      BY <1>3, <1>4 DEF Models
    <2> QED
      BY <2>1, <2>2
  <1> QED
    BY <1>1, <1>2, <1>3, <1>4

(* A solved verdict is the only solution, one correct backend provided. *)
THEOREM SolvedVerdictIsUnique == Spec => []SolvedIsUnique
  BY EngineInvariant, SolvedStateIsUnique, PTL

----------------------------------------------------------------------------
(* The loop refines SoundNarrowing: a verified step is a Deduce, a returned  *)
(* status a Conclude, and everything else changes neither candidates nor the *)
(* verdict.                                                                  *)
LEMMA NarrowingInit == Init => Narrowing!Init
  BY InitialStatesAssumption DEF Init, Narrowing!Init, PuzzleState

(* A turn of the loop is a step of sound narrowing, or leaves its state alone. *)
LEMMA NarrowingStep == HInv /\ HInv' /\ [Next]_vars => [Narrowing!Next]_(Narrowing!vars)
  <1> SUFFICES ASSUME HInv, HInv', [Next]_vars
               PROVE  [Narrowing!Next]_(Narrowing!vars)
    OBVIOUS
  <1>1. ASSUME NEW c \in find_applications(current), RejectProposal(c) PROVE UNCHANGED Narrowing!vars
    BY <1>1 DEF RejectProposal, Narrowing!vars
  <1>2. ASSUME NEW c \in find_applications(current), Evaluate(c) PROVE [Narrowing!Next]_(Narrowing!vars)
    <2>1. PICK r \in Certificates(current, c.premises, c.claim) : Withhold(c, r) \/ Apply(c, r)
      BY <1>2 DEF Evaluate
    <2>2. Try(c) /\ validate_proposal(current, c)
      BY <1>2 DEF Evaluate
    <2>3. CASE Withhold(c, r)
      <3>1. coordinator_verify(r) \in {"quarantined", "rejected", "inconclusive", "verified"}
        BY DEF coordinator_verify
      <3>2. CASE coordinator_verify(r) = "rejected"
        BY <2>3, <3>2 DEF Withhold, Narrowing!vars
      <3>3. CASE coordinator_verify(r) \in {"quarantined", "inconclusive"}
        BY <2>2, <2>3, <3>3 DEF Withhold, Try, Continue, Narrowing!Next, Narrowing!Conclude,
                                Narrowing!Verdicts
      <3> QED
        BY <2>3, <3>1, <3>2, <3>3 DEF Withhold
    <2>4. CASE Apply(c, r)
      <3>1. /\ current' \in PuzzleState
            /\ Models(current') = Models(current)
            /\ \A x \in Variables : current'.cand[x] \subseteq current.cand[x]
            /\ status' = status
            /\ status = "running"
        BY <2>2, <2>4, ApplySucceeds
      <3>2. current'.cand \in [Variables -> SUBSET Values]
        BY <3>1 DEF PuzzleState
      <3>3. \A f \in Solutions :
              Narrowing!Within(f, current.cand) => Narrowing!Within(f, current'.cand)
        BY <3>1 DEF Models, Narrowing!Within
      <3>4. Narrowing!Deduce
        BY <3>1, <3>2, <3>3 DEF Narrowing!Deduce
      <3> QED
        BY <3>4 DEF Narrowing!Next
    <2> QED
      BY <2>1, <2>3, <2>4
  <1>3. CASE Stall
    BY <1>3 DEF Stall, Continue, Narrowing!Next, Narrowing!Conclude, Narrowing!Verdicts
  <1>4. CASE Finish
    BY <1>4 DEF Finish, Solved, Narrowing!Next, Narrowing!Conclude, Narrowing!Verdicts,
                Narrowing!Decided
  <1>5. CASE UNCHANGED vars
    BY <1>5 DEF vars, Narrowing!vars
  <1> QED
    BY <1>1, <1>2, <1>3, <1>4, <1>5 DEF Next, Turn, Returned

(* The solve loop implements sound narrowing. *)
THEOREM EngineNarrowsSoundly == Spec => ImplementsNarrowing
  BY NarrowingInit, NarrowingStep, EngineInvariant, PTL
     DEF Spec, ImplementsNarrowing, Narrowing!Spec
=============================================================================
