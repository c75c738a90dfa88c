----------------------- MODULE BranchProjectionProofs -----------------------
(* The invariants of the retained-branch projection, and that its branches   *)
(* are the nested scopes of ScopeStack, for every puzzle, every set of       *)
(* branches and traces of every length.                                      *)
EXTENDS BranchProjection, WellFoundedInduction, TLAPS

----------------------------------------------------------------------------
(* What the pure operations on a puzzle state preserve. *)

(* build_state asserts the singletons and leaves the rest as given. *)
LEMMA BuildStateType ==
  ASSUME NEW cand \in [Variables -> SUBSET Values],
         NEW assigned \in SUBSET Cells, NEW excluded \in SUBSET Cells,
         NEW other \in SUBSET OtherAtoms,
         NEW contradictions \in SUBSET ContradictionIds, NEW n \in Nat
  PROVE  build_state(cand, assigned, excluded, other, contradictions, n) \in PuzzleState
  BY DEF build_state, PuzzleState, Singletons

(* build_state returns a consistent state when the narrowed candidates agree  *)
(* with the facts asserted: the closing loop over singletons adds nothing     *)
(* that disagrees.                                                            *)
LEMMA BuildStateConsistent ==
  ASSUME NEW cand \in [Variables -> SUBSET Values],
         NEW assigned \in SUBSET Cells, NEW excluded \in SUBSET Cells,
         NEW other, NEW contradictions, NEW n,
         \A x \in Variables : cand[x] # {} /\ cand[x] \subseteq Domain[x],
         \A c \in assigned : cand[c[1]] = {c[2]},
         \A c \in excluded : c[2] \notin cand[c[1]]
  PROVE  ConsistentState(build_state(cand, assigned, excluded, other, contradictions, n))
  BY DEF build_state, ConsistentState, CandidatesInDomain, AssignmentsAreCandidates,
         ExclusionsAreNotCandidates, Singletons

(* The genesis state of every accepted puzzle is consistent. *)
LEMMA InitialStateConsistent ==
  ASSUME NEW p \in PuzzleSpec, InitialStateExists(p)
  PROVE  /\ create_initial_state(p) \in PuzzleState
         /\ ConsistentState(create_initial_state(p))
  <1> DEFINE cand == GivenCandidates(p)
             asg  == CellsOf(Givens(p), "assignment")
             exc  == CellsOf(Givens(p), "exclusion")
             oth  == OthersOf(Givens(p))
             s    == create_initial_state(p)
  <1>1. /\ cand \in [Variables -> SUBSET Values]
        /\ asg \in SUBSET Cells
        /\ exc \in SUBSET Cells
        /\ oth \in SUBSET OtherAtoms
    BY DEF GivenCandidates, CellsOf, OthersOf, PuzzleSpec
  <1>2. s = build_state(cand, asg, exc, oth, {}, 0)
    BY DEF create_initial_state
  <1>3. s \in PuzzleState
    BY <1>1, <1>2, BuildStateType
  <1>4. s.contradictions = {} /\ s.cand = cand
    BY <1>2 DEF build_state
  <1>5. \A x \in Variables : s.cand[x] # {}
    BY <1>4 DEF InitialStateExists, validate_structural_invariants
  <1>6. ConsistentState(s)
    BY <1>5 DEF InitialStateExists, validate_structural_invariants, validate_state,
                ConsistentState
  <1> QED
    BY <1>3, <1>6

(* Eliminating candidates preserves consistency. *)
LEMMA EliminateConsistent ==
  ASSUME NEW s \in PuzzleState, ConsistentState(s), NEW x \in Variables,
         NEW vs \in SUBSET Values, EliminationAllowed(s, x, vs), NEW n \in Nat
  PROVE  /\ Eliminate(s, x, vs, n) \in PuzzleState
         /\ ConsistentState(Eliminate(s, x, vs, n))
  <1> DEFINE cand == [s.cand EXCEPT ![x] = @ \ vs]
             exc  == s.excluded \cup ({x} \X vs)
  <1>1. /\ cand \in [Variables -> SUBSET Values]
        /\ exc \in SUBSET Cells
        /\ s.assigned \in SUBSET Cells
        /\ s.other \in SUBSET OtherAtoms
        /\ s.contradictions \in SUBSET ContradictionIds
    BY DEF PuzzleState, Cells
  <1>2. \A z \in Variables : cand[z] # {} /\ cand[z] \subseteq Domain[z]
    BY DEF ConsistentState, CandidatesInDomain, EliminationAllowed, PuzzleState
  <1>3. \A c \in s.assigned : cand[c[1]] = {c[2]}
    BY <1>1 DEF ConsistentState, AssignmentsAreCandidates, EliminationAllowed, PuzzleState, Cells
  <1>4. \A c \in exc : c[2] \notin cand[c[1]]
    BY <1>1 DEF ConsistentState, ExclusionsAreNotCandidates, PuzzleState, Cells
  <1> HIDE DEF cand, exc
  <1>5. /\ build_state(cand, s.assigned, exc, s.other, s.contradictions, n) \in PuzzleState
        /\ ConsistentState(build_state(cand, s.assigned, exc, s.other, s.contradictions, n))
    BY <1>1, <1>2, <1>3, <1>4, BuildStateType, BuildStateConsistent
  <1> QED
    BY <1>5 DEF Eliminate, cand, exc

(* Assigning a current candidate preserves consistency. *)
LEMMA AssignConsistent ==
  ASSUME NEW s \in PuzzleState, ConsistentState(s), NEW x \in Variables,
         NEW v \in Values, AssignmentAllowed(s, x, v), NEW n \in Nat
  PROVE  /\ Assign(s, x, v, n) \in PuzzleState
         /\ ConsistentState(Assign(s, x, v, n))
  <1> DEFINE cand == [s.cand EXCEPT ![x] = {v}]
             asg  == s.assigned \cup {<<x, v>>}
             exc  == s.excluded \cup ({x} \X (s.cand[x] \ {v}))
  <1>1. /\ cand \in [Variables -> SUBSET Values]
        /\ asg \in SUBSET Cells
        /\ exc \in SUBSET Cells
        /\ s.other \in SUBSET OtherAtoms
        /\ s.contradictions \in SUBSET ContradictionIds
    BY DEF PuzzleState, Cells
  <1>2. \A z \in Variables : cand[z] # {} /\ cand[z] \subseteq Domain[z]
    BY DEF ConsistentState, CandidatesInDomain, AssignmentAllowed, PuzzleState
  <1>3. \A c \in asg : cand[c[1]] = {c[2]}
    BY <1>1 DEF ConsistentState, AssignmentsAreCandidates, AssignmentAllowed, PuzzleState, Cells
  <1>4. \A c \in exc : c[2] \notin cand[c[1]]
    BY <1>1 DEF ConsistentState, ExclusionsAreNotCandidates, AssignmentAllowed, PuzzleState, Cells
  <1> HIDE DEF cand, asg, exc
  <1>5. /\ build_state(cand, asg, exc, s.other, s.contradictions, n) \in PuzzleState
        /\ ConsistentState(build_state(cand, asg, exc, s.other, s.contradictions, n))
    BY <1>1, <1>2, <1>3, <1>4, BuildStateType, BuildStateConsistent
  <1> QED
    BY <1>5 DEF Assign, cand, asg, exc

(* Recording a contradiction keeps the candidates, and so consistency. *)
LEMMA ContradictConsistent ==
  ASSUME NEW s \in PuzzleState, ConsistentState(s), NEW c \in ContradictionIds, NEW n \in Nat
  PROVE  /\ Contradict(s, c, n) \in PuzzleState
         /\ ConsistentState(Contradict(s, c, n))
  <1>1. /\ s.cand \in [Variables -> SUBSET Values]
        /\ s.assigned \in SUBSET Cells
        /\ s.excluded \in SUBSET Cells
        /\ s.other \in SUBSET OtherAtoms
        /\ s.contradictions \cup {c} \in SUBSET ContradictionIds
    BY DEF PuzzleState
  <1>2. Contradict(s, c, n) \in PuzzleState
    BY <1>1, BuildStateType DEF Contradict
  <1>3. /\ \A x \in Variables : s.cand[x] # {} /\ s.cand[x] \subseteq Domain[x]
        /\ \A d \in s.assigned : s.cand[d[1]] = {d[2]}
        /\ \A d \in s.excluded : d[2] \notin s.cand[d[1]]
    BY DEF ConsistentState, CandidatesInDomain, AssignmentsAreCandidates,
           ExclusionsAreNotCandidates
  <1>4. ConsistentState(Contradict(s, c, n))
    BY <1>1, <1>3, BuildStateConsistent DEF Contradict
  <1> QED
    BY <1>2, <1>4

(* A child state under an assumption that the reducer accepts is consistent. *)
LEMMA DeriveConsistent ==
  ASSUME NEW s \in PuzzleState, ConsistentState(s), NEW a \in Atoms,
         AssumptionAllowed(s, a), NEW n \in Nat
  PROVE  /\ derive_branch_state(s, a, n) \in PuzzleState
         /\ ConsistentState(derive_branch_state(s, a, n))
  <1> DEFINE cand == AssumedCandidates(s, a)
             asg  == s.assigned \cup CellsOf({a}, "assignment")
             exc  == s.excluded \cup CellsOf({a}, "exclusion")
             oth  == s.other \cup OthersOf({a})
  <1>1. /\ s.cand \in [Variables -> SUBSET Values]
        /\ asg \in SUBSET Cells
        /\ exc \in SUBSET Cells
        /\ oth \in SUBSET OtherAtoms
        /\ {} \in SUBSET ContradictionIds
    BY DEF PuzzleState, CellsOf, OthersOf
  <1>2. \/ a.kind = "other"
        \/ a.kind = "assignment" /\ a.var \in Variables /\ a.val \in Values
        \/ a.kind = "exclusion" /\ a.var \in Variables /\ a.val \in Values
    BY DEF Atoms, CellAtoms, OpaqueAtoms
  <1>3. /\ cand \in [Variables -> SUBSET Values]
        /\ \A z \in Variables : cand[z] # {} /\ cand[z] \subseteq Domain[z]
        /\ \A c \in asg : cand[c[1]] = {c[2]}
        /\ \A c \in exc : c[2] \notin cand[c[1]]
    <2>1. CASE a.kind = "other"
      <3>1. cand = s.cand /\ CellsOf({a}, "assignment") = {} /\ CellsOf({a}, "exclusion") = {}
        BY <2>1 DEF AssumedCandidates, CellsOf
      <3> QED
        BY <3>1, <1>1 DEF ConsistentState, CandidatesInDomain, AssignmentsAreCandidates,
                          ExclusionsAreNotCandidates
    <2>2. CASE a.kind = "assignment"
      <3>1. /\ cand = [s.cand EXCEPT ![a.var] = {a.val}]
            /\ \A c \in CellsOf({a}, "assignment") : c[1] = a.var /\ c[2] = a.val
            /\ CellsOf({a}, "exclusion") = {}
        BY <2>2 DEF AssumedCandidates, CellsOf
      <3>2. a.var \in Variables /\ a.val \in Values /\ a.val \in s.cand[a.var]
        BY <2>2, <1>2 DEF AssumptionAllowed
      <3> HIDE DEF cand
      <3>3. cand \in [Variables -> SUBSET Values]
        BY <3>1, <3>2, <1>1
      <3>4. \A z \in Variables : cand[z] # {} /\ cand[z] \subseteq Domain[z]
        BY <3>1, <3>2, <1>1 DEF ConsistentState, CandidatesInDomain
      <3>5. \A c \in asg : cand[c[1]] = {c[2]}
        BY <3>1, <3>2, <1>1 DEF ConsistentState, AssignmentsAreCandidates, Cells
      <3>6. \A c \in exc : c[2] \notin cand[c[1]]
        BY <3>1, <3>2, <1>1 DEF ConsistentState, ExclusionsAreNotCandidates, Cells
      <3> QED
        BY <3>3, <3>4, <3>5, <3>6
    <2>3. CASE a.kind = "exclusion"
      <3>1. /\ cand = [s.cand EXCEPT ![a.var] = @ \ {a.val}]
            /\ CellsOf({a}, "assignment") = {}
            /\ \A c \in CellsOf({a}, "exclusion") : c[1] = a.var /\ c[2] = a.val
        BY <2>3 DEF AssumedCandidates, CellsOf
      <3>2. /\ a.var \in Variables /\ a.val \in Values
            /\ a.val \in s.cand[a.var] /\ s.cand[a.var] # {a.val}
        BY <2>3, <1>2 DEF AssumptionAllowed
      <3> HIDE DEF cand
      <3>3. cand \in [Variables -> SUBSET Values]
        BY <3>1, <3>2, <1>1
      <3>4. \A z \in Variables : cand[z] # {} /\ cand[z] \subseteq Domain[z]
        BY <3>1, <3>2, <1>1 DEF ConsistentState, CandidatesInDomain
      <3>5. \A c \in asg : cand[c[1]] = {c[2]}
        BY <3>1, <3>2, <1>1 DEF ConsistentState, AssignmentsAreCandidates, Cells
      <3>6. \A c \in exc : c[2] \notin cand[c[1]]
        BY <3>1, <3>2, <1>1 DEF ConsistentState, ExclusionsAreNotCandidates, Cells
      <3> QED
        BY <3>3, <3>4, <3>5, <3>6
    <2> QED
      BY <1>2, <2>1, <2>2, <2>3
  <1> HIDE DEF cand, asg, exc, oth
  <1>4. /\ build_state(cand, asg, exc, oth, {}, n) \in PuzzleState
        /\ ConsistentState(build_state(cand, asg, exc, oth, {}, n))
    BY <1>1, <1>3, BuildStateType, BuildStateConsistent
  <1> QED
    BY <1>4 DEF derive_branch_state, cand, asg, exc, oth

----------------------------------------------------------------------------
(* The branches. *)

(* The root is the only branch without a parent, and nothing was opened later *)
(* than the event last folded in.                                             *)
Rooted ==
  /\ Root \in known
  /\ rec[Root].method = "root"
  /\ \A b \in known : /\ rec[b].parent = NoParent <=> b = Root
                      /\ rec[b].opened_sequence_no <= sequence_no

(* The inductive invariant: the shape of the branch tree is what makes the     *)
(* parent of an unclosed branch unreachable for mutations.                     *)
Inv ==
  /\ TypeOK
  /\ Rooted
  /\ StatesConsistent
  /\ OneOpenPath
  /\ ParentFrozen
  /\ LifecycleMatchesState
  /\ SearchConfined

(* create_branch_projection establishes the invariant. *)
LEMMA InitInv == Init => Inv
  <1> SUFFICES ASSUME Init PROVE Inv
    OBVIOUS
  <1>1. PICK p \in Puzzles :
          /\ InitialStateExists(p)
          /\ sequence_no = 0
          /\ active = Root
          /\ st = [b \in {Root} |-> create_initial_state(p)]
          /\ rec = [b \in {Root} |->
                [parent |-> NoParent, opened_from |-> <<Root, 0>>,
                 method |-> "root", status |-> "open",
                 opened_sequence_no |-> 0, closed_sequence_no |-> 0]]
          /\ searched = [b \in {Root} |-> {}]
    BY DEF Init
  <1>2. /\ create_initial_state(p) \in PuzzleState
        /\ ConsistentState(create_initial_state(p))
        /\ create_initial_state(p).contradictions = {}
    BY <1>1, PuzzlesAssumption, InitialStateConsistent DEF create_initial_state, build_state
  <1>3. known = {Root} /\ Root \in BranchIds /\ NoParent \notin BranchIds
    BY <1>1, BranchAssumption DEF known
  <1>4. TypeOK
    BY <1>1, <1>2, <1>3 DEF TypeOK, BranchRecord, Methods
  <1>5. Rooted
    BY <1>1, <1>3 DEF Rooted
  <1>6. StatesConsistent
    BY <1>1, <1>2, <1>3 DEF StatesConsistent
  <1>7. OneOpenPath
    BY <1>1, <1>3 DEF OneOpenPath, Closed
  <1>8. ParentFrozen
    BY <1>1, <1>3 DEF ParentFrozen
  <1>9. LifecycleMatchesState
    BY <1>1, <1>2, <1>3 DEF LifecycleMatchesState, Closed
  <1>10. SearchConfined
    BY <1>1, <1>3 DEF SearchConfined
  <1> QED
    BY <1>4, <1>5, <1>6, <1>7, <1>8, <1>9, <1>10 DEF Inv

(* What a step that replaces the state of the active, open branch leaves intact. *)
LEMMA ReplaceStateInv ==
  ASSUME Inv, sequence_no' = sequence_no + 1,
         NEW s \in PuzzleState, ConsistentState(s),
         rec[active].status = "open",
         s.contradictions = {},
         NEW T \in SUBSET Cells, T # {} => rec[active].method = "search",
         active' = active, rec' = rec,
         st' = [st EXCEPT ![active] = s],
         searched' = [searched EXCEPT ![active] = @ \cup T]
  PROVE  Inv'
  <1>1. known' = known /\ active \in known /\ st \in [known -> PuzzleState]
        /\ searched \in [known -> SUBSET Cells]
    BY DEF Inv, TypeOK, known
  <1>2. \A b \in known : b # active => st'[b] = st[b] /\ searched'[b] = searched[b]
    BY <1>1
  <1>3. st'[active] = s /\ searched'[active] = searched[active] \cup T
    BY <1>1
  <1>4. TypeOK'
    BY <1>1 DEF Inv, TypeOK
  <1>5. Rooted'
    BY <1>1 DEF Inv, Rooted, TypeOK, BranchRecord
  <1>6. StatesConsistent'
    BY <1>1, <1>2, <1>3 DEF Inv, StatesConsistent
  <1>7. OneOpenPath'
    BY <1>1 DEF Inv, OneOpenPath, Closed
  <1>8. ParentFrozen'
    <2> SUFFICES ASSUME NEW b \in known, b # Root, ~Closed(b)
                 PROVE  rec[b].opened_from = StateHash(rec[b].parent)'
      BY <1>1 DEF ParentFrozen, Closed
    <2>1. rec[b].parent # active /\ rec[b].parent \in known
      BY DEF Inv, OneOpenPath
    <2> QED
      BY <2>1, <1>2 DEF Inv, ParentFrozen, StateHash
  <1>9. LifecycleMatchesState'
    BY <1>1, <1>2, <1>3 DEF Inv, LifecycleMatchesState, Closed, Solved
  <1>10. SearchConfined'
    <2> SUFFICES ASSUME NEW b \in known
                 PROVE  /\ b = Root => searched'[b] = {}
                        /\ b # Root /\ rec[b].method # "search" =>
                             searched'[b] \subseteq searched'[rec[b].parent]
      BY <1>1 DEF SearchConfined
    <2>1. CASE b = Root
      BY <2>1, <1>1, <1>2, <1>3 DEF Inv, Rooted, SearchConfined
    <2>2. CASE b # Root /\ rec[b].method # "search"
      <3>1. rec[b].parent \in known
        BY <2>2 DEF Inv, OneOpenPath
      <3>2. searched'[b] = searched[b] /\ searched[rec[b].parent] \subseteq searched'[rec[b].parent]
        BY <2>2, <3>1, <1>1, <1>2, <1>3
      <3> QED
        BY <2>2, <3>2 DEF Inv, SearchConfined
    <2> QED
      BY <2>1, <2>2
  <1> QED
    BY <1>4, <1>5, <1>6, <1>7, <1>8, <1>9, <1>10 DEF Inv

(* Eliminating candidates keeps it. *)
LEMMA EliminatedInv ==
  ASSUME Inv, NEW n, NEW b, NEW h, NEW x \in Variables, NEW vs \in SUBSET Values,
         NEW o \in Origins, CandidatesEliminated(n, b, h, x, vs, o)
  PROVE  Inv'
  <1> DEFINE s == Eliminate(st[b], x, vs, n)
             T == IF o = "search" THEN s.excluded \ st[b].excluded ELSE {}
  <1>1. /\ b = active /\ b \in known /\ rec[b].status = "open"
        /\ n = sequence_no + 1 /\ n \in Nat /\ sequence_no' = n
        /\ st[b] \in PuzzleState /\ ConsistentState(st[b])
        /\ st[b].contradictions = {}
    BY DEF CandidatesEliminated, Advance, MutationAllowed, Inv, TypeOK, StatesConsistent,
           LifecycleMatchesState
  <1>2. s \in PuzzleState /\ ConsistentState(s)
    BY <1>1, EliminateConsistent DEF CandidatesEliminated
  <1>3. s.contradictions = {}
    BY <1>1 DEF Eliminate, build_state
  <1>4. T \in SUBSET Cells
    BY <1>2 DEF PuzzleState
  <1>5. T # {} => rec[active].method = "search"
    BY <1>1 DEF CandidatesEliminated, validate_origin
  <1>6. /\ active' = active /\ rec' = rec
        /\ st' = [st EXCEPT ![active] = s]
    BY <1>1 DEF CandidatesEliminated, NarrowTo
  <1>7. searched' = [searched EXCEPT ![active] = @ \cup T]
    BY <1>1 DEF CandidatesEliminated, NarrowTo, Inv, TypeOK
  <1> HIDE DEF s, T
  <1> QED
    BY <1>1, <1>2, <1>3, <1>4, <1>5, <1>6, <1>7, ReplaceStateInv

(* Assigning a value keeps it. *)
LEMMA AssignedInv ==
  ASSUME Inv, NEW n, NEW b, NEW h, NEW x \in Variables, NEW v \in Values,
         NEW o \in Origins, ValueAssigned(n, b, h, x, v, o)
  PROVE  Inv'
  <1> DEFINE s == Assign(st[b], x, v, n)
             T == IF o = "search" THEN s.excluded \ st[b].excluded ELSE {}
  <1>1. /\ b = active /\ b \in known /\ rec[b].status = "open"
        /\ n = sequence_no + 1 /\ n \in Nat /\ sequence_no' = n
        /\ st[b] \in PuzzleState /\ ConsistentState(st[b])
        /\ st[b].contradictions = {}
    BY DEF ValueAssigned, Advance, MutationAllowed, Inv, TypeOK, StatesConsistent,
           LifecycleMatchesState
  <1>2. s \in PuzzleState /\ ConsistentState(s)
    BY <1>1, AssignConsistent DEF ValueAssigned
  <1>3. s.contradictions = {}
    BY <1>1 DEF Assign, build_state
  <1>4. T \in SUBSET Cells
    BY <1>2 DEF PuzzleState
  <1>5. T # {} => rec[active].method = "search"
    BY <1>1 DEF ValueAssigned, validate_origin
  <1>6. /\ active' = active /\ rec' = rec
        /\ st' = [st EXCEPT ![active] = s]
    BY <1>1 DEF ValueAssigned, NarrowTo
  <1>7. searched' = [searched EXCEPT ![active] = @ \cup T]
    BY <1>1 DEF ValueAssigned, NarrowTo, Inv, TypeOK
  <1> HIDE DEF s, T
  <1> QED
    BY <1>1, <1>2, <1>3, <1>4, <1>5, <1>6, <1>7, ReplaceStateInv
(* Detecting a contradiction keeps it: only the status of the active branch changes. *)
LEMMA ContradictionInv ==
  ASSUME Inv, NEW n, NEW b, NEW h, NEW c \in ContradictionIds,
         ContradictionDetected(n, b, h, c)
  PROVE  Inv'
  <1> DEFINE s == Contradict(st[b], c, n)
  <1>1. /\ b = active /\ b \in known /\ rec[b].status = "open"
        /\ n = sequence_no + 1 /\ n \in Nat /\ sequence_no' = n
        /\ st[b] \in PuzzleState /\ ConsistentState(st[b])
        /\ rec \in [known -> BranchRecord] /\ st \in [known -> PuzzleState]
    BY DEF ContradictionDetected, Advance, MutationAllowed, Inv, TypeOK, StatesConsistent
  <1>2. s \in PuzzleState /\ ConsistentState(s)
    BY <1>1, ContradictConsistent
  <1>3. s.contradictions # {}
    BY DEF Contradict, build_state
  <1>4. /\ active' = active /\ searched' = searched
        /\ st' = [st EXCEPT ![b] = s]
        /\ rec' = [rec EXCEPT ![b].status = "contradicted"]
    BY DEF ContradictionDetected
  <1> HIDE DEF s
  <1>5. /\ known' = known
        /\ \A d \in known : d # b => st'[d] = st[d] /\ rec'[d] = rec[d]
        /\ st'[b] = s /\ rec'[b].status = "contradicted"
        /\ \A d \in known : /\ rec'[d].parent = rec[d].parent
                            /\ rec'[d].opened_from = rec[d].opened_from
                            /\ rec'[d].method = rec[d].method
                            /\ rec'[d].opened_sequence_no = rec[d].opened_sequence_no
                            /\ rec'[d].closed_sequence_no = rec[d].closed_sequence_no
    BY <1>1, <1>4 DEF known, BranchRecord
  <1>6. \A d \in known \ {Root} : rec[d].parent \in known /\ (~Closed(d) => rec[d].parent # b)
    BY <1>1 DEF Inv, OneOpenPath
  <1>7. \A d \in known : Closed(d)' <=> Closed(d)
    BY <1>5 DEF Closed
  <1>8. TypeOK'
    BY <1>1, <1>2, <1>4, <1>5 DEF Inv, TypeOK, BranchRecord
  <1>9. Rooted'
    BY <1>1, <1>5 DEF Inv, Rooted, TypeOK, BranchRecord
  <1>10. StatesConsistent'
    BY <1>2, <1>5 DEF Inv, StatesConsistent
  <1>11. OneOpenPath'
    BY <1>1, <1>4, <1>5, <1>6, <1>7 DEF Inv, OneOpenPath, Rooted
  <1>12. ParentFrozen'
    BY <1>5, <1>6, <1>7 DEF Inv, ParentFrozen, StateHash
  <1>13. LifecycleMatchesState'
    BY <1>3, <1>5, <1>7 DEF Inv, LifecycleMatchesState, Solved
  <1>14. SearchConfined'
    BY <1>4, <1>5 DEF Inv, SearchConfined
  <1> QED
    BY <1>8, <1>9, <1>10, <1>11, <1>12, <1>13, <1>14 DEF Inv

(* Opening a branch keeps it: the new branch becomes the only open leaf. *)
LEMMA OpenedInv ==
  ASSUME Inv, NEW n, NEW b \in BranchIds, NEW h, NEW a \in Atoms, NEW m \in Methods,
         BranchOpened(n, b, h, a, m)
  PROVE  Inv'
  <1> DEFINE s == derive_branch_state(st[active], a, n)
             r == [parent |-> active, opened_from |-> StateHash(active),
                   method |-> m, status |-> "open",
                   opened_sequence_no |-> n, closed_sequence_no |-> 0]
  <1>1. /\ b \notin known /\ rec[active].status = "open" /\ active \in known
        /\ n = sequence_no + 1 /\ n \in Nat /\ sequence_no' = n /\ sequence_no \in Nat
        /\ st[active] \in PuzzleState /\ ConsistentState(st[active])
        /\ rec \in [known -> BranchRecord] /\ st \in [known -> PuzzleState]
        /\ searched \in [known -> SUBSET Cells] /\ known \subseteq BranchIds
    BY DEF BranchOpened, Advance, OpeningAllowed, Inv, TypeOK, StatesConsistent
  <1>2. s \in PuzzleState /\ ConsistentState(s) /\ s.contradictions = {}
    <2>1. s \in PuzzleState /\ ConsistentState(s)
      BY <1>1, DeriveConsistent DEF BranchOpened
    <2>2. s.contradictions = {}
      BY DEF derive_branch_state, build_state
    <2> QED
      BY <2>1, <2>2
  <1>3. r \in BranchRecord
    BY <1>1 DEF BranchRecord, StateHash, PuzzleState
  <1> HIDE DEF s
  <1>4. /\ active' = b
        /\ rec' = [c \in known \cup {b} |-> IF c = b THEN r ELSE rec[c]]
        /\ st' = [c \in known \cup {b} |-> IF c = b THEN s ELSE st[c]]
        /\ searched' = [c \in known \cup {b} |->
                          IF c = b THEN searched[active] ELSE searched[c]]
    BY DEF BranchOpened, s
  <1>5. /\ known' = known \cup {b}
        /\ \A d \in known : /\ rec'[d] = rec[d] /\ st'[d] = st[d]
                            /\ searched'[d] = searched[d]
        /\ st'[b] = s /\ searched'[b] = searched[active]
        /\ rec'[b].parent = active /\ rec'[b].opened_from = StateHash(active)
        /\ rec'[b].method = m /\ rec'[b].status = "open"
        /\ rec'[b].opened_sequence_no = n /\ rec'[b].closed_sequence_no = 0
    BY <1>1, <1>4 DEF known
  <1>6. (\A d \in known : Closed(d)' <=> Closed(d)) /\ ~Closed(b)'
    BY <1>5 DEF Closed
  <1>7. \A d \in known : rec[d].parent # b /\ (d # Root => rec[d].parent \in known)
    BY <1>1, BranchAssumption DEF Inv, OneOpenPath, Rooted
  <1>8. TypeOK'
    BY <1>1, <1>2, <1>3, <1>4, <1>5 DEF Inv, TypeOK
  <1>9. Rooted'
    <2>1. b # Root /\ active # NoParent
      BY <1>1, BranchAssumption DEF Inv, Rooted
    <2>2. \A d \in known : rec[d].opened_sequence_no \in Nat
      BY <1>1 DEF BranchRecord
    <2> QED
      BY <2>1, <2>2, <1>1, <1>5 DEF Inv, Rooted
  <1>10. StatesConsistent'
    BY <1>2, <1>5 DEF Inv, StatesConsistent
  <1>11. OneOpenPath'
    <2>1. b # Root /\ Root \in known /\ ~Closed(Root) /\ ~Closed(active)
      BY <1>1 DEF Inv, Rooted, OneOpenPath
    <2>2. /\ ~Closed(Root)'
          /\ ~Closed(active)'
      BY <2>1, <1>4, <1>5, <1>6 DEF Closed
    <2>3. (\A d \in known \ {Root} :
             /\ rec[d].parent \in known
             /\ rec[rec[d].parent].opened_sequence_no < rec[d].opened_sequence_no
             /\ ~Closed(d) => ~Closed(rec[d].parent) /\ rec[rec[d].parent].status = "open")'
      <3>1. rec[active].opened_sequence_no < n
        BY <1>1 DEF Inv, Rooted, BranchRecord
      <3> QED
        BY <2>1, <3>1, <1>1, <1>5, <1>6 DEF Inv, OneOpenPath
    <2>4. (\A d \in known \ {Root} : ~Closed(d) => rec[d].parent # active)'
      BY <1>1, <1>4, <1>5, <1>7
    <2>5. (\A d \in known : ~Closed(d) /\ d # active =>
             \E c \in known \ {Root} : ~Closed(c) /\ rec[c].parent = d)'
      <3> SUFFICES ASSUME NEW d \in known, ~Closed(d)
                   PROVE  \E c \in known' \ {Root} : ~Closed(c)' /\ rec'[c].parent = d
        BY <1>4, <1>5, <1>6
      <3>1. CASE d = active
        BY <3>1, <2>1, <1>5, <1>6
      <3>2. CASE d # active
        <4>1. PICK c \in known \ {Root} : ~Closed(c) /\ rec[c].parent = d
          BY <3>2 DEF Inv, OneOpenPath
        <4> QED
          BY <4>1, <1>5, <1>6
      <3> QED
        BY <3>1, <3>2
    <2>6. (\A d, e \in known \ {Root} :
             ~Closed(d) /\ ~Closed(e) /\ rec[d].parent = rec[e].parent => d = e)'
      BY <1>1, <1>5, <1>6 DEF Inv, OneOpenPath
    <2> QED
      BY <2>2, <2>3, <2>4, <2>5, <2>6 DEF OneOpenPath
  <1>12. ParentFrozen'
    BY <1>1, <1>5, <1>6, <1>7 DEF Inv, ParentFrozen, StateHash
  <1>13. LifecycleMatchesState'
    BY <1>2, <1>5, <1>6 DEF Inv, LifecycleMatchesState, Solved
  <1>14. SearchConfined'
    BY <1>1, <1>5, <1>7 DEF Inv, SearchConfined, Rooted
  <1> QED
    BY <1>8, <1>9, <1>10, <1>11, <1>12, <1>13, <1>14 DEF Inv

(* A closed record differs in its status and its end only. *)
ClosedAs(r, status, n) == [r EXCEPT !.status = status, !.closed_sequence_no = n]

LEMMA ClosedRecord ==
  ASSUME NEW r \in BranchRecord, NEW n \in Nat,
         NEW s \in {"contradicted", "solved", "abandoned"}
  PROVE  /\ ClosedAs(r, s, n) \in BranchRecord
         /\ ClosedAs(r, s, n).status = s /\ ClosedAs(r, s, n).closed_sequence_no = n
         /\ ClosedAs(r, s, n).parent = r.parent /\ ClosedAs(r, s, n).opened_from = r.opened_from
         /\ ClosedAs(r, s, n).method = r.method
         /\ ClosedAs(r, s, n).opened_sequence_no = r.opened_sequence_no
  <1> DEFINE q == ClosedAs(r, s, n)
  <1> DEFINE Sources == BranchIds \X Nat
  <1>1. r \in [parent : BranchIds \cup {NoParent}, opened_from : Sources,
               method : Methods \cup {"root"},
               status : {"open", "contradicted", "solved", "abandoned"},
               opened_sequence_no : Nat, closed_sequence_no : Nat]
    BY DEF BranchRecord
  <1> HIDE DEF Sources
  <1>2. /\ q.status = s /\ q.closed_sequence_no = n
        /\ q.parent = r.parent /\ q.opened_from = r.opened_from
        /\ q.method = r.method /\ q.opened_sequence_no = r.opened_sequence_no
    BY <1>1 DEF ClosedAs
  <1>3. q \in [parent : BranchIds \cup {NoParent}, opened_from : Sources,
               method : Methods \cup {"root"},
               status : {"open", "contradicted", "solved", "abandoned"},
               opened_sequence_no : Nat, closed_sequence_no : Nat]
    BY <1>1 DEF ClosedAs
  <1> QED
    BY <1>2, <1>3 DEF BranchRecord, Sources

(* Closing a branch keeps it: its parent becomes the open leaf again. *)
LEMMA ClosedInv ==
  ASSUME Inv, NEW n, NEW b, NEW h,
         NEW status \in {"contradicted", "solved", "abandoned"},
         BranchClosed(n, b, h, status)
  PROVE  Inv'
  <1>1. /\ b = active /\ b \in known /\ b # Root /\ ~Closed(b)
        /\ n = sequence_no + 1 /\ n \in Nat /\ n > 0 /\ sequence_no' = n /\ sequence_no \in Nat
        /\ rec \in [known -> BranchRecord] /\ Root \in known
    BY DEF BranchClosed, Advance, ClosingAllowed, Inv, TypeOK, Rooted, OneOpenPath
  <1>2. /\ rec' = [rec EXCEPT ![b].status = status, ![b].closed_sequence_no = n]
        /\ active' = rec[b].parent /\ st' = st /\ searched' = searched
    BY DEF BranchClosed
  <1>3. /\ known' = known
        /\ \A d \in known : d # b => rec'[d] = rec[d]
        /\ rec'[b].status = status /\ rec'[b].closed_sequence_no = n
        /\ \A d \in known : /\ rec'[d].parent = rec[d].parent
                            /\ rec'[d].opened_from = rec[d].opened_from
                            /\ rec'[d].method = rec[d].method
                            /\ rec'[d].opened_sequence_no = rec[d].opened_sequence_no
    <2> USE DEF known
    <2>1. known' = known /\ \A d \in known : d # b => rec'[d] = rec[d]
      BY <1>1, <1>2
    <2>2. /\ rec'[b].status = status /\ rec'[b].closed_sequence_no = n
          /\ rec'[b].parent = rec[b].parent /\ rec'[b].opened_from = rec[b].opened_from
          /\ rec'[b].method = rec[b].method
          /\ rec'[b].opened_sequence_no = rec[b].opened_sequence_no
      <3>1. rec'[b] = ClosedAs(rec[b], status, n)
        BY <1>1, <1>2 DEF ClosedAs
      <3> DEFINE q == ClosedAs(rec[b], status, n)
      <3>2. rec[b] \in BranchRecord /\ n \in Nat
        BY <1>1
      <3>3. /\ q.status = status /\ q.closed_sequence_no = n
            /\ q.parent = rec[b].parent /\ q.opened_from = rec[b].opened_from
            /\ q.method = rec[b].method /\ q.opened_sequence_no = rec[b].opened_sequence_no
        BY <3>2, ClosedRecord
      <3> QED
        BY <3>1, <3>3
    <2> QED
      BY <2>1, <2>2
  <1>4. (\A d \in known : d # b => (Closed(d)' <=> Closed(d))) /\ Closed(b)'
    BY <1>1, <1>3 DEF Closed
  <1>5. /\ rec[b].parent \in known /\ rec[b].parent # b /\ ~Closed(rec[b].parent)
        /\ \A d \in known \ {Root} : ~Closed(d) /\ rec[d].parent = rec[b].parent => d = b
        /\ \A d \in known \ {Root} : ~Closed(d) => rec[d].parent # b
    <2>1. \A d \in known : rec[d].opened_sequence_no \in Nat
      BY <1>1 DEF BranchRecord
    <2> QED
      BY <1>1, <2>1 DEF Inv, OneOpenPath
  <1>6. TypeOK'
    <2>1. rec' \in [known -> BranchRecord]
      <3>1. ClosedAs(rec[b], status, n) \in BranchRecord
        BY <1>1, ClosedRecord
      <3>2. rec' = [rec EXCEPT ![b] = ClosedAs(rec[b], status, n)]
        BY <1>1, <1>2 DEF ClosedAs
      <3> QED
        BY <1>1, <3>1, <3>2
    <2> QED
      BY <1>1, <1>2, <1>3, <1>5, <2>1 DEF Inv, TypeOK
  <1>7. Rooted'
    BY <1>1, <1>3 DEF Inv, Rooted, BranchRecord
  <1>8. StatesConsistent'
    BY <1>2, <1>3 DEF Inv, StatesConsistent
  <1>9. OneOpenPath'
    <2>1. ~Closed(Root)' /\ ~Closed(active)'
      BY <1>1, <1>2, <1>3, <1>4, <1>5 DEF Inv, OneOpenPath, Closed
    <2>2. (\A d \in known \ {Root} :
             /\ rec[d].parent \in known
             /\ rec[rec[d].parent].opened_sequence_no < rec[d].opened_sequence_no
             /\ ~Closed(d) => ~Closed(rec[d].parent) /\ rec[rec[d].parent].status = "open")'
      BY <1>1, <1>3, <1>4, <1>5 DEF Inv, OneOpenPath
    <2>3. (\A d \in known \ {Root} : ~Closed(d) => rec[d].parent # active)'
      BY <1>1, <1>2, <1>3, <1>4, <1>5
    <2>4. (\A d \in known : ~Closed(d) /\ d # active =>
             \E c \in known \ {Root} : ~Closed(c) /\ rec[c].parent = d)'
      <3> SUFFICES ASSUME NEW d \in known, ~Closed(d), d # b, d # rec[b].parent
                   PROVE  \E c \in known \ {Root} : ~Closed(c)' /\ rec'[c].parent = d
        BY <1>2, <1>3, <1>4
      <3>1. PICK c \in known \ {Root} : ~Closed(c) /\ rec[c].parent = d
        BY <1>1 DEF Inv, OneOpenPath
      <3> QED
        BY <3>1, <1>3, <1>4
    <2>5. (\A d, e \in known \ {Root} :
             ~Closed(d) /\ ~Closed(e) /\ rec[d].parent = rec[e].parent => d = e)'
      BY <1>3, <1>4 DEF Inv, OneOpenPath
    <2> QED
      BY <2>1, <2>2, <2>3, <2>4, <2>5 DEF OneOpenPath
  <1>10. ParentFrozen'
    BY <1>2, <1>3, <1>4 DEF Inv, ParentFrozen, StateHash
  <1>11. LifecycleMatchesState'
    <2>1. /\ status = "contradicted" => rec[b].status = "contradicted"
          /\ status = "solved" => Solved(st[b])
      BY DEF BranchClosed, ClosureAllowed
    <2>2. \A d \in known : Solved(st[d])' <=> Solved(st[d])
      BY <1>2 DEF Solved
    <2>3. \A d \in known : d # b =>
            /\ rec'[d].status = "open" => st'[d].contradictions = {} /\ ~Closed(d)'
            /\ rec'[d].status = "contradicted" => st'[d].contradictions # {}
            /\ rec'[d].status = "solved" => Solved(st[d])' /\ Closed(d)'
            /\ rec'[d].status = "abandoned" => Closed(d)'
      BY <1>2, <1>3, <1>4, <2>2 DEF Inv, LifecycleMatchesState
    <2>4. /\ status = "contradicted" => st'[b].contradictions # {}
          /\ status = "solved" => Solved(st[b])'
      BY <1>1, <1>2, <2>1, <2>2 DEF Inv, LifecycleMatchesState
    <2>5. /\ rec'[b].status = "open" => FALSE
          /\ rec'[b].status = "contradicted" => st'[b].contradictions # {}
          /\ rec'[b].status = "solved" => Solved(st[b])' /\ Closed(b)'
          /\ rec'[b].status = "abandoned" => Closed(b)'
      BY <1>3, <1>4, <2>4
    <2>6. \A d \in known :
            /\ rec'[d].status = "open" => st'[d].contradictions = {} /\ ~Closed(d)'
            /\ rec'[d].status = "contradicted" => st'[d].contradictions # {}
            /\ rec'[d].status = "solved" => Solved(st[d])' /\ Closed(d)'
            /\ rec'[d].status = "abandoned" => Closed(d)'
      BY <2>3, <2>5
    <2> QED
      BY <1>3, <2>6 DEF LifecycleMatchesState
  <1>12. SearchConfined'
    <2>1. searched' = searched
      BY <1>2
    <2>2. /\ known' = known
          /\ \A d \in known : rec'[d].parent = rec[d].parent /\ rec'[d].method = rec[d].method
      BY <1>3
    <2> QED
      BY <2>1, <2>2 DEF Inv, SearchConfined
  <1> QED
    BY <1>6, <1>7, <1>8, <1>9, <1>10, <1>11, <1>12 DEF Inv

(* Every event the reducer accepts keeps it. *)
LEMMA StepInv == Inv /\ [Next]_vars => Inv'
  <1> SUFFICES ASSUME Inv, [Next]_vars PROVE Inv'
    OBVIOUS
  <1>1. CASE UNCHANGED vars
    BY <1>1 DEF Inv, vars, TypeOK, Rooted, StatesConsistent, OneOpenPath, ParentFrozen,
                LifecycleMatchesState, SearchConfined, known, Closed, StateHash, Solved
  <1>2. ASSUME NEW n, NEW b \in BranchIds, OtherEvent(n, b)
        PROVE  Inv'
    <2>1. /\ sequence_no' = sequence_no + 1 /\ sequence_no \in Nat
          /\ active' = active /\ rec' = rec /\ st' = st /\ searched' = searched
          /\ rec \in [known -> BranchRecord]
      BY <1>2 DEF OtherEvent, Advance, Inv, TypeOK
    <2>2. TypeOK'
      BY <2>1 DEF Inv, TypeOK, known
    <2>3. Rooted'
      BY <2>1 DEF Inv, Rooted, known, BranchRecord
    <2>4. StatesConsistent' /\ OneOpenPath' /\ ParentFrozen'
      BY <2>1 DEF Inv, StatesConsistent, OneOpenPath, ParentFrozen, known, Closed, StateHash
    <2>5. LifecycleMatchesState' /\ SearchConfined'
      BY <2>1 DEF Inv, LifecycleMatchesState, SearchConfined, known, Closed, Solved
    <2> QED
      BY <2>2, <2>3, <2>4, <2>5 DEF Inv
  <1> QED
    BY <1>1, <1>2, OpenedInv, ClosedInv, EliminatedInv, AssignedInv, ContradictionInv
       DEF Next

(* Every reachable projection satisfies the inductive invariant. *)
THEOREM InvariantHolds == Spec => []Inv
  BY InitInv, StepInv, PTL DEF Spec

(* The projection keeps its type: the active branch is a retained one, and every *)
(* branch has exactly one record and one state.                                  *)
THEOREM TypeCorrect == Spec => []TypeOK
  <1>1. Inv => TypeOK
    BY DEF Inv
  <1> QED
    BY <1>1, InvariantHolds, PTL

(* Every state reduce_state and derive_branch_state produce is consistent. *)
THEOREM StatesStayConsistent == Spec => []StatesConsistent
  <1>1. Inv => StatesConsistent
    BY DEF Inv
  <1> QED
    BY <1>1, InvariantHolds, PTL

(* Unclosed branches form one path, each opened from its parent's present state. *)
THEOREM OpenBranchesNest == Spec => [](OneOpenPath /\ ParentFrozen)
  <1>1. Inv => OneOpenPath /\ ParentFrozen
    BY DEF Inv
  <1> QED
    BY <1>1, InvariantHolds, PTL

(* Records and states agree on which branches are refuted and which are solved. *)
THEOREM LifecycleAgrees == Spec => []LifecycleMatchesState
  <1>1. Inv => LifecycleMatchesState
    BY DEF Inv
  <1> QED
    BY <1>1, InvariantHolds, PTL

(* Search-derived eliminations never reach a branch that does not descend from a *)
(* search branch.                                                                *)
THEOREM SearchIsConfined == Spec => []SearchConfined
  <1>1. Inv => SearchConfined
    BY DEF Inv
  <1> QED
    BY <1>1, InvariantHolds, PTL

(* The branches each action leaves alone, and how it changes the active one. *)
LEMMA StepShape ==
  ASSUME Inv, Next
  PROVE  /\ known \subseteq known'
         /\ \A b \in known : b # active => rec'[b] = rec[b] /\ st'[b] = st[b]
         /\ \A x \in Variables : st'[active].cand[x] \subseteq st[active].cand[x]
         /\ st[active].assigned \subseteq st'[active].assigned
         /\ st[active].excluded \subseteq st'[active].excluded
  <1> DEFINE Shape ==
         /\ known \subseteq known'
         /\ \A b \in known : b # active => rec'[b] = rec[b] /\ st'[b] = st[b]
         /\ \A x \in Variables : st'[active].cand[x] \subseteq st[active].cand[x]
         /\ st[active].assigned \subseteq st'[active].assigned
         /\ st[active].excluded \subseteq st'[active].excluded
  <1>1. /\ active \in known /\ rec \in [known -> BranchRecord] /\ st \in [known -> PuzzleState]
        /\ st[active].cand \in [Variables -> SUBSET Values]
    BY DEF Inv, TypeOK, PuzzleState
  <1>2. ASSUME NEW n, NEW b, NEW h, NEW a, NEW m, BranchOpened(n, b, h, a, m) PROVE Shape
    BY <1>1, <1>2 DEF BranchOpened, OpeningAllowed, known
  <1>3. ASSUME NEW n, NEW b, NEW h, NEW s, BranchClosed(n, b, h, s) PROVE Shape
    BY <1>1, <1>3 DEF BranchClosed, ClosingAllowed, known
  <1>4. ASSUME NEW n, NEW b, NEW h, NEW x \in Variables, NEW vs, NEW o,
               CandidatesEliminated(n, b, h, x, vs, o)
        PROVE  Shape
    BY <1>1, <1>4 DEF CandidatesEliminated, MutationAllowed, NarrowTo, Eliminate, build_state, known
  <1>5. ASSUME NEW n, NEW b, NEW h, NEW x \in Variables, NEW v, NEW o,
               ValueAssigned(n, b, h, x, v, o)
        PROVE  Shape
    BY <1>1, <1>5 DEF ValueAssigned, MutationAllowed, AssignmentAllowed, NarrowTo, Assign,
                      build_state, known
  <1>6. ASSUME NEW n, NEW b, NEW h, NEW c, ContradictionDetected(n, b, h, c) PROVE Shape
    BY <1>1, <1>6 DEF ContradictionDetected, MutationAllowed, Contradict, build_state, known
  <1>7. ASSUME NEW n, NEW b, OtherEvent(n, b) PROVE Shape
    BY <1>1, <1>7 DEF OtherEvent, known
  <1> HIDE DEF Shape
  <1>8. Shape
    BY <1>2, <1>3, <1>4, <1>5, <1>6, <1>7 DEF Next
  <1> QED
    BY <1>8 DEF Shape

(* No event changes a closed branch or drops a retained one. *)
THEOREM HistoryIsFixed == Spec => ClosedNeverChanges
  <1>1. Inv /\ [Next]_vars =>
          [\A b \in known : /\ b \in known'
                            /\ Closed(b) => rec'[b] = rec[b] /\ st'[b] = st[b]]_vars
    <2> SUFFICES ASSUME Inv, Next, NEW b \in known
                 PROVE  b \in known' /\ (Closed(b) => rec'[b] = rec[b] /\ st'[b] = st[b])
      OBVIOUS
    <2>1. ~Closed(active)
      BY DEF Inv, OneOpenPath
    <2> QED
      BY <2>1, StepShape
  <1> QED
    BY <1>1, InvariantHolds, PTL DEF Spec, ClosedNeverChanges

(* Within a branch, candidates only disappear and facts only accumulate. *)
THEOREM BranchesOnlyNarrow == Spec => NarrowingOnly
  <1>1. Inv /\ [Next]_vars =>
          [\A b \in known : /\ \A x \in Variables : st'[b].cand[x] \subseteq st[b].cand[x]
                            /\ st[b].assigned \subseteq st'[b].assigned
                            /\ st[b].excluded \subseteq st'[b].excluded]_vars
    BY StepShape
  <1> QED
    BY <1>1, InvariantHolds, PTL DEF Spec, NarrowingOnly

----------------------------------------------------------------------------
(* The way to a branch: what the recursive definition of Path determines. *)

IsRoute(g, r) ==
  g = [b \in DOMAIN r |->
         IF r[b].parent = NoParent THEN <<b>> ELSE Append(g[r[b].parent], b)]

Route == CHOOSE g : IsRoute(g, rec)

ParentsOpenedBefore(r) ==
  /\ \A b \in DOMAIN r : r[b].opened_sequence_no \in Nat
  /\ \A b \in DOMAIN r : r[b].parent # NoParent =>
       /\ r[b].parent \in DOMAIN r
       /\ r[r[b].parent].opened_sequence_no < r[b].opened_sequence_no

(* The records determine the way to every branch, also when more branches open. *)
LEMMA RoutesAgree ==
  ASSUME NEW r, NEW q, ParentsOpenedBefore(r), DOMAIN r \subseteq DOMAIN q,
         \A b \in DOMAIN r : q[b].parent = r[b].parent,
         NEW g, IsRoute(g, r), NEW h, IsRoute(h, q), NEW b \in DOMAIN r
  PROVE  h[b] = g[b]
  <1> DEFINE Differ == {c \in DOMAIN r : h[c] # g[c]}
             Numbers == {r[c].opened_sequence_no : c \in Differ}
  <1>1. SUFFICES ASSUME Differ # {} PROVE FALSE
    OBVIOUS
  <1>2. Numbers \subseteq Nat /\ Numbers # {}
    BY <1>1 DEF ParentsOpenedBefore
  <1>3. PICK k \in Numbers : \A j \in Numbers : ~ (<<j, k>> \in OpToRel(<, Nat))
    BY <1>2, NatLessThanWellFounded, WFMin
  <1>4. PICK c \in Differ : r[c].opened_sequence_no = k
    OBVIOUS
  <1>5. \A d \in Differ : ~ (r[d].opened_sequence_no < k)
    BY <1>2, <1>3 DEF OpToRel
  <1> DEFINE parent == r[c].parent
  <1>6. c \in DOMAIN r /\ c \in DOMAIN q /\ q[c].parent = parent
    OBVIOUS
  <1>7. parent = NoParent \/ h[parent] = g[parent]
    BY <1>4, <1>5, <1>6 DEF ParentsOpenedBefore
  <1>8. /\ g[c] = IF parent = NoParent THEN <<c>> ELSE Append(g[parent], c)
        /\ h[c] = IF parent = NoParent THEN <<c>> ELSE Append(h[parent], c)
    BY <1>6 DEF IsRoute
  <1>9. h[c] = g[c]
    BY <1>7, <1>8
  <1> QED
    BY <1>9

(* A way leads through retained branches and passes its end only there. *)
LeadsTo(p, b) ==
  /\ p \in Seq(known) /\ Len(p) > 0 /\ p[Len(p)] = b
  /\ \A i \in 1 .. Len(p) - 1 : p[i] # b

RouteInv ==
  /\ IsRoute(Route, rec)
  /\ \A b \in known : LeadsTo(Route[b], b)

LEMMA PathIsRoute == Path = Route[active] /\ Path' = Route'[active']
  BY DEF Path, Route, IsRoute, known

LEMMA ParentsAreOlder == Inv => ParentsOpenedBefore(rec)
  BY DEF Inv, TypeOK, Rooted, OneOpenPath, ParentsOpenedBefore, BranchRecord, known

LEMMA RouteInit == Init => RouteInv
  <1> SUFFICES ASSUME Init PROVE RouteInv
    OBVIOUS
  <1>1. known = {Root} /\ rec[Root].parent = NoParent
    BY DEF Init, known
  <1>2. IsRoute([b \in {Root} |-> <<b>>], rec)
    BY <1>1 DEF IsRoute, known
  <1>3. IsRoute(Route, rec)
    BY <1>2 DEF Route
  <1>4. Route[Root] = <<Root>>
    BY <1>1, <1>3 DEF IsRoute, known
  <1>5. LeadsTo(<<Root>>, Root)
    BY <1>1 DEF LeadsTo
  <1> QED
    BY <1>1, <1>3, <1>4, <1>5 DEF RouteInv

(* Closing a branch and changing a state leave every way as it is. *)
LEMMA RouteKept ==
  ASSUME Inv, RouteInv, known' = known, \A b \in known : rec'[b].parent = rec[b].parent
  PROVE  RouteInv' /\ \A b \in known : Route'[b] = Route[b]
  <1>1. IsRoute(Route, rec')
    BY DEF RouteInv, IsRoute, known
  <1>2. IsRoute(Route', rec')
    BY <1>1 DEF Route
  <1>3. ASSUME NEW b \in known PROVE Route'[b] = Route[b]
    BY <1>2, ParentsAreOlder, RoutesAgree DEF RouteInv, known
  <1>4. \A b \in known : LeadsTo(Route[b], b)'
    BY <1>3 DEF RouteInv, LeadsTo
  <1> QED
    BY <1>2, <1>3, <1>4 DEF RouteInv

(* The way to a new branch continues the way to its parent. *)
LEMMA RouteExtended ==
  ASSUME Inv, RouteInv, NEW b, b \notin known, known' = known \cup {b},
         \A c \in known : rec'[c].parent = rec[c].parent, rec'[b].parent = active
  PROVE  /\ RouteInv'
         /\ \A c \in known : Route'[c] = Route[c]
         /\ Route'[b] = Append(Route[active], b)
  <1> DEFINE h == [c \in known' |-> IF c = b THEN Append(Route[active], b) ELSE Route[c]]
  <1>1. /\ active \in known /\ active # NoParent
        /\ \A c \in known : rec[c].parent # NoParent => rec[c].parent \in known
    BY BranchAssumption DEF Inv, TypeOK, Rooted, OneOpenPath
  <1>2. IsRoute(h, rec')
    <2>1. h[b] = Append(h[active], b) /\ \A c \in known : h[c] = Route[c]
      BY <1>1
    <2>2. DOMAIN rec' = known' /\ h = [c \in known' |-> h[c]]
      BY DEF known
    <2> HIDE DEF h
    <2>3. ASSUME NEW c \in known
          PROVE  h[c] = IF rec'[c].parent = NoParent THEN <<c>> ELSE Append(h[rec'[c].parent], c)
      <3>1. Route[c] = IF rec[c].parent = NoParent THEN <<c>> ELSE Append(Route[rec[c].parent], c)
        BY DEF RouteInv, IsRoute, known
      <3> QED
        BY <1>1, <2>1, <3>1
    <2>4. \A c \in known' :
            h[c] = IF rec'[c].parent = NoParent THEN <<c>> ELSE Append(h[rec'[c].parent], c)
      BY <1>1, <2>1, <2>3
    <2> QED
      BY <2>2, <2>4 DEF IsRoute
  <1>3. IsRoute(Route', rec')
    BY <1>2 DEF Route
  <1>4. ASSUME NEW c \in known PROVE Route'[c] = Route[c]
    BY <1>3, ParentsAreOlder, RoutesAgree DEF RouteInv, known
  <1>5. Route'[b] = Append(Route[active], b)
    BY <1>1, <1>3, <1>4 DEF IsRoute, known
  <1>6. ASSUME NEW c \in known' PROVE LeadsTo(Route[c], c)'
    <2>1. CASE c \in known
      BY <1>4, <2>1 DEF RouteInv, LeadsTo
    <2>2. CASE c = b
      <3> DEFINE p == Route[active]
      <3>1. p \in Seq(known) /\ Len(p) \in Nat
        BY <1>1 DEF RouteInv, LeadsTo
      <3>2. Route'[b] = Append(p, b)
        BY <1>5
      <3> HIDE DEF p
      <3>3. /\ Append(p, b) \in Seq(known \cup {b}) /\ Len(Append(p, b)) = Len(p) + 1
            /\ Append(p, b)[Len(p) + 1] = b
            /\ \A i \in 1 .. Len(p) : Append(p, b)[i] = p[i] /\ p[i] \in known
        BY <3>1
      <3>4. LeadsTo(Route[b], b)'
        BY <3>1, <3>2, <3>3 DEF LeadsTo
      <3> QED
        BY <2>2, <3>4
    <2> QED
      BY <2>1, <2>2
  <1> QED
    BY <1>3, <1>4, <1>5, <1>6 DEF RouteInv

(* What opening, closing and refuting a branch do to the records of the others. *)
LEMMA OpenedRecords ==
  ASSUME Inv, NEW n, NEW b, NEW h, NEW a, NEW m, BranchOpened(n, b, h, a, m)
  PROVE  /\ b \notin known /\ known' = known \cup {b}
         /\ \A c \in known : rec'[c].parent = rec[c].parent
         /\ rec'[b].parent = active
  BY DEF BranchOpened, OpeningAllowed, known

LEMMA ClosedRecords ==
  ASSUME Inv, NEW n, NEW b, NEW h, NEW s, BranchClosed(n, b, h, s)
  PROVE  known' = known /\ \A c \in known : rec'[c].parent = rec[c].parent
  BY DEF BranchClosed, ClosingAllowed, Inv, TypeOK, BranchRecord, known

LEMMA RefutedRecords ==
  ASSUME Inv, NEW n, NEW b, NEW h, NEW c, ContradictionDetected(n, b, h, c)
  PROVE  known' = known /\ \A d \in known : rec'[d].parent = rec[d].parent
  BY DEF ContradictionDetected, MutationAllowed, Inv, TypeOK, BranchRecord, known

(* Every accepted event keeps the ways to all branches. *)
LEMMA RouteStep ==
  ASSUME Inv, RouteInv, [Next]_vars
  PROVE  RouteInv'
  <1> USE DEF known
  <1>1. CASE UNCHANGED vars
    BY <1>1, RouteKept DEF vars
  <1>2. ASSUME NEW n, NEW b, NEW h, NEW a, NEW m, BranchOpened(n, b, h, a, m) PROVE RouteInv'
    BY <1>2, OpenedRecords, RouteExtended
  <1>3. ASSUME NEW n, NEW b, NEW h, NEW s, BranchClosed(n, b, h, s) PROVE RouteInv'
    BY <1>3, ClosedRecords, RouteKept
  <1>4. ASSUME NEW n, NEW b, NEW h, NEW x, NEW vs, NEW o, CandidatesEliminated(n, b, h, x, vs, o)
        PROVE  RouteInv'
    BY <1>4, RouteKept DEF CandidatesEliminated, NarrowTo
  <1>5. ASSUME NEW n, NEW b, NEW h, NEW x, NEW v, NEW o, ValueAssigned(n, b, h, x, v, o)
        PROVE  RouteInv'
    BY <1>5, RouteKept DEF ValueAssigned, NarrowTo
  <1>6. ASSUME NEW n, NEW b, NEW h, NEW c, ContradictionDetected(n, b, h, c) PROVE RouteInv'
    BY <1>6, RefutedRecords, RouteKept
  <1>7. ASSUME NEW n, NEW b, OtherEvent(n, b) PROVE RouteInv'
    BY <1>7, RouteKept DEF OtherEvent
  <1> QED
    BY <1>1, <1>2, <1>3, <1>4, <1>5, <1>6, <1>7 DEF Next

----------------------------------------------------------------------------
(* The scopes that the unclosed branches are. *)

ScopeType == [cand : [Variables -> SUBSET Values], refuted : BOOLEAN]
Scope(b) == [cand |-> st[b].cand, refuted |-> st[b].contradictions # {}]
Stack == [i \in DOMAIN Path |-> Scope(Path[i])]

LEMMA StackShape ==
  ASSUME Inv, RouteInv
  PROVE  /\ Path \in Seq(known) /\ Len(Path) \in Nat \ {0} /\ Path[Len(Path)] = active
         /\ \A i \in 1 .. Len(Path) - 1 : Path[i] \in known /\ Path[i] # active
         /\ Stack \in Seq(ScopeType) /\ Len(Stack) = Len(Path)
         /\ Stack[Len(Stack)] = Scope(active)
  <1>1. active \in known /\ st \in [known -> PuzzleState]
    BY DEF Inv, TypeOK
  <1>2. /\ Path \in Seq(known) /\ Len(Path) \in Nat \ {0} /\ Path[Len(Path)] = active
        /\ \A i \in 1 .. Len(Path) - 1 : Path[i] # active
    BY <1>1, PathIsRoute DEF RouteInv, LeadsTo
  <1>3. \A b \in known : Scope(b) \in ScopeType
    BY <1>1 DEF Scope, ScopeType, PuzzleState
  <1>4. DOMAIN Path = 1 .. Len(Path) /\ \A i \in 1 .. Len(Path) : Path[i] \in known
    BY <1>2
  <1>5. Stack \in Seq(ScopeType) /\ Len(Stack) = Len(Path)
    BY <1>2, <1>3, <1>4 DEF Stack
  <1> QED
    BY <1>2, <1>4, <1>5 DEF Stack

LEMMA StackIsMapped ==
  /\ (Scopes!Enter <=>
        /\ ~Stack[Len(Stack)].refuted
        /\ Len(Stack') = Len(Stack) + 1
        /\ \E c \in {d \in [Variables -> SUBSET Values] :
                       \A x \in Variables : d[x] \subseteq Stack[Len(Stack)].cand[x]} :
             Stack' = Append(Stack, [cand |-> c, refuted |-> FALSE]))
  /\ (Scopes!Narrow <=>
        /\ ~Stack[Len(Stack)].refuted
        /\ Len(Stack') = Len(Stack)
        /\ \E c \in {d \in [Variables -> SUBSET Values] :
                       \A x \in Variables : d[x] \subseteq Stack[Len(Stack)].cand[x]} :
             Stack' = [Stack EXCEPT ![Len(Stack)].cand = c])
  /\ (Scopes!Refute <=>
        /\ ~Stack[Len(Stack)].refuted
        /\ Stack' = [Stack EXCEPT ![Len(Stack)].refuted = TRUE])
  /\ (Scopes!Leave <=> Len(Stack) > 1 /\ Stack' = SubSeq(Stack, 1, Len(Stack) - 1))
  BY DEF Scopes!Enter, Scopes!Narrow, Scopes!Refute, Scopes!Leave, Scopes!Top,
         Scopes!Narrowings, Scopes!Narrower, Stack, Scope

LEMMA ScopesInit ==
  ASSUME Init, Inv, RouteInv
  PROVE  Scopes!Init
  <1>1. /\ active = Root /\ known = {Root} /\ st[Root].contradictions = {}
        /\ rec[Root].parent = NoParent
    BY DEF Init, create_initial_state, build_state, known
  <1>2. Path = <<Root>>
    BY <1>1, PathIsRoute DEF RouteInv, IsRoute, known
  <1>3. st[Root].cand \in [Variables -> SUBSET Values]
    BY <1>1 DEF Inv, TypeOK, PuzzleState
  <1> DEFINE s == [cand |-> st[Root].cand, refuted |-> FALSE]
  <1>4. s \in [cand : [Variables -> SUBSET Values], refuted : {FALSE}]
    BY <1>3
  <1>5. Stack = [i \in 1 .. 1 |-> s]
    <2>1. DOMAIN Path = 1 .. 1 /\ \A i \in 1 .. 1 : Path[i] = Root
      BY <1>2
    <2>2. Scope(Root) = s
      BY <1>1 DEF Scope
    <2> HIDE DEF s
    <2> QED
      BY <2>1, <2>2 DEF Stack
  <1> HIDE DEF s
  <1>6. Stack \in [1 .. 1 -> [cand : [Variables -> SUBSET Values], refuted : {FALSE}]]
    BY <1>4, <1>5
  <1> QED
    BY <1>6 DEF Scopes!Init, Stack, Scope

(* Opening a branch enters a scope. *)
LEMMA OpenedEnters ==
  ASSUME Inv, Inv', RouteInv, RouteInv',
         NEW n, NEW b, NEW h, NEW a \in Atoms, NEW m, BranchOpened(n, b, h, a, m)
  PROVE  Scopes!Enter
  <1>1. Path' = Append(Path, b) /\ b \notin known /\ active' = b
    <2>1. Route'[b] = Append(Route[active], b)
      BY OpenedRecords, RouteExtended
    <2> QED
      BY <2>1, PathIsRoute, OpenedRecords DEF BranchOpened
  <1>2. \A c \in known : st'[c] = st[c]
    BY OpenedRecords DEF BranchOpened, known
  <1>3. st'[b].contradictions = {} /\ st[active].contradictions = {}
    <2>1. st'[b] = derive_branch_state(st[active], a, n)
      BY DEF BranchOpened
    <2>2. rec[active].status = "open" /\ active \in known
      BY DEF BranchOpened, OpeningAllowed, Inv, TypeOK
    <2> QED
      BY <2>1, <2>2 DEF derive_branch_state, build_state, Inv, LifecycleMatchesState
  <1>4. st'[b].cand \in [Variables -> SUBSET Values]
    BY <1>1 DEF Inv, TypeOK, PuzzleState
  <1>5. \A x \in Variables : st'[b].cand[x] \subseteq st[active].cand[x]
    <2>1. /\ st[active].cand \in [Variables -> SUBSET Values] /\ AssumptionAllowed(st[active], a)
          /\ st'[b].cand = AssumedCandidates(st[active], a)
      BY DEF BranchOpened, derive_branch_state, build_state, Inv, TypeOK, PuzzleState
    <2>2. a.kind \in {"assignment", "exclusion", "other"}
      BY <2>1 DEF AssumptionAllowed
    <2> QED
      BY <2>1, <2>2 DEF AssumptionAllowed, AssumedCandidates
  <1> DEFINE top == [cand |-> st'[b].cand, refuted |-> FALSE]
  <1>6. /\ Path \in Seq(known) /\ Len(Path) \in Nat /\ DOMAIN Path = 1 .. Len(Path)
        /\ \A i \in 1 .. Len(Path) : Path[i] \in known
    BY StackShape
  <1>7. Stack' = Append(Stack, top)
    <2>1. /\ DOMAIN Path' = 1 .. Len(Path) + 1 /\ Path'[Len(Path) + 1] = b
          /\ \A i \in 1 .. Len(Path) : Path'[i] = Path[i]
      BY <1>1, <1>6
    <2>2. Stack' = [i \in DOMAIN Path' |-> [cand |-> st'[Path'[i]].cand,
                                            refuted |-> st'[Path'[i]].contradictions # {}]]
      BY DEF Stack, Scope
    <2>3. Stack' = [i \in 1 .. Len(Path) + 1 |-> IF i = Len(Path) + 1 THEN top ELSE Scope(Path[i])]
      <3>1. \A i \in 1 .. Len(Path) :
              [cand |-> st'[Path'[i]].cand, refuted |-> st'[Path'[i]].contradictions # {}]
                = Scope(Path[i])
        BY <1>2, <1>6, <2>1 DEF Scope
      <3>2. [cand |-> st'[Path'[Len(Path) + 1]].cand,
             refuted |-> st'[Path'[Len(Path) + 1]].contradictions # {}] = top
        BY <1>3, <2>1
      <3> HIDE DEF top
      <3>3. \A i \in 1 .. Len(Path) + 1 :
              [cand |-> st'[Path'[i]].cand, refuted |-> st'[Path'[i]].contradictions # {}]
                = IF i = Len(Path) + 1 THEN top ELSE Scope(Path[i])
        BY <1>6, <3>1, <3>2
      <3> QED
        BY <2>1, <2>2, <3>3
    <2>4. Stack = [i \in 1 .. Len(Path) |-> Scope(Path[i])]
      BY <1>6 DEF Stack
    <2> HIDE DEF top
    <2>5. Append(Stack, top) = [i \in 1 .. Len(Path) + 1 |->
                                  IF i = Len(Path) + 1 THEN top ELSE Scope(Path[i])]
      BY <1>6, <2>4, StackShape
    <2> QED
      BY <2>3, <2>5
  <1>8. ~Stack[Len(Stack)].refuted /\ Stack[Len(Stack)].cand = st[active].cand
    <2>1. Stack[Len(Stack)] = Scope(active)
      BY StackShape
    <2>2. Scope(active).refuted = FALSE /\ Scope(active).cand = st[active].cand
      BY <1>3 DEF Scope
    <2> QED
      BY <2>1, <2>2
  <1> HIDE DEF top
  <1>9. Len(Stack') = Len(Stack) + 1
    BY <1>7, StackShape
  <1> QED
    BY <1>4, <1>5, <1>7, <1>8, <1>9, StackIsMapped DEF top

(* Closing a branch leaves its scope, whatever its status. *)
LEMMA ClosedLeaves ==
  ASSUME Inv, Inv', RouteInv, RouteInv', NEW n, NEW b, NEW h, NEW s, BranchClosed(n, b, h, s)
  PROVE  Scopes!Leave
  <1> DEFINE P == Route[rec[active].parent]
  <1>1. /\ active \in known /\ rec[active].parent # NoParent /\ rec[active].parent \in known
        /\ active' = rec[active].parent /\ st' = st
    BY DEF BranchClosed, ClosingAllowed, Inv, TypeOK, Rooted, OneOpenPath
  <1>2. Path = Append(P, active) /\ Path' = P
    <2>1. Route[active] = Append(P, active)
      BY <1>1 DEF RouteInv, IsRoute, known
    <2>2. \A c \in known : Route'[c] = Route[c]
      BY ClosedRecords, RouteKept
    <2> QED
      BY <1>1, <2>1, <2>2, PathIsRoute
  <1>3. P \in Seq(known) /\ Len(P) \in Nat \ {0}
    BY <1>1 DEF RouteInv, LeadsTo
  <1> HIDE DEF P
  <1>4. /\ DOMAIN Path' = 1 .. Len(P) /\ Len(Path) = Len(P) + 1
        /\ \A i \in 1 .. Len(P) : Path'[i] = Path[i]
    BY <1>2, <1>3
  <1>5. Stack' = [i \in DOMAIN Path' |-> [cand |-> st'[Path'[i]].cand,
                                          refuted |-> st'[Path'[i]].contradictions # {}]]
    BY DEF Stack, Scope
  <1>6. Stack' = [i \in 1 .. Len(P) |-> Scope(Path[i])]
    BY <1>1, <1>4, <1>5 DEF Scope
  <1>7. /\ Stack \in Seq(ScopeType) /\ Len(Stack) = Len(P) + 1
        /\ \A i \in 1 .. Len(P) : Stack[i] = Scope(Path[i])
    BY <1>3, <1>4, StackShape DEF Stack
  <1>8. Stack' = SubSeq(Stack, 1, Len(Stack) - 1)
    BY <1>3, <1>6, <1>7
  <1> QED
    BY <1>3, <1>7, <1>8, StackIsMapped

(* An event that replaces the state of the active branch touches the innermost *)
(* scope alone.                                                                *)
LEMMA TopReplaced ==
  ASSUME Inv, RouteInv, known' = known, \A b \in known : rec'[b].parent = rec[b].parent,
         active' = active, NEW s, st' = [st EXCEPT ![active] = s]
  PROVE  Stack' = [Stack EXCEPT ![Len(Stack)] = [cand |-> s.cand, refuted |-> s.contradictions # {}]]
  <1>1. Path' = Path
    BY RouteKept, PathIsRoute DEF Inv, TypeOK
  <1>2. active \in known /\ st'[active] = s /\ \A b \in known : b # active => st'[b] = st[b]
    BY DEF Inv, TypeOK
  <1>3. Stack' = [i \in DOMAIN Path' |-> [cand |-> st'[Path'[i]].cand,
                                          refuted |-> st'[Path'[i]].contradictions # {}]]
    BY DEF Stack, Scope
  <1>4. /\ DOMAIN Path = 1 .. Len(Path) /\ Len(Path) \in Nat \ {0} /\ Path[Len(Path)] = active
        /\ \A i \in 1 .. Len(Path) : i # Len(Path) => Path[i] \in known /\ Path[i] # active
    BY StackShape
  <1> DEFINE top == [cand |-> s.cand, refuted |-> s.contradictions # {}]
  <1>5. Stack' = [i \in 1 .. Len(Path) |-> IF i = Len(Path) THEN top ELSE Scope(Path[i])]
    <2>1. \A i \in 1 .. Len(Path) : i # Len(Path) =>
            [cand |-> st'[Path'[i]].cand, refuted |-> st'[Path'[i]].contradictions # {}]
              = Scope(Path[i])
      BY <1>1, <1>2, <1>4 DEF Scope
    <2>2. [cand |-> st'[Path'[Len(Path)]].cand,
           refuted |-> st'[Path'[Len(Path)]].contradictions # {}] = top
      BY <1>1, <1>2, <1>4
    <2> HIDE DEF top
    <2> QED
      BY <1>1, <1>3, <1>4, <2>1, <2>2
  <1>6. Stack = [i \in 1 .. Len(Path) |-> Scope(Path[i])] /\ Len(Stack) = Len(Path)
    BY <1>4, StackShape DEF Stack
  <1> HIDE DEF top
  <1>7. [Stack EXCEPT ![Len(Stack)] = top] =
          [i \in 1 .. Len(Path) |-> IF i = Len(Path) THEN top ELSE Scope(Path[i])]
    BY <1>4, <1>6
  <1> QED
    BY <1>5, <1>7 DEF top

(* Records that agree in both fields are equal. *)
LEMMA ScopeUpdates ==
  ASSUME NEW s \in ScopeType, NEW c \in [Variables -> SUBSET Values]
  PROVE  /\ [s EXCEPT !.cand = c] = [cand |-> c, refuted |-> s.refuted]
         /\ [s EXCEPT !.refuted = TRUE] = [cand |-> s.cand, refuted |-> TRUE]
  <1> DEFINE C == [Variables -> SUBSET Values]
  <1>1. s \in [cand : C, refuted : BOOLEAN] /\ c \in C
    BY DEF ScopeType
  <1> HIDE DEF C
  <1>2. /\ [s EXCEPT !.cand = c] \in [cand : C, refuted : BOOLEAN]
        /\ [cand |-> c, refuted |-> s.refuted] \in [cand : C, refuted : BOOLEAN]
        /\ [s EXCEPT !.cand = c].cand = c /\ [s EXCEPT !.cand = c].refuted = s.refuted
    BY <1>1
  <1>3. /\ [s EXCEPT !.refuted = TRUE] \in [cand : C, refuted : BOOLEAN]
        /\ [cand |-> s.cand, refuted |-> TRUE] \in [cand : C, refuted : BOOLEAN]
        /\ [s EXCEPT !.refuted = TRUE].cand = s.cand /\ [s EXCEPT !.refuted = TRUE].refuted = TRUE
    BY <1>1
  <1>4. \A p, q \in [cand : C, refuted : BOOLEAN] :
          p.cand = q.cand /\ p.refuted = q.refuted => p = q
    OBVIOUS
  <1>5. [s EXCEPT !.cand = c] = [cand |-> c, refuted |-> s.refuted]
    BY <1>2, <1>4
  <1>6. [s EXCEPT !.refuted = TRUE] = [cand |-> s.cand, refuted |-> TRUE]
    BY <1>3, <1>4
  <1> QED
    BY <1>5, <1>6

(* Elimination and assignment narrow the innermost scope. *)
LEMMA StateNarrows ==
  ASSUME Inv, Inv', RouteInv, Next, UNCHANGED <<active, rec>>, rec[active].status = "open",
         NEW s, st' = [st EXCEPT ![active] = s], s.contradictions = st[active].contradictions
  PROVE  Scopes!Narrow
  <1>1. /\ active \in known /\ known' = known /\ st[active].contradictions = {}
        /\ st'[active] = s /\ s.cand \in [Variables -> SUBSET Values]
    BY DEF Inv, TypeOK, LifecycleMatchesState, PuzzleState, known
  <1> DEFINE top == [cand |-> s.cand, refuted |-> FALSE]
  <1>2. Stack' = [Stack EXCEPT ![Len(Stack)] = top]
    BY <1>1, TopReplaced
  <1>3. /\ Stack \in Seq(ScopeType) /\ Len(Stack) \in Nat \ {0}
        /\ Stack[Len(Stack)] = [cand |-> st[active].cand, refuted |-> FALSE]
    BY <1>1, StackShape DEF Scope
  <1>4. top = [Stack[Len(Stack)] EXCEPT !.cand = s.cand]
    <2>1. Stack[Len(Stack)] \in ScopeType /\ Stack[Len(Stack)].refuted = FALSE
      BY <1>3
    <2> QED
      BY <1>1, <2>1, ScopeUpdates
  <1>5. Stack' = [Stack EXCEPT ![Len(Stack)].cand = s.cand]
    BY <1>2, <1>4
  <1>6. Len(Stack') = Len(Stack)
    BY <1>2, <1>3
  <1>7. \A x \in Variables : s.cand[x] \subseteq st[active].cand[x]
    BY <1>1, StepShape
  <1>8. ~Stack[Len(Stack)].refuted /\ Stack[Len(Stack)].cand = st[active].cand
    BY <1>3
  <1>9. s.cand \in {d \in [Variables -> SUBSET Values] :
                      \A x \in Variables : d[x] \subseteq Stack[Len(Stack)].cand[x]}
    BY <1>1, <1>7, <1>8
  <1> QED
    BY <1>5, <1>6, <1>8, <1>9, StackIsMapped

(* A contradiction refutes it. *)
LEMMA StateRefutes ==
  ASSUME Inv, RouteInv, known' = known, \A b \in known : rec'[b].parent = rec[b].parent,
         active' = active, rec[active].status = "open",
         NEW s, st' = [st EXCEPT ![active] = s], s.contradictions # {}, s.cand = st[active].cand
  PROVE  Scopes!Refute
  <1>1. Stack' = [Stack EXCEPT ![Len(Stack)] = [cand |-> s.cand, refuted |-> TRUE]]
    BY TopReplaced
  <1>2. /\ Stack \in Seq(ScopeType) /\ Len(Stack) \in Nat \ {0}
        /\ Stack[Len(Stack)] = [cand |-> st[active].cand, refuted |-> FALSE]
    BY StackShape DEF Scope, Inv, TypeOK, LifecycleMatchesState
  <1>3. [cand |-> s.cand, refuted |-> TRUE] = [Stack[Len(Stack)] EXCEPT !.refuted = TRUE]
    <2>1. Stack[Len(Stack)] \in ScopeType /\ Stack[Len(Stack)].cand = s.cand
      BY <1>2
    <2>2. s.cand \in [Variables -> SUBSET Values]
      BY DEF Inv, TypeOK, PuzzleState
    <2> QED
      BY <2>1, <2>2, ScopeUpdates
  <1>4. ~Stack[Len(Stack)].refuted
    BY <1>2
  <1> QED
    BY <1>1, <1>3, <1>4, StackIsMapped

(* An event that reaches no state is a stutter. *)
LEMMA ScopesKept ==
  ASSUME Inv, RouteInv, UNCHANGED <<active, rec, st>>
  PROVE  Stack' = Stack
  <1>1. known' = known /\ \A b \in known : rec'[b].parent = rec[b].parent
    BY DEF known
  <1>2. Path' = Path
    BY <1>1, RouteKept, PathIsRoute DEF Inv, TypeOK
  <1> QED
    BY <1>2 DEF Stack, Scope

LEMMA ScopesStep ==
  ASSUME Inv, Inv', RouteInv, RouteInv', [Next]_vars
  PROVE  Scopes!Next \/ Stack' = Stack
  <1>1. CASE UNCHANGED vars
    BY <1>1, ScopesKept DEF vars
  <1>2. CASE Next
    <2>1. ASSUME NEW n, NEW b, NEW h, NEW a \in Atoms, NEW m, BranchOpened(n, b, h, a, m)
          PROVE  Scopes!Next
      BY <2>1, OpenedEnters DEF Scopes!Next
    <2>2. ASSUME NEW n, NEW b, NEW h, NEW s, BranchClosed(n, b, h, s) PROVE Scopes!Next
      BY <2>2, ClosedLeaves DEF Scopes!Next
    <2>3. ASSUME NEW n, NEW b, NEW h, NEW x, NEW vs, NEW o, CandidatesEliminated(n, b, h, x, vs, o)
          PROVE  Scopes!Next
      <3> DEFINE s == Eliminate(st[active], x, vs, n)
      <3>1. /\ UNCHANGED <<active, rec>> /\ rec[active].status = "open"
            /\ st' = [st EXCEPT ![active] = s]
        BY <2>3 DEF CandidatesEliminated, MutationAllowed, NarrowTo
      <3>2. s.contradictions = st[active].contradictions
        BY DEF Eliminate, build_state
      <3> HIDE DEF s
      <3> QED
        BY <1>2, <3>1, <3>2, StateNarrows DEF Scopes!Next
    <2>4. ASSUME NEW n, NEW b, NEW h, NEW x, NEW v, NEW o, ValueAssigned(n, b, h, x, v, o)
          PROVE  Scopes!Next
      <3> DEFINE s == Assign(st[active], x, v, n)
      <3>1. /\ UNCHANGED <<active, rec>> /\ rec[active].status = "open"
            /\ st' = [st EXCEPT ![active] = s]
        BY <2>4 DEF ValueAssigned, MutationAllowed, NarrowTo
      <3>2. s.contradictions = st[active].contradictions
        BY DEF Assign, build_state
      <3> HIDE DEF s
      <3> QED
        BY <1>2, <3>1, <3>2, StateNarrows DEF Scopes!Next
    <2>5. ASSUME NEW n, NEW b, NEW h, NEW c, ContradictionDetected(n, b, h, c)
          PROVE  Scopes!Next
      <3> DEFINE s == Contradict(st[active], c, n)
      <3>1. /\ UNCHANGED active /\ rec[active].status = "open"
            /\ st' = [st EXCEPT ![active] = s]
        BY <2>5 DEF ContradictionDetected, MutationAllowed
      <3>2. s.contradictions # {} /\ s.cand = st[active].cand
        BY DEF Contradict, build_state
      <3>3. known' = known /\ \A d \in known : rec'[d].parent = rec[d].parent
        BY <2>5, RefutedRecords
      <3> HIDE DEF s
      <3> QED
        BY <3>1, <3>2, <3>3, StateRefutes DEF Scopes!Next
    <2>6. ASSUME NEW n, NEW b, OtherEvent(n, b) PROVE Stack' = Stack
      BY <2>6, ScopesKept DEF OtherEvent
    <2> QED
      BY <1>2, <2>1, <2>2, <2>3, <2>4, <2>5, <2>6 DEF Next
  <1> QED
    BY <1>1, <1>2

(* Every reachable projection has a way to each of its branches. *)
LEMMA RoutesExist == Spec => []RouteInv
  <1>1. Inv /\ RouteInv /\ [Next]_vars => RouteInv'
    BY RouteStep
  <1> QED
    BY <1>1, RouteInit, InvariantHolds, PTL DEF Spec

(* The retained branches of a trace are nested scopes. *)
THEOREM BranchesAreScopes == Spec => ImplementsScopes
  <1> DEFINE S == [i \in DOMAIN Path |-> [cand    |-> st[Path[i]].cand,
                                         refuted |-> st[Path[i]].contradictions # {}]]
  <1>1. Init /\ Inv /\ RouteInv => Scopes!Init
    BY ScopesInit
  <1>2. Inv /\ Inv' /\ RouteInv /\ RouteInv' /\ [Next]_vars => [Scopes!Next]_S
    BY ScopesStep DEF Stack, Scope
  <1> QED
    BY <1>1, <1>2, RoutesExist, InvariantHolds, PTL DEF Spec, ImplementsScopes, Scopes!Spec
=============================================================================
