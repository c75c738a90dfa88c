--------------------------- MODULE ReasoningState ---------------------------
(***************************************************************************)
(* The immutable puzzle state and the pure operations on it: building a    *)
(* genesis state from a puzzle, narrowing it by one reasoning event, and   *)
(* copying it into a child branch under an assumption.                     *)
(*                                                                         *)
(* A state's frozenset of asserted atoms is split by the kind of atom:     *)
(* `assigned` and `excluded` hold the (variable, value) cells of assignment*)
(* and exclusion atoms, `other` the relation, aggregate and truth atoms,   *)
(* which no operation here interprets.  The rejected atoms are always empty*)
(* (create_initial_state starts them empty and every operation copies      *)
(* them), and are left out.                                                *)
(***************************************************************************)
EXTENDS Naturals, Sequences

CONSTANTS
  Variables,          \* the puzzle's variable identifiers
  Values,             \* every value identifier of every domain
  Domain,             \* declared domain of each variable
  AllDifferent,       \* the variable sets of the all-different constraints
  OtherAtoms,         \* atoms that are neither assignments nor exclusions
  ContradictionIds

ASSUME DomainAssumption == Domain \in [Variables -> SUBSET Values]
ASSUME AllDifferentAssumption == AllDifferent \subseteq SUBSET Variables

Cells == Variables \X Values

PuzzleState ==
  [cand           : [Variables -> SUBSET Values],
   assigned       : SUBSET Cells,
   excluded       : SUBSET Cells,
   other          : SUBSET OtherAtoms,
   contradictions : SUBSET ContradictionIds,
   sequence_no    : Nat]

(* The assignment atoms that singleton candidate domains stand for. *)
Singletons(cand) == {c \in Cells : cand[c[1]] = {c[2]}}

(* Every operation ends by asserting the singletons and building the state. *)
build_state(cand, assigned, excluded, other, contradictions, n) ==
  [cand           |-> cand,
   assigned       |-> assigned \cup Singletons(cand),
   excluded       |-> excluded,
   other          |-> other,
   contradictions |-> contradictions,
   sequence_no    |-> n]

Solved(s) ==
  /\ s.contradictions = {}
  /\ \A x \in Variables : \E v \in Values : s.cand[x] = {v}

----------------------------------------------------------------------------
(* Atoms given by a puzzle or assumed by a branch. *)

CellAtoms == [kind : {"assignment", "exclusion"}, var : Variables, val : Values]
Assignment(x, v) == [kind |-> "assignment", var |-> x, val |-> v]
Exclusion(x, v) == [kind |-> "exclusion", var |-> x, val |-> v]
OpaqueAtoms == [kind : {"other"}, id : OtherAtoms]
Atoms == CellAtoms \cup OpaqueAtoms

CellsOf(atoms, kind) ==
  {c \in Cells : [kind |-> kind, var |-> c[1], val |-> c[2]] \in atoms}
OthersOf(atoms) == {a \in OtherAtoms : [kind |-> "other", id |-> a] \in atoms}

(* What the puzzle contributes to its genesis state: each variable's domain *)
(* cut down by the domain constraints, and the givens in declared order.    *)
PuzzleSpec == [allowed : [Variables -> SUBSET Values], givens : Seq(Atoms)]

Givens(p) == {p.givens[i] : i \in DOMAIN p.givens}

(* The candidates left once every given has been applied. *)
GivenCandidates(p) ==
  [x \in Variables |->
     {v \in p.allowed[x] :
        /\ \A c \in CellsOf(Givens(p), "assignment") : c[1] = x => c[2] = v
        /\ <<x, v>> \notin CellsOf(Givens(p), "exclusion")}]

(* Each given must name a value that is still a candidate when its turn comes, *)
(* so an exclusion may precede the assignment of the same variable but not     *)
(* follow it.                                                                  *)
GivenIsCandidate(p, i) ==
  LET g == p.givens[i]
      Same(j) == p.givens[j].kind # "other" /\ p.givens[j].var = g.var
  IN  g.kind # "other" =>
        /\ g.val \in p.allowed[g.var]
        /\ \A j \in 1 .. (i - 1) :
             Same(j) => (p.givens[j].kind = "assignment" <=> p.givens[j].val = g.val)

create_initial_state(p) ==
  build_state(GivenCandidates(p), CellsOf(Givens(p), "assignment"),
              CellsOf(Givens(p), "exclusion"), OthersOf(Givens(p)), {}, 0)

(* The assignment and exclusion atoms a state asserts. *)
Asserted(s) ==
  {Assignment(c[1], c[2]) : c \in s.assigned} \cup {Exclusion(c[1], c[2]) : c \in s.excluded}

----------------------------------------------------------------------------
(* validate_state: the checks a state must pass against its puzzle. *)

CandidatesInDomain(s) == \A x \in Variables : s.cand[x] \subseteq Domain[x]
AssignmentsAreCandidates(s) == \A c \in s.assigned : s.cand[c[1]] = {c[2]}
ExclusionsAreNotCandidates(s) == \A c \in s.excluded : c[2] \notin s.cand[c[1]]
AssignedValuesDiffer(s) ==
  \A g \in AllDifferent : \A c, d \in s.assigned :
    c[1] \in g /\ d[1] \in g /\ c[1] # d[1] => c[2] # d[2]

validate_state(s) ==
  /\ CandidatesInDomain(s)
  /\ AssignmentsAreCandidates(s)
  /\ ExclusionsAreNotCandidates(s)
  /\ AssignedValuesDiffer(s)

(* The checks of the PuzzleState constructor. *)
validate_structural_invariants(s) ==
  /\ (\E x \in Variables : s.cand[x] = {}) => s.contradictions # {}
  /\ Singletons(s.cand) \subseteq s.assigned

(* What every operation below preserves: all of these checks but all-different, *)
(* which no operation looks at, and no empty domain even beside a contradiction. *)
ConsistentState(s) ==
  /\ CandidatesInDomain(s)
  /\ AssignmentsAreCandidates(s)
  /\ ExclusionsAreNotCandidates(s)
  /\ Singletons(s.cand) \subseteq s.assigned
  /\ \A x \in Variables : s.cand[x] # {}

(* Puzzles for which create_initial_state returns a state rather than raising. *)
InitialStateExists(p) ==
  /\ \A i \in DOMAIN p.givens : GivenIsCandidate(p, i)
  /\ validate_structural_invariants(create_initial_state(p))
  /\ validate_state(create_initial_state(p))

----------------------------------------------------------------------------
(* reduce_state, one operator per payload, with the payload checks of each. *)

EliminationAllowed(s, x, vs) ==
  /\ vs # {}
  /\ vs \subseteq s.cand[x]
  /\ s.cand[x] \ vs # {}

Eliminate(s, x, vs, n) ==
  build_state([s.cand EXCEPT ![x] = @ \ vs], s.assigned,
              s.excluded \cup ({x} \X vs), s.other, s.contradictions, n)

(* Mutant: checks the declared domain instead of the current candidates. *)
AssignmentAllowed_Declared(s, x, v) == v \in Domain[x]

AssignmentAllowed(s, x, v) == v \in s.cand[x]

Assign(s, x, v, n) ==
  build_state([s.cand EXCEPT ![x] = {v}], s.assigned \cup {<<x, v>>},
              s.excluded \cup ({x} \X (s.cand[x] \ {v})), s.other,
              s.contradictions, n)

ContradictionAllowed(s, c) == c \notin s.contradictions

Contradict(s, c, n) ==
  build_state(s.cand, s.assigned, s.excluded, s.other,
              s.contradictions \cup {c}, n)

----------------------------------------------------------------------------
(* derive_branch_state: a child state under one assumed atom. *)

(* Mutant: an assumed assignment need not be a current candidate. *)
AssumptionAllowed_Declared(s, a) ==
  \/ a.kind = "other"
  \/ a.kind = "assignment" /\ a.val \in Domain[a.var]
  \/ a.kind = "exclusion" /\ a.val \in s.cand[a.var] /\ s.cand[a.var] # {a.val}

AssumptionAllowed(s, a) ==
  \/ a.kind = "other"
  \/ a.kind = "assignment" /\ a.val \in s.cand[a.var]
  \/ a.kind = "exclusion" /\ a.val \in s.cand[a.var] /\ s.cand[a.var] # {a.val}

AssumedCandidates(s, a) ==
  CASE a.kind = "assignment" -> [s.cand EXCEPT ![a.var] = {a.val}]
    [] a.kind = "exclusion"  -> [s.cand EXCEPT ![a.var] = @ \ {a.val}]
    [] a.kind = "other"      -> s.cand

derive_branch_state(s, a, n) ==
  build_state(AssumedCandidates(s, a),
              s.assigned \cup CellsOf({a}, "assignment"),
              s.excluded \cup CellsOf({a}, "exclusion"),
              s.other \cup OthersOf({a}), {}, n)
=============================================================================
