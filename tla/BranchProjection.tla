-------------------------- MODULE BranchProjection --------------------------
(***************************************************************************)
(* The retained-branch projection of one reasoning trace: a state and a    *)
(* lifecycle record for every branch ever opened, one active branch, and   *)
(* reduce_branch_projection as the next-state relation.  An event the      *)
(* reducer refuses raises and leaves the (immutable) projection as it was, *)
(* so a refusal is a step that is not taken.                               *)
(*                                                                         *)
(* A state hash covers the branch identifier and the sequence number, and  *)
(* a branch has one state per sequence number, so within a trace the pair  *)
(* <<branch, sequence_no>> stands for the digest.  Sequence numbers count  *)
(* from the genesis state.                                                 *)
(***************************************************************************)
EXTENDS ReasoningState

CONSTANTS
  BranchIds, Root, NoParent,
  Puzzles,            \* the puzzles whose traces are considered
  MaxSequence         \* bound: the last sequence number of a trace

ASSUME BranchAssumption == Root \in BranchIds /\ NoParent \notin BranchIds
ASSUME PuzzlesAssumption == Puzzles \subseteq PuzzleSpec
ASSUME MaxSequenceAssumption == MaxSequence \in Nat

VARIABLES
  sequence_no,        \* last event folded into the projection
  active,             \* active_branch_id
  rec,                \* branch records, by branch
  st,                 \* retained states, by branch
  searched            \* history: candidates of a branch that search removed

vars == <<sequence_no, active, rec, st, searched>>

Methods == {"assumption", "search", "demonstration"}
Origins == {"search", "human_rule"}   \* the other origins are treated alike

BranchRecord ==
  [parent             : BranchIds \cup {NoParent},
   opened_from        : (BranchIds \X Nat),
   method             : Methods \cup {"root"},
   status             : {"open", "contradicted", "solved", "abandoned"},
   opened_sequence_no : Nat,
   closed_sequence_no : Nat]          \* 0 stands for None

known == DOMAIN rec
StateHash(b) == <<b, st[b].sequence_no>>
Closed(b) == rec[b].closed_sequence_no # 0

(* Every retained branch has one record and one state (BranchProjection validates *)
(* this on construction), and the active branch is retained.                      *)
TypeOK ==
  /\ sequence_no \in Nat
  /\ known \subseteq BranchIds
  /\ active \in known
  /\ rec \in [known -> BranchRecord]
  /\ st \in [known -> PuzzleState]
  /\ searched \in [known -> SUBSET Cells]

----------------------------------------------------------------------------
(* create_branch_projection *)
Init ==
  \E p \in Puzzles :
    /\ InitialStateExists(p)
    /\ sequence_no = 0
    /\ active = Root
    /\ st = [b \in {Root} |-> create_initial_state(p)]
    /\ rec = [b \in {Root} |->
                [parent |-> NoParent, opened_from |-> <<Root, 0>>,
                 method |-> "root", status |-> "open",
                 opened_sequence_no |-> 0, closed_sequence_no |-> 0]]
    /\ searched = [b \in {Root} |-> {}]

(* The first check of every event: it must advance the projection.  The        *)
(* stream replay_projection folds is contiguous (verify_chain), so it advances *)
(* by one; the reducer refuses a repeated or an older event.                   *)
Advance(n) ==
  /\ n <= MaxSequence
  /\ n = sequence_no + 1
  /\ sequence_no' = n

(* Mutant: opens below a contradicted branch. *)
OpeningAllowed_AnyStatus(b, source) ==
  /\ b \notin known
  /\ source = StateHash(active)

(* A branch opens, under a fresh identifier, from the current state of the *)
(* active branch, which the event names as its parent.                     *)
OpeningAllowed(b, source) ==
  /\ b \notin known
  /\ rec[active].status = "open"
  /\ source = StateHash(active)

BranchOpened(n, b, source, assumption, method) ==
  /\ Advance(n)
  /\ OpeningAllowed(b, source)
  /\ AssumptionAllowed(st[active], assumption)
  /\ active' = b
  /\ rec' = [c \in known \cup {b} |->
               IF c = b THEN [parent |-> active, opened_from |-> StateHash(active),
                              method |-> method, status |-> "open",
                              opened_sequence_no |-> n, closed_sequence_no |-> 0]
               ELSE rec[c]]
  /\ st' = [c \in known \cup {b} |->
              IF c = b THEN derive_branch_state(st[active], assumption, n) ELSE st[c]]
  /\ searched' = [c \in known \cup {b} |->
                    IF c = b THEN searched[active] ELSE searched[c]]

ClosingAllowed(b, source) ==
  /\ b = active
  /\ rec[b].parent # NoParent
  /\ source = StateHash(b)

(* Abandoning is always allowed, even of a contradicted branch. *)
ClosureAllowed(b, status) ==
  /\ status = "contradicted" => rec[b].status = "contradicted"
  /\ status = "solved" => Solved(st[b])

BranchClosed(n, b, source, status) ==
  /\ Advance(n)
  /\ ClosingAllowed(b, source)
  /\ ClosureAllowed(b, status)
  /\ rec' = [rec EXCEPT ![b].status = status, ![b].closed_sequence_no = n]
  /\ active' = rec[b].parent
  /\ UNCHANGED <<st, searched>>

(* Mutant: any retained open branch may be narrowed. *)
MutationAllowed_AnyBranch(b, source) ==
  /\ b \in known
  /\ rec[b].status = "open"
  /\ source = StateHash(b)

(* A state mutation must target the active branch while it is open, and be *)
(* computed from exactly its current state.                                *)
MutationAllowed(b, source) ==
  /\ b = active
  /\ rec[b].status = "open"
  /\ source = StateHash(b)

(* Mutant: search mutations are accepted outside search branches. *)
validate_origin_OneWay(b, origin) == rec[b].method = "search" => origin = "search"

(* Search-branch mutations are disclosed as search, and only those. *)
validate_origin(b, origin) == rec[b].method = "search" <=> origin = "search"

NarrowTo(b, s, origin) ==
  /\ st' = [st EXCEPT ![b] = s]
  /\ searched' = IF origin = "search"
                 THEN [searched EXCEPT ![b] = @ \cup (s.excluded \ st[b].excluded)]
                 ELSE searched
  /\ UNCHANGED <<active, rec>>

CandidatesEliminated(n, b, source, x, vs, origin) ==
  /\ Advance(n)
  /\ MutationAllowed(b, source)
  /\ validate_origin(b, origin)
  /\ EliminationAllowed(st[b], x, vs)
  /\ NarrowTo(b, Eliminate(st[b], x, vs, n), origin)

ValueAssigned(n, b, source, x, v, origin) ==
  /\ Advance(n)
  /\ MutationAllowed(b, source)
  /\ validate_origin(b, origin)
  /\ AssignmentAllowed(st[b], x, v)
  /\ NarrowTo(b, Assign(st[b], x, v, n), origin)

ContradictionDetected(n, b, source, c) ==
  /\ Advance(n)
  /\ MutationAllowed(b, source)
  /\ ContradictionAllowed(st[b], c)
  /\ st' = [st EXCEPT ![b] = Contradict(st[b], c, n)]
  /\ rec' = [rec EXCEPT ![b].status = "contradicted"]
  /\ UNCHANGED <<active, searched>>

(* Every other event of a retained branch only moves the sequence number. *)
OtherEvent(n, b) ==
  /\ Advance(n)
  /\ b \in known
  /\ UNCHANGED <<active, rec, st, searched>>

(* The event's source hash names some retained state, its own branch's or, when *)
(* it was computed elsewhere, another's.                                        *)
Next ==
  \E n \in {sequence_no + 1}, b \in BranchIds, h \in {StateHash(c) : c \in known} :
    \/ \E a \in Atoms, m \in Methods : BranchOpened(n, b, h, a, m)
    \/ \E s \in {"contradicted", "solved", "abandoned"} : BranchClosed(n, b, h, s)
    \/ \E x \in Variables, vs \in SUBSET Values, o \in Origins :
         CandidatesEliminated(n, b, h, x, vs, o)
    \/ \E x \in Variables, v \in Values, o \in Origins : ValueAssigned(n, b, h, x, v, o)
    \/ \E c \in ContradictionIds : ContradictionDetected(n, b, h, c)
    \/ OtherEvent(n, b)

Spec == Init /\ [][Next]_vars

----------------------------------------------------------------------------
(* Properties. *)

(* Every retained state, of closed branches too, passes the checks of          *)
(* validate_state that a reduction can disturb: an assigned variable has its   *)
(* value as only candidate, no excluded value is a candidate, no domain is     *)
(* empty, and singletons are asserted.  (reduce_state repeats none of these    *)
(* checks; all-different is left to the verification layer.)                   *)
StatesConsistent == \A b \in known : ConsistentState(st[b])

(* The branches not yet closed form one path from the root to the active       *)
(* branch, and every branch above the active one is still open: work never     *)
(* goes on below a contradicted branch.                                        *)
OneOpenPath ==
  /\ ~Closed(Root)
  /\ ~Closed(active)
  /\ \A b \in known \ {Root} :
       /\ rec[b].parent \in known
       /\ rec[rec[b].parent].opened_sequence_no < rec[b].opened_sequence_no
       /\ ~Closed(b) => ~Closed(rec[b].parent) /\ rec[rec[b].parent].status = "open"
  /\ \A b \in known \ {Root} : ~Closed(b) => rec[b].parent # active
  /\ \A b \in known : ~Closed(b) /\ b # active =>
       \E c \in known \ {Root} : ~Closed(c) /\ rec[c].parent = b
  /\ \A b, c \in known \ {Root} :
       ~Closed(b) /\ ~Closed(c) /\ rec[b].parent = rec[c].parent => b = c

(* While a branch is not closed its parent still is in the very state the      *)
(* branch was opened from, so closing it resumes the parent unchanged.         *)
ParentFrozen ==
  \A b \in known \ {Root} : ~Closed(b) => rec[b].opened_from = StateHash(rec[b].parent)

(* A record's status never contradicts the state retained with it: an open     *)
(* branch has no contradiction, a contradicted one has, and a branch closed as *)
(* solved is solved.                                                           *)
LifecycleMatchesState ==
  \A b \in known :
    /\ rec[b].status = "open" => st[b].contradictions = {} /\ ~Closed(b)
    /\ rec[b].status = "contradicted" => st[b].contradictions # {}
    /\ rec[b].status = "solved" => Solved(st[b]) /\ Closed(b)
    /\ rec[b].status = "abandoned" => Closed(b)

(* Candidates removed by search are disclosed: the root carries none, and a    *)
(* branch that is not a search branch only carries those it inherited from the *)
(* branch it was opened in.                                                    *)
SearchConfined ==
  \A b \in known :
    /\ b = Root => searched[b] = {}
    /\ b # Root /\ rec[b].method # "search" => searched[b] \subseteq searched[rec[b].parent]

(* A closed branch is history: no later event changes its record or its state, *)
(* and no branch is ever dropped from the projection.                          *)
ClosedNeverChanges ==
  [][\A b \in known : /\ b \in known'
                      /\ Closed(b) => rec'[b] = rec[b] /\ st'[b] = st[b]]_vars

(* Within one branch candidates are only ever removed and facts only added.    *)
NarrowingOnly ==
  [][\A b \in known : /\ \A x \in Variables : st'[b].cand[x] \subseteq st[b].cand[x]
                      /\ st[b].assigned \subseteq st'[b].assigned
                      /\ st[b].excluded \subseteq st'[b].excluded]_vars

(* The unclosed branches, outermost first, seen as scopes of hypothetical      *)
(* reasoning.                                                                  *)
Path ==
  LET to[b \in known] ==
        IF rec[b].parent = NoParent THEN <<b>> ELSE Append(to[rec[b].parent], b)
  IN  to[active]

Scopes == INSTANCE ScopeStack WITH
  stack <- [i \in DOMAIN Path |-> [cand    |-> st[Path[i]].cand,
                                   refuted |-> st[Path[i]].contradictions # {}]]

(* Branches implement nested scopes: closing a branch resumes the enclosing    *)
(* scope exactly as it was, and only the innermost scope ever changes.         *)
ImplementsScopes == Scopes!Spec
=============================================================================
