----------------------------- MODULE Assistance -----------------------------
(***************************************************************************)
(* The Logic Grid assistance service over a play session: evaluation of    *)
(* one retained move, and the next hint.                                   *)
(*                                                                         *)
(* The service keeps no state and never changes the session; `answer` is   *)
(* what a call returned for the current session; as nothing depends on     *)
(* earlier calls, one call per session state is enough.  Every question to *)
(* the verification authority is asked anew, so its outcome is chosen anew *)
(* from what the backends may certify.                                     *)
(***************************************************************************)
EXTENDS LogicGridRules, PlaySession

CONSTANT Levels             \* the hint levels that are asked for

VARIABLE answer

vars == <<session, answer>>

HintLevel == 0 .. 6

(* create_initial_state succeeds for the puzzle, and a solution satisfies every clue. *)
ASSUME StartAssumption ==
  /\ puzzle \in PuzzleSpec /\ InitialStateExists(puzzle)
  /\ Solutions \subseteq ClueModels
ASSUME LevelsAssumption == Levels \subseteq HintLevel

genesis == create_initial_state(puzzle)

----------------------------------------------------------------------------
(* Questions to the verification authority.  Each operator is the set of the  *)
(* outcomes a call may have.                                                  *)

MoveEvaluationStatus == {"supported", "contradicted", "inconclusive", "quarantined"}

proof_record(s, P, a) == {coordinator_verify(r) : r \in Certificates(s, P, a)}

is_cross_verified(decision) == decision = "verified" /\ Cardinality(Backends) > 1

opposite_atom(a) == IF a.kind = "assignment" THEN Exclusion(a.var, a.val) ELSE Assignment(a.var, a.val)

(* Mutant: a mark is supported as soon as its opposite was not proved. *)
classify_NotRefuted(claim, opposite) ==
  IF is_cross_verified(opposite) THEN "contradicted"
  ELSE IF "quarantined" \in {claim, opposite} THEN "quarantined"
  ELSE "supported"

(* Mutant: a claim and an opposite that are both refuted count as a contradiction. *)
classify_Rejected(claim, opposite) ==
  IF is_cross_verified(claim) THEN "supported"
  ELSE IF is_cross_verified(opposite) \/ claim = "rejected" THEN "contradicted"
  ELSE "inconclusive"

classify(claim, opposite) ==
  IF is_cross_verified(claim) /\ ~is_cross_verified(opposite) THEN "supported"
  ELSE IF is_cross_verified(opposite) /\ ~is_cross_verified(claim) THEN "contradicted"
  ELSE IF \/ "quarantined" \in {claim, opposite}
          \/ is_cross_verified(claim) /\ is_cross_verified(opposite)
       THEN "quarantined"
       ELSE "inconclusive"

(* Marks are judged against the puzzle itself, never against other marks. *)
(* The relation between an atom and its possible verdicts is the same all the time. *)
Verdicts ==
  UNION {{<<a, classify(p[1], p[2])>> :
            p \in proof_record(genesis, {}, a) \X proof_record(genesis, {}, opposite_atom(a))} :
         a \in CellAtoms}

classify_atom(a) == {s \in MoveEvaluationStatus : <<a, s>> \in Verdicts}

----------------------------------------------------------------------------
(* The reasoning state of the marks that were found supported. *)

current_atoms ==
  {Assignment(x, marks.assignments[x]) : x \in {y \in Variables : marks.assignments[y] # NoValue}}
  \cup {Exclusion(c[1], c[2]) : c \in marks.exclusions}

(* How the marks may be classified, one by one. *)
Outcomes(omit) ==
  LET judged == current_atoms \ (Givens(puzzle) \cup omit)
  IN  {o \in [judged -> MoveEvaluationStatus] : \A a \in judged : o[a] \in classify_atom(a)}

AtomsWith(o, s) == {a \in DOMAIN o : o[a] = s}

Supported(o) == AtomsWith(o, "supported")

MarkedCandidates(supported) ==
  [x \in Variables |->
     LET placed == {v \in Values : Assignment(x, v) \in supported}
     IN  {v \in (IF placed # {} THEN placed ELSE genesis.cand[x]) : Exclusion(x, v) \notin supported}]

state_from_supported_marks(supported) ==
  build_state(MarkedCandidates(supported),
              genesis.assigned \cup CellsOf(supported, "assignment"),
              genesis.excluded \cup CellsOf(supported, "exclusion"),
              genesis.other, {}, Cardinality(supported))

Impossible(s) == \E x \in Variables : s.cand[x] = {}

----------------------------------------------------------------------------
(* Answers.  The service raises for a call it does not serve ("refused") and,   *)
(* unless it is right about the marks, for an impossible state or a lookup that *)
(* finds no event ("failed").                                                   *)

NoAnswer == [kind |-> "none"]
Refused == [kind |-> "refused"]
Failed == [kind |-> "failed"]
NoTechnique == [rule |-> "none"]

Evaluation(a, s, technique) ==
  [kind |-> "evaluation", submitted |-> a, status |-> s, technique |-> technique]

HintResult(s) == [kind |-> "hint", status |-> s]

Correction(evaluation) ==
  [kind |-> "hint", status |-> "correction_required", blocking |-> evaluation]

(* Mutant: the suggested action marks the conclusion's opposite. *)
build_disclosure_Opposite(c, level) ==
  [focus |-> {}, rule |-> {}, premises |-> {}, conclusion |-> {},
   action |-> {[kind |-> IF c.claim.kind = "assignment" THEN "exclude" ELSE "assign",
                cell |-> <<c.claim.var, c.claim.val>>]}]

(* What a level reveals of the verified step. *)
build_disclosure(c, level) ==
  [focus      |-> IF level >= 1 THEN {c.claim.var} ELSE {},
   rule       |-> IF level >= 2 THEN {c.rule} ELSE {},
   premises   |-> IF level >= 3 THEN c.premises ELSE {},
   conclusion |-> IF level >= 5 THEN {c.claim} ELSE {},
   action     |-> IF level = 6
                  THEN {[kind |-> IF c.claim.kind = "assignment" THEN "assign" ELSE "exclude",
                         cell |-> <<c.claim.var, c.claim.val>>]}
                  ELSE {}]

Hint(c, level) ==
  [kind |-> "hint", status |-> "available", evidence |-> c, disclosure |-> build_disclosure(c, level)]

----------------------------------------------------------------------------
(* evaluate_move *)

technique_for_atom(s, a) ==
  {NoTechnique} \cup
  {c \in logic_grid_applications(s) :
     c.claim = a /\ \E d \in proof_record(s, c.premises, a) : is_cross_verified(d)}

authoritative_atom(a, s) == IF s = "supported" THEN a ELSE opposite_atom(a)

Evaluations(a) ==
  LET decided == classify_atom(a) \cap {"supported", "contradicted"} IN
  {Evaluation(a, s, NoTechnique) : s \in classify_atom(a) \ decided}
  \cup
  UNION {LET state == state_from_supported_marks(p[2]) IN
         IF Impossible(state) THEN {Failed}
         ELSE {Evaluation(a, p[1], t) : t \in technique_for_atom(state, authoritative_atom(a, p[1]))} :
         p \in decided \X {Supported(o) : o \in Outcomes({a})}}

(* Only an accepted assignment or exclusion has an atom. *)
HasAtom(n) == n \in DOMAIN moves /\ moves[n].action.kind \in {"assign", "exclude"}

event_atom(n) ==
  LET c == moves[n].action.cell
  IN  IF moves[n].action.kind = "assign" THEN Assignment(c[1], c[2]) ELSE Exclusion(c[1], c[2])

EvaluateMove(n) ==
  /\ answer = NoAnswer
  /\ IF (mode = "exam" /\ status # "completed") \/ ~HasAtom(n)
     THEN answer' = Refused
     ELSE answer' \in Evaluations(event_atom(n))
  /\ UNCHANGED session

----------------------------------------------------------------------------
(* request_hint *)

(* Mutant: the mark's event is looked up on the active path's last move only. *)
EventsOf_Last(a) == {n \in {head} : HasAtom(n) /\ event_atom(n) = a}

(* The latest of these events is evaluated again; all have the same atom. *)
EventsOf(a) == {n \in DOMAIN moves : HasAtom(n) /\ event_atom(n) = a}

Corrections(a) ==
  IF EventsOf(a) = {} THEN {Failed}
  ELSE {IF e = Failed THEN Failed ELSE Correction(e) : e \in Evaluations(a)}

(* The policy picks any application; its conclusion is verified before it is shown. *)
NextSteps(s, level) ==
  LET applications == logic_grid_applications(s) IN
  IF applications = {} THEN {HintResult("human_rules_exhausted")}
  ELSE UNION {{IF d = "quarantined" THEN HintResult("quarantined")
               ELSE IF ~is_cross_verified(d) THEN HintResult("inconclusive")
               ELSE Hint(c, level) : d \in proof_record(s, c.premises, c.claim)} :
              c \in applications}

(* What follows once no mark was found contradicted. *)
Progress(o, level) ==
  IF AtomsWith(o, "quarantined") # {} THEN {HintResult("quarantined")}
  ELSE IF AtomsWith(o, "inconclusive") # {} THEN {HintResult("inconclusive")}
  ELSE NextSteps(state_from_supported_marks(Supported(o)), level)

Refuted(o) == AtomsWith(o, "contradicted")

(* Marks are judged in the order of their serialization, which the identifiers  *)
(* decide: any contradicted mark may be the first.                              *)
Assist(level) ==
  LET outcomes == Outcomes({})
      settled == {o \in outcomes : ~Impossible(state_from_supported_marks(Supported(o)))} IN
  \/ settled # outcomes /\ answer' = Failed
  \/ \E a \in UNION {Refuted(o) : o \in settled} : answer' \in Corrections(a)
  \/ \E o \in {p \in settled : Refuted(p) = {}} : answer' \in Progress(o, level)

RequestHint(level) ==
  /\ answer = NoAnswer
  /\ IF status = "completed" THEN answer' = HintResult("already_complete")
     ELSE IF mode = "exam" THEN answer' = HintResult("unavailable_mode")
     ELSE Assist(level)
  /\ UNCHANGED session

----------------------------------------------------------------------------
Init == PlayInit /\ answer = NoAnswer

(* The caller is done with an answer before play goes on: answers are about the *)
(* session they were given for.                                                 *)
Dismiss == answer # NoAnswer /\ answer' = NoAnswer /\ UNCHANGED session

PlayOn == answer = NoAnswer /\ PlayNext /\ UNCHANGED answer

Next ==
  \/ PlayOn
  \/ Dismiss
  \/ \E n \in 1 .. count : EvaluateMove(n)
  \/ \E level \in Levels : RequestHint(level)

Spec == Init /\ [][Next]_vars

----------------------------------------------------------------------------
(* Properties *)

Certain(a) == \A f \in Models(genesis) : Holds(f, a)

Shown == answer.kind = "hint" /\ answer.status = "available"
CorrectionAsked == answer.kind = "hint" /\ answer.status = "correction_required"

VerdictIsTrue(e) ==
  /\ e.status = "supported" => Certain(e.submitted)
  /\ e.status = "contradicted" => Certain(opposite_atom(e.submitted))
  /\ e.technique # NoTechnique => \A p \in e.technique.premises : Certain(p)

(* Advice is a fact about the puzzle, whichever marks are wrong and whichever   *)
(* backend failed.  A supported atom holds in every solution, a contradicted    *)
(* one in none; a hint's conclusion and premises hold in every solution; a      *)
(* correction is asked for a mark that is on the grid and wrong.                *)
AdviceIsTrue ==
  /\ answer.kind = "evaluation" => VerdictIsTrue(answer)
  /\ Shown => \A a \in answer.evidence.premises \cup {answer.evidence.claim} : Certain(a)
  /\ CorrectionAsked =>
       /\ VerdictIsTrue(answer.blocking)
       /\ answer.blocking.submitted \in current_atoms
       /\ Certain(opposite_atom(answer.blocking.submitted))

(* A next step, or the news that there is none, comes only when every mark on   *)
(* the grid is right.                                                           *)
StepsNeedRightMarks ==
  answer.kind = "hint" /\ answer.status \in {"available", "human_rules_exhausted"} =>
    \A a \in current_atoms \ Givens(puzzle) : Certain(a)

(* The action a hint suggests is one that a session which takes moves accepts,  *)
(* in strict mode too, and it changes the grid.                                 *)
SuggestionsArePlayable ==
  Shown => \A a \in answer.disclosure.action :
             ~CellRefused(a) /\ apply_cell_action(marks, a) # marks

(* The service never builds an impossible state from supported marks, and it    *)
(* always finds the event of a mark, also after undo, redo and restores.        *)
NeverFails == answer # Failed
=============================================================================
