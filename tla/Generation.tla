----------------------------- MODULE Generation -----------------------------
(***************************************************************************)
(* The acceptance gate for generated puzzles: the lineage of a generation  *)
(* request grows event by event, and decide_generation_result turns one    *)
(* candidate's evidence into an accepted, rejected or quarantined result,  *)
(* which its own validators then accept or refuse.                         *)
(*                                                                         *)
(* Evidence records and puzzles are inputs.  Recorded events are sealed in *)
(* order, so their chain is intact; event types that no validator looks at *)
(* are one type, "progress".                                               *)
(***************************************************************************)
EXTENDS Integers, Sequences, SequencesExt, FiniteSets

CONSTANTS
  request,                \* the request decisions are made for
  Lineages,               \* empty lineages: the request and generator they name
  CandidateIds, Seeds, Recipes,
  Verifications,          \* the evidence a decision may be given
  Puzzles,                \* the identities a candidate's puzzle may carry
  MaxEvents               \* bound on the events of a lineage

VARIABLES
  lineage,
  decision                \* the latest decision, if any
vars == <<lineage, decision>>

None == "none"
Terminal == [accepted    |-> "candidate_accepted",
             rejected    |-> "candidate_rejected",
             quarantined |-> "candidate_quarantined"]

(* What GenerationRequest validates. *)
ASSUME RequestAssumption ==
  request.requested_difficulty # "unrated" /\ request.required \cap request.forbidden = {}

UniquenessStatus ==
  {"unique", "no_solution", "multiple", "unknown", "backend_disagreement", "model_invalid"}
HumanSolveStatus == {"verified", "stalled", "inconclusive"}
NoveltyStatus ==
  {"novel", "exact_duplicate", "isomorphic_duplicate", "near_duplicate", "inconclusive"}

ASSUME VerificationsAssumption ==
  \A v \in Verifications :
    /\ v.uniqueness \in UniquenessStatus /\ v.human_solve_status \in HumanSolveStatus
    /\ \A n \in v.novelty : n.status \in NoveltyStatus

Event(type, c) == [event_type |-> type, candidate_id |-> c]
KnownIds(l) == {c.candidate_id : c \in l.candidates}

(* A candidate is described with its assembly event and an earlier parent. *)
CandidateAssembled(c, parent, seed, recipe) ==
  /\ c \notin KnownIds(lineage)
  /\ parent \in KnownIds(lineage) \cup {None}
  /\ lineage' = [lineage EXCEPT
       !.events = Append(@, Event("candidate_assembled", c)),
       !.candidates = @ \cup {[candidate_id |-> c, parent_candidate_id |-> parent, seed |-> seed,
                               recipe_id |-> recipe, created_event |-> Len(lineage.events) + 1]}]

Recorded(type, c) == lineage' = [lineage EXCEPT !.events = Append(@, Event(type, c))]

validate_lineage(l) ==
  /\ l.events # <<>> /\ l.events[1] = Event("generation_requested", None)
  /\ \A c, d \in l.candidates : c.candidate_id = d.candidate_id => c = d
  /\ \A c \in l.candidates :
       /\ l.events[c.created_event] = Event("candidate_assembled", c.candidate_id)
       /\ c.parent_candidate_id \in KnownIds(l) \cup {None}
       /\ c.parent_candidate_id # c.candidate_id

----------------------------------------------------------------------------
(* The candidate was made for this request, as the request asks. *)
MadeAsRequested(c, l) ==
  /\ l.generator_version = request.generator_version
  /\ \E d \in l.candidates :
       /\ d.candidate_id = c /\ d.seed = request.seed
       /\ request.recipe_id # None => d.recipe_id = request.recipe_id

uniqueness_quarantine(v) ==
  CASE v.uniqueness = "backend_disagreement" -> {"backend_disagreement"}
    [] v.uniqueness = "unknown"              -> {"uniqueness_unproven"}
    [] OTHER                                 -> {}

uniqueness_rejection(v) ==
  CASE v.uniqueness = "no_solution"   -> {"zero_solutions"}
    [] v.uniqueness = "multiple"      -> {"multiple_solutions"}
    [] v.uniqueness = "model_invalid" -> {"model_invalid"}
    [] OTHER                          -> {}

Incomplete(v) ==
  v.human_trace_hash = None \/ v.difficulty = {} \/ v.fingerprints = None \/ v.novelty = {}

quarantine_reasons(v) ==
  uniqueness_quarantine(v)
  \cup {"human_solve_inconclusive" : x \in {v.human_solve_status} \cap {"inconclusive"}}
  \cup IF Incomplete(v) THEN {"evidence_incomplete"}
       ELSE {"novelty_inconclusive" : n \in {m \in v.novelty : m.status = "inconclusive"}}

difficulty_mismatch(d, v) ==
  \/ d.label # request.requested_difficulty \/ d.family_id # request.family_id
  \/ d.search_required \/ d.trace_hash # v.human_trace_hash

(* Mutant: forbidden techniques are not looked at. *)
technique_reasons_RequiredOnly(d) ==
  IF request.required \subseteq d.used_rules THEN {} ELSE {"required_technique_missing"}

technique_reasons(d) ==
  (IF request.required \subseteq d.used_rules THEN {} ELSE {"required_technique_missing"})
  \cup (IF request.forbidden \cap d.used_rules = {} THEN {} ELSE {"forbidden_technique_used"})

(* Optional evidence is a set of at most one record. *)
rejection_reasons(c, puzzle, l, v) ==
  (IF l.request_id = request.request_id /\ MadeAsRequested(c, l)
      /\ puzzle.family_id = request.family_id /\ puzzle.source_kind = "generated"
   THEN {} ELSE {"model_invalid"})
  \cup uniqueness_rejection(v)
  \cup {"human_solver_stalled" : x \in {v.human_solve_status} \cap {"stalled"}}
  \cup IF Incomplete(v) THEN {}
       ELSE {"difficulty_mismatch" : d \in {e \in v.difficulty : difficulty_mismatch(e, v)}}
            \cup (UNION {technique_reasons(d) : d \in v.difficulty})
            \cup {n.status : n \in {m \in v.novelty : m.status \notin {"novel", "inconclusive"}}}

decide_generation_result(c, puzzle, l, v) ==
  LET quarantined == quarantine_reasons(v)
      rejected    == rejection_reasons(c, puzzle, l, v)
      status      == IF quarantined # {} THEN "quarantined"
                     ELSE IF rejected # {} THEN "rejected" ELSE "accepted"
  IN  [request_id |-> request.request_id, candidate_id |-> c, status |-> status, lineage |-> l,
       puzzle |-> IF status = "accepted" THEN {puzzle} ELSE {}, verification |-> v,
       rejection_reasons |-> IF status = "rejected" THEN rejected ELSE {},
       quarantine |-> IF status = "quarantined" THEN quarantined ELSE {}]

(* The terminal event names the candidate and the status. *)
TerminalEventMatches(r) ==
  Last(r.lineage.events) = Event(Terminal[r.status], r.candidate_id)

Evidenced(v) ==
  /\ \A d \in v.difficulty : d.evidence_ids # {}
  /\ \A n \in v.novelty : n.evidence_ids # {}

HardGates(v) ==
  /\ v.uniqueness = "unique" /\ v.human_solve_status = "verified" /\ ~Incomplete(v)
  /\ \A d \in v.difficulty :
       d.label # "unrated" /\ ~d.search_required /\ d.trace_hash = v.human_trace_hash
  /\ \A n \in v.novelty : n.status = "novel"
  /\ Evidenced(v)

validate_terminal_shape(r) ==
  /\ r.request_id = r.lineage.request_id
  /\ r.candidate_id \in KnownIds(r.lineage)
  /\ IF r.status = "accepted"
     THEN /\ r.rejection_reasons = {} /\ r.quarantine = {} /\ HardGates(r.verification)
          /\ \E p \in r.puzzle : p.source_kind = "generated"
     ELSE r.puzzle = {}
  /\ r.status = "rejected" => r.rejection_reasons # {}
  /\ r.status = "quarantined" <=> r.quarantine # {}
  /\ TerminalEventMatches(r)

(* The document that pairs the request with its result. *)
validate_pair(r) ==
  /\ r.request_id = request.request_id
  /\ r.status = "accepted" =>
       /\ MadeAsRequested(r.candidate_id, r.lineage)
       /\ \A p \in r.puzzle : p.family_id = request.family_id
       /\ \A d \in r.verification.difficulty :
            /\ d.family_id = request.family_id /\ d.label = request.requested_difficulty
            /\ request.required \subseteq d.used_rules
            /\ request.forbidden \cap d.used_rules = {}

----------------------------------------------------------------------------
(* GenerationResult raises when it refuses its own shape. *)
Decide(c, puzzle, v) ==
  /\ decision = {}
  /\ validate_lineage(lineage)
  /\ LET r == decide_generation_result(c, puzzle, lineage, v)
     IN  decision' = {[result |-> r, raised |-> ~validate_terminal_shape(r)]}
  /\ UNCHANGED lineage

Record ==
  /\ Len(lineage.events) < MaxEvents
  /\ decision = {}
  /\ UNCHANGED decision
  /\ \/ \E c \in CandidateIds, p \in CandidateIds \cup {None}, s \in Seeds, r \in Recipes :
          CandidateAssembled(c, p, s, r)
     \/ \E c \in KnownIds(lineage) : \E t \in {Terminal[s] : s \in DOMAIN Terminal} \cup {"progress"} :
          Recorded(t, c)

Init ==
  /\ lineage \in {[request_id |-> l.request_id, generator_version |-> l.generator_version,
                   candidates |-> {}, events |-> <<Event("generation_requested", None)>>] :
                  l \in Lineages}
  /\ decision = {}

Next ==
  \/ Record
  \/ \E c \in CandidateIds, p \in Puzzles, v \in Verifications : Decide(c, p, v)

Spec == Init /\ [][Next]_vars

----------------------------------------------------------------------------
(* Properties. *)

Uncertain(v) ==
  \/ v.uniqueness \notin {"unique", "no_solution", "multiple", "model_invalid"}
  \/ v.human_solve_status \notin {"verified", "stalled"}
  \/ Incomplete(v)
  \/ \E n \in v.novelty : n.status = "inconclusive"

(* The gate and the two validators, written apart, agree.  Evidence that is      *)
(* uncertain anywhere is never accepted or rejected, whatever the rest says; a   *)
(* result that stands satisfies the request it is paired with; and a decision is *)
(* refused only when the lineage is another's, does not end with the decision,   *)
(* or an acceptance rests on evidence without ids.                               *)
GatesAgree ==
  \A d \in decision :
    LET r == d.result IN
    /\ r.status = "quarantined" <=> Uncertain(r.verification)
    /\ ~d.raised => validate_pair(r)
    /\ d.raised =>
         \/ r.lineage.request_id # request.request_id
         \/ r.candidate_id \notin KnownIds(r.lineage)
         \/ ~TerminalEventMatches(r)
         \/ r.status = "accepted" /\ ~Evidenced(r.verification)
=============================================================================
