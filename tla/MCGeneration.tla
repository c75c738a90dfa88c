---------------------------- MODULE MCGeneration ----------------------------
(* A request with a required and a forbidden technique; evidence that passes    *)
(* every gate, and all evidence that differs from it in at most two places.     *)
EXTENDS Generation, TLC

MCRequest ==
  [request_id |-> "q", generator_version |-> 1, seed |-> 1, recipe_id |-> "r",
   family_id |-> "grid", requested_difficulty |-> "easy",
   required |-> {"pair"}, forbidden |-> {"guess"}]

MCLineages == {[request_id |-> "q", generator_version |-> 1],
               [request_id |-> "q", generator_version |-> 2],
               [request_id |-> "other", generator_version |-> 1]}

MCPuzzles == {[family_id |-> "grid", source_kind |-> "generated"],
              [family_id |-> "equations", source_kind |-> "generated"],
              [family_id |-> "grid", source_kind |-> "curated"]}

Passing ==
  [uniqueness |-> "unique", human_solve_status |-> "verified", human_trace_hash |-> "t",
   fingerprints |-> "f", rated |-> TRUE, label |-> "easy", family_id |-> "grid",
   search_required |-> FALSE, trace_hash |-> "t", used_rules |-> {"pair"}, rating_ids |-> {"d"},
   compared |-> TRUE, novelty |-> "novel", novelty_ids |-> {"n"}]

Deviations ==
  [uniqueness |-> {"no_solution", "multiple", "unknown", "backend_disagreement", "model_invalid"},
   human_solve_status |-> {"stalled", "inconclusive"}, human_trace_hash |-> {None, "u"},
   fingerprints |-> {None}, rated |-> {FALSE}, label |-> {"unrated", "hard"},
   family_id |-> {"equations"}, search_required |-> {TRUE}, trace_hash |-> {"u"},
   used_rules |-> {{}, {"pair", "guess"}}, rating_ids |-> {{}},
   compared |-> {FALSE}, novelty |-> {"exact_duplicate", "isomorphic_duplicate", "near_duplicate", "inconclusive"},
   novelty_ids |-> {{}}]

Deviate(e, p) == [e EXCEPT ![p[1]] = p[2]]
Places == UNION {{<<k, x>> : x \in Deviations[k]} : k \in DOMAIN Deviations}

Verification(e) ==
  [uniqueness |-> e.uniqueness,
   human_solve_status |-> e.human_solve_status, human_trace_hash |-> e.human_trace_hash,
   fingerprints |-> e.fingerprints,
   difficulty |-> {d \in {[label |-> e.label, family_id |-> e.family_id,
                           search_required |-> e.search_required, trace_hash |-> e.trace_hash,
                           used_rules |-> e.used_rules, evidence_ids |-> e.rating_ids]} : e.rated},
   novelty |-> {n \in {[status |-> e.novelty, evidence_ids |-> e.novelty_ids]} : e.compared}]

MCVerifications ==
  {Verification(Passing)} \cup {Verification(Deviate(Deviate(Passing, p), q)) : p, q \in Places}
=============================================================================
