------------------------- MODULE MemoryProjections --------------------------
(***************************************************************************)
(* The memory projections: attempt, learning, novelty and artifact views   *)
(* rebuilt from the sealed events of several streams.                      *)
(*                                                                         *)
(* The state is what writers have sealed; rebuild_memory_projections is a  *)
(* function of the events handed to it, in whatever order and condition    *)
(* they arrive.  An event's digest is what it was computed from, the id    *)
(* and the payload; tuples sorted by a unique key are sets or functions.   *)
(***************************************************************************)
EXTENDS Integers, Sequences, FiniteSets, Functions, SequencesExt

CONSTANTS
  StreamKind,             \* the kind of each stream: attempt, novelty or artifact
  AttemptOf, UserOf,      \* the attempt of each attempt stream, and its user
  Payloads(_),            \* what may be sealed on a stream after its first event
  Rules,
  MaxSealed               \* bound on the events of all streams

Streams == DOMAIN StreamKind
AttemptStreams == {s \in Streams : StreamKind[s] = "attempt"}

(* An attempt's stream id is the digest of its attempt id. *)
ASSUME AttemptStreamsAssumption ==
  /\ IsFiniteSet(Streams)
  /\ DOMAIN AttemptOf = AttemptStreams /\ DOMAIN UserOf = AttemptStreams
  /\ \A s, t \in AttemptStreams : AttemptOf[s] = AttemptOf[t] => s = t

(* The payloads an index is built from are of its stream's kind. *)
ASSUME PayloadsAssumption ==
  \A s \in Streams : \A p \in Payloads(s) :
    /\ StreamKind[s] = "novelty" => p.kind \in {"novelty_entry_recorded", "novelty_entry_removed"}
    /\ StreamKind[s] = "artifact" =>
         p.kind \in {"artifact_recorded", "artifact_superseded", "artifact_removed"}

VARIABLE streams

Genesis == "genesis"
Absent == "none"

ProjectionEvent(s, n, previous, payload) ==
  [event_id |-> <<s, n>>, stream_id |-> s, sequence_no |-> n,
   previous_event_hash |-> previous, payload |-> payload,
   event_hash |-> <<<<s, n>>, payload>>]

AttemptStarted(s) == [kind |-> "attempt_started", attempt_id |-> AttemptOf[s]]
First(s) == IF s \in AttemptStreams THEN {AttemptStarted(s)} ELSE Payloads(s)

(* The sum of the values of a function. *)
Total(f) == FoldFunction(+, 0, f)

(* The payload belongs to the kind of the stream and an attempt begins with its  *)
(* start; nothing else is asked of a writer.                                     *)
seal_projection_event(s, payload) ==
  /\ Total([t \in Streams |-> Len(streams[t])]) < MaxSealed
  /\ payload \in IF streams[s] = <<>> THEN First(s) ELSE Payloads(s)
  /\ LET previous == IF streams[s] = <<>> THEN Genesis ELSE Last(streams[s]).event_hash
     IN  streams' = [streams EXCEPT ![s] =
                       Append(@, ProjectionEvent(s, Len(@), previous, payload))]

NothingSealed == streams = [s \in Streams |-> <<>>]

Seal == \E s \in Streams : \E payload \in First(s) \cup Payloads(s) : seal_projection_event(s, payload)

MemorySpec == NothingSealed /\ [][Seal]_streams

----------------------------------------------------------------------------
(* Grouping and chains. *)

projection_event_chain_failures(events) ==
  {i \in DOMAIN events :
     \/ events[i].sequence_no # i - 1
     \/ \E j \in 1 .. i - 1 : events[j].event_id = events[i].event_id
     \/ events[i].previous_event_hash # IF i = 1 THEN Genesis ELSE events[i - 1].event_hash
     \/ events[i].event_hash # <<events[i].event_id, events[i].payload>>}

(* Duplicate ids are refused, so the events of a stream are a set. *)
Grouped(source, s) == {e \in ToSet(source) : e.stream_id = s}

(* Events in the order of their numbers: as many come before each as are lower. *)
Ordered(events) ==
  LET Below(e) == Cardinality({d \in events : d.sequence_no < e.sequence_no})
      UpTo(e)  == Cardinality({d \in events : d.sequence_no <= e.sequence_no})
  IN  [i \in 1 .. Cardinality(events) |-> CHOOSE e \in events : Below(e) < i /\ i <= UpTo(e)]

(* Mutant: the events of a stream are taken as they arrive. *)
validated_streams_AsDelivered(source) ==
  [s \in Streams |-> SelectSeq(source, LAMBDA e : e.stream_id = s)]

validated_streams(source) == [s \in Streams |-> Ordered(Grouped(source, s))]

DuplicateEvents(source) ==
  \E i, j \in DOMAIN source : i # j /\ source[i].event_id = source[j].event_id

----------------------------------------------------------------------------
(* Attempts and what a user learned. *)

AttemptEnds == {"attempt_completed", "attempt_abandoned"}
Evidence == {"move_accepted", "move_rejected", "hint_revealed", "step_explained"}
Interactions == Evidence \cup {"replay_viewed"}

attempt_refused(events) ==
  \E i \in 2 .. Len(events) :
    \/ events[i].payload.attempt_id # events[1].payload.attempt_id
    \/ events[i].payload.kind = "attempt_started"
    \/ \E j \in 2 .. i - 1 : events[j].payload.kind \in AttemptEnds

Counted(events, kind, rule) ==
  {i \in 2 .. Len(events) : events[i].payload.kind = kind /\ events[i].payload.rule_id = rule}

(* The ids of the events that count towards a rule, whatever their kind. *)
EvidenceIds(events, rule) ==
  {events[i].event_id : i \in UNION {Counted(events, kind, rule) : kind \in Evidence}}

AttemptRuleEvidence(events, rule) ==
  [counts |-> [kind \in Evidence |-> Cardinality(Counted(events, kind, rule))],
   evidence_event_ids |-> EvidenceIds(events, rule)]

rebuild_attempt_projection(events) ==
  LET last == Last(events).payload.kind IN
  [attempt_id |-> events[1].payload.attempt_id,
   user_id    |-> UserOf[events[1].stream_id],
   status     |-> IF last \in AttemptEnds THEN last ELSE "active",
   totals     |-> [kind \in Interactions |->
                     Cardinality({i \in 2 .. Len(events) : events[i].payload.kind = kind})],
   self_assessment |-> LET rated == {i \in 2 .. Len(events) :
                                       events[i].payload.kind = "self_assessment_recorded"}
                       IN  IF rated = {} THEN Absent ELSE events[Max(rated)].payload.rating,
   rule_evidence |->
     [r \in {q \in Rules : EvidenceIds(events, q) # {}} |-> AttemptRuleEvidence(events, r)],
   source_event_ids |-> [i \in DOMAIN events |-> events[i].event_id],
   source_head_hash |-> Last(events).event_hash]

(* Mutant: an attempt's counts replace those of the attempts before it. *)
LearningCounts_Latest(observed, rule, kind) ==
  LET with == {a \in observed : rule \in DOMAIN a.rule_evidence}
      last == CHOOSE a \in with : \A b \in with : a.attempt_id >= b.attempt_id
  IN  last.rule_evidence[rule].counts[kind]

LearningCounts(observed, rule, kind) ==
  Total([a \in {b \in observed : rule \in DOMAIN b.rule_evidence} |->
           a.rule_evidence[rule].counts[kind]])

LearningRuleEvidence(observed, rule) ==
  LET with == {a \in observed : rule \in DOMAIN a.rule_evidence} IN
  [attempts_observed  |-> Cardinality(with),
   counts             |-> [kind \in Evidence |-> LearningCounts(observed, rule, kind)],
   evidence_event_ids |-> UNION {a.rule_evidence[rule].evidence_event_ids : a \in with}]

Having(observed, status) == Cardinality({a \in observed : a.status = status})

LearningProjection(observed) ==
  [attempts_observed  |-> Cardinality(observed),
   completed_attempts |-> Having(observed, "attempt_completed"),
   abandoned_attempts |-> Having(observed, "attempt_abandoned"),
   active_attempts    |-> Having(observed, "active"),
   rule_evidence      |-> [r \in UNION {DOMAIN a.rule_evidence : a \in observed} |->
                             LearningRuleEvidence(observed, r)],
   source_head_hashes |-> {a.source_head_hash : a \in observed}]

rebuild_learning_projections(attempts) ==
  [u \in {a.user_id : a \in attempts} |-> LearningProjection({a \in attempts : a.user_id = u})]

----------------------------------------------------------------------------
(* The two indexes: one stream read in order, which may be refused on the way. *)

Empty == [refused |-> FALSE, entries |-> <<>>]
Refuse(index) == [index EXCEPT !.refused = TRUE]
Enter(index, id, entry) ==
  IF id \in DOMAIN index.entries THEN Refuse(index)
  ELSE [index EXCEPT !.entries =
          [x \in DOMAIN @ \cup {id} |-> IF x = id THEN entry ELSE @[x]]]
Drop(index, id) ==
  IF id \notin DOMAIN index.entries THEN Refuse(index)
  ELSE [index EXCEPT !.entries = [x \in DOMAIN @ \ {id} |-> @[x]]]

novelty_step(index, e) ==
  IF e.payload.kind = "novelty_entry_recorded"
  THEN Enter(index, e.payload.id, [fingerprint |-> e.payload.fingerprint,
                                   source_event_id |-> e.event_id])
  ELSE Drop(index, e.payload.id)

canonical_matches(index, hash) ==
  {id \in DOMAIN index.entries : index.entries[id].fingerprint = hash}

(* Mutant: the replacement need not be known. *)
Supersede_AnyReplacement(index, id, replacement) ==
  IF id \notin DOMAIN index.entries \/ id = replacement THEN Refuse(index)
  ELSE [index EXCEPT !.entries[id].superseded_by = replacement]

(* The newer replacement wins. *)
Supersede(index, id, replacement) ==
  IF {id, replacement} \subseteq DOMAIN index.entries /\ id # replacement
  THEN [index EXCEPT !.entries[id].superseded_by = replacement]
  ELSE Refuse(index)

artifact_step(index, e) ==
  CASE e.payload.kind = "artifact_recorded" ->
         Enter(index, e.payload.id, [source_event_id |-> e.event_id, superseded_by |-> Absent])
    [] e.payload.kind = "artifact_superseded" ->
         Supersede(index, e.payload.id, e.payload.replacement)
    [] e.payload.kind = "artifact_removed" -> Drop(index, e.payload.id)

index_step(kind, index, e) ==
  IF kind = "novelty" THEN novelty_step(index, e) ELSE artifact_step(index, e)

rebuild_index(kind, events) ==
  LET after[n \in 0 .. Len(events)] ==
        IF n = 0 THEN Empty ELSE index_step(kind, after[n - 1], events[n])
  IN  after[Len(events)]

----------------------------------------------------------------------------
OfKind(split, kind) == {s \in Streams : StreamKind[s] = kind /\ split[s] # <<>>}

single_stream(split, kind) ==
  LET of == OfKind(split, kind) IN IF of = {} THEN <<>> ELSE split[CHOOSE s \in of : TRUE]

Refused == [refused |-> TRUE]

Unusable(split) ==
  \/ \E s \in Streams : projection_event_chain_failures(split[s]) # {}
  \/ \E s \in OfKind(split, "attempt") : attempt_refused(split[s])
  \/ \E kind \in {"novelty", "artifact"} :
       \/ Cardinality(OfKind(split, kind)) > 1
       \/ rebuild_index(kind, single_stream(split, kind)).refused

Views(split, count) ==
  LET attempts == {rebuild_attempt_projection(split[s]) : s \in OfKind(split, "attempt")} IN
  [refused |-> FALSE, attempts |-> attempts, learning |-> rebuild_learning_projections(attempts),
   novelty |-> rebuild_index("novelty", single_stream(split, "novelty")),
   artifacts |-> rebuild_index("artifact", single_stream(split, "artifact")),
   source_event_count |-> count]

rebuild_memory_projections(source) ==
  LET split == validated_streams(source) IN
  IF DuplicateEvents(source) \/ Unusable(split) THEN Refused ELSE Views(split, Len(source))

(* A bundle is trusted only when a clean replay of the events gives it again. *)
validate_rebuild_equivalence(source, bundle) == rebuild_memory_projections(source) = bundle

----------------------------------------------------------------------------
(* Properties. *)

Sealed == UNION {ToSet(streams[s]) : s \in Streams}
InOrder == SetToSeq(Sealed)
Bundle == rebuild_memory_projections(InOrder)
Moved(source, i, j) == InsertAt(RemoveAt(source, i), j, source[i])
Misreports(e) == {[e EXCEPT !.payload = p] : p \in Payloads(e.stream_id) \ {e.payload}}

(* What reaches a rebuild is checked against the chains, not trusted: a delayed  *)
(* event changes nothing, a repeated or altered one is refused, and a lost one   *)
(* is refused unless it was the last of its stream.                              *)
DeliveryIsChecked ==
  LET source == InOrder
      bundle == rebuild_memory_projections(source)
  IN  \A i \in DOMAIN source :
        /\ \A j \in DOMAIN source \ {i} :
             /\ validate_rebuild_equivalence(Moved(source, i, j), bundle)
             /\ validate_rebuild_equivalence(InsertAt(source, j, source[i]), Refused)
        /\ \A f \in Misreports(source[i]) :
             validate_rebuild_equivalence(ReplaceAt(source, i, f), Refused)
        /\ source[i] # Last(streams[source[i].stream_id]) =>
             validate_rebuild_equivalence(RemoveAt(source, i), Refused)

(* An accepted bundle counts each evidence event of a user's attempts once, over *)
(* all of the user's streams, and every attempt under one status.  The totals of *)
(* an attempt, which count events of no rule too, never fall short of its rules'.*)
LearningCountsOnce ==
  LET bundle == Bundle
      Mine(u) == {s \in AttemptStreams : UserOf[s] = u /\ streams[s] # <<>>}
      Observed(u, kind, r) ==
        UNION {{e \in ToSet(streams[s]) : e.payload.kind = kind /\ e.payload.rule_id = r} :
               s \in Mine(u)}
  IN  ~bundle.refused =>
        /\ \A a \in bundle.attempts : \A kind \in Evidence :
             a.totals[kind] >= Total([r \in DOMAIN a.rule_evidence |->
                                        a.rule_evidence[r].counts[kind]])
        /\ \A u \in DOMAIN bundle.learning :
             LET l == bundle.learning[u] IN
             /\ l.attempts_observed = Cardinality(Mine(u))
             /\ l.attempts_observed =
                  l.completed_attempts + l.abandoned_attempts + l.active_attempts
             /\ \A r \in DOMAIN l.rule_evidence :
                  /\ \A kind \in Evidence :
                       l.rule_evidence[r].counts[kind] = Cardinality(Observed(u, kind, r))
                  /\ l.rule_evidence[r].evidence_event_ids =
                       {e.event_id : e \in UNION {Observed(u, kind, r) : kind \in Evidence}}

(* The last word of a stream on an id, reading its events alone. *)
Says(events, kind, id) == {i \in DOMAIN events : events[i].payload.kind = kind /\ events[i].payload.id = id}
Live(events, record, removal, id) ==
  {i \in Says(events, record, id) : \A j \in Says(events, removal, id) \cup Says(events, record, id) : j <= i}

(* An accepted index lists an id exactly when its record came after any removal; *)
(* an artifact is superseded as its stream last said since that record, by one   *)
(* that was listed then: the reference dangles only if that one was removed      *)
(* later.                                                                        *)
IndexesAreLastWord ==
  LET bundle == Bundle IN
  ~bundle.refused =>
    /\ \A s \in OfKind(streams, "novelty") :
         LET recorded == UNION {Live(streams[s], "novelty_entry_recorded", "novelty_entry_removed",
                                     e.payload.id) : e \in ToSet(streams[s])}
             stated   == {streams[s][i].payload : i \in recorded}
         IN  /\ DOMAIN bundle.novelty.entries = {p.id : p \in stated}
             /\ \A p \in stated : canonical_matches(bundle.novelty, p.fingerprint) =
                                   {q.id : q \in {r \in stated : r.fingerprint = p.fingerprint}}
    /\ \A s \in OfKind(streams, "artifact") :
         LET a      == bundle.artifacts.entries
             events == streams[s]
             Listed(id) == Live(events, "artifact_recorded", "artifact_removed", id)
         IN  /\ DOMAIN a = {id \in {e.payload.id : e \in ToSet(events)} : Listed(id) # {}}
             /\ \A id \in DOMAIN a :
                  LET since == {i \in Says(events, "artifact_superseded", id) :
                                  \A j \in Listed(id) : i > j}
                      by    == a[id].superseded_by
                  IN  IF since = {} THEN by = Absent
                      ELSE /\ by = events[Max(since)].payload.replacement /\ by # id
                           /\ \/ by \in DOMAIN a
                              \/ \E j \in Says(events, "artifact_removed", by) : j > Max(since)
=============================================================================
