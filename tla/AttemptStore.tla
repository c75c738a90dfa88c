---------------------------- MODULE AttemptStore ----------------------------
(***************************************************************************)
(* The durable record of one Logic Grid attempt, shared by several clients *)
(* with a connection each: SQLiteLogicGridAttemptStore and attempts.py.    *)
(*                                                                         *)
(* Three append-only logs (play events, move evaluations, hint results)    *)
(* and one stream row with the head of the play log and the whole derived  *)
(* record.  A write runs inside BEGIN IMMEDIATE and is one step here; that *)
(* the lock and rollback make it so is the subject of EventStore.  A read  *)
(* runs outside any transaction: four SELECTs, each on the tables as they  *)
(* are at that moment.                                                     *)
(*                                                                         *)
(* A session is the sequence of its events and stands for its session_hash *)
(* too; an event says whether it is the accepted completion check.         *)
(* Identical advice has identical content, which stands for its hash.      *)
(*                                                                         *)
(* Between two calls a client plays, asks for advice, waits or dies; what  *)
(* it brings to the next call may be out of date in any way.  So a call    *)
(* takes any session, or advice on any session, that play can produce.     *)
(***************************************************************************)
EXTENDS Naturals, Sequences, SequencesExt

CONSTANTS
  Clients,
  EventIds,     \* identifiers are strings of bounded length
  MaxTime,      \* bound on the observation times clients supply
  MaxAdvice     \* bound on the entries of the two advice logs together

ASSUME StoreAssumption == MaxTime \in Nat /\ MaxAdvice \in Nat
ASSUME EventIdsAssumption == IsFiniteSet(EventIds)

VARIABLES
  stream,             \* the row of logic_grid_attempt_streams
  observations, move_evaluations, hint_results,    \* the rows of the logs
  reading,            \* what each client's read has selected so far
  outcome,            \* what the call that ends with this step returns or raises
  acked               \* the sessions whose append returned

logs == <<observations, move_evaluations, hint_results>>
durable == <<stream, logs>>
vars == <<durable, reading, outcome, acked>>

Times == 0..MaxTime
Event == [event_id : EventIds, completes : BOOLEAN]

(* The sessions play produces: distinct identifiers, at most one completion. *)
Sessions ==
  {s \in UNION {[1..n -> Event] : n \in 0..Cardinality(EventIds)} :
     \A i, j \in DOMAIN s :
       s[i].event_id = s[j].event_id \/ (s[i].completes /\ s[j].completes) => i = j}

(* Advice is about one session, a move evaluation about one of its events too;  *)
(* `counts` says that it is decided or available.                               *)
Evaluation ==
  {a \in [source : Sessions, source_event_id : EventIds, counts : BOOLEAN] :
     \E e \in ToSet(a.source) : e.event_id = a.source_event_id}
Hint == [source : Sessions, counts : BOOLEAN]
Outcomes == {"none", "ok", "already_exists", "conflict", "integrity_error", "index_error"}

----------------------------------------------------------------------------
(* The record derived from the logs. *)

SessionOf(obs) == [i \in DOMAIN obs |-> obs[i].event]
TimesOf(log) == {entry.occurred_at : entry \in ToSet(log)}

(* Mutant: facts observed at the time of completion are kept. *)
EligibleFacts_AtCompletion(obs, log) ==
  {a \in ToSet(log) :
     /\ a.content.counts
     /\ \A o \in ToSet(obs) : o.event.completes => a.occurred_at <= o.occurred_at}

(* Decided evaluations and available hints observed before completion. *)
EligibleFacts(obs, log) ==
  {a \in ToSet(log) :
     /\ a.content.counts
     /\ \A o \in ToSet(obs) : o.event.completes => a.occurred_at < o.occurred_at}

(* Mutant: a repeated answer counts at the time it was last observed. *)
FirstOfEach_Latest(facts) ==
  {a \in facts : \A b \in facts : b.content = a.content => a.occurred_at >= b.occurred_at}

(* A repeated answer counts once, at the time it was first observed. *)
FirstOfEach(facts) ==
  {a \in facts : \A b \in facts : b.content = a.content => a.occurred_at <= b.occurred_at}

build_attempt_projection_events(obs, evals, hints) ==
  FirstOfEach(EligibleFacts(obs, evals)) \cup FirstOfEach(EligibleFacts(obs, hints))

build_persisted_attempt(started_at, obs, evals, hints) ==
  [started_at |-> started_at,
   updated_at |-> Max({started_at} \cup TimesOf(obs) \cup TimesOf(evals) \cup TimesOf(hints)),
   observations |-> obs, move_evaluations |-> evals, hint_results |-> hints,
   session |-> SessionOf(obs),
   projection |-> build_attempt_projection_events(obs, evals, hints)]

current == build_persisted_attempt(stream.started_at, observations, move_evaluations, hint_results)

StreamRow(record) ==
  [started_at |-> record.started_at, updated_at |-> record.updated_at,
   session_hash |-> record.session, record |-> record]

----------------------------------------------------------------------------
NoRow == [started_at |-> "none"]
NoRead == [step |-> "none"]
NoOutcome == [result |-> "none", record |-> NoRow]

(* The logs hold observations of the right kind, and the stored events are always a *)
(* session play can produce: no identifier twice, no second completion.             *)
TypeOK ==
  /\ stream # NoRow => stream.started_at \in Times /\ stream.updated_at \in Times
  /\ observations \in Seq([event : Event, occurred_at : Times])
  /\ move_evaluations \in Seq([content : Evaluation, occurred_at : Times])
  /\ hint_results \in Seq([content : Hint, occurred_at : Times])
  /\ SessionOf(observations) \in Sessions
  /\ \A c \in Clients : reading[c].step \in {"none", "stream", "events", "evaluations"}
  /\ outcome.result \in Outcomes
  /\ acked \subseteq Sessions

Init ==
  /\ stream = NoRow
  /\ observations = <<>> /\ move_evaluations = <<>> /\ hint_results = <<>>
  /\ reading = [c \in Clients |-> NoRead]
  /\ outcome = NoOutcome
  /\ acked = {}

Return(record) == outcome' = [result |-> "ok", record |-> record]

(* A check fails: whatever was begun is rolled back. *)
Raise(error) ==
  /\ outcome' = [result |-> error, record |-> NoRow]
  /\ UNCHANGED <<durable, acked>>

----------------------------------------------------------------------------
(* Writes *)

create(t) ==
  LET record == build_persisted_attempt(t, <<>>, <<>>, <<>>)
  IN  /\ IF stream # NoRow THEN Raise("already_exists")
         ELSE /\ stream' = StreamRow(record)
              /\ Return(record)
              /\ UNCHANGED <<logs, acked>>
      /\ UNCHANGED reading

(* Mutant: only the number of events is compared with the stored ones. *)
ContinuesHead_LengthOnly(session) == Len(session) = Len(observations) + 1

ContinuesHead(session) ==
  /\ Len(session) = Len(observations) + 1
  /\ Front(session) = SessionOf(observations)

InTime(t) == t >= stream.updated_at

(* Mutant: only the head of the row is refreshed when advice is recorded. *)
update_stream_HeadOnly(record) ==
  [stream EXCEPT !.session_hash = record.session, !.updated_at = record.updated_at]

update_stream(record) == StreamRow(record)

append(session, t) ==
  LET obs == Append(observations, [event |-> Last(session), occurred_at |-> t])
      record == build_persisted_attempt(stream.started_at, obs, move_evaluations, hint_results)
  IN  /\ IF stream = NoRow \/ ~ContinuesHead(session) \/ ~InTime(t) THEN Raise("conflict")
         ELSE /\ observations' = obs
              /\ stream' = update_stream(record)
              /\ acked' = acked \cup {session}
              /\ Return(record)
              /\ UNCHANGED <<move_evaluations, hint_results>>
      /\ UNCHANGED reading

AtHead(a) == a.source = SessionOf(observations)

Observed(a, t) == [content |-> a, occurred_at |-> t]

record_move_evaluation(a, t) ==
  LET evals == Append(move_evaluations, Observed(a, t))
      record == build_persisted_attempt(stream.started_at, observations, evals, hint_results)
  IN  /\ Len(move_evaluations) + Len(hint_results) < MaxAdvice
      /\ IF stream = NoRow \/ ~AtHead(a) \/ ~InTime(t) THEN Raise("conflict")
         ELSE /\ move_evaluations' = evals
              /\ stream' = update_stream(record)
              /\ Return(record)
              /\ UNCHANGED <<observations, hint_results, acked>>
      /\ UNCHANGED reading

(* _update_stream reads the last play event, also when there is none: the call  *)
(* then fails and is rolled back.                                               *)
record_hint_result(a, t) ==
  LET hints == Append(hint_results, Observed(a, t))
      record == build_persisted_attempt(stream.started_at, observations, move_evaluations, hints)
  IN  /\ Len(move_evaluations) + Len(hint_results) < MaxAdvice
      /\ IF stream = NoRow \/ ~AtHead(a) \/ ~InTime(t) THEN Raise("conflict")
         ELSE IF observations = <<>> THEN Raise("index_error")
         ELSE /\ hint_results' = hints
              /\ stream' = update_stream(record)
              /\ Return(record)
              /\ UNCHANGED <<observations, move_evaluations, acked>>
      /\ UNCHANGED reading

----------------------------------------------------------------------------
(* read: the stream row, then the rows of each log. *)

Selected(c, row) ==
  /\ reading' = [reading EXCEPT ![c] = row]
  /\ outcome' = NoOutcome
  /\ UNCHANGED <<durable, acked>>

(* `began` is history: the logs as they are when the read begins. *)
SelectStream(c) ==
  /\ reading[c] = NoRead
  /\ stream # NoRow
  /\ Selected(c, [step |-> "stream", began |-> logs, stream |-> stream])

SelectEvents(c) ==
  /\ reading[c].step = "stream"
  /\ Selected(c, [step |-> "events", began |-> reading[c].began, stream |-> reading[c].stream,
                  observations |-> observations])

SelectEvaluations(c) ==
  /\ reading[c].step = "events"
  /\ Selected(c, [step |-> "evaluations", began |-> reading[c].began, stream |-> reading[c].stream,
                  observations |-> reading[c].observations, move_evaluations |-> move_evaluations])

(* Mutant: the derived record stored beside the logs is not compared. *)
ReadVerified_LogsOnly(row, record) == row.started_at = record.started_at

ReadVerified(row, record) == row = StreamRow(record)

SelectHints(c) ==
  LET r == reading[c]
      record == build_persisted_attempt(r.stream.started_at, r.observations, r.move_evaluations,
                                        hint_results)
  IN  /\ r.step = "evaluations"
      /\ reading' = [reading EXCEPT ![c] = NoRead]
      /\ IF ReadVerified(r.stream, record)
         THEN Return(record) /\ UNCHANGED <<durable, acked>>
         ELSE Raise("integrity_error")

(* A client dies between two SELECTs. *)
AbandonRead(c) == reading[c] # NoRead /\ Selected(c, NoRead)

Next ==
  \/ \E t \in Times :
       \/ create(t)
       \/ \E session \in Sessions \ {<<>>} : append(session, t)
       \/ \E a \in Evaluation : record_move_evaluation(a, t)
       \/ \E a \in Hint : record_hint_result(a, t)
  \/ \E c \in Clients :
       \/ SelectStream(c)
       \/ SelectEvents(c)
       \/ SelectEvaluations(c)
       \/ SelectHints(c)
       \/ AbandonRead(c)

Spec == Init /\ [][Next]_vars

----------------------------------------------------------------------------
(* Properties *)

(* Between writes the logs hold a session that play can produce, and the stored *)
(* row is the one a clean rebuild of the three logs gives: a read that meets no *)
(* writer succeeds.                                                             *)
RecordAgreesWithLogs == TypeOK /\ (stream # NoRow => stream = StreamRow(current))

(* All clients extend one history: every session whose append returned is a     *)
(* prefix of the stored one for good.  Advice is stored only for the head it    *)
(* was given for: its session is a prefix too, observed no later than the       *)
(* advice, and whatever follows it no earlier.                                  *)
OneHistory ==
  /\ \A s \in acked : IsPrefix(s, SessionOf(observations))
  /\ \A a \in ToSet(move_evaluations) \cup ToSet(hint_results) :
       /\ IsPrefix(a.content.source, SessionOf(observations))
       /\ \A i \in DOMAIN observations :
            IF i <= Len(a.content.source) THEN observations[i].occurred_at <= a.occurred_at
                                          ELSE a.occurred_at <= observations[i].occurred_at

Facts == IF stream = NoRow THEN {} ELSE stream.record.projection

CompletionTimes == {o.occurred_at : o \in {p \in ToSet(observations) : p.event.completes}}

(* The facts handed to common memory: each answer once, none at or after the    *)
(* completion that ends the stream.                                             *)
FactsAreDistinctAndBeforeCompletion ==
  /\ \A a, b \in Facts : a.content = b.content => a = b
  /\ \A a \in Facts, t \in CompletionTimes : a.occurred_at < t

(* A fact once handed over is never taken back, unless completion is observed   *)
(* at the very same time.                                                       *)
FactsAreKept ==
  [][\A a \in Facts : a \in Facts' \/ a.occurred_at \in CompletionTimes' \ CompletionTimes]_vars

(* A read selects its four parts at four moments, with writers between them. It *)
(* refuses, or returns the three logs exactly as they were when it began.       *)
ReadsAreSnapshots ==
  [][\A c \in Clients : SelectHints(c) /\ outcome'.result = "ok" =>
       <<outcome'.record.observations, outcome'.record.move_evaluations,
         outcome'.record.hint_results>> = reading[c].began]_vars

(* docs: record_hint_result accepts a hint for the current durable head. *)
HintsAtHeadAreStored == outcome.result # "index_error"
=============================================================================
