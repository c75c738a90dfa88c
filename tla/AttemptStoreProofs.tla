------------------------- MODULE AttemptStoreProofs -------------------------
(***************************************************************************)
(* The attempt store keeps one history for any number of clients, whatever *)
(* they bring to a call and however their reads interleave with writes.    *)
(*                                                                         *)
(* The inductive invariant adds to the properties that nothing is logged   *)
(* before the stream row exists, and that the row a reader has selected is *)
(* the one its snapshot of the logs gives.                                 *)
(***************************************************************************)
EXTENDS AttemptStore, SequenceTheorems, WellFoundedInduction, FiniteSetTheorems, TLAPS

(* A set of times has a latest one.  Its least upper bound is taken from it. *)
LEMMA LatestTime ==
  ASSUME NEW n \in Nat, NEW T \in SUBSET (0..n), T # {}
  PROVE  Max(T) \in T /\ \A x \in T : x <= Max(T)
  <1> DEFINE Bounds == {b \in 0..n : \A x \in T : x <= b}
  <1>1. Bounds \subseteq Nat /\ n \in Bounds
    OBVIOUS
  <1>2. PICK m \in Bounds : \A b \in Bounds : ~ (<<b, m>> \in OpToRel(<, Nat))
    BY <1>1, NatLessThanWellFounded, WFMin
  <1>3. \A b \in Bounds : ~ (b < m)
    BY <1>1, <1>2 DEF OpToRel
  <1>4. m \in T
    <2>1. SUFFICES ASSUME m \notin T PROVE FALSE
      OBVIOUS
    <2>2. m \in 0..n /\ \A x \in T : x <= m - 1
      BY <2>1
    <2>3. PICK x \in T : TRUE
      OBVIOUS
    <2>4. x \in 0..n /\ x <= m - 1
      BY <2>2, <2>3
    <2>5. m - 1 \in 0..n
      BY <2>2, <2>4
    <2>6. m - 1 \in Bounds
      BY <2>2, <2>5
    <2> QED
      BY <1>3, <2>2, <2>6
  <1>5. \E x \in T : \A y \in T : x >= y
    BY <1>4
  <1> QED
    BY <1>5 DEF Max

(* What a log contains after one more entry. *)
LEMMA ToSetAppend ==
  ASSUME NEW S, NEW s \in Seq(S), NEW e \in S
  PROVE  ToSet(Append(s, e)) = ToSet(s) \cup {e}
  <1>1. DOMAIN s = 1..Len(s) /\ DOMAIN Append(s, e) = 1..(Len(s) + 1) /\ Len(s) \in Nat
    OBVIOUS
  <1>2. /\ \A i \in 1..Len(s) : Append(s, e)[i] = s[i]
        /\ Append(s, e)[Len(s) + 1] = e
    OBVIOUS
  <1>3. \A i \in 1..(Len(s) + 1) : i \in 1..Len(s) \/ i = Len(s) + 1
    BY <1>1
  <1> QED
    BY <1>1, <1>2, <1>3 DEF ToSet

LEMMA ToSetEmpty == ToSet(<<>>) = {}
  BY DEF ToSet

LEMMA ToSetType ==
  ASSUME NEW S, NEW s \in Seq(S)
  PROVE  ToSet(s) \subseteq S
  BY DEF ToSet

(* A prefix agrees with the longer sequence position by position. *)
LEMMA PrefixPointwise ==
  ASSUME NEW S, NEW s \in Seq(S), NEW u \in Seq(S)
  PROVE  IsPrefix(s, u) <=> Len(s) <= Len(u) /\ \A i \in 1..Len(s) : s[i] = u[i]
  <1>1. Len(s) \in Nat /\ Len(u) \in Nat
    OBVIOUS
  <1>2. SubSeq(s, 1, Len(s)) = s
    BY SubSeqFull
  <1>3. ASSUME Len(s) <= Len(u)
        PROVE  /\ SubSeq(u, 1, Len(s)) \in Seq(S)
               /\ Len(SubSeq(u, 1, Len(s))) = Len(s)
               /\ \A i \in 1..Len(s) : SubSeq(u, 1, Len(s))[i] = u[i]
    BY <1>1, <1>3, SubSeqProperties
  <1>4. ASSUME Len(s) <= Len(u), \A i \in 1..Len(s) : s[i] = u[i]
        PROVE  s = SubSeq(u, 1, Len(s))
    BY <1>3, <1>4, SeqEqual
  <1> QED
    BY <1>2, <1>3, <1>4 DEF IsPrefix

----------------------------------------------------------------------------
(* Sessions and the stored play log. *)

Observation == [event : Event, occurred_at : Times]
Advice(Content) == [content : Content, occurred_at : Times]

LEMMA SessionIsSequence == ASSUME NEW s \in Sessions PROVE s \in Seq(Event)
  BY DEF Sessions

(* Nothing has been played when an attempt is created. *)
LEMMA EmptySession == SessionOf(<<>>) = <<>> /\ <<>> \in Sessions
  <1>1. Cardinality(EventIds) \in Nat
    BY EventIdsAssumption, FS_CardinalityType
  <1>2. 0 \in 0..Cardinality(EventIds) /\ <<>> \in [1..0 -> Event]
    BY <1>1
  <1>3. <<>> \in UNION {[1..n -> Event] : n \in 0..Cardinality(EventIds)}
    BY <1>2
  <1>4. DOMAIN <<>> = {}
    OBVIOUS
  <1> QED
    BY <1>3, <1>4 DEF SessionOf, Sessions

LEMMA SessionOfLog ==
  ASSUME NEW obs \in Seq(Observation)
  PROVE  /\ SessionOf(obs) \in Seq(Event)
         /\ Len(SessionOf(obs)) = Len(obs)
         /\ \A i \in 1..Len(obs) : SessionOf(obs)[i] = obs[i].event
  <1>1. Len(obs) \in Nat /\ DOMAIN obs = 1..Len(obs)
    OBVIOUS
  <1>2. \A i \in 1..Len(obs) : obs[i].event \in Event
    <2>1. \A i \in 1..Len(obs) : obs[i] \in Observation
      BY ElementOfSeq
    <2> QED
      BY <2>1 DEF Observation
  <1>3. SessionOf(obs) \in [1..Len(obs) -> Event]
    BY <1>1, <1>2 DEF SessionOf
  <1>4. SessionOf(obs) \in Seq(Event)
    BY <1>1, <1>3, SeqDef
  <1>5. DOMAIN SessionOf(obs) = 1..Len(obs)
    BY <1>3
  <1> QED
    BY <1>1, <1>4, <1>5, LenProperties DEF SessionOf

(* A session that continues the stored one by an event is the stored session *)
(* once the event is logged.                                                  *)
LEMMA ContinuedSession ==
  ASSUME NEW obs \in Seq(Observation), NEW session \in Sessions, NEW t \in Times,
         Len(session) = Len(obs) + 1, Front(session) = SessionOf(obs)
  PROVE  LET log == Append(obs, [event |-> Last(session), occurred_at |-> t])
         IN  /\ [event |-> Last(session), occurred_at |-> t] \in Observation
             /\ log \in Seq(Observation)
             /\ SessionOf(log) = session
  <1> DEFINE o   == [event |-> Last(session), occurred_at |-> t]
             log == Append(obs, o)
  <1>1. session \in Seq(Event) /\ Len(obs) \in Nat
    BY SessionIsSequence
  <1>2. o \in Observation
    BY <1>1 DEF Last, Observation
  <1>3. /\ log \in Seq(Observation)
        /\ Len(log) = Len(obs) + 1
        /\ \A i \in 1..Len(obs) : log[i] = obs[i]
        /\ log[Len(obs) + 1] = o
    BY <1>2, AppendProperties
  <1>4. /\ SessionOf(log) \in Seq(Event)
        /\ Len(SessionOf(log)) = Len(session)
        /\ \A i \in 1..Len(log) : SessionOf(log)[i] = log[i].event
    BY <1>3, SessionOfLog
  <1>5. \A i \in 1..Len(obs) : session[i] = obs[i].event
    <2>1. Len(Front(session)) = Len(obs) /\ \A i \in 1..Len(obs) : Front(session)[i] = session[i]
      BY <1>1, SubSeqProperties DEF Front
    <2> QED
      BY <2>1, SessionOfLog
  <1>6. \A i \in 1..Len(session) : session[i] = SessionOf(log)[i]
    <2>1. ASSUME NEW i \in 1..Len(session) PROVE session[i] = SessionOf(log)[i]
      <3>1. CASE i \in 1..Len(obs)
        BY <1>3, <1>4, <1>5, <3>1
      <3>2. CASE i = Len(session)
        BY <1>1, <1>3, <1>4, <3>2 DEF Last
      <3> QED
        BY <1>1, <3>1, <3>2
    <2> QED
      BY <2>1
  <1>7. session = SessionOf(log)
    BY <1>1, <1>4, <1>6, SeqEqual
  <1> QED
    BY <1>2, <1>3, <1>7

----------------------------------------------------------------------------
(* The row and the record in it. *)

LEMMA StreamRowIsThere == ASSUME NEW record PROVE StreamRow(record) # NoRow
  <1> DEFINE row == StreamRow(record)
  <1>1. "record" \in DOMAIN row
    BY DEF StreamRow
  <1>2. "record" \notin DOMAIN NoRow
    BY DEF NoRow
  <1> HIDE DEF row
  <1>3. row # NoRow
    BY <1>1, <1>2
  <1> QED
    BY <1>3 DEF row

(* The record's time is the latest of everything observed. *)
LEMMA RowOfLogs ==
  ASSUME NEW started \in Times, NEW obs \in Seq(Observation),
         NEW evals \in Seq(Advice(Evaluation)), NEW hints \in Seq(Advice(Hint))
  PROVE  LET row == StreamRow(build_persisted_attempt(started, obs, evals, hints))
         IN  /\ row # NoRow
             /\ row.started_at = started
             /\ row.updated_at \in Times
             /\ \A x \in {started} \cup TimesOf(obs) \cup TimesOf(evals) \cup TimesOf(hints) :
                  x <= row.updated_at
             /\ row.record.projection = build_attempt_projection_events(obs, evals, hints)
  <1> DEFINE T == {started} \cup TimesOf(obs) \cup TimesOf(evals) \cup TimesOf(hints)
             row == StreamRow(build_persisted_attempt(started, obs, evals, hints))
  <1>1. row.started_at = started /\ row.updated_at = Max(T)
    BY DEF StreamRow, build_persisted_attempt
  <1>2. row # NoRow
    BY StreamRowIsThere
  <1>3. T \subseteq 0..MaxTime
    <2>1. TimesOf(obs) \subseteq Times
      BY ToSetType DEF TimesOf, Observation
    <2>2. TimesOf(evals) \subseteq Times
      BY ToSetType DEF TimesOf, Advice
    <2>3. TimesOf(hints) \subseteq Times
      BY ToSetType DEF TimesOf, Advice
    <2> QED
      BY <2>1, <2>2, <2>3 DEF Times
  <1>4. Max(T) \in T /\ \A x \in T : x <= Max(T)
    <2> HIDE DEF T
    <2> QED
      BY <1>3, StoreAssumption, LatestTime DEF T
  <1>5. row.record.projection = build_attempt_projection_events(obs, evals, hints)
    BY DEF StreamRow, build_persisted_attempt
  <1> QED
    BY <1>1, <1>2, <1>3, <1>4, <1>5 DEF Times

(* What follows from the logs being the ones the stored row was built from. *)
LEMMA AllObservedBefore ==
  ASSUME RecordAgreesWithLogs, stream # NoRow, NEW t \in Times, InTime(t)
  PROVE  /\ \A o \in ToSet(observations) : o.occurred_at \in Times /\ o.occurred_at <= t
         /\ \A a \in ToSet(move_evaluations) \cup ToSet(hint_results) :
              a.occurred_at \in Times /\ a.occurred_at <= t
  <1>1. /\ stream = StreamRow(current)
        /\ stream.started_at \in Times /\ stream.updated_at \in Times
        /\ observations \in Seq(Observation)
        /\ move_evaluations \in Seq(Advice(Evaluation))
        /\ hint_results \in Seq(Advice(Hint))
    BY DEF RecordAgreesWithLogs, TypeOK, Observation, Advice
  <1>2. \A x \in TimesOf(observations) \cup TimesOf(move_evaluations) \cup TimesOf(hint_results) :
          x <= stream.updated_at
    BY <1>1, RowOfLogs DEF current
  <1>3. /\ ToSet(observations) \subseteq Observation
        /\ ToSet(move_evaluations) \subseteq Advice(Evaluation)
        /\ ToSet(hint_results) \subseteq Advice(Hint)
    BY <1>1, ToSetType
  <1>4. stream.updated_at \in Int /\ t \in Int /\ t >= stream.updated_at
    BY <1>1, StoreAssumption DEF InTime, Times
  <1>5. ASSUME NEW o, o.occurred_at \in Times, o.occurred_at <= stream.updated_at
        PROVE  o.occurred_at <= t
    BY <1>4, <1>5, StoreAssumption DEF Times
  <1> QED
    BY <1>2, <1>3, <1>5 DEF TimesOf, Observation, Advice

----------------------------------------------------------------------------
(* The inductive invariant. *)

NothingBeforeCreation ==
  stream = NoRow => observations = <<>> /\ move_evaluations = <<>> /\ hint_results = <<>>

(* What a reader has selected is the row of the logs as they were then. *)
ReadersHoldRows ==
  /\ DOMAIN reading = Clients
  /\ \A c \in Clients : reading[c].step # "none" =>
       LET row == reading[c].stream
           began == reading[c].began
       IN  /\ began = <<began[1], began[2], began[3]>>
           /\ row = StreamRow(build_persisted_attempt(row.started_at, began[1], began[2], began[3]))

AInv ==
  /\ RecordAgreesWithLogs
  /\ OneHistory
  /\ NothingBeforeCreation
  /\ ReadersHoldRows

LEMMA AInvInit == Init => AInv
  <1> SUFFICES ASSUME Init PROVE AInv
    OBVIOUS
  <1>1. TypeOK
    BY EmptySession DEF Init, TypeOK, NoRead, NoOutcome, Outcomes
  <1>2. OneHistory
    BY ToSetEmpty DEF Init, OneHistory
  <1>3. ReadersHoldRows
    BY DEF Init, ReadersHoldRows, NoRead
  <1> QED
    BY <1>1, <1>2, <1>3 DEF Init, AInv, RecordAgreesWithLogs, NothingBeforeCreation

(* A refused call, or a step that only a reader takes, leaves the store alone. *)
LEMMA StoreUnchanged ==
  ASSUME AInv, UNCHANGED <<durable, acked>>, ReadersHoldRows', outcome'.result \in Outcomes,
         \A c \in Clients : reading'[c].step \in {"none", "stream", "events", "evaluations"}
  PROVE  AInv'
  <1>1. /\ UNCHANGED <<stream, observations, move_evaluations, hint_results, acked>>
    BY DEF durable, logs
  <1>2. TypeOK'
    BY <1>1 DEF AInv, RecordAgreesWithLogs, TypeOK
  <1>3. RecordAgreesWithLogs' /\ OneHistory' /\ NothingBeforeCreation'
    BY <1>1, <1>2 DEF AInv, RecordAgreesWithLogs, OneHistory, NothingBeforeCreation, current
  <1> QED
    BY <1>3 DEF AInv

LEMMA RefusedCall ==
  ASSUME AInv, UNCHANGED reading, NEW e \in Outcomes, Raise(e)
  PROVE  AInv'
  <1>1. ReadersHoldRows' /\ \A c \in Clients : reading'[c].step \in {"none", "stream", "events", "evaluations"}
    BY DEF AInv, ReadersHoldRows, RecordAgreesWithLogs, TypeOK
  <1>2. UNCHANGED <<durable, acked>> /\ outcome'.result \in Outcomes
    BY DEF Raise
  <1> QED
    BY <1>1, <1>2, StoreUnchanged

(* A write that succeeds stores the row of the logs it leaves. *)
LEMMA StoredWrite ==
  ASSUME AInv, UNCHANGED reading, outcome'.result = "ok",
         NEW started \in Times, NEW obs \in Seq(Observation),
         NEW evals \in Seq(Advice(Evaluation)), NEW hints \in Seq(Advice(Hint)),
         SessionOf(obs) \in Sessions,
         observations' = obs, move_evaluations' = evals, hint_results' = hints,
         stream' = StreamRow(build_persisted_attempt(started, obs, evals, hints)),
         acked' \subseteq Sessions, OneHistory'
  PROVE  AInv'
  <1>1. stream' # NoRow /\ stream'.started_at = started /\ stream'.updated_at \in Times
    BY RowOfLogs
  <1>2. TypeOK'
    BY <1>1 DEF AInv, RecordAgreesWithLogs, TypeOK, Observation, Advice, Outcomes
  <1>3. stream' = StreamRow(current')
    BY <1>1 DEF current
  <1>4. ReadersHoldRows'
    BY DEF AInv, ReadersHoldRows
  <1>5. RecordAgreesWithLogs' /\ NothingBeforeCreation'
    BY <1>1, <1>2, <1>3 DEF RecordAgreesWithLogs, NothingBeforeCreation
  <1> QED
    BY <1>4, <1>5 DEF AInv

----------------------------------------------------------------------------
(* The writes keep the invariant. *)

LEMMA CreateKeeps ==
  ASSUME AInv, NEW t \in Times, create(t)
  PROVE  AInv'
  <1>1. CASE stream # NoRow
    BY <1>1, RefusedCall DEF create, Outcomes
  <1>2. CASE stream = NoRow
    <2>1. /\ observations = <<>> /\ move_evaluations = <<>> /\ hint_results = <<>>
          /\ UNCHANGED <<observations, move_evaluations, hint_results, acked, reading>>
          /\ stream' = StreamRow(build_persisted_attempt(t, <<>>, <<>>, <<>>))
          /\ outcome'.result = "ok"
      BY <1>2 DEF AInv, NothingBeforeCreation, create, Return, logs
    <2>2. /\ <<>> \in Seq(Observation) /\ <<>> \in Seq(Advice(Evaluation))
          /\ <<>> \in Seq(Advice(Hint))
      OBVIOUS
    <2>3. OneHistory' /\ acked' \subseteq Sessions
      BY <2>1 DEF AInv, OneHistory, RecordAgreesWithLogs, TypeOK
    <2> QED
      BY <2>1, <2>2, <2>3, EmptySession, StoredWrite
  <1> QED
    BY <1>1, <1>2

(* An accepted event ends every stored session, acknowledged or advised upon,  *)
(* and is observed last.                                                        *)
LEMMA AppendKeeps ==
  ASSUME AInv, NEW session \in Sessions, NEW t \in Times, append(session, t)
  PROVE  AInv'
  <1>1. CASE stream = NoRow \/ ~ContinuesHead(session) \/ ~InTime(t)
    BY <1>1, RefusedCall DEF append, Outcomes
  <1>2. CASE ~(stream = NoRow \/ ~ContinuesHead(session) \/ ~InTime(t))
    <2> DEFINE o   == [event |-> Last(session), occurred_at |-> t]
               obs == Append(observations, o)
    <2>1. /\ observations' = obs
          /\ stream' = StreamRow(build_persisted_attempt(stream.started_at, obs, move_evaluations,
                                                         hint_results))
          /\ acked' = acked \cup {session}
          /\ outcome'.result = "ok"
          /\ UNCHANGED <<move_evaluations, hint_results, reading>>
      BY <1>2 DEF append, update_stream, Return
    <2>2. /\ stream.started_at \in Times
          /\ observations \in Seq(Observation)
          /\ move_evaluations \in Seq(Advice(Evaluation))
          /\ hint_results \in Seq(Advice(Hint))
          /\ SessionOf(observations) \in Sessions
          /\ acked \subseteq Sessions
      BY <1>2 DEF AInv, RecordAgreesWithLogs, TypeOK, Observation, Advice
    <2>3. o \in Observation /\ obs \in Seq(Observation) /\ SessionOf(obs) = session
      BY <1>2, <2>2, ContinuedSession DEF ContinuesHead
    <2>4. /\ Len(obs) = Len(observations) + 1 /\ Len(observations) \in Nat
          /\ \A i \in 1..Len(observations) : obs[i] = observations[i]
          /\ obs[Len(observations) + 1].occurred_at = t
          /\ DOMAIN obs = 1..(Len(observations) + 1)
          /\ DOMAIN observations = 1..Len(observations)
      BY <2>2, <2>3, AppendProperties, LenProperties
    <2> HIDE DEF obs, o
    <2>5. ASSUME NEW s \in Sessions, IsPrefix(s, SessionOf(observations))
          PROVE  IsPrefix(s, SessionOf(obs)) /\ Len(s) \in Nat /\ Len(s) <= Len(observations)
      <3>1. s \in Seq(Event) /\ SessionOf(observations) \in Seq(Event) /\ SessionOf(obs) \in Seq(Event)
        BY <2>2, <2>3, SessionIsSequence
      <3>2. /\ Len(s) <= Len(observations)
            /\ \A i \in 1..Len(s) : s[i] = observations[i].event
        BY <2>2, <2>5, <3>1, PrefixPointwise, SessionOfLog
      <3>3. \A i \in 1..Len(s) : s[i] = obs[i].event
        BY <2>4, <3>1, <3>2
      <3>4. /\ Len(s) <= Len(SessionOf(obs))
            /\ \A i \in 1..Len(s) : s[i] = SessionOf(obs)[i]
        BY <2>3, <2>4, <3>1, <3>2, <3>3, SessionOfLog
      <3> QED
        BY <3>1, <3>2, <3>4, PrefixPointwise
    <2>6. IsPrefix(session, session)
      BY SessionIsSequence, PrefixPointwise
    <2>7. \A s \in acked' : IsPrefix(s, SessionOf(obs))
      BY <2>1, <2>2, <2>3, <2>5, <2>6 DEF AInv, OneHistory
    <2>8. ASSUME NEW a \in ToSet(move_evaluations) \cup ToSet(hint_results)
          PROVE  /\ IsPrefix(a.content.source, SessionOf(obs))
                 /\ \A i \in DOMAIN obs :
                      IF i <= Len(a.content.source) THEN obs[i].occurred_at <= a.occurred_at
                                                    ELSE a.occurred_at <= obs[i].occurred_at
      <3>1. a.content.source \in Sessions
        <4>1. a \in Advice(Evaluation) \cup Advice(Hint)
          BY <2>2, ToSetType
        <4> QED
          BY <4>1 DEF Advice, Evaluation, Hint
      <3>2. /\ IsPrefix(a.content.source, SessionOf(observations))
            /\ \A i \in DOMAIN observations :
                 IF i <= Len(a.content.source) THEN observations[i].occurred_at <= a.occurred_at
                                               ELSE a.occurred_at <= observations[i].occurred_at
        BY <2>8 DEF AInv, OneHistory
      <3>3. a.occurred_at <= t
        BY <1>2, <2>8, AllObservedBefore DEF AInv
      <3>4. /\ IsPrefix(a.content.source, SessionOf(obs))
            /\ Len(a.content.source) \in Nat /\ Len(a.content.source) <= Len(observations)
        BY <2>5, <3>1, <3>2
      <3>5. \A i \in DOMAIN obs : i \in DOMAIN observations \/ i = Len(observations) + 1
        BY <2>4
      <3> QED
        BY <2>4, <3>2, <3>3, <3>4, <3>5
    <2>9. OneHistory'
      BY <2>1, <2>7, <2>8 DEF OneHistory
    <2> QED
      BY <2>1, <2>2, <2>3, <2>9, StoredWrite
  <1> QED
    BY <1>1, <1>2

(* Advice on the stored session, observed in time, fits the history. *)
LEMMA AdviceFits ==
  ASSUME AInv, stream # NoRow, NEW t \in Times, InTime(t), NEW a, AtHead(a)
  PROVE  /\ IsPrefix(a.source, SessionOf(observations))
         /\ \A i \in DOMAIN observations :
              IF i <= Len(a.source) THEN observations[i].occurred_at <= t
                                    ELSE t <= observations[i].occurred_at
  <1>1. observations \in Seq(Observation)
    BY DEF AInv, RecordAgreesWithLogs, TypeOK, Observation
  <1>2. SessionOf(observations) \in Seq(Event) /\ Len(SessionOf(observations)) = Len(observations)
    BY <1>1, SessionOfLog
  <1>3. IsPrefix(a.source, SessionOf(observations))
    BY <1>2, PrefixPointwise DEF AtHead
  <1>4. ASSUME NEW i \in DOMAIN observations
        PROVE  i <= Len(a.source) /\ observations[i].occurred_at <= t
    <2>1. observations[i] \in ToSet(observations)
      BY DEF ToSet
    <2> QED
      BY <1>1, <1>2, <2>1, AllObservedBefore DEF AInv, AtHead
  <1> QED
    BY <1>3, <1>4

LEMMA MoveEvaluationKeeps ==
  ASSUME AInv, NEW a \in Evaluation, NEW t \in Times, record_move_evaluation(a, t)
  PROVE  AInv'
  <1>1. CASE stream = NoRow \/ ~AtHead(a) \/ ~InTime(t)
    BY <1>1, RefusedCall DEF record_move_evaluation, Outcomes
  <1>2. CASE ~(stream = NoRow \/ ~AtHead(a) \/ ~InTime(t))
    <2> DEFINE evals == Append(move_evaluations, Observed(a, t))
    <2>1. /\ move_evaluations' = evals
          /\ stream' = StreamRow(build_persisted_attempt(stream.started_at, observations, evals,
                                                         hint_results))
          /\ outcome'.result = "ok"
          /\ UNCHANGED <<observations, hint_results, acked, reading>>
      BY <1>2 DEF record_move_evaluation, update_stream, Return
    <2>2. /\ stream.started_at \in Times
          /\ observations \in Seq(Observation)
          /\ move_evaluations \in Seq(Advice(Evaluation))
          /\ hint_results \in Seq(Advice(Hint))
          /\ SessionOf(observations) \in Sessions
          /\ acked \subseteq Sessions
      BY <1>2 DEF AInv, RecordAgreesWithLogs, TypeOK, Observation, Advice
    <2>3. Observed(a, t) \in Advice(Evaluation)
      BY DEF Observed, Advice
    <2>4. /\ evals \in Seq(Advice(Evaluation))
          /\ ToSet(evals) = ToSet(move_evaluations) \cup {Observed(a, t)}
      BY <2>2, <2>3, AppendProperties, ToSetAppend
    <2> HIDE DEF evals
    <2>5. OneHistory'
      BY <1>2, <2>1, <2>4, AdviceFits DEF AInv, OneHistory, Observed
    <2> QED
      BY <2>1, <2>2, <2>4, <2>5, StoredWrite
  <1> QED
    BY <1>1, <1>2

LEMMA HintResultKeeps ==
  ASSUME AInv, NEW a \in Hint, NEW t \in Times, record_hint_result(a, t)
  PROVE  AInv'
  <1>1. CASE stream = NoRow \/ ~AtHead(a) \/ ~InTime(t)
    BY <1>1, RefusedCall DEF record_hint_result, Outcomes
  <1>2. CASE ~(stream = NoRow \/ ~AtHead(a) \/ ~InTime(t)) /\ observations = <<>>
    BY <1>2, RefusedCall DEF record_hint_result, Outcomes
  <1>3. CASE ~(stream = NoRow \/ ~AtHead(a) \/ ~InTime(t)) /\ observations # <<>>
    <2> DEFINE hints == Append(hint_results, Observed(a, t))
    <2>1. /\ hint_results' = hints
          /\ stream' = StreamRow(build_persisted_attempt(stream.started_at, observations,
                                                         move_evaluations, hints))
          /\ outcome'.result = "ok"
          /\ UNCHANGED <<observations, move_evaluations, acked, reading>>
      BY <1>3 DEF record_hint_result, update_stream, Return
    <2>2. /\ stream.started_at \in Times
          /\ observations \in Seq(Observation)
          /\ move_evaluations \in Seq(Advice(Evaluation))
          /\ hint_results \in Seq(Advice(Hint))
          /\ SessionOf(observations) \in Sessions
          /\ acked \subseteq Sessions
      BY <1>3 DEF AInv, RecordAgreesWithLogs, TypeOK, Observation, Advice
    <2>3. Observed(a, t) \in Advice(Hint)
      BY DEF Observed, Advice
    <2>4. /\ hints \in Seq(Advice(Hint))
          /\ ToSet(hints) = ToSet(hint_results) \cup {Observed(a, t)}
      BY <2>2, <2>3, AppendProperties, ToSetAppend
    <2> HIDE DEF hints
    <2>5. OneHistory'
      BY <1>3, <2>1, <2>4, AdviceFits DEF AInv, OneHistory, Observed
    <2> QED
      BY <2>1, <2>2, <2>4, <2>5, StoredWrite
  <1> QED
    BY <1>1, <1>2, <1>3

----------------------------------------------------------------------------
(* Reads change nothing that is stored, and what they hold stays a row. *)

LEMMA SelectedKeeps ==
  ASSUME AInv, NEW c \in Clients, NEW row, Selected(c, row),
         row.step \in {"none", "stream", "events", "evaluations"},
         row.step # "none" =>
           /\ row.began = <<row.began[1], row.began[2], row.began[3]>>
           /\ row.stream = StreamRow(build_persisted_attempt(row.stream.started_at, row.began[1],
                                                             row.began[2], row.began[3]))
  PROVE  AInv'
  <1>1. /\ reading' = [reading EXCEPT ![c] = row]
        /\ UNCHANGED <<durable, acked>>
        /\ outcome'.result \in Outcomes
    BY DEF Selected, NoOutcome, Outcomes
  <1>2. /\ DOMAIN reading = Clients
        /\ \A d \in Clients : reading[d].step \in {"none", "stream", "events", "evaluations"}
    BY DEF AInv, ReadersHoldRows, RecordAgreesWithLogs, TypeOK
  <1>3. \A d \in Clients : reading'[d] = IF d = c THEN row ELSE reading[d]
    BY <1>1, <1>2
  <1>4. DOMAIN reading' = Clients
    BY <1>1, <1>2
  <1>5. ReadersHoldRows' /\ \A d \in Clients : reading'[d].step \in {"none", "stream", "events", "evaluations"}
    BY <1>2, <1>3, <1>4 DEF AInv, ReadersHoldRows
  <1> QED
    BY <1>1, <1>5, StoreUnchanged

LEMMA ReadKeeps ==
  ASSUME AInv, NEW c \in Clients,
         SelectStream(c) \/ SelectEvents(c) \/ SelectEvaluations(c) \/ SelectHints(c) \/ AbandonRead(c)
  PROVE  AInv'
  <1>1. CASE SelectStream(c)
    <2> DEFINE row == [step |-> "stream", began |-> logs, stream |-> stream]
    <2>1. stream = StreamRow(current)
      BY <1>1 DEF SelectStream, AInv, RecordAgreesWithLogs
    <2>2. /\ row.began = <<row.began[1], row.began[2], row.began[3]>>
          /\ row.stream = StreamRow(build_persisted_attempt(row.stream.started_at, row.began[1],
                                                            row.began[2], row.began[3]))
      BY <2>1 DEF current, logs
    <2>3. row.step = "stream" /\ Selected(c, row)
      BY <1>1 DEF SelectStream
    <2> HIDE DEF row
    <2> QED
      BY <2>2, <2>3, SelectedKeeps
  <1>2. CASE SelectEvents(c)
    <2> DEFINE row == [step |-> "events", began |-> reading[c].began, stream |-> reading[c].stream,
                       observations |-> observations]
    <2>1. /\ row.step = "events" /\ row.began = reading[c].began /\ row.stream = reading[c].stream
          /\ Selected(c, row) /\ reading[c].step # "none"
      BY <1>2 DEF SelectEvents
    <2> HIDE DEF row
    <2> QED
      BY <2>1, SelectedKeeps DEF AInv, ReadersHoldRows
  <1>3. CASE SelectEvaluations(c)
    <2> DEFINE row == [step |-> "evaluations", began |-> reading[c].began,
                       stream |-> reading[c].stream, observations |-> reading[c].observations,
                       move_evaluations |-> move_evaluations]
    <2>1. /\ row.step = "evaluations" /\ row.began = reading[c].began
          /\ row.stream = reading[c].stream
          /\ Selected(c, row) /\ reading[c].step # "none"
      BY <1>3 DEF SelectEvaluations
    <2> HIDE DEF row
    <2> QED
      BY <2>1, SelectedKeeps DEF AInv, ReadersHoldRows
  <1>4. CASE SelectHints(c)
    <2>1. /\ reading' = [reading EXCEPT ![c] = NoRead]
          /\ UNCHANGED <<durable, acked>>
          /\ outcome'.result \in Outcomes
      BY <1>4 DEF SelectHints, Return, Raise, Outcomes
    <2>2. DOMAIN reading = Clients
      BY DEF AInv, ReadersHoldRows
    <2>3. \A d \in Clients : reading'[d] = IF d = c THEN NoRead ELSE reading[d]
      BY <2>1, <2>2
    <2>4. ReadersHoldRows' /\ \A d \in Clients : reading'[d].step \in {"none", "stream", "events", "evaluations"}
      BY <2>1, <2>2, <2>3 DEF AInv, ReadersHoldRows, NoRead, RecordAgreesWithLogs, TypeOK
    <2> QED
      BY <2>1, <2>4, StoreUnchanged
  <1>5. CASE AbandonRead(c)
    BY <1>5, SelectedKeeps DEF AbandonRead, NoRead
  <1> QED
    BY <1>1, <1>2, <1>3, <1>4, <1>5

LEMMA AInvNext == AInv /\ [Next]_vars => AInv'
  <1> SUFFICES ASSUME AInv, [Next]_vars PROVE AInv'
    OBVIOUS
  <1>1. ASSUME NEW t \in Times, create(t) PROVE AInv'
    BY <1>1, CreateKeeps
  <1>2. ASSUME NEW t \in Times, NEW session \in Sessions \ {<<>>}, append(session, t) PROVE AInv'
    BY <1>2, AppendKeeps
  <1>3. ASSUME NEW t \in Times, NEW a \in Evaluation, record_move_evaluation(a, t) PROVE AInv'
    BY <1>3, MoveEvaluationKeeps
  <1>4. ASSUME NEW t \in Times, NEW a \in Hint, record_hint_result(a, t) PROVE AInv'
    BY <1>4, HintResultKeeps
  <1>5. ASSUME NEW c \in Clients,
               SelectStream(c) \/ SelectEvents(c) \/ SelectEvaluations(c) \/ SelectHints(c)
                 \/ AbandonRead(c)
        PROVE  AInv'
    BY <1>5, ReadKeeps
  <1>6. CASE UNCHANGED vars
    <2>1. ReadersHoldRows' /\ UNCHANGED <<durable, acked, reading, outcome>>
      BY <1>6 DEF vars, AInv, ReadersHoldRows
    <2> QED
      BY <2>1, StoreUnchanged DEF AInv, RecordAgreesWithLogs, TypeOK
  <1> QED
    BY <1>1, <1>2, <1>3, <1>4, <1>5, <1>6 DEF Next

(* The inductive invariant holds throughout. *)
THEOREM AttemptInvariant == Spec => []AInv
  BY AInvInit, AInvNext, PTL DEF Spec

(* The logs always hold a session that play can produce, and the stored row is  *)
(* the one a rebuild of the three logs gives.                                   *)
THEOREM RecordsAgree == Spec => []RecordAgreesWithLogs
  <1>1. AInv => RecordAgreesWithLogs
    BY DEF AInv
  <1> QED
    BY <1>1, AttemptInvariant, PTL

(* However many clients race, every acknowledged session is a prefix of the     *)
(* stored one, and stored advice sits where it was given in that one history.   *)
THEOREM HistoryIsOne == Spec => []OneHistory
  <1>1. AInv => OneHistory
    BY DEF AInv
  <1> QED
    BY <1>1, AttemptInvariant, PTL

----------------------------------------------------------------------------
(* The facts derived from the logs. *)

LogFacts == FirstOfEach(EligibleFacts(observations, move_evaluations))
              \cup FirstOfEach(EligibleFacts(observations, hint_results))

LEMMA FactsOfLogs ==
  ASSUME AInv
  PROVE  Facts = IF stream = NoRow THEN {} ELSE LogFacts
  BY DEF AInv, RecordAgreesWithLogs, current, StreamRow, build_persisted_attempt,
         build_attempt_projection_events, Facts, LogFacts

LEMMA FactsAfterWrite ==
  ASSUME AInv', stream' # NoRow
  PROVE  Facts' = LogFacts'
  <1>1. stream' = StreamRow(current')
    BY DEF AInv, RecordAgreesWithLogs
  <1>2. stream'.record.projection = current'.projection
    BY <1>1 DEF StreamRow
  <1>3. current'.projection = LogFacts'
    BY DEF current, build_persisted_attempt, build_attempt_projection_events, LogFacts
  <1> QED
    BY <1>2, <1>3 DEF Facts

(* Of one log, a content is a fact once. *)
LEMMA FirstIsUnique ==
  ASSUME NEW Content, NEW F \in SUBSET Advice(Content),
         NEW a \in FirstOfEach(F), NEW b \in FirstOfEach(F), a.content = b.content
  PROVE  a = b
  <1>1. /\ a \in Advice(Content) /\ b \in Advice(Content)
        /\ a.occurred_at <= b.occurred_at /\ b.occurred_at <= a.occurred_at
    BY DEF FirstOfEach
  <1>2. a.occurred_at \in Int /\ b.occurred_at \in Int
    BY <1>1, StoreAssumption DEF Advice, Times
  <1>3. a.occurred_at = b.occurred_at
    BY <1>1, <1>2
  <1> QED
    BY <1>1, <1>3 DEF Advice

(* The two logs answer different questions. *)
LEMMA ContentsDiffer == ASSUME NEW a \in Evaluation, NEW b \in Hint PROVE a # b
  <1>1. "source_event_id" \in DOMAIN a
    BY DEF Evaluation
  <1>2. "source_event_id" \notin DOMAIN b
    BY DEF Hint
  <1> QED
    BY <1>1, <1>2

LEMMA FactsInvariant == AInv => FactsAreDistinctAndBeforeCompletion
  <1> SUFFICES ASSUME AInv PROVE FactsAreDistinctAndBeforeCompletion
    OBVIOUS
  <1> DEFINE E == EligibleFacts(observations, move_evaluations)
             H == EligibleFacts(observations, hint_results)
  <1>1. Facts \subseteq FirstOfEach(E) \cup FirstOfEach(H)
    BY FactsOfLogs DEF LogFacts
  <1>2. E \subseteq Advice(Evaluation) /\ H \subseteq Advice(Hint)
    BY ToSetType DEF AInv, RecordAgreesWithLogs, TypeOK, Advice, EligibleFacts
  <1>3. FirstOfEach(E) \subseteq E /\ FirstOfEach(H) \subseteq H
    BY DEF FirstOfEach
  <1>4. ASSUME NEW a \in Facts, NEW b \in Facts, a.content = b.content PROVE a = b
    <2> HIDE DEF E, H
    <2>1. CASE a \in FirstOfEach(E) /\ b \in FirstOfEach(E)
      BY <1>2, <1>4, <2>1, FirstIsUnique
    <2>2. CASE a \in FirstOfEach(H) /\ b \in FirstOfEach(H)
      BY <1>2, <1>4, <2>2, FirstIsUnique
    <2>3. CASE \/ a \in FirstOfEach(E) /\ b \in FirstOfEach(H)
               \/ a \in FirstOfEach(H) /\ b \in FirstOfEach(E)
      BY <1>2, <1>3, <1>4, <2>3, ContentsDiffer DEF Advice
    <2> QED
      BY <1>1, <2>1, <2>2, <2>3
  <1>5. ASSUME NEW a \in Facts, NEW t \in CompletionTimes PROVE a.occurred_at < t
    BY <1>1, <1>3 DEF CompletionTimes, EligibleFacts
  <1> QED
    BY <1>4, <1>5 DEF FactsAreDistinctAndBeforeCompletion

(* The facts given to common memory are distinct and precede completion. *)
THEOREM FactsAreSound == Spec => []FactsAreDistinctAndBeforeCompletion
  BY AttemptInvariant, FactsInvariant, PTL

(* Accepting an event only takes back facts of its very time, and only if it    *)
(* completes the puzzle.                                                        *)
LEMMA AppendKeepsFacts ==
  ASSUME AInv, AInv', NEW session \in Sessions, NEW t \in Times, append(session, t),
         NEW a \in Facts
  PROVE  a \in Facts' \/ a.occurred_at \in CompletionTimes' \ CompletionTimes
  <1>1. CASE stream = NoRow \/ ~ContinuesHead(session) \/ ~InTime(t)
    <2>1. UNCHANGED stream
      BY <1>1 DEF append, Raise, durable
    <2> QED
      BY <2>1 DEF Facts
  <1>2. CASE ~(stream = NoRow \/ ~ContinuesHead(session) \/ ~InTime(t))
    <2> DEFINE o == [event |-> Last(session), occurred_at |-> t]
    <2>1. /\ observations' = Append(observations, o)
          /\ UNCHANGED <<move_evaluations, hint_results>>
          /\ stream' # NoRow
      <3>1. /\ observations' = Append(observations, o)
            /\ UNCHANGED <<move_evaluations, hint_results>>
            /\ observations' \in Seq(Observation) /\ observations \in Seq(Observation)
        BY <1>2 DEF append, AInv, RecordAgreesWithLogs, TypeOK, Observation
      <3>2. observations' # <<>>
        BY <3>1
      <3> QED
        BY <3>1, <3>2 DEF AInv, NothingBeforeCreation
    <2>2. o \in Observation /\ observations \in Seq(Observation)
      BY <1>2, ContinuedSession DEF ContinuesHead, AInv, RecordAgreesWithLogs, TypeOK, Observation
    <2>3. ToSet(observations') = ToSet(observations) \cup {o} /\ o.occurred_at = t
      BY <2>1, <2>2, ToSetAppend
    <2> HIDE DEF o
    <2>4. ASSUME NEW log, a \in FirstOfEach(EligibleFacts(observations, log)),
                 a.occurred_at \in Times, a.occurred_at <= t,
                 a \notin FirstOfEach(EligibleFacts(observations', log))
          PROVE  a.occurred_at \in CompletionTimes' \ CompletionTimes
      <3>1. EligibleFacts(observations', log) \subseteq EligibleFacts(observations, log)
        BY <2>3 DEF EligibleFacts
      <3>2. a \notin EligibleFacts(observations', log)
        BY <2>4, <3>1 DEF FirstOfEach
      <3>3. a \in EligibleFacts(observations, log)
        BY <2>4 DEF FirstOfEach
      <3>4. o.event.completes /\ ~(a.occurred_at < t)
        BY <2>3, <3>2, <3>3 DEF EligibleFacts
      <3>5. a.occurred_at = t
        BY <2>4, <3>4, StoreAssumption DEF Times
      <3>6. t \in CompletionTimes'
        BY <2>3, <3>4 DEF CompletionTimes
      <3>7. t \notin CompletionTimes
        BY <3>3, <3>5, StoreAssumption DEF EligibleFacts, CompletionTimes, Times
      <3> QED
        BY <3>5, <3>6, <3>7
    <2>5. a.occurred_at \in Times /\ a.occurred_at <= t
      <3>1. a \in ToSet(move_evaluations) \cup ToSet(hint_results)
        BY <1>2, FactsOfLogs DEF LogFacts, FirstOfEach, EligibleFacts
      <3> QED
        BY <1>2, <3>1, AllObservedBefore DEF AInv
    <2>6. a \in LogFacts /\ Facts' = LogFacts'
      BY <1>2, <2>1, FactsOfLogs, FactsAfterWrite
    <2>7. LogFacts' = FirstOfEach(EligibleFacts(observations', move_evaluations))
                        \cup FirstOfEach(EligibleFacts(observations', hint_results))
      BY <2>1 DEF LogFacts
    <2> QED
      BY <2>4, <2>5, <2>6, <2>7 DEF LogFacts
  <1> QED
    BY <1>1, <1>2

(* New advice takes back no fact: it is observed after every stored answer. *)
LEMMA AdviceKeepsFacts ==
  ASSUME AInv, AInv', stream # NoRow, stream' # NoRow, NEW t \in Times, InTime(t),
         NEW b, b.occurred_at = t, UNCHANGED observations,
         ToSet(move_evaluations') \in {ToSet(move_evaluations), ToSet(move_evaluations) \cup {b}},
         ToSet(hint_results') \in {ToSet(hint_results), ToSet(hint_results) \cup {b}},
         NEW a \in Facts
  PROVE  a \in Facts'
  <1>1. a \in LogFacts /\ Facts' = LogFacts'
    BY FactsOfLogs, FactsAfterWrite
  <1>2. a.occurred_at <= t
    <2>1. a \in ToSet(move_evaluations) \cup ToSet(hint_results)
      BY <1>1 DEF LogFacts, FirstOfEach, EligibleFacts
    <2> QED
      BY <2>1, AllObservedBefore DEF AInv
  <1>3. ASSUME NEW log, NEW longer, a \in FirstOfEach(EligibleFacts(observations, log)),
               ToSet(longer) \in {ToSet(log), ToSet(log) \cup {b}}
        PROVE  a \in FirstOfEach(EligibleFacts(observations, longer))
    <2>1. a \in EligibleFacts(observations, longer)
      BY <1>3 DEF FirstOfEach, EligibleFacts
    <2>2. \A d \in EligibleFacts(observations, longer) :
            d \in EligibleFacts(observations, log) \/ d = b
      BY <1>3 DEF EligibleFacts
    <2> QED
      BY <1>2, <1>3, <2>1, <2>2 DEF FirstOfEach
  <1>4. LogFacts' = FirstOfEach(EligibleFacts(observations, move_evaluations'))
                      \cup FirstOfEach(EligibleFacts(observations, hint_results'))
    BY DEF LogFacts
  <1> QED
    BY <1>1, <1>3, <1>4 DEF LogFacts

LEMMA FactsStep ==
  ASSUME AInv, AInv', [Next]_vars, NEW a \in Facts
  PROVE  a \in Facts' \/ a.occurred_at \in CompletionTimes' \ CompletionTimes
  <1>0. stream # NoRow
    BY DEF Facts
  <1>1. ASSUME UNCHANGED stream PROVE a \in Facts'
    BY <1>1 DEF Facts
  <1>2. ASSUME NEW t \in Times, create(t) PROVE a \in Facts'
    BY <1>0, <1>1, <1>2 DEF create, Raise, durable
  <1>3. ASSUME NEW t \in Times, NEW session \in Sessions, append(session, t)
        PROVE  a \in Facts' \/ a.occurred_at \in CompletionTimes' \ CompletionTimes
    BY <1>3, AppendKeepsFacts
  <1>4. ASSUME NEW t \in Times, NEW b \in Evaluation, record_move_evaluation(b, t) PROVE a \in Facts'
    <2>1. CASE ~AtHead(b) \/ ~InTime(t)
      BY <1>1, <1>4, <2>1 DEF record_move_evaluation, Raise, durable
    <2>2. CASE AtHead(b) /\ InTime(t)
      <3>1. /\ move_evaluations' = Append(move_evaluations, Observed(b, t))
            /\ stream' = StreamRow(build_persisted_attempt(stream.started_at, observations,
                                     Append(move_evaluations, Observed(b, t)), hint_results))
            /\ UNCHANGED <<observations, hint_results>>
        BY <1>0, <1>4, <2>2 DEF record_move_evaluation, update_stream
      <3>2. /\ stream.started_at \in Times
            /\ observations \in Seq(Observation)
            /\ move_evaluations \in Seq(Advice(Evaluation))
            /\ hint_results \in Seq(Advice(Hint))
            /\ Observed(b, t) \in Advice(Evaluation)
        BY <1>0 DEF AInv, RecordAgreesWithLogs, TypeOK, Observation, Advice, Observed
      <3>3. ToSet(move_evaluations') = ToSet(move_evaluations) \cup {Observed(b, t)}
        BY <3>1, <3>2, ToSetAppend
      <3>4. stream' # NoRow
        BY <3>1, StreamRowIsThere
      <3> QED
        BY <1>0, <2>2, <3>1, <3>3, <3>4, AdviceKeepsFacts DEF Observed
    <2> QED
      BY <2>1, <2>2
  <1>5. ASSUME NEW t \in Times, NEW b \in Hint, record_hint_result(b, t) PROVE a \in Facts'
    <2>1. CASE ~AtHead(b) \/ ~InTime(t) \/ observations = <<>>
      BY <1>1, <1>5, <2>1 DEF record_hint_result, Raise, durable
    <2>2. CASE AtHead(b) /\ InTime(t) /\ observations # <<>>
      <3>1. /\ hint_results' = Append(hint_results, Observed(b, t))
            /\ stream' = StreamRow(build_persisted_attempt(stream.started_at, observations,
                                     move_evaluations, Append(hint_results, Observed(b, t))))
            /\ UNCHANGED <<observations, move_evaluations>>
        BY <1>0, <1>5, <2>2 DEF record_hint_result, update_stream
      <3>2. /\ stream.started_at \in Times
            /\ observations \in Seq(Observation)
            /\ move_evaluations \in Seq(Advice(Evaluation))
            /\ hint_results \in Seq(Advice(Hint))
            /\ Observed(b, t) \in Advice(Hint)
        BY <1>0 DEF AInv, RecordAgreesWithLogs, TypeOK, Observation, Advice, Observed
      <3>3. ToSet(hint_results') = ToSet(hint_results) \cup {Observed(b, t)}
        BY <3>1, <3>2, ToSetAppend
      <3>4. stream' # NoRow
        BY <3>1, StreamRowIsThere
      <3> QED
        BY <1>0, <2>2, <3>1, <3>3, <3>4, AdviceKeepsFacts DEF Observed
    <2> QED
      BY <2>1, <2>2
  <1>6. ASSUME NEW c \in Clients,
               SelectStream(c) \/ SelectEvents(c) \/ SelectEvaluations(c) \/ SelectHints(c)
                 \/ AbandonRead(c)
        PROVE  a \in Facts'
    BY <1>1, <1>6 DEF SelectStream, SelectEvents, SelectEvaluations, SelectHints, AbandonRead,
                      Selected, Return, Raise, durable
  <1>7. CASE UNCHANGED vars
    BY <1>1, <1>7 DEF vars, durable
  <1> QED
    BY <1>2, <1>3, <1>4, <1>5, <1>6, <1>7 DEF Next

(* A fact once handed over is never taken back, unless completion is observed   *)
(* at the very same time.                                                       *)
THEOREM FactsStay == Spec => FactsAreKept
  <1>1. AInv /\ AInv' /\ [Next]_vars =>
          [\A a \in Facts : a \in Facts' \/ a.occurred_at \in CompletionTimes' \ CompletionTimes]_vars
    BY FactsStep
  <1> QED
    BY <1>1, AttemptInvariant, PTL DEF Spec, FactsAreKept

----------------------------------------------------------------------------
(* A read that passes the comparison with the row returns one moment's logs:   *)
(* the row selected first carries its own copy of them.                        *)
LEMMA SnapshotStep ==
  ASSUME AInv, NEW c \in Clients, SelectHints(c), outcome'.result = "ok"
  PROVE  <<outcome'.record.observations, outcome'.record.move_evaluations,
           outcome'.record.hint_results>> = reading[c].began
  <1> DEFINE r == reading[c]
             record == build_persisted_attempt(r.stream.started_at, r.observations,
                                               r.move_evaluations, hint_results)
  <1>1. r.step = "evaluations" /\ r.stream = StreamRow(record) /\ outcome'.record = record
    BY DEF SelectHints, ReadVerified, Return, Raise
  <1>2. /\ r.began = <<r.began[1], r.began[2], r.began[3]>>
        /\ r.stream = StreamRow(build_persisted_attempt(r.stream.started_at, r.began[1],
                                                        r.began[2], r.began[3]))
    BY <1>1 DEF AInv, ReadersHoldRows
  <1>3. /\ record.observations = r.began[1]
        /\ record.move_evaluations = r.began[2]
        /\ record.hint_results = r.began[3]
    BY <1>1, <1>2 DEF StreamRow, build_persisted_attempt
  <1> HIDE DEF record
  <1> QED
    BY <1>1, <1>2, <1>3

THEOREM SnapshotsAreRead == Spec => ReadsAreSnapshots
  <1>1. AInv /\ AInv' /\ [Next]_vars =>
          [\A c \in Clients : SelectHints(c) /\ outcome'.result = "ok" =>
             <<outcome'.record.observations, outcome'.record.move_evaluations,
               outcome'.record.hint_results>> = reading[c].began]_vars
    BY SnapshotStep
  <1> QED
    BY <1>1, AttemptInvariant, PTL DEF Spec, ReadsAreSnapshots
=============================================================================
