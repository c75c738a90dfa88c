-------------------------- MODULE EventStoreProofs --------------------------
(***************************************************************************)
(* The store keeps every trace an intact chain, whatever events are        *)
(* submitted and however many clients race and crash.                      *)
(*                                                                         *)
(* The inductive invariant says, for each statement a writer may have      *)
(* reached, how its private tables differ from the committed ones and that *)
(* its event still fits the committed head: nobody else holds the lock.    *)
(***************************************************************************)
EXTENDS EventStore, TLAPS

SequencesUnique(S) == \A e, f \in S : e.sequence_no = f.sequence_no => e = f
IsLast(m, S) == m \in S /\ \A f \in S : f.sequence_no <= m.sequence_no

(* A trace with its head: the parts of StreamsAreChains, with the last row named. *)
GoodStream(S, head) ==
  /\ verify_chain(S)
  /\ SequencesUnique(S)
  /\ \/ S = {} /\ head = NoHead
     \/ \E m \in S : IsLast(m, S) /\ head = HeadOf(m)

(* The event extends the committed stream it names. *)
Fits(e) ==
  /\ verify_event(e)
  /\ ~Damaged(e.trace_id)
  /\ IF streams[e.trace_id] = NoHead THEN validate_genesis(e)
     ELSE validate_continuation(e, streams[e.trace_id])

HeadInserted(e) ==
  [streams EXCEPT ![e.trace_id] = IF streams[e.trace_id] = NoHead THEN HeadOf(e) ELSE @]

(* What the transaction of client c has done at each of its statements. *)
Transaction(c) ==
  LET e == req[c] IN
  CASE pc[c] = "begun" ->
         work.events = events /\ work.streams = streams /\ verify_event(e)
    [] pc[c] = "verified" ->
         work.events = events /\ work.streams = streams /\ Fits(e)
    [] pc[c] = "indexed" ->
         work.events = events /\ work.streams = HeadInserted(e) /\ Fits(e)
    [] pc[c] = "inserted" ->
         /\ ~UniqueViolation(e, events)
         /\ work.events = events \cup {e} /\ work.streams = HeadInserted(e) /\ Fits(e)
    [] pc[c] = "updated" ->
         /\ ~UniqueViolation(e, events)
         /\ work.events = events \cup {e} /\ Fits(e)
         /\ work.streams = [streams EXCEPT ![e.trace_id] = HeadOf(e)]
    [] OTHER -> TRUE

(* What a reader holds between its two statements: a beginning of the stream. *)
Reading(c) ==
  LET S == RowsOf(req[c].trace_id, events)
      R == {r.event : r \in rows[c]}
  IN  /\ req[c].trace_id \in Traces
      /\ R \subseteq S
      /\ R # {} => \E m \in R : IsLast(m, R)
      /\ \A e \in S \ R, f \in R : f.sequence_no < e.sequence_no

StoreInv ==
  /\ TypeOK
  /\ \A t \in Traces : GoodStream(RowsOf(t, events), streams[t])
  /\ EventIdsAreUnique
  /\ \A c \in Clients : pc[c] \in Writing <=> lock = c
  /\ \A c \in Clients : Transaction(c)
  /\ \A c \in Clients : pc[c] = "committed" => req[c] \in events
  /\ \A c \in Clients : pc[c] = "selected" => Reading(c)
  /\ AcknowledgedDurable

----------------------------------------------------------------------------
(* The rows of a trace after an insert. *)
LEMMA RowsAfterInsert ==
  ASSUME NEW t, NEW e, NEW es
  PROVE  RowsOf(t, es \cup {e}) = IF e.trace_id = t THEN RowsOf(t, es) \cup {e} ELSE RowsOf(t, es)
  BY DEF RowsOf

(* The last row of a stream is the one its head was taken from. *)
LEMMA LatestIsLast ==
  ASSUME NEW S \in SUBSET Envelope, SequencesUnique(S), NEW m, IsLast(m, S)
  PROVE  Latest(S) = m
  <1>1. \A x \in S : (\A f \in S : f.sequence_no <= x.sequence_no) => x = m
    BY DEF SequencesUnique, IsLast, Envelope
  <1>2. m \in S /\ \A f \in S : f.sequence_no <= m.sequence_no
    BY DEF IsLast
  <1> QED
    BY <1>1, <1>2 DEF Latest

(* A good stream agrees with its index. *)
LEMMA GoodStreamAgrees ==
  ASSUME NEW S \in SUBSET Envelope, NEW head, GoodStream(S, head)
  PROVE  IndexAgrees(S, head)
  <1>1. CASE S = {}
    BY <1>1 DEF GoodStream, IndexAgrees
  <1>2. CASE S # {}
    <2>1. PICK m \in S : IsLast(m, S) /\ head = HeadOf(m)
      BY <1>2 DEF GoodStream
    <2>2. Latest(S) = m
      BY <2>1, LatestIsLast DEF GoodStream
    <2> QED
      BY <1>2, <2>1, <2>2 DEF IndexAgrees
  <1> QED
    BY <1>1, <1>2

(* The head taken from an event is a head row. *)
LEMMA HeadIsNotNoHead ==
  ASSUME NEW e \in Envelope
  PROVE  HeadOf(e) # NoHead /\ HeadOf(e) \in StreamHead
  BY DEF HeadOf, NoHead, Envelope, StreamHead

(* Appending an event that fits keeps a stream good. *)
LEMMA AppendKeepsGood ==
  ASSUME NEW S \in SUBSET Envelope, NEW head, GoodStream(S, head),
         NEW e \in Envelope, verify_event(e),
         IF head = NoHead THEN validate_genesis(e) ELSE validate_continuation(e, head)
  PROVE  /\ GoodStream(S \cup {e}, HeadOf(e))
         /\ \A f \in S : f.sequence_no < e.sequence_no
         /\ IF S = {} THEN e.previous_event_hash = Genesis
            ELSE e.previous_event_hash = Latest(S).event_hash
         /\ head # NoHead => head.puzzle_revision_id = e.puzzle_revision_id
  <1>1. CASE S = {}
    <2>1. head = NoHead
      BY <1>1 DEF GoodStream
    <2>2. e.sequence_no = 0 /\ e.previous_event_hash = Genesis
      BY <2>1 DEF validate_genesis
    <2>3. verify_chain({e}) /\ SequencesUnique({e}) /\ IsLast(e, {e})
      BY <2>2 DEF verify_chain, SequencesUnique, IsLast, Envelope
    <2> QED
      BY <1>1, <2>1, <2>2, <2>3 DEF GoodStream
  <1>2. CASE S # {}
    <2>1. PICK m \in S : IsLast(m, S) /\ head = HeadOf(m)
      BY <1>2 DEF GoodStream
    <2>2. head # NoHead
      BY <2>1, HeadIsNotNoHead
    <2>3. /\ e.puzzle_revision_id = m.puzzle_revision_id
          /\ e.sequence_no = m.sequence_no + 1
          /\ e.previous_event_hash = m.event_hash
      BY <2>1, <2>2 DEF validate_continuation, HeadOf
    <2>4. \A f \in S : f.sequence_no < e.sequence_no
      BY <2>1, <2>3 DEF IsLast, Envelope
    <2>5. verify_chain(S \cup {e})
      BY <2>1, <2>3 DEF GoodStream, verify_chain
    <2>6. SequencesUnique(S \cup {e})
      BY <2>4 DEF GoodStream, SequencesUnique, Envelope
    <2>7. IsLast(e, S \cup {e})
      BY <2>4 DEF IsLast, Envelope
    <2>8. Latest(S) = m
      BY <2>1, LatestIsLast DEF GoodStream
    <2> QED
      BY <1>2, <2>1, <2>3, <2>4, <2>5, <2>6, <2>7, <2>8 DEF GoodStream, HeadOf
  <1> QED
    BY <1>1, <1>2

(* What StoreInv says of a client in a transaction: it alone holds the lock. *)
LEMMA OneWriter ==
  ASSUME StoreInv, NEW c \in Clients, pc[c] \in Writing, NEW d \in Clients, d # c
  PROVE  pc[d] \notin Writing
  BY DEF StoreInv

(* An empty database satisfies the invariant. *)
LEMMA StoreInvInit == Init => StoreInv
  <1> SUFFICES ASSUME Init PROVE StoreInv
    OBVIOUS
  <1>1. TypeOK
    BY DEF Init, TypeOK, Steps, Outcomes, Writing
  <1>2. \A t \in Traces : GoodStream(RowsOf(t, events), streams[t])
    BY DEF Init, GoodStream, RowsOf, verify_chain, SequencesUnique
  <1>3. \A c \in Clients : pc[c] \in Writing <=> lock = c
    BY ClientAssumption DEF Init, Writing
  <1>4. \A c \in Clients : Transaction(c)
    BY DEF Init, Transaction
  <1> QED
    BY <1>1, <1>2, <1>3, <1>4 DEF Init, StoreInv, EventIdsAreUnique, AcknowledgedDurable

(* Steps that leave the committed tables, the damage and every other client      *)
(* alone: it is enough to look at the client that moves.                         *)
LEMMA LocalStep ==
  ASSUME StoreInv, NEW c \in Clients,
         UNCHANGED <<events, streams, damage, bad_heads>>,
         TypeOK',
         \A d \in Clients \ {c} : pc'[d] = pc[d] /\ req'[d] = req[d] /\ rows'[d] = rows[d],
         \A d \in Clients : pc'[d] \in Writing <=> lock' = d,
         \A d \in Clients \ {c} : pc[d] \in Writing => work' = work,
         Transaction(c)',
         pc'[c] = "committed" => req'[c] \in events,
         pc'[c] = "selected" => Reading(c)',
         acked' \subseteq events
  PROVE  StoreInv'
  <1>1. (\A t \in Traces : GoodStream(RowsOf(t, events), streams[t]))'
    BY DEF StoreInv, GoodStream, RowsOf, verify_chain, verify_event, SequencesUnique, IsLast
  <1>2. EventIdsAreUnique'
    BY DEF StoreInv, EventIdsAreUnique
  <1>3. ASSUME NEW d \in Clients PROVE Transaction(d)'
    <2>1. CASE d = c
      BY <2>1
    <2>2. CASE d # c /\ pc[d] \in Writing
      <3>1. Transaction(d) /\ work' = work /\ pc'[d] = pc[d] /\ req'[d] = req[d]
        BY <2>2 DEF StoreInv
      <3> QED
        BY <3>1 DEF Transaction, Fits, Damaged, HeadInserted, RowsOf, UniqueViolation,
                    verify_event, validate_genesis, validate_continuation
    <2>3. CASE d # c /\ pc[d] \notin Writing
      BY <2>3 DEF Transaction, Writing
    <2> QED
      BY <2>1, <2>2, <2>3
  <1>4. (\A d \in Clients : pc[d] = "committed" => req[d] \in events)'
    BY DEF StoreInv
  <1>5. ASSUME NEW d \in Clients, pc'[d] = "selected" PROVE Reading(d)'
    <2>1. CASE d = c
      BY <1>5, <2>1
    <2>2. CASE d # c
      BY <1>5, <2>2 DEF StoreInv, Reading, RowsOf, IsLast
    <2> QED
      BY <2>1, <2>2
  <1> QED
    BY <1>1, <1>2, <1>3, <1>4, <1>5 DEF StoreInv, AcknowledgedDurable

(* Taking the write lock keeps it. *)
LEMMA StoreInvBegin ==
  ASSUME StoreInv, NEW c \in Clients, NEW e \in Events, Begin(c, e)
  PROVE  StoreInv'
  <1>1. TypeOK'
    BY DEF StoreInv, TypeOK, Begin, Step, tables, Steps, Writing, Outcomes
  <1>2. \A d \in Clients : pc'[d] \in Writing <=> lock' = d
    BY ClientAssumption DEF StoreInv, TypeOK, Begin, Step, Writing
  <1>3. \A d \in Clients : pc[d] \notin Writing
    BY ClientAssumption DEF StoreInv, Begin
  <1>4. Transaction(c)'
    BY DEF StoreInv, TypeOK, Begin, Step, tables, Transaction, verify_event
  <1> QED
    BY <1>1, <1>2, <1>3, <1>4, LocalStep DEF StoreInv, TypeOK, Begin, Step, tables, AcknowledgedDurable

(* Rolling back keeps it: nothing uncommitted survives. *)
LEMMA StoreInvRollback ==
  ASSUME StoreInv, NEW c \in Clients, pc[c] \in Writing,
         NEW result \in Outcomes, Rollback(c, result)
  PROVE  StoreInv'
  <1>1. TypeOK'
    BY DEF StoreInv, TypeOK, Rollback, tables, Steps, Writing
  <1>2. \A d \in Clients : pc'[d] \in Writing <=> lock' = d
    BY OneWriter, ClientAssumption DEF StoreInv, TypeOK, Rollback, Writing
  <1>3. Transaction(c)'
    BY DEF StoreInv, TypeOK, Rollback, Transaction
  <1> QED
    BY <1>1, <1>2, <1>3, OneWriter, LocalStep
       DEF StoreInv, TypeOK, Rollback, tables, AcknowledgedDurable

(* The checks of append keep it: an admitted event fits its stream. *)
LEMMA StoreInvCheck ==
  ASSUME StoreInv, NEW c \in Clients, Check(c)
  PROVE  StoreInv'
  <1>1. CASE AppendChecks(c) # "ok"
    <2>1. AppendChecks(c) \in Outcomes
      BY DEF AppendChecks, Outcomes
    <2> QED
      BY <1>1, <2>1, StoreInvRollback DEF Check, Writing
  <1>2. CASE AppendChecks(c) = "ok"
    <2>1. /\ pc[c] = "begun" /\ pc' = [pc EXCEPT ![c] = "verified"]
          /\ UNCHANGED <<events, streams, damage, bad_heads, lock, work, req, rows, outcome, acked>>
      BY <1>2 DEF Check, Step, tables
    <2>2. work.events = events /\ work.streams = streams /\ verify_event(req[c]) /\ req[c] \in Events
      BY <2>1 DEF StoreInv, TypeOK, Transaction, Writing
    <2>3. Fits(req[c])
      BY <1>2, <2>2 DEF AppendChecks, ExistingStreamValid, StreamValid, DamagedRows, Fits, Damaged
    <2>4. TypeOK'
      BY <2>1 DEF StoreInv, TypeOK, Steps, Writing
    <2>5. \A d \in Clients : pc'[d] \in Writing <=> lock' = d
      BY <2>1 DEF StoreInv, TypeOK, Writing
    <2>6. Transaction(c)'
      BY <2>1, <2>2, <2>3 DEF StoreInv, TypeOK, Transaction, Fits, Damaged, RowsOf, verify_event,
                              validate_genesis, validate_continuation
    <2> QED
      BY <2>1, <2>4, <2>5, <2>6, LocalStep DEF StoreInv, TypeOK, AcknowledgedDurable
  <1> QED
    BY <1>1, <1>2

(* Inserting the stream row keeps it. *)
LEMMA StoreInvInsertStream ==
  ASSUME StoreInv, NEW c \in Clients, InsertStream(c)
  PROVE  StoreInv'
  <1>1. /\ pc[c] = "verified" /\ pc' = [pc EXCEPT ![c] = "indexed"]
        /\ UNCHANGED <<events, streams, damage, bad_heads, lock, req, rows, outcome, acked>>
    BY DEF InsertStream, Step, tables
  <1>2. /\ work.events = events /\ work.streams = streams /\ Fits(req[c])
        /\ req[c] \in Events /\ req[c] \in Envelope
    BY <1>1, EventsAssumption DEF StoreInv, TypeOK, Transaction, Writing
  <1>3. work' = [events |-> events, streams |-> HeadInserted(req[c])]
    BY <1>2 DEF InsertStream, HeadInserted
  <1>4. work'.events = events /\ work'.streams = HeadInserted(req[c])
    BY <1>3
  <1>5. HeadInserted(req[c]) \in [Traces -> StreamHead \cup {NoHead}]
    BY <1>2, HeadIsNotNoHead DEF HeadInserted, StoreInv, TypeOK
  <1>6. TypeOK'
    BY <1>1, <1>2, <1>3, <1>5 DEF StoreInv, TypeOK, Steps, Writing
  <1>7. \A d \in Clients : pc'[d] \in Writing <=> lock' = d
    BY <1>1 DEF StoreInv, TypeOK, Writing
  <1>8. Transaction(c)'
    BY <1>1, <1>2, <1>4 DEF StoreInv, TypeOK, Transaction, HeadInserted, HeadOf, Fits, Damaged,
                            RowsOf, verify_event, validate_genesis, validate_continuation
  <1> QED
    BY <1>1, <1>6, <1>7, <1>8, OneWriter, LocalStep DEF StoreInv, TypeOK, Writing, AcknowledgedDurable

(* Inserting the event keeps it, or rolls back on a used key. *)
LEMMA StoreInvInsertEvent ==
  ASSUME StoreInv, NEW c \in Clients, InsertEvent(c)
  PROVE  StoreInv'
  <1>1. CASE UniqueViolation(req[c], work.events)
    BY <1>1, StoreInvRollback DEF InsertEvent, Writing, Outcomes
  <1>2. CASE ~UniqueViolation(req[c], work.events)
    <2>1. /\ pc[c] = "indexed" /\ pc' = [pc EXCEPT ![c] = "inserted"]
          /\ work' = [events |-> work.events \cup {req[c]}, streams |-> work.streams]
          /\ UNCHANGED <<events, streams, damage, bad_heads, lock, req, rows, outcome, acked>>
      BY <1>2 DEF InsertEvent, Step, tables
    <2>2. /\ work.events = events /\ work.streams = HeadInserted(req[c]) /\ Fits(req[c])
          /\ req[c] \in Events
      BY <2>1 DEF StoreInv, TypeOK, Transaction, Writing
    <2>3. work'.events = events \cup {req[c]} /\ work'.streams = HeadInserted(req[c])
      BY <2>1, <2>2
    <2>4. TypeOK'
      BY <2>1, <2>2, <2>3 DEF StoreInv, TypeOK, Steps, Writing
    <2>5. \A d \in Clients : pc'[d] \in Writing <=> lock' = d
      BY <2>1 DEF StoreInv, TypeOK, Writing
    <2>6. Transaction(c)'
      BY <1>2, <2>1, <2>2, <2>3
         DEF StoreInv, TypeOK, Transaction, HeadInserted, HeadOf, Fits, Damaged, UniqueViolation,
             RowsOf, verify_event, validate_genesis, validate_continuation
    <2> QED
      BY <2>1, <2>4, <2>5, <2>6, OneWriter, LocalStep DEF StoreInv, TypeOK, Writing, AcknowledgedDurable
  <1> QED
    BY <1>1, <1>2

(* Moving the stream head keeps it. *)
LEMMA StoreInvUpdateHead ==
  ASSUME StoreInv, NEW c \in Clients, UpdateHead(c)
  PROVE  StoreInv'
  <1> DEFINE e == req[c]
             t == req[c].trace_id
  <1>1. /\ pc[c] = "inserted" /\ pc' = [pc EXCEPT ![c] = "updated"]
        /\ UNCHANGED <<events, streams, damage, bad_heads, lock, req, rows, outcome, acked>>
    BY DEF UpdateHead, Step, tables
  <1>2. /\ ~UniqueViolation(e, events)
        /\ work.events = events \cup {e} /\ work.streams = HeadInserted(e) /\ Fits(e)
        /\ e \in Events /\ e \in Envelope /\ t \in Traces
    BY <1>1, EventsAssumption DEF StoreInv, TypeOK, Transaction, Writing, Envelope
  <1>3. GoodStream(RowsOf(t, events), streams[t]) /\ RowsOf(t, events) \in SUBSET Envelope
    BY <1>2, EventsAssumption DEF StoreInv, TypeOK, RowsOf
  <1>4. streams[t] # NoHead => streams[t].puzzle_revision_id = e.puzzle_revision_id
    BY <1>2 DEF Fits, validate_continuation
  <1>6. HeadInserted(e)[t].puzzle_revision_id = e.puzzle_revision_id
    BY <1>2, <1>4 DEF HeadInserted, HeadOf, StoreInv, TypeOK
  <1>7. work' = [events  |-> events \cup {e},
                 streams |-> [HeadInserted(e) EXCEPT ![t] =
                                [puzzle_revision_id |-> HeadInserted(e)[t].puzzle_revision_id,
                                 latest_sequence    |-> e.sequence_no,
                                 latest_event_hash  |-> e.event_hash]]]
    BY <1>2 DEF UpdateHead
  <1>8. [HeadInserted(e) EXCEPT ![t] = HeadOf(e)] = [streams EXCEPT ![t] = HeadOf(e)]
    BY <1>2 DEF HeadInserted, StoreInv, TypeOK
  <1>9. work' = [events |-> events \cup {e}, streams |-> [streams EXCEPT ![t] = HeadOf(e)]]
    BY <1>6, <1>7, <1>8 DEF HeadOf
  <1>10. [streams EXCEPT ![t] = HeadOf(e)] \in [Traces -> StreamHead \cup {NoHead}]
    BY <1>2, HeadIsNotNoHead DEF StoreInv, TypeOK
  <1>11. TypeOK'
    BY <1>1, <1>2, <1>9, <1>10 DEF StoreInv, TypeOK, Steps, Writing
  <1>12. \A d \in Clients : pc'[d] \in Writing <=> lock' = d
    BY <1>1 DEF StoreInv, TypeOK, Writing
  <1>13. Transaction(c)'
    BY <1>1, <1>2, <1>9
       DEF StoreInv, TypeOK, Transaction, HeadOf, Fits, Damaged, UniqueViolation, RowsOf,
           verify_event, validate_genesis, validate_continuation
  <1> QED
    BY <1>1, <1>11, <1>12, <1>13, OneWriter, LocalStep DEF StoreInv, TypeOK, Writing, AcknowledgedDurable

(* What a commit does: one event is added on top of its stream, and each reader *)
(* of that stream still holds a beginning of it.                                *)
LEMMA CommitEffect ==
  ASSUME StoreInv, NEW c \in Clients, Commit(c)
  PROVE  /\ req[c] \in Events /\ req[c] \in Envelope /\ req[c].trace_id \in Traces
         /\ events' = events \cup {req[c]}
         /\ streams' = [streams EXCEPT ![req[c].trace_id] = HeadOf(req[c])]
         /\ ~UniqueViolation(req[c], events)
         /\ Fits(req[c])
         /\ LET S == RowsOf(req[c].trace_id, events) IN
              /\ GoodStream(S \cup {req[c]}, HeadOf(req[c]))
              /\ \A f \in S : f.sequence_no < req[c].sequence_no
              /\ IF S = {} THEN req[c].previous_event_hash = Genesis
                 ELSE req[c].previous_event_hash = Latest(S).event_hash
  <1> DEFINE e == req[c]
             S == RowsOf(e.trace_id, events)
  <1>1. pc[c] = "updated" /\ events' = work.events /\ streams' = work.streams
    BY DEF Commit, Step
  <1>2. /\ ~UniqueViolation(e, events)
        /\ work.events = events \cup {e} /\ Fits(e)
        /\ work.streams = [streams EXCEPT ![e.trace_id] = HeadOf(e)]
        /\ e \in Events /\ e \in Envelope /\ e.trace_id \in Traces
    BY <1>1, EventsAssumption DEF StoreInv, TypeOK, Transaction, Writing, Envelope
  <1>3. GoodStream(S, streams[e.trace_id]) /\ S \in SUBSET Envelope
    BY <1>2, EventsAssumption DEF StoreInv, TypeOK, RowsOf
  <1>4. /\ GoodStream(S \cup {e}, HeadOf(e))
        /\ \A f \in S : f.sequence_no < e.sequence_no
        /\ IF S = {} THEN e.previous_event_hash = Genesis
           ELSE e.previous_event_hash = Latest(S).event_hash
    BY <1>2, <1>3, AppendKeepsGood DEF Fits
  <1> QED
    BY <1>1, <1>2, <1>4

(* Committing keeps it. *)
LEMMA StoreInvCommit ==
  ASSUME StoreInv, NEW c \in Clients, Commit(c)
  PROVE  StoreInv'
  <1> DEFINE e == req[c]
             T == RowsOf(e.trace_id, events)
  <1>1. /\ pc[c] = "updated" /\ pc' = [pc EXCEPT ![c] = "committed"] /\ lock' = NoClient
        /\ UNCHANGED <<damage, bad_heads, work, req, rows, outcome, acked>>
    BY DEF Commit, Step
  <1>2. /\ e \in Events /\ e \in Envelope /\ e.trace_id \in Traces
        /\ events' = events \cup {e}
        /\ streams' = [streams EXCEPT ![e.trace_id] = HeadOf(e)]
        /\ ~UniqueViolation(e, events)
        /\ GoodStream(T \cup {e}, HeadOf(e))
        /\ \A f \in T : f.sequence_no < e.sequence_no
    BY CommitEffect
  <1>3. TypeOK'
    BY <1>1, <1>2, HeadIsNotNoHead DEF StoreInv, TypeOK, Steps, Writing
  <1>4. ASSUME NEW t \in Traces PROVE GoodStream(RowsOf(t, events'), streams'[t])
    <2>1. CASE t = e.trace_id
      BY <1>2, <2>1, RowsAfterInsert DEF StoreInv, TypeOK
    <2>2. CASE t # e.trace_id
      BY <1>2, <2>2, RowsAfterInsert DEF StoreInv, TypeOK
    <2> QED
      BY <2>1, <2>2
  <1>5. EventIdsAreUnique'
    BY <1>2 DEF StoreInv, EventIdsAreUnique, UniqueViolation
  <1>6. ASSUME NEW d \in Clients PROVE pc'[d] \notin Writing /\ d # lock'
    BY <1>1, OneWriter, ClientAssumption DEF StoreInv, TypeOK, Writing
  <1>7. \A d \in Clients : Transaction(d)'
    BY <1>6 DEF Transaction, Writing
  <1>8. \A d \in Clients : pc'[d] = "committed" => req'[d] \in events'
    BY <1>1, <1>2 DEF StoreInv, TypeOK
  <1>9. ASSUME NEW d \in Clients, pc'[d] = "selected" PROVE Reading(d)'
    <2> DEFINE S == RowsOf(req[d].trace_id, events)
               R == {r.event : r \in rows[d]}
    <2>1. /\ req[d].trace_id \in Traces /\ R \subseteq S
          /\ R # {} => \E m \in R : IsLast(m, R)
          /\ \A g \in S \ R, f \in R : f.sequence_no < g.sequence_no
      BY <1>1, <1>9 DEF StoreInv, TypeOK, Reading
    <2>2. RowsOf(req[d].trace_id, events') =
            IF e.trace_id = req[d].trace_id THEN S \cup {e} ELSE S
      BY <1>2 DEF RowsOf
    <2>3. \A g \in RowsOf(req[d].trace_id, events') \ R, f \in R : f.sequence_no < g.sequence_no
      BY <1>2, <2>1, <2>2
    <2> QED
      BY <1>1, <2>1, <2>2, <2>3 DEF Reading, RowsOf, IsLast
  <1>10. AcknowledgedDurable'
    BY <1>1, <1>2 DEF StoreInv, AcknowledgedDurable
  <1>11. (\A t \in Traces : GoodStream(RowsOf(t, events), streams[t]))'
    BY <1>4 DEF GoodStream, RowsOf, verify_chain, verify_event, SequencesUnique, IsLast
  <1> QED
    BY <1>3, <1>5, <1>6, <1>7, <1>8, <1>9, <1>10, <1>11 DEF StoreInv

(* Returning from append keeps it: what is acknowledged is committed. *)
LEMMA StoreInvReturn ==
  ASSUME StoreInv, NEW c \in Clients, Return(c)
  PROVE  StoreInv'
  <1>1. /\ pc[c] = "committed" /\ pc' = [pc EXCEPT ![c] = "idle"]
        /\ req' = [req EXCEPT ![c] = NoRequest]
        /\ acked' = acked \cup {req[c]} /\ req[c] \in events
        /\ UNCHANGED <<events, streams, damage, bad_heads, lock, work, rows>>
    BY DEF Return, Step, tables, StoreInv
  <1>2. TypeOK'
    BY <1>1 DEF Return, StoreInv, TypeOK, Steps, Writing, Outcomes
  <1>3. \A d \in Clients : pc'[d] \in Writing <=> lock' = d
    BY <1>1 DEF StoreInv, TypeOK, Writing
  <1>4. Transaction(c)'
    BY <1>1 DEF StoreInv, TypeOK, Transaction
  <1> QED
    BY <1>1, <1>2, <1>3, <1>4, LocalStep DEF StoreInv, TypeOK, AcknowledgedDurable

(* A crash keeps it, before COMMIT and after. *)
LEMMA StoreInvCrash ==
  ASSUME StoreInv, NEW c \in Clients, Crash(c)
  PROVE  StoreInv'
  <1>1. /\ pc' = [pc EXCEPT ![c] = "idle"]
        /\ req' = [req EXCEPT ![c] = NoRequest]
        /\ lock' = IF lock = c THEN NoClient ELSE lock
        /\ work' = IF lock = c THEN [events |-> events, streams |-> streams] ELSE work
        /\ UNCHANGED <<events, streams, damage, bad_heads, rows, acked>>
    BY DEF Crash, tables
  <1>2. TypeOK'
    BY <1>1 DEF Crash, StoreInv, TypeOK, Steps, Writing, Outcomes
  <1>3. \A d \in Clients : pc'[d] \in Writing <=> lock' = d
    BY <1>1, ClientAssumption DEF StoreInv, TypeOK, Writing
  <1>4. \A d \in Clients \ {c} : pc[d] \in Writing => work' = work
    BY <1>1 DEF StoreInv
  <1>5. Transaction(c)'
    BY <1>1 DEF StoreInv, TypeOK, Transaction
  <1> QED
    BY <1>1, <1>2, <1>3, <1>4, <1>5, LocalStep DEF StoreInv, TypeOK, AcknowledgedDurable

(* The first SELECT of a read keeps it. *)
LEMMA StoreInvSelectRows ==
  ASSUME StoreInv, NEW c \in Clients, NEW t \in Traces, SelectRows(c, t)
  PROVE  StoreInv'
  <1> DEFINE read == {[event |-> e, damage |-> {k \in Kinds : <<e, k>> \in damage}] : e \in RowsOf(t, events)}
  <1>1. /\ pc[c] = "idle" /\ pc' = [pc EXCEPT ![c] = "selected"]
        /\ req' = [req EXCEPT ![c] = [trace_id |-> t]]
        /\ rows' = [rows EXCEPT ![c] = read]
        /\ UNCHANGED <<events, streams, damage, bad_heads, lock, work, acked>>
    BY DEF SelectRows, Step, tables
  <1> DEFINE row(e) == [event |-> e, damage |-> {k \in Kinds : <<e, k>> \in damage}]
  <1>r. read = {row(e) : e \in RowsOf(t, events)}
    OBVIOUS
  <1>e. \A e : row(e).event = e /\ row(e).damage \in SUBSET Kinds
    OBVIOUS
  <1>s. \A e \in Events : row(e) \in [event : Events, damage : SUBSET Kinds]
    OBVIOUS
  <1> HIDE DEF row, read
  <1>2. {r.event : r \in read} = RowsOf(t, events)
    BY <1>r, <1>e
  <1>3. read \in SUBSET [event : Events, damage : SUBSET Kinds]
    BY <1>r, <1>s DEF StoreInv, TypeOK, RowsOf
  <1>4. TypeOK'
    BY <1>1, <1>3 DEF SelectRows, StoreInv, TypeOK, Steps, Writing, Outcomes, Reads
  <1>5. \A d \in Clients : pc'[d] \in Writing <=> lock' = d
    BY <1>1 DEF StoreInv, TypeOK, Writing
  <1>6. Transaction(c)'
    BY <1>1 DEF StoreInv, TypeOK, Transaction
  <1>7. RowsOf(t, events) # {} => \E m \in RowsOf(t, events) : IsLast(m, RowsOf(t, events))
    BY DEF StoreInv, GoodStream
  <1>8. req'[c].trace_id = t /\ {r.event : r \in rows'[c]} = RowsOf(t, events)
    BY <1>1, <1>2 DEF StoreInv, TypeOK
  <1>9. Reading(c)'
    BY <1>1, <1>7, <1>8 DEF Reading, RowsOf, IsLast
  <1> QED
    BY <1>1, <1>4, <1>5, <1>6, <1>9, LocalStep DEF StoreInv, TypeOK, AcknowledgedDurable

(* The second SELECT of a read keeps it. *)
LEMMA StoreInvSelectHead ==
  ASSUME StoreInv, NEW c \in Clients, SelectHead(c)
  PROVE  StoreInv'
  <1>1. /\ pc[c] = "selected" /\ pc' = [pc EXCEPT ![c] = "idle"]
        /\ req' = [req EXCEPT ![c] = NoRequest]
        /\ rows' = [rows EXCEPT ![c] = {}]
        /\ UNCHANGED <<events, streams, damage, bad_heads, lock, work, acked>>
    BY DEF SelectHead, Step, tables
  <1>2. outcome' \in [Clients -> Outcomes]
    BY DEF SelectHead, StoreInv, TypeOK, Outcomes
  <1>3. TypeOK'
    BY <1>1, <1>2 DEF StoreInv, TypeOK, Steps, Writing
  <1>4. \A d \in Clients : pc'[d] \in Writing <=> lock' = d
    BY <1>1 DEF StoreInv, TypeOK, Writing
  <1>5. Transaction(c)'
    BY <1>1 DEF StoreInv, TypeOK, Transaction
  <1> QED
    BY <1>1, <1>3, <1>4, <1>5, LocalStep DEF StoreInv, TypeOK, AcknowledgedDurable

(* Damage happens while nobody writes, so no transaction relied on its absence. *)
LEMMA StoreInvDamage ==
  ASSUME StoreInv, lock = NoClient, TypeOK',
         UNCHANGED <<events, streams, lock, work, pc, req, rows, outcome, acked>>
  PROVE  StoreInv'
  <1>1. \A d \in Clients : pc[d] \notin Writing
    BY ClientAssumption DEF StoreInv
  <1>2. \A d \in Clients : Transaction(d)'
    BY <1>1 DEF Transaction, Writing
  <1> QED
    BY <1>2 DEF StoreInv, GoodStream, RowsOf, verify_chain, verify_event, SequencesUnique, IsLast,
                EventIdsAreUnique, Reading, AcknowledgedDurable

(* Every step keeps the invariant. *)
LEMMA StoreInvNext == StoreInv /\ [Next]_vars => StoreInv'
  <1> SUFFICES ASSUME StoreInv, [Next]_vars PROVE StoreInv'
    OBVIOUS
  <1>1. ASSUME NEW c \in Clients, NEW e \in Events, Begin(c, e) PROVE StoreInv'
    BY <1>1, StoreInvBegin
  <1>2. ASSUME NEW c \in Clients, NEW t \in Traces, SelectRows(c, t) PROVE StoreInv'
    BY <1>2, StoreInvSelectRows
  <1>3. ASSUME NEW c \in Clients, ClientStep(c) PROVE StoreInv'
    BY <1>3, StoreInvCheck, StoreInvInsertStream, StoreInvInsertEvent, StoreInvUpdateHead,
       StoreInvCommit, StoreInvReturn, StoreInvSelectHead DEF ClientStep
  <1>4. ASSUME NEW c \in Clients, Crash(c) PROVE StoreInv'
    BY <1>4, StoreInvCrash
  <1>5. ASSUME NEW e \in events, NEW kind \in Kinds, DamageRow(e, kind) PROVE StoreInv'
    <2>1. TypeOK'
      BY <1>5 DEF DamageRow, tables, StoreInv, TypeOK
    <2> QED
      BY <1>5, <2>1, StoreInvDamage DEF DamageRow, DamageAllowed, tables
  <1>6. ASSUME NEW t \in Traces, DamageHead(t) PROVE StoreInv'
    <2>1. TypeOK'
      BY <1>6 DEF DamageHead, tables, StoreInv, TypeOK
    <2> QED
      BY <1>6, <2>1, StoreInvDamage DEF DamageHead, DamageAllowed, tables
  <1>7. CASE UNCHANGED vars
    <2>1. TypeOK'
      BY <1>7 DEF vars, StoreInv, TypeOK
    <2>2. (\A t \in Traces : GoodStream(RowsOf(t, events), streams[t]))'
      BY <1>7 DEF vars, StoreInv, GoodStream, RowsOf, verify_chain, verify_event, SequencesUnique,
                  IsLast
    <2>3. ASSUME NEW c \in Clients PROVE Transaction(c)'
      <3>1. /\ Transaction(c)
            /\ UNCHANGED <<events, streams, damage, bad_heads, work, pc, req>>
        BY <1>7 DEF vars, StoreInv
      <3> QED
        BY <3>1 DEF Transaction, Fits, Damaged, HeadInserted, RowsOf, UniqueViolation,
                    verify_event, validate_genesis, validate_continuation
    <2>4. (\A c \in Clients : pc[c] = "selected" => Reading(c))'
      BY <1>7 DEF vars, StoreInv, Reading, RowsOf, IsLast
    <2> QED
      BY <1>7, <2>1, <2>2, <2>3, <2>4 DEF vars, StoreInv, EventIdsAreUnique, AcknowledgedDurable
  <1> QED
    BY <1>1, <1>2, <1>3, <1>4, <1>5, <1>6, <1>7 DEF Next

(* The inductive invariant holds in every reachable state. *)
THEOREM StoreInvariant == Spec => []StoreInv
  BY StoreInvInit, StoreInvNext, PTL DEF Spec

(* Every trace is an intact chain whose head row names its last event. *)
THEOREM ChainsStayIntact == Spec => []StreamsAreChains
  <1>1. StoreInv => StreamsAreChains
    <2> SUFFICES ASSUME StoreInv, NEW t \in Traces
                 PROVE  /\ verify_chain(RowsOf(t, events))
                        /\ IndexAgrees(RowsOf(t, events), streams[t])
                        /\ SequencesUnique(RowsOf(t, events))
      BY DEF StreamsAreChains, SequencesUnique
    <2>1. GoodStream(RowsOf(t, events), streams[t]) /\ RowsOf(t, events) \in SUBSET Envelope
      BY EventsAssumption DEF StoreInv, TypeOK, RowsOf
    <2> QED
      BY <2>1, GoodStreamAgrees DEF GoodStream
  <1> QED
    BY <1>1, StoreInvariant, PTL

(* Types, global uniqueness of identifiers, and durability of what was returned. *)
THEOREM StoredFactsLast == Spec => [](TypeOK /\ EventIdsAreUnique /\ AcknowledgedDurable)
  <1>1. StoreInv => TypeOK /\ EventIdsAreUnique /\ AcknowledgedDurable
    BY DEF StoreInv
  <1> QED
    BY <1>1, StoreInvariant, PTL

(* Only a commit changes the events table, and only by one event on top. *)
LEMMA OnlyCommitsAppend ==
  ASSUME StoreInv, [Next]_vars
  PROVE  \/ events' = events
         \/ \E c \in Clients : Commit(c)
  BY DEF Next, ClientStep, Begin, SelectRows, Check, Rollback, InsertStream, InsertEvent, UpdateHead,
         Return, SelectHead, Crash, DamageRow, DamageHead, tables, vars

(* Each commit adds one event, chained to the last one of its trace, and none to *)
(* a stream that has been tampered with.                                         *)
THEOREM HistoryOnlyGrows == Spec => AppendOnly
  <1>1. ASSUME StoreInv, [Next]_vars
        PROVE  /\ events \subseteq events'
               /\ \A e \in events' \ events :
                    /\ events' = events \cup {e}
                    /\ ~Damaged(e.trace_id)
                    /\ IF RowsOf(e.trace_id, events) = {} THEN e.previous_event_hash = Genesis
                       ELSE e.previous_event_hash = Latest(RowsOf(e.trace_id, events)).event_hash
    <2>1. CASE events' = events
      BY <2>1
    <2>2. ASSUME NEW c \in Clients, Commit(c)
          PROVE  /\ events' = events \cup {req[c]}
                 /\ LET S == RowsOf(req[c].trace_id, events) IN
                      IF S = {} THEN req[c].previous_event_hash = Genesis
                      ELSE req[c].previous_event_hash = Latest(S).event_hash
      BY <1>1, <2>2, CommitEffect
    <2>3. ASSUME NEW c \in Clients, Commit(c)
          PROVE  ~Damaged(req[c].trace_id)
      BY <1>1, <2>3, CommitEffect DEF Fits
    <2> QED
      BY <1>1, <2>1, <2>2, <2>3, OnlyCommitsAppend
  <1> QED
    BY <1>1, StoreInvariant, PTL DEF Spec, AppendOnly

(* A read that finds rows and head in agreement has the whole current stream,  *)
(* whatever was committed between its two statements.                          *)
LEMMA AgreementMeansCurrent ==
  ASSUME StoreInv, NEW c \in Clients, pc[c] = "selected",
         ReadValid(rows[c], req[c].trace_id)
  PROVE  {r.event : r \in rows[c]} = RowsOf(req[c].trace_id, events)
  <1> DEFINE t == req[c].trace_id
             S == RowsOf(t, events)
             R == {r.event : r \in rows[c]}
  <1>1. /\ t \in Traces /\ R \subseteq S
        /\ R # {} => \E m \in R : IsLast(m, R)
        /\ \A e \in S \ R, f \in R : f.sequence_no < e.sequence_no
    BY DEF StoreInv, Reading
  <1>2. IndexAgrees(R, streams[t])
    BY DEF ReadValid
  <1>3. GoodStream(S, streams[t]) /\ S \in SUBSET Envelope
    BY <1>1, EventsAssumption DEF StoreInv, TypeOK, RowsOf
  <1> HIDE DEF R, S, t
  <1>4. CASE R = {}
    <2>1. streams[t] = NoHead
      BY <1>2, <1>4 DEF IndexAgrees
    <2>2. S = {}
      BY <1>3, <2>1, HeadIsNotNoHead DEF GoodStream
    <2> QED
      BY <1>4, <2>2 DEF R, S, t
  <1>5. CASE R # {}
    <2>1. PICK m \in R : IsLast(m, R)
      BY <1>1, <1>5
    <2>2. SequencesUnique(R) /\ R \in SUBSET Envelope
      BY <1>1, <1>3 DEF GoodStream, SequencesUnique
    <2>3. streams[t] = HeadOf(m)
      BY <1>2, <1>5, <2>1, <2>2, LatestIsLast DEF IndexAgrees
    <2>4. PICK n \in S : IsLast(n, S) /\ streams[t] = HeadOf(n)
      BY <1>1, <1>3, <1>5 DEF GoodStream
    <2>5. m.sequence_no = n.sequence_no
      BY <2>3, <2>4 DEF HeadOf
    <2>6. \A e \in S : e.sequence_no <= m.sequence_no /\ e.sequence_no \in Nat
      BY <1>3, <2>4, <2>5 DEF IsLast, Envelope
    <2>7. m.sequence_no \in Nat
      BY <2>2 DEF Envelope
    <2>8. S \ R = {}
      BY <1>1, <2>1, <2>6, <2>7
    <2> QED
      BY <1>1, <2>8 DEF R, S, t
  <1> QED
    BY <1>4, <1>5

(* A read that succeeds returns the whole stream as it is at its last statement. *)
THEOREM ReadsReturnTheStream == Spec => ReadsAreCurrent
  <1>1. ASSUME StoreInv, [Next]_vars
        PROVE  \A c \in Clients : pc[c] = "selected" /\ pc'[c] = "idle" /\ outcome'[c] = "ok" =>
                 {r.event : r \in rows[c]} = RowsOf(req[c].trace_id, events)
    <2> SUFFICES ASSUME NEW c \in Clients, pc[c] = "selected", pc'[c] = "idle", outcome'[c] = "ok"
                 PROVE  {r.event : r \in rows[c]} = RowsOf(req[c].trace_id, events)
      OBVIOUS
    <2>1. SelectHead(c)
      BY <1>1 DEF StoreInv, TypeOK, Next, ClientStep, Begin, SelectRows, Check, Rollback, InsertStream,
                  InsertEvent, UpdateHead, Commit, Return, SelectHead, Crash, DamageRow, DamageHead,
                  Step, Writing, vars
    <2>2. ReadValid(rows[c], req[c].trace_id)
      BY <2>1, <1>1 DEF SelectHead, StoreInv, TypeOK
    <2> QED
      BY <1>1, <2>2, AgreementMeansCurrent
  <1> QED
    BY <1>1, StoreInvariant, PTL DEF Spec, ReadsAreCurrent

----------------------------------------------------------------------------
(* A client inside an append has not been told how its call ended. *)
WritersUndecided == \A c \in Clients : pc[c] \in Writing => outcome[c] = "none"

LEMMA WritersUndecidedStep ==
  ASSUME StoreInv, WritersUndecided, [Next]_vars
  PROVE  WritersUndecided'
  <1>1. /\ pc \in [Clients -> Steps] /\ outcome \in [Clients -> Outcomes]
    BY DEF StoreInv, TypeOK
  <1>2. CASE UNCHANGED <<pc, outcome>>
    BY <1>2 DEF WritersUndecided
  <1>3. ASSUME NEW c \in Clients,
               /\ pc[c] \in Writing /\ UNCHANGED outcome
               /\ \E to \in Steps : pc' = [pc EXCEPT ![c] = to]
        PROVE  WritersUndecided'
    BY <1>1, <1>3 DEF WritersUndecided
  <1>4. ASSUME NEW c \in Clients, NEW to \in Steps, NEW result,
               pc' = [pc EXCEPT ![c] = to], outcome' = [outcome EXCEPT ![c] = result],
               to \in Writing => result = "none"
        PROVE  WritersUndecided'
    BY <1>1, <1>4 DEF WritersUndecided
  <1>5. ASSUME NEW c \in Clients, NEW result, Rollback(c, result) PROVE WritersUndecided'
    BY <1>4, <1>5 DEF Rollback, Steps, Writing
  <1>6. ASSUME NEW c \in Clients, NEW e \in Events, Begin(c, e) PROVE WritersUndecided'
    BY <1>4, <1>6 DEF Begin, Step, Steps, Writing
  <1>7. ASSUME NEW c \in Clients, NEW t \in Traces, SelectRows(c, t) PROVE WritersUndecided'
    BY <1>4, <1>7 DEF SelectRows, Step, Steps, Writing
  <1>8. ASSUME NEW c \in Clients, ClientStep(c) PROVE WritersUndecided'
    <2>1. CASE Check(c)
      BY <1>3, <1>5, <2>1 DEF Check, Step, Steps, Writing
    <2>2. CASE InsertStream(c)
      BY <1>3, <2>2 DEF InsertStream, Step, Steps, Writing
    <2>3. CASE InsertEvent(c)
      BY <1>3, <1>5, <2>3 DEF InsertEvent, Step, Steps, Writing
    <2>4. CASE UpdateHead(c)
      BY <1>3, <2>4 DEF UpdateHead, Step, Steps, Writing
    <2>5. CASE Commit(c)
      BY <1>3, <2>5 DEF Commit, Step, Steps, Writing
    <2>6. CASE Return(c)
      BY <1>4, <2>6 DEF Return, Step, Steps, Writing
    <2>7. CASE SelectHead(c)
      BY <1>4, <2>7 DEF SelectHead, Step, Steps, Writing
    <2> QED
      BY <1>8, <2>1, <2>2, <2>3, <2>4, <2>5, <2>6, <2>7 DEF ClientStep
  <1>9. ASSUME NEW c \in Clients, Crash(c) PROVE WritersUndecided'
    BY <1>4, <1>9 DEF Crash, Steps, Writing
  <1>10. CASE (\E e \in events, kind \in Kinds : DamageRow(e, kind)) \/ \E t \in Traces : DamageHead(t)
    BY <1>2, <1>10 DEF DamageRow, DamageHead
  <1>11. CASE UNCHANGED vars
    BY <1>2, <1>11 DEF vars
  <1> QED
    BY <1>6, <1>7, <1>8, <1>9, <1>10, <1>11 DEF Next

(* The event of a writer that violates a key is stored under its identifier: its *)
(* place in the trace is still free and its digest is its own.                   *)
LEMMA ViolationMeansStored ==
  ASSUME StoreInv, NEW c \in Clients, pc[c] = "indexed", UniqueViolation(req[c], work.events)
  PROVE  \E f \in events : f.event_id = req[c].event_id
  <1> DEFINE e == req[c]
  <1>1. work.events = events /\ Fits(e)
    BY DEF StoreInv, Transaction
  <1>2. PICK f \in events : \/ f.event_id = e.event_id
                            \/ f.event_hash = e.event_hash
                            \/ f.trace_id = e.trace_id /\ f.sequence_no = e.sequence_no
    BY <1>1 DEF UniqueViolation
  <1>3. e \in Events /\ f \in Events /\ e \in Envelope /\ f \in Envelope
    BY EventsAssumption DEF StoreInv, TypeOK, Writing
  <1>4. CASE f.event_hash = e.event_hash
    <2>1. f \in RowsOf(f.trace_id, events) /\ f.trace_id \in Traces
      BY <1>3 DEF RowsOf, Envelope
    <2>2. verify_event(f) /\ verify_event(e)
      BY <1>1, <2>1 DEF StoreInv, GoodStream, verify_chain, Fits
    <2>3. Digest(e) = Digest(f)
      BY <1>4, <2>2 DEF verify_event
    <2> HIDE DEF e
    <2>4. f.event_id = e.event_id
      BY <1>3, <2>3, DigestAssumption
    <2> QED
      BY <1>3, <2>4 DEF e
  <1>5. CASE f.trace_id = e.trace_id /\ f.sequence_no = e.sequence_no
    <2> DEFINE S == RowsOf(e.trace_id, events)
    <2>1. f \in S /\ S \in SUBSET Envelope /\ e.trace_id \in Traces
      BY <1>3, <1>5, EventsAssumption DEF RowsOf, Envelope, StoreInv, TypeOK
    <2>2. GoodStream(S, streams[e.trace_id])
      BY <2>1 DEF StoreInv
    <2>3. f.sequence_no < e.sequence_no
      <3> HIDE DEF S
      <3> QED
        BY <1>1, <1>3, <2>1, <2>2, AppendKeepsGood DEF Fits
    <2> QED
      BY <1>3, <1>5, <2>3 DEF Envelope
  <1> QED
    BY <1>2, <1>4, <1>5

(* "duplicate" is only answered where an event of that identifier is stored. *)
THEOREM DuplicatesAreStored == Spec => DuplicateMeansStored
  <1>1. Init => WritersUndecided
    BY DEF Init, WritersUndecided, Writing
  <1>2. StoreInv /\ WritersUndecided /\ [Next]_vars => WritersUndecided'
    BY WritersUndecidedStep
  <1>3. ASSUME StoreInv, WritersUndecided, [Next]_vars
        PROVE  \A c \in Clients : pc[c] \in Writing /\ outcome'[c] = "duplicate" =>
                 \E f \in events : f.event_id = req[c].event_id
    <2> SUFFICES ASSUME NEW c \in Clients, pc[c] \in Writing, outcome'[c] = "duplicate"
                 PROVE  \E f \in events : f.event_id = req[c].event_id
      OBVIOUS
    <2>1. outcome[c] = "none" /\ outcome \in [Clients -> Outcomes]
      BY <1>3 DEF WritersUndecided, StoreInv, TypeOK
    <2>2. Check(c) \/ InsertEvent(c)
      BY <1>3, <2>1 DEF Next, ClientStep, Begin, SelectRows, Check, Rollback, InsertStream, InsertEvent,
         UpdateHead, Commit, Return, SelectHead, Crash, DamageRow, DamageHead, tables, Step, vars
    <2>3. CASE Check(c)
      <3>1. pc[c] = "begun" /\ AppendChecks(c) = "duplicate"
        BY <2>1, <2>3 DEF Check, Rollback
      <3>2. \E f \in RowsOf(req[c].trace_id, work.events) : f.event_id = req[c].event_id
        BY <3>1 DEF AppendChecks
      <3>3. work.events = events
        BY <1>3, <3>1 DEF StoreInv, Transaction
      <3> QED
        BY <3>2, <3>3 DEF RowsOf
    <2>4. CASE InsertEvent(c)
      <3>1. pc[c] = "indexed" /\ UniqueViolation(req[c], work.events)
        BY <2>1, <2>4 DEF InsertEvent
      <3> QED
        BY <1>3, <3>1, ViolationMeansStored
    <2> QED
      BY <2>2, <2>3, <2>4
  <1> QED
    BY <1>1, <1>2, <1>3, StoreInvariant, PTL DEF Spec, DuplicateMeansStored
=============================================================================
