----------------------------- MODULE EventStore -----------------------------
(***************************************************************************)
(* The SQLite event store, used by several clients that each hold their own*)
(* connection to one database file.                                        *)
(*                                                                         *)
(* `events` and `streams` are the committed contents of the two tables:    *)
(* the stored envelopes, and for each trace the revision and head that     *)
(* event_streams keeps beside them.  BEGIN IMMEDIATE admits one writer,    *)
(* whose statements go to `work` until COMMIT; reads of other clients see  *)
(* the committed tables, one statement at a time (the connections are in   *)
(* autocommit mode).  A client may die at any point of an append; SQLite   *)
(* then discards what was not committed.                                   *)
(*                                                                         *)
(* `damage` marks rows changed behind the store's back: "representation"   *)
(* for an envelope that no longer parses or disagrees with its index       *)
(* columns, "content" for an envelope whose digest no longer matches;      *)
(* `bad_heads` the traces whose event_streams row was changed.             *)
(***************************************************************************)
EXTENDS Naturals, FiniteSets

CONSTANTS
  Clients, NoClient,
  Traces, EventIds, Revisions,
  Hashes, Genesis,       \* event digests, and the hash a stream starts from
  Digest(_),             \* compute_event_hash
  Events,                \* the envelopes clients may try to append
  MaxDamage              \* bound on damaged rows and heads

Envelope ==
  [event_id : EventIds, trace_id : Traces, puzzle_revision_id : Revisions,
   sequence_no : Nat, previous_event_hash : Hashes, event_hash : Hashes]
StreamHead == [puzzle_revision_id : Revisions, latest_sequence : Nat, latest_event_hash : Hashes]
NoHead == [latest_sequence |-> "none"]

ASSUME EventsAssumption == Events \subseteq Envelope
ASSUME ClientAssumption == NoClient \notin Clients

(* SHA-256 over every other field of the envelope: no collisions. *)
ASSUME DigestAssumption == \A e, f \in Events : Digest(e) = Digest(f) => e.event_id = f.event_id

VARIABLES
  events, streams,       \* the committed tables
  damage, bad_heads,
  lock,                  \* the client inside a write transaction
  work,                  \* the tables as that client sees them
  pc, req,               \* each client's next step and the event or trace it is about
  rows,                  \* what a client's SELECT over events returned
  outcome,               \* how each client's last call ended
  acked                  \* events whose append returned

tables == <<events, streams>>
vars == <<events, streams, damage, bad_heads, lock, work, pc, req, rows, outcome, acked>>

Kinds == {"representation", "content"}
Outcomes == {"none", "ok", "duplicate", "conflict", "integrity_error"}
Writing == {"begun", "verified", "indexed", "inserted", "updated"}
Steps == Writing \cup {"idle", "committed", "selected"}

Reads == [trace_id : Traces]
NoRequest == [trace_id |-> "none"]

RowsOf(t, es) == {e \in es : e.trace_id = t}
HeadOf(e) ==
  [puzzle_revision_id |-> e.puzzle_revision_id, latest_sequence |-> e.sequence_no,
   latest_event_hash |-> e.event_hash]
Latest(S) == CHOOSE e \in S : \A f \in S : f.sequence_no <= e.sequence_no

verify_event(e) == e.event_hash = Digest(e)

(* verify_chain on the undamaged rows of one trace in sequence order. *)
verify_chain(S) ==
  \A e \in S :
    /\ verify_event(e)
    /\ \/ e.sequence_no = 0 /\ e.previous_event_hash = Genesis
       \/ \E p \in S : /\ e.sequence_no = p.sequence_no + 1
                       /\ e.previous_event_hash = p.event_hash
                       /\ e.puzzle_revision_id = p.puzzle_revision_id

(* _validate_stream_index: the head kept for a trace is that of its last row. *)
IndexAgrees(S, head) ==
  IF S = {} THEN head = NoHead ELSE head = HeadOf(Latest(S))

DamagedRows(S, kind) == {e \in S : <<e, kind>> \in damage}

(* _load_stream and verify_chain accept a trace's rows and head. *)
StreamValid(t, S, head) ==
  /\ \A kind \in Kinds : DamagedRows(S, kind) = {}
  /\ t \notin bad_heads
  /\ IndexAgrees(S, head)
  /\ verify_chain(S)

----------------------------------------------------------------------------
(* The tables only hold envelopes that were submitted, unaltered, and a client inside *)
(* an append knows its event.                                                         *)
TypeOK ==
  /\ events \subseteq Events
  /\ streams \in [Traces -> StreamHead \cup {NoHead}]
  /\ damage \subseteq events \X Kinds
  /\ bad_heads \subseteq Traces
  /\ lock \in Clients \cup {NoClient}
  /\ work \in [events : SUBSET Events, streams : [Traces -> StreamHead \cup {NoHead}]]
  /\ pc \in [Clients -> Steps]
  /\ req \in [Clients -> Events \cup Reads \cup {NoRequest}]
  /\ rows \in [Clients -> SUBSET [event : Events, damage : SUBSET Kinds]]
  /\ \A c \in Clients : pc[c] \in Writing \cup {"committed"} => req[c] \in Events
  /\ outcome \in [Clients -> Outcomes]
  /\ acked \subseteq Events

Init ==
  /\ events = {}
  /\ streams = [t \in Traces |-> NoHead]
  /\ damage = {}
  /\ bad_heads = {}
  /\ lock = NoClient
  /\ work = [events |-> {}, streams |-> [t \in Traces |-> NoHead]]
  /\ pc = [c \in Clients |-> "idle"]
  /\ req = [c \in Clients |-> NoRequest]
  /\ rows = [c \in Clients |-> {}]
  /\ outcome = [c \in Clients |-> "none"]
  /\ acked = {}

----------------------------------------------------------------------------
(* append *)

Step(c, from, to) == pc[c] = from /\ pc' = [pc EXCEPT ![c] = to]

(* BEGIN IMMEDIATE.  An event with a wrong digest is refused before, and a lock  *)
(* that stays taken for the busy timeout makes BEGIN raise: neither changes      *)
(* anything.                                                                     *)
Begin(c, e) ==
  /\ Step(c, "idle", "begun")
  /\ verify_event(e)
  /\ lock = NoClient
  /\ req' = [req EXCEPT ![c] = e]
  /\ lock' = c
  /\ work' = [events |-> events, streams |-> streams]
  /\ outcome' = [outcome EXCEPT ![c] = "none"]
  /\ UNCHANGED <<tables, damage, bad_heads, rows, acked>>

(* Mutant: the transaction stays open when a check fails. *)
Rollback_Missing(c, result) ==
  /\ pc' = [pc EXCEPT ![c] = "idle"]
  /\ req' = [req EXCEPT ![c] = NoRequest]
  /\ outcome' = [outcome EXCEPT ![c] = result]
  /\ UNCHANGED <<tables, damage, bad_heads, lock, work, rows, acked>>

(* Every exception after BEGIN rolls the transaction back. *)
Rollback(c, result) ==
  /\ pc' = [pc EXCEPT ![c] = "idle"]
  /\ req' = [req EXCEPT ![c] = NoRequest]
  /\ lock' = NoClient
  /\ work' = [events |-> events, streams |-> streams]
  /\ outcome' = [outcome EXCEPT ![c] = result]
  /\ UNCHANGED <<tables, damage, bad_heads, rows, acked>>

validate_genesis(e) == e.sequence_no = 0 /\ e.previous_event_hash = Genesis

validate_continuation(e, head) ==
  /\ e.puzzle_revision_id = head.puzzle_revision_id
  /\ e.sequence_no = head.latest_sequence + 1
  /\ e.previous_event_hash = head.latest_event_hash

(* Mutant: the stored stream is trusted. *)
ExistingStreamValid_Trusted(c) == TRUE

ExistingStreamValid(c) ==
  LET t == req[c].trace_id IN StreamValid(t, RowsOf(t, work.events), work.streams[t])

(* Mutant: losing the race for the head is reported as a duplicate. *)
AppendChecks_ConflictAsDuplicate(c) ==
  LET e == req[c] IN
  IF ~ExistingStreamValid(c) THEN "integrity_error"
  ELSE IF (IF work.streams[e.trace_id] = NoHead THEN validate_genesis(e)
           ELSE validate_continuation(e, work.streams[e.trace_id])) THEN "ok"
  ELSE "duplicate"

(* The checks between BEGIN and the first INSERT, in order; "ok" admits the event. *)
AppendChecks(c) ==
  LET e == req[c] IN
  IF ~ExistingStreamValid(c) THEN "integrity_error"
  ELSE IF \E f \in RowsOf(e.trace_id, work.events) : f.event_id = e.event_id THEN "duplicate"
  ELSE IF (IF work.streams[e.trace_id] = NoHead THEN validate_genesis(e)
           ELSE validate_continuation(e, work.streams[e.trace_id])) THEN "ok"
  ELSE "conflict"

Check(c) ==
  /\ pc[c] = "begun"
  /\ IF AppendChecks(c) = "ok"
     THEN /\ Step(c, "begun", "verified")
          /\ UNCHANGED <<tables, damage, bad_heads, lock, work, req, rows, outcome, acked>>
     ELSE Rollback(c, AppendChecks(c))

(* INSERT INTO event_streams, for the first event of a trace. *)
InsertStream(c) ==
  /\ Step(c, "verified", "indexed")
  /\ work' = [events  |-> work.events,
              streams |-> [work.streams EXCEPT ![req[c].trace_id] =
                             IF @ = NoHead THEN HeadOf(req[c]) ELSE @]]
  /\ UNCHANGED <<tables, damage, bad_heads, lock, req, rows, outcome, acked>>

(* The keys of the events table. *)
UniqueViolation(e, es) ==
  \E f \in es :
    \/ f.event_id = e.event_id
    \/ f.event_hash = e.event_hash
    \/ f.trace_id = e.trace_id /\ f.sequence_no = e.sequence_no

InsertEvent(c) ==
  /\ pc[c] = "indexed"
  /\ IF UniqueViolation(req[c], work.events)
     THEN Rollback(c, "duplicate")
     ELSE /\ Step(c, "indexed", "inserted")
          /\ work' = [events |-> work.events \cup {req[c]}, streams |-> work.streams]
          /\ UNCHANGED <<tables, damage, bad_heads, lock, req, rows, outcome, acked>>

(* Mutant: the stream head is left where it was. *)
UpdateHead_Forgotten(c) ==
  /\ Step(c, "inserted", "updated")
  /\ UNCHANGED <<tables, damage, bad_heads, lock, work, req, rows, outcome, acked>>

UpdateHead(c) ==
  /\ Step(c, "inserted", "updated")
  /\ work' = [events  |-> work.events,
              streams |-> [work.streams EXCEPT ![req[c].trace_id] =
                             [puzzle_revision_id |-> @.puzzle_revision_id,
                              latest_sequence    |-> req[c].sequence_no,
                              latest_event_hash  |-> req[c].event_hash]]]
  /\ UNCHANGED <<tables, damage, bad_heads, lock, req, rows, outcome, acked>>

(* Mutant: a COMMIT that fails goes unnoticed. *)
Commit_Swallowed(c) ==
  /\ Step(c, "updated", "committed")
  /\ lock' = NoClient
  /\ work' = [events |-> events, streams |-> streams]
  /\ UNCHANGED <<tables, damage, bad_heads, req, rows, outcome, acked>>

Commit(c) ==
  /\ Step(c, "updated", "committed")
  /\ events' = work.events
  /\ streams' = work.streams
  /\ lock' = NoClient
  /\ UNCHANGED <<damage, bad_heads, work, req, rows, outcome, acked>>

Return(c) ==
  /\ Step(c, "committed", "idle")
  /\ acked' = acked \cup {req[c]}
  /\ outcome' = [outcome EXCEPT ![c] = "ok"]
  /\ req' = [req EXCEPT ![c] = NoRequest]
  /\ UNCHANGED <<tables, damage, bad_heads, lock, work, rows>>

(* A client dies inside an append and comes back, not knowing how it ended. *)
Crash(c) ==
  /\ pc[c] \in Writing \cup {"committed"}
  /\ pc' = [pc EXCEPT ![c] = "idle"]
  /\ req' = [req EXCEPT ![c] = NoRequest]
  /\ outcome' = [outcome EXCEPT ![c] = "none"]
  /\ lock' = IF lock = c THEN NoClient ELSE lock
  /\ work' = IF lock = c THEN [events |-> events, streams |-> streams] ELSE work
  /\ UNCHANGED <<tables, damage, bad_heads, rows, acked>>

----------------------------------------------------------------------------
(* read_stream: two statements, each on the tables as they are at that moment. *)

SelectRows(c, t) ==
  /\ Step(c, "idle", "selected")
  /\ req' = [req EXCEPT ![c] = [trace_id |-> t]]
  /\ rows' = [rows EXCEPT ![c] =
                {[event |-> e, damage |-> {k \in Kinds : <<e, k>> \in damage}] : e \in RowsOf(t, events)}]
  /\ outcome' = [outcome EXCEPT ![c] = "none"]
  /\ UNCHANGED <<tables, damage, bad_heads, lock, work, acked>>

(* Mutant: the head kept beside the rows is not looked at. *)
ReadValid_RowsOnly(S, t) == verify_chain({r.event : r \in S}) /\ \A r \in S : r.damage = {}

ReadValid(S, t) ==
  /\ \A r \in S : r.damage = {}
  /\ t \notin bad_heads
  /\ IndexAgrees({r.event : r \in S}, streams[t])
  /\ verify_chain({r.event : r \in S})

SelectHead(c) ==
  /\ Step(c, "selected", "idle")
  /\ outcome' = [outcome EXCEPT ![c] =
                   IF ReadValid(rows[c], req[c].trace_id) THEN "ok" ELSE "integrity_error"]
  /\ req' = [req EXCEPT ![c] = NoRequest]
  /\ rows' = [rows EXCEPT ![c] = {}]
  /\ UNCHANGED <<tables, damage, bad_heads, lock, work, acked>>

----------------------------------------------------------------------------
(* Damage to the file from outside the store; it needs the write lock too. *)

DamageAllowed ==
  /\ lock = NoClient
  /\ Cardinality(damage) + Cardinality(bad_heads) < MaxDamage

DamageRow(e, kind) ==
  /\ DamageAllowed
  /\ damage' = damage \cup {<<e, kind>>}
  /\ UNCHANGED <<tables, bad_heads, lock, work, pc, req, rows, outcome, acked>>

DamageHead(t) ==
  /\ DamageAllowed
  /\ streams[t] # NoHead
  /\ bad_heads' = bad_heads \cup {t}
  /\ UNCHANGED <<tables, damage, lock, work, pc, req, rows, outcome, acked>>

ClientStep(c) ==
  \/ Check(c)
  \/ InsertStream(c)
  \/ InsertEvent(c)
  \/ UpdateHead(c)
  \/ Commit(c)
  \/ Return(c)
  \/ SelectHead(c)

Next ==
  \/ \E c \in Clients :
       \/ \E e \in Events : Begin(c, e)
       \/ \E t \in Traces : SelectRows(c, t)
       \/ ClientStep(c)
       \/ Crash(c)
  \/ \E e \in events, kind \in Kinds : DamageRow(e, kind)
  \/ \E t \in Traces : DamageHead(t)

Spec == Init /\ [][Next]_vars

(* A client inside a call keeps executing its statements, or dies. *)
FairSpec == Spec /\ \A c \in Clients : WF_vars(ClientStep(c))

----------------------------------------------------------------------------
(* Properties. *)

(* Whatever clients submit, in whatever order they get the lock and wherever they *)
(* die, each trace is one unbroken chain of one revision and its head row is that *)
(* of its last event.                                                             *)
StreamsAreChains ==
  \A t \in Traces :
    /\ verify_chain(RowsOf(t, events))
    /\ IndexAgrees(RowsOf(t, events), streams[t])
    /\ \A e, f \in RowsOf(t, events) : e.sequence_no = f.sequence_no => e = f

(* An identifier names one event in the whole database, across traces. *)
EventIdsAreUnique == \A e, f \in events : e.event_id = f.event_id => e = f

(* An event whose append returned is stored, crashes or not. *)
AcknowledgedDurable == acked \subseteq events

Damaged(t) == t \in bad_heads \/ \E e \in RowsOf(t, events), k \in Kinds : <<e, k>> \in damage

(* The history is append-only, one event per commit, on top of the head that   *)
(* was there, and a stream that has been tampered with no longer grows.        *)
AppendOnly ==
  [][/\ events \subseteq events'
     /\ \A e \in events' \ events :
          /\ events' = events \cup {e}
          /\ ~Damaged(e.trace_id)
          /\ IF RowsOf(e.trace_id, events) = {} THEN e.previous_event_hash = Genesis
             ELSE e.previous_event_hash = Latest(RowsOf(e.trace_id, events)).event_hash]_vars

(* A read that succeeds returns the whole stream as it is when the read ends,  *)
(* though it takes two statements and writers commit in between.               *)
ReadsAreCurrent ==
  [][\A c \in Clients : pc[c] = "selected" /\ pc'[c] = "idle" /\ outcome'[c] = "ok" =>
       {r.event : r \in rows[c]} = RowsOf(req[c].trace_id, events)]_vars

(* A client that retries an append whose fate it does not know is told           *)
(* "duplicate" only if an event of that identifier is stored.                    *)
DuplicateMeansStored ==
  [][\A c \in Clients : pc[c] \in Writing /\ outcome'[c] = "duplicate" =>
       \E f \in events : f.event_id = req[c].event_id]_vars

(* The write lock is given back: no failed check and no crash keeps it. *)
LockReleased == []<>(lock = NoClient)

(* docs: reads reject disagreement between the stored representations.  A read  *)
(* that refuses a stream has met damage.                                        *)
ReadsRefuseOnlyDamage ==
  [][\A c \in Clients : pc[c] = "selected" /\ pc'[c] = "idle" /\ outcome'[c] = "integrity_error" =>
       Damaged(req[c].trace_id)]_vars
=============================================================================
