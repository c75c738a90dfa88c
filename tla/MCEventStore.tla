---------------------------- MODULE MCEventStore ----------------------------
(* Two clients and two traces.  A digest is the chain of contents it commits   *)
(* to, so that equal digests mean equal events.                                *)
EXTENDS EventStore, Sequences, TLC

MCDigest(e) ==
  Append(e.previous_event_hash, <<e.event_id, e.trace_id, e.puzzle_revision_id, e.sequence_no>>)

MCGenesis == <<>>
MCTraces == {"t1", "t2"}
MCEventIds == {"a", "b", "c", "d"}
MCRevisions == {"r1", "r2"}

Seal(id, t, r, n, prev) ==
  LET e == [event_id |-> id, trace_id |-> t, puzzle_revision_id |-> r, sequence_no |-> n,
            previous_event_hash |-> prev]
  IN  [event_id |-> id, trace_id |-> t, puzzle_revision_id |-> r, sequence_no |-> n,
       previous_event_hash |-> prev, event_hash |-> MCDigest(e)]

First == Seal("a", "t1", "r1", 0, <<>>)
Second == Seal("b", "t1", "r1", 1, First.event_hash)

(* A stream of three; rivals for its first and second place; the second event   *)
(* under another revision; an identifier reused in another trace; an event that *)
(* follows a rival; one whose digest is wrong.                                  *)
MCEvents ==
  {First, Second, Seal("c", "t1", "r1", 2, Second.event_hash),
   Seal("d", "t1", "r1", 0, <<>>),
   Seal("d", "t1", "r1", 1, First.event_hash),
   Seal("d", "t1", "r2", 1, First.event_hash),
   Seal("a", "t2", "r1", 0, <<>>),
   Seal("c", "t1", "r1", 1, Seal("d", "t1", "r1", 0, <<>>).event_hash),
   [First EXCEPT !.event_id = "c"]}

MCHashes == {e.event_hash : e \in MCEvents} \cup {e.previous_event_hash : e \in MCEvents}
=============================================================================
