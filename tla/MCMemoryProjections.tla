------------------------ MODULE MCMemoryProjections -------------------------
(* Two attempts of one user, two novelty streams of which one index may use     *)
(* only one, and an artifact stream.                                            *)
EXTENDS MemoryProjections, TLC

MCStreamKind == [a1 |-> "attempt", a2 |-> "attempt", n1 |-> "novelty", n2 |-> "novelty",
                 r |-> "artifact"]
MCAttemptOf == [a1 |-> 1, a2 |-> 2]
MCUserOf == [a1 |-> "u", a2 |-> "u"]

Played(kind, s, rule) == [kind |-> kind, attempt_id |-> MCAttemptOf[s], rule_id |-> rule]
Rating(s, n) == [kind |-> "self_assessment_recorded", attempt_id |-> MCAttemptOf[s],
                 rule_id |-> "none", rating |-> n]

(* The first attempt is played with two rules, rated and completed; the second   *)
(* is explained, viewed again and abandoned, and an event of the first attempt   *)
(* may end up in its stream.                                                     *)
MCPayloads(s) ==
  CASE s = "a1" ->
         {Played("move_accepted", s, "r1"), Played("move_accepted", s, "none"),
          Played("hint_revealed", s, "r2"), Rating(s, 5), Played("attempt_completed", s, "none")}
    [] s = "a2" ->
         {Played("move_accepted", s, "r1"), Played("move_rejected", s, "r1"),
          Played("step_explained", s, "r2"), Played("replay_viewed", s, "none"),
          Played("attempt_abandoned", s, "none"), Played("hint_revealed", "a1", "r1"),
          AttemptStarted(s)}
    [] s = "n1" ->
         {[kind |-> "novelty_entry_recorded", id |-> "p", fingerprint |-> 1],
          [kind |-> "novelty_entry_recorded", id |-> "p", fingerprint |-> 2],
          [kind |-> "novelty_entry_recorded", id |-> "q", fingerprint |-> 1],
          [kind |-> "novelty_entry_removed", id |-> "p"]}
    [] s = "n2" -> {[kind |-> "novelty_entry_recorded", id |-> "q", fingerprint |-> 1]}
    [] s = "r" ->
         {[kind |-> "artifact_recorded", id |-> "x"], [kind |-> "artifact_recorded", id |-> "y"],
          [kind |-> "artifact_superseded", id |-> "x", replacement |-> "y"],
          [kind |-> "artifact_removed", id |-> "y"]}
=============================================================================
