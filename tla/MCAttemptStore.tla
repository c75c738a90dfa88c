--------------------------- MODULE MCAttemptStore ---------------------------
(* Sessions of at most two events; one read at a time among any writers. *)
EXTENDS AttemptStore, TLC

EventSymmetry == Permutations(EventIds)
=============================================================================
