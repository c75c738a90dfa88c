---------------------------- MODULE PlaySession -----------------------------
(***************************************************************************)
(* One play attempt at a Logic Grid puzzle: families/logic_grid/play.py.   *)
(*                                                                         *)
(* A session keeps the marks on the grid beside the history they came      *)
(* from.  `moves` is the retained move graph: each accepted cell action    *)
(* with the move that was active when it was applied.  Cell actions update *)
(* the marks in place; undo, redo and restoring a checkpoint move the      *)
(* cursor `head` and project the marks anew from the active path.          *)
(*                                                                         *)
(* Event identifiers are unique, so an event is named by its place in the  *)
(* history, counting from 1; NoMove is the head before the first move.     *)
(* Rejected outcomes and those that are no moves only take a place in it.  *)
(***************************************************************************)
EXTENDS ReasoningState

CONSTANTS
  puzzle,                      \* the puzzle's domains and givens
  NoValue,                     \* an item without a row
  ClueModels,                  \* assignments that satisfy every normalized clue
  Names,                       \* checkpoint names, equal when they casefold alike
  MAX_PLAY_EVENTS

(* The fixed marks: <<variable, value>> cells.  The sets of all-different variables *)
(* are the categories, the values the rows of the anchor category.                  *)
assigned_givens == CellsOf(Givens(puzzle), "assignment")
excluded_givens == CellsOf(Givens(puzzle), "exclusion")

Modes == {"strict", "soft", "deferred", "exam"}
NoMove == 0

(* What _validate_givens demands of a puzzle. *)
ValidGivens ==
  /\ Givens(puzzle) \subseteq CellAtoms
  /\ assigned_givens \cap excluded_givens = {}
  /\ \A c, d \in assigned_givens : c[1] = d[1] => c = d
  /\ \A C \in AllDifferent, c, d \in assigned_givens :
       {c[1], d[1]} \subseteq C /\ c[2] = d[2] => c = d
  /\ \E anchor \in AllDifferent : \A x \in anchor : \E v \in Values : <<x, v>> \in assigned_givens

ASSUME GivensAssumption == ValidGivens
ASSUME SessionAssumption == NoValue \notin Values /\ MAX_PLAY_EVENTS \in Nat

VARIABLES
  mode, status,
  marks,        \* [assignments, exclusions]
  conflicts,    \* the structural conflicts shown to the player
  checkpoints,
  head,         \* active_move_id
  moves,        \* accepted cell actions by event, each with its parent
  count         \* number of events

session == <<mode, status, marks, conflicts, checkpoints, head, moves, count>>

Marks == [assignments : [Variables -> Values \cup {NoValue}], exclusions : SUBSET Cells]
CellActions == [kind : {"assign", "exclude", "clear"}, cell : Cells]
Move == [parent : Nat, action : CellActions]
Checkpoint == [checkpoint_id : Nat, name : Names, move_id : Nat, captured : Marks]
Conflict == [code : {"no_candidate"}, references : Variables]
              \cup [code : {"duplicate_row"}, references : AllDifferent \X Values]

----------------------------------------------------------------------------
(* Marks *)

given_marks ==
  [assignments |-> [x \in Variables |->
                      IF \E v \in Values : <<x, v>> \in assigned_givens
                      THEN CHOOSE v \in Values : <<x, v>> \in assigned_givens ELSE NoValue],
   exclusions  |-> excluded_givens]

(* Mutant: excluding a cell leaves it assigned. *)
apply_cell_action_KeepAssigned(m, a) ==
  LET x == a.cell[1]
      v == a.cell[2]
  IN  [assignments |-> [m.assignments EXCEPT ![x] =
                          IF a.kind = "assign" THEN v
                          ELSE IF a.kind = "clear" /\ @ = v THEN NoValue ELSE @],
       exclusions  |-> IF a.kind = "exclude" THEN m.exclusions \cup {a.cell}
                       ELSE m.exclusions \ {a.cell}]

apply_cell_action(m, a) ==
  LET x == a.cell[1]
      v == a.cell[2]
  IN  [assignments |-> [m.assignments EXCEPT ![x] =
                          IF a.kind = "assign" THEN v ELSE IF @ = v THEN NoValue ELSE @],
       exclusions  |-> IF a.kind = "exclude" THEN m.exclusions \cup {a.cell}
                       ELSE m.exclusions \ {a.cell}]

(* The marks after each retained move, along the path that led to it. *)
Projection ==
  LET after[n \in DOMAIN moves] ==
        apply_cell_action(IF moves[n].parent = NoMove THEN given_marks ELSE after[moves[n].parent],
                          moves[n].action)
  IN  after

project_marks(target) == IF target = NoMove THEN given_marks ELSE Projection[target]

progress_conflicts(m) ==
  {[code |-> "no_candidate", references |-> x] :
     x \in {y \in Variables : m.assignments[y] = NoValue /\ {y} \X Values \subseteq m.exclusions}}
  \cup
  {[code |-> "duplicate_row", references |-> p] :
     p \in {q \in AllDifferent \X Values :
              \E x, y \in q[1] : x # y /\ m.assignments[x] = q[2] /\ m.assignments[y] = q[2]}}

automatic_conflicts(m) == IF mode \in {"strict", "soft"} THEN progress_conflicts(m) ELSE {}

(* _cell_rejection, for cells of this puzzle; unknown ones are refused alike. *)
cell_locked(a) == (\E g \in assigned_givens : g[1] = a.cell[1]) \/ a.cell \in excluded_givens

check_logic_grid_solution(m) ==
  /\ \A x \in Variables : m.assignments[x] # NoValue
  /\ \A g \in assigned_givens : m.assignments[g[1]] = g[2]
  /\ \A g \in excluded_givens : m.assignments[g[1]] # g[2]
  /\ \A C \in AllDifferent : \A x, y \in C : m.assignments[x] = m.assignments[y] => x = y
  /\ m.assignments \in ClueModels

----------------------------------------------------------------------------
(* The move graph is closed and acyclic: cursor, parents and checkpoints name retained *)
(* moves, and a parent is older than its child (_active_path never raises).            *)
TypeOK ==
  /\ mode \in Modes
  /\ status \in {"active", "paused", "completed"}
  /\ marks \in Marks
  /\ conflicts \subseteq Conflict
  /\ checkpoints \subseteq Checkpoint
  /\ count \in 0..MAX_PLAY_EVENTS
  /\ DOMAIN moves \subseteq 1..count
  /\ \A n \in DOMAIN moves : /\ moves[n] \in Move
                             /\ moves[n].parent \in DOMAIN moves \cup {NoMove}
                             /\ moves[n].parent < n
  /\ head \in DOMAIN moves \cup {NoMove}
  /\ \A c \in checkpoints : c.move_id \in DOMAIN moves \cup {NoMove}

PlayInit ==
  /\ mode \in Modes
  /\ status = "active"
  /\ marks = given_marks
  /\ conflicts = {}
  /\ checkpoints = {}
  /\ head = NoMove
  /\ moves = [n \in {} |-> {}]
  /\ count = 0

----------------------------------------------------------------------------
(* Actions *)

(* Every outcome, accepted or not, is an event; at the cap the session refuses. *)
append_outcome ==
  /\ count < MAX_PLAY_EVENTS
  /\ count' = count + 1
  /\ UNCHANGED mode

Rejected ==
  /\ append_outcome
  /\ UNCHANGED <<status, marks, conflicts, checkpoints, head, moves>>

(* Mutant: completion does not close the session. *)
Closed_Never == FALSE

Closed == status = "completed"

(* What a completed session does with any action. *)
RejectClosed == Closed /\ Rejected

ResumeSession ==
  /\ ~Closed
  /\ append_outcome
  /\ status' = "active"
  /\ UNCHANGED <<marks, conflicts, checkpoints, head, moves>>

PauseSession ==
  /\ ~Closed
  /\ append_outcome
  /\ status' = "paused"
  /\ UNCHANGED <<marks, conflicts, checkpoints, head, moves>>

(* The digest of the state stands for the marks it commits to. *)
NewCheckpoint(name) ==
  [checkpoint_id |-> count + 1, name |-> name, move_id |-> head, captured |-> marks]

NameTaken(name) == \E c \in checkpoints : c.name = name

CreateCheckpoint(name) ==
  /\ ~Closed
  /\ append_outcome
  /\ checkpoints' = IF NameTaken(name) THEN checkpoints ELSE checkpoints \cup {NewCheckpoint(name)}
  /\ UNCHANGED <<status, marks, conflicts, head, moves>>

Paused == ~Closed /\ status = "paused"
Playing == ~Closed /\ ~Paused

(* While paused every other action is refused. *)
RejectPaused == Paused /\ Rejected

(* Mutant: moving the cursor keeps the conflicts of the marks it left. *)
MoveCursor_StaleConflicts(target) ==
  /\ head' = target
  /\ marks' = project_marks(target)
  /\ UNCHANGED <<status, conflicts, checkpoints, moves>>

(* Undo, redo and restore set the cursor and project marks and conflicts anew. *)
MoveCursor(target) ==
  /\ head' = target
  /\ marks' = project_marks(target)
  /\ conflicts' = automatic_conflicts(marks')
  /\ UNCHANGED <<status, checkpoints, moves>>

RestoreCheckpoint(id) ==
  /\ Playing
  /\ IF \E c \in checkpoints : c.checkpoint_id = id
     THEN append_outcome /\ \E c \in checkpoints : c.checkpoint_id = id /\ MoveCursor(c.move_id)
     ELSE Rejected

CellRefused(a) ==
  \/ cell_locked(a)
  \/ mode = "strict" /\ progress_conflicts(apply_cell_action(marks, a)) # {}

(* Mutant: the move hangs below the root of the history. *)
NewMove_Detached(a) == [parent |-> NoMove, action |-> a]

NewMove(a) == [parent |-> head, action |-> a]

Retained == DOMAIN moves

CellAction(a) ==
  /\ Playing
  /\ IF CellRefused(a) THEN Rejected
     ELSE /\ append_outcome
          /\ moves' = [n \in Retained \cup {count + 1} |->
                         IF n = count + 1 THEN NewMove(a) ELSE moves[n]]
          /\ head' = count + 1
          /\ marks' = apply_cell_action(marks, a)
          /\ conflicts' = IF mode = "soft" THEN progress_conflicts(marks') ELSE {}
          /\ UNCHANGED <<status, checkpoints>>

(* With nothing to undo the outcome is a rejection, and projects all the same. *)
UndoMove ==
  /\ Playing
  /\ append_outcome
  /\ MoveCursor(IF head = NoMove THEN NoMove ELSE moves[head].parent)

(* Only a retained move directly after the head can be redone. *)
RedoMove(target) ==
  /\ Playing
  /\ append_outcome
  /\ MoveCursor(IF target \in DOMAIN moves /\ moves[target].parent = head THEN target ELSE head)

Discloses == mode # "exam"

ValidateProgress ==
  /\ Playing
  /\ IF ~Discloses THEN Rejected
     ELSE /\ append_outcome
          /\ conflicts' = progress_conflicts(marks)
          /\ UNCHANGED <<status, marks, checkpoints, head, moves>>

CheckCompletion ==
  /\ Playing
  /\ append_outcome
  /\ status' = IF check_logic_grid_solution(marks) THEN "completed" ELSE status
  /\ conflicts' = IF ~check_logic_grid_solution(marks) /\ Discloses
                  THEN progress_conflicts(marks) ELSE {}
  /\ UNCHANGED <<marks, checkpoints, head, moves>>

PlayNext ==
  \/ RejectClosed
  \/ RejectPaused
  \/ ResumeSession
  \/ PauseSession
  \/ \E name \in Names : CreateCheckpoint(name)
  \/ \E id \in 0..count : RestoreCheckpoint(id)
  \/ \E a \in CellActions : CellAction(a)
  \/ UndoMove
  \/ \E target \in 0..count : RedoMove(target)
  \/ ValidateProgress
  \/ CheckCompletion

PlaySpec == PlayInit /\ [][PlayNext]_session

----------------------------------------------------------------------------
(* Properties *)

(* The marks kept in the session are always those the active path of the       *)
(* history projects to: updating in place and projecting anew agree, however   *)
(* undo, redo, restores and new branches follow each other.  A checkpoint, on  *)
(* an undone line of play too, leads back to exactly the marks it was made of. *)
MarksFollowHistory ==
  /\ marks = project_marks(head)
  /\ \A c \in checkpoints : project_marks(c.move_id) = c.captured

(* A session can always be rebuilt (validate_session_shape and _active_path     *)
(* never refuse it): the move graph is closed, no cell is both assigned and    *)
(* excluded, checkpoint identifiers and names are unique, and the fixed cells  *)
(* are as given at every retained move, not only the active one.               *)
ShapeIsValid ==
  /\ TypeOK
  /\ \A x \in Variables : <<x, marks.assignments[x]>> \notin marks.exclusions
  /\ \A c, d \in checkpoints : c.checkpoint_id = d.checkpoint_id \/ c.name = d.name => c = d
  /\ \A n \in DOMAIN moves \cup {NoMove} :
       /\ \A g \in assigned_givens : project_marks(n).assignments[g[1]] = g[2]
       /\ excluded_givens \subseteq project_marks(n).exclusions

(* A puzzle whose fixed cells alone are already in conflict is outside the     *)
(* disclosure contract.                                                        *)
SoundPuzzle == progress_conflicts(given_marks) = {}

(* The conflicts shown are never those of marks the player has left: strict    *)
(* never has any, soft shows exactly the current ones, deferred those or none, *)
(* exam none.                                                                  *)
ConflictsAreCurrent ==
  SoundPuzzle =>
    /\ mode = "strict" => conflicts = {} /\ progress_conflicts(marks) = {}
    /\ mode = "soft" => conflicts = progress_conflicts(marks)
    /\ mode = "deferred" => conflicts \in {{}, progress_conflicts(marks)}
    /\ mode = "exam" => conflicts = {}

(* A session counts as completed only while its marks solve the puzzle: every  *)
(* item has a row, clues and fixed cells hold, no structural conflict is left, *)
(* and nothing that follows completion changes that.                           *)
CompletedIsSolved ==
  status = "completed" => /\ marks.assignments \in ClueModels
                          /\ \A x \in Variables : marks.assignments[x] # NoValue
                          /\ \A g \in assigned_givens : marks.assignments[g[1]] = g[2]
                          /\ progress_conflicts(marks) = {}
=============================================================================
