-------------------------- MODULE AssistanceProofs --------------------------
(***************************************************************************)
(* Play sessions, and the advice given over them, for every puzzle the     *)
(* specification accepts, every sequence of player actions and every       *)
(* behaviour of the backends of which at least one is correct.             *)
(*                                                                         *)
(* The first part is about the session alone.  The marks of a retained     *)
(* move are defined by recursion over its parents; that the definition     *)
(* determines them, and that a new move changes none of the others, is     *)
(* shown by looking at the first move where two projections would differ.  *)
(***************************************************************************)
EXTENDS Assistance, WellFoundedInduction, TLAPS

Nodes == DOMAIN moves \cup {NoMove}

----------------------------------------------------------------------------
(* The givens of a puzzle that LogicGridSpec accepts. *)
LEMMA GivensAreFixed ==
  /\ assigned_givens \subseteq Cells /\ excluded_givens \subseteq Cells
  /\ \A c, d \in assigned_givens : c[1] = d[1] => c = d
  /\ \A c \in assigned_givens : c \notin excluded_givens
  BY GivensAssumption DEF ValidGivens, assigned_givens, excluded_givens, CellsOf

(* The marks a session starts with. *)
LEMMA GivenMarks ==
  /\ given_marks \in Marks
  /\ given_marks.exclusions = excluded_givens
  /\ \A g \in assigned_givens : given_marks.assignments[g[1]] = g[2]
  /\ \A x \in Variables : given_marks.assignments[x] # NoValue =>
       <<x, given_marks.assignments[x]>> \in assigned_givens
  <1> DEFINE a == given_marks.assignments
  <1>1. \A x \in Variables :
          IF \E v \in Values : <<x, v>> \in assigned_givens
          THEN a[x] \in Values /\ <<x, a[x]>> \in assigned_givens ELSE a[x] = NoValue
    BY DEF given_marks
  <1>2. a \in [Variables -> Values \cup {NoValue}] /\ given_marks.exclusions = excluded_givens
    BY GivensAreFixed DEF given_marks
  <1>3. given_marks \in Marks
    BY <1>2, GivensAreFixed DEF given_marks, Marks, Cells
  <1>4. ASSUME NEW g \in assigned_givens PROVE a[g[1]] = g[2]
    <2>1. g[1] \in Variables /\ g[2] \in Values /\ g = <<g[1], g[2]>>
      BY GivensAreFixed DEF Cells
    <2>2. <<g[1], a[g[1]]>> \in assigned_givens
      BY <1>1, <2>1
    <2> QED
      BY <2>1, <2>2, GivensAreFixed
  <1> QED
    BY <1>1, <1>2, <1>3, <1>4

----------------------------------------------------------------------------
(* Marks that a session may reach. *)

LegalMarks(m) ==
  /\ m \in Marks
  /\ \A g \in assigned_givens : m.assignments[g[1]] = g[2]
  /\ excluded_givens \subseteq m.exclusions
  /\ \A x \in Variables : <<x, m.assignments[x]>> \notin m.exclusions
  /\ mode = "strict" /\ SoundPuzzle => progress_conflicts(m) = {}

(* Every mark that is not given was made by a retained move. *)
Moved(kind, c) == \E n \in DOMAIN moves : moves[n].action = [kind |-> kind, cell |-> c]
MovedMarks(m) ==
  /\ \A x \in Variables : m.assignments[x] # NoValue =>
       \/ <<x, m.assignments[x]>> \in assigned_givens
       \/ Moved("assign", <<x, m.assignments[x]>>)
  /\ \A c \in m.exclusions : c \in excluded_givens \/ Moved("exclude", c)

LEMMA GivenMarksLegal == LegalMarks(given_marks) /\ MovedMarks(given_marks)
  <1>1. \A x \in Variables : <<x, given_marks.assignments[x]>> \notin excluded_givens
    <2>1. SUFFICES ASSUME NEW x \in Variables, <<x, given_marks.assignments[x]>> \in excluded_givens
                   PROVE  FALSE
      OBVIOUS
    <2>2. given_marks.assignments[x] \in Values
      BY <2>1, GivensAreFixed DEF Cells
    <2>3. <<x, given_marks.assignments[x]>> \in assigned_givens
      BY <2>2, GivenMarks, SessionAssumption
    <2> QED
      BY <2>1, <2>3, GivensAreFixed
  <1> QED
    BY <1>1, GivenMarks DEF LegalMarks, MovedMarks, SoundPuzzle

(* An accepted cell action leaves legal marks legal. *)
LEMMA ActionKeepsLegal ==
  ASSUME NEW m, LegalMarks(m), NEW a \in CellActions, ~cell_locked(a),
         mode = "strict" => progress_conflicts(apply_cell_action(m, a)) = {}
  PROVE  LegalMarks(apply_cell_action(m, a))
  <1> DEFINE x == a.cell[1]
             v == a.cell[2]
             r == apply_cell_action(m, a)
  <1>1. /\ x \in Variables /\ v \in Values /\ a.cell = <<x, v>> /\ v # NoValue
        /\ a.kind \in {"assign", "exclude", "clear"}
    BY SessionAssumption DEF CellActions, Cells
  <1>2. /\ m.assignments \in [Variables -> Values \cup {NoValue}] /\ m.exclusions \subseteq Cells
    BY DEF LegalMarks, Marks
  <1>3. /\ r.assignments = [m.assignments EXCEPT ![x] =
                              IF a.kind = "assign" THEN v ELSE IF @ = v THEN NoValue ELSE @]
        /\ r.exclusions = IF a.kind = "exclude" THEN m.exclusions \cup {a.cell}
                          ELSE m.exclusions \ {a.cell}
        /\ r = [assignments |-> r.assignments, exclusions |-> r.exclusions]
    BY DEF apply_cell_action
  <1> HIDE DEF r
  <1>4. r \in Marks
    <2>1. r.assignments \in [Variables -> Values \cup {NoValue}]
      BY <1>1, <1>2, <1>3
    <2>2. r.exclusions \subseteq Cells
      BY <1>1, <1>2, <1>3 DEF Cells
    <2> QED
      BY <1>3, <2>1, <2>2 DEF Marks
  <1>5. \A g \in assigned_givens : r.assignments[g[1]] = g[2]
    <2>1. \A g \in assigned_givens : g[1] # x /\ g[1] \in Variables
      BY GivensAreFixed DEF cell_locked, Cells
    <2> QED
      BY <1>2, <1>3, <2>1 DEF LegalMarks
  <1>6. excluded_givens \subseteq r.exclusions
    BY <1>3 DEF LegalMarks, cell_locked
  <1>7. ASSUME NEW y \in Variables PROVE <<y, r.assignments[y]>> \notin r.exclusions
    <2>1. <<y, NoValue>> \notin r.exclusions
      BY <1>4, SessionAssumption DEF Marks, Cells
    <2>2. <<y, m.assignments[y]>> \notin m.exclusions
      BY DEF LegalMarks
    <2>3. CASE y # x
      BY <1>1, <1>2, <1>3, <2>2, <2>3
    <2>4. CASE y = x /\ a.kind = "assign"
      BY <1>1, <1>2, <1>3, <2>4
    <2>5. CASE y = x /\ a.kind # "assign" /\ m.assignments[x] = v
      BY <1>2, <1>3, <2>1, <2>5
    <2>6. CASE y = x /\ a.kind # "assign" /\ m.assignments[x] # v
      BY <1>1, <1>2, <1>3, <2>2, <2>6
    <2> QED
      BY <2>3, <2>4, <2>5, <2>6
  <1> QED
    BY <1>4, <1>5, <1>6, <1>7 DEF LegalMarks, r

(* A mark the action did not make was there before. *)
LEMMA ActionMarks ==
  ASSUME NEW m \in Marks, NEW a \in CellActions, NEW r, r = apply_cell_action(m, a)
  PROVE  /\ \A x \in Variables : r.assignments[x] # NoValue =>
              \/ r.assignments[x] = m.assignments[x]
              \/ a = [kind |-> "assign", cell |-> <<x, r.assignments[x]>>]
         /\ \A c \in r.exclusions : c \in m.exclusions \/ a = [kind |-> "exclude", cell |-> c]
  <1> DEFINE x == a.cell[1]
             v == a.cell[2]
  <1>1. /\ x \in Variables /\ v \in Values /\ a.cell = <<x, v>>
        /\ a = [kind |-> a.kind, cell |-> a.cell]
    BY DEF CellActions, Cells
  <1>2. m.assignments \in [Variables -> Values \cup {NoValue}]
    BY DEF Marks
  <1>3. /\ r.assignments = [m.assignments EXCEPT ![x] =
                              IF a.kind = "assign" THEN v ELSE IF @ = v THEN NoValue ELSE @]
        /\ r.exclusions = IF a.kind = "exclude" THEN m.exclusions \cup {a.cell}
                          ELSE m.exclusions \ {a.cell}
    BY DEF apply_cell_action
  <1>4. ASSUME NEW y \in Variables, r.assignments[y] # NoValue, r.assignments[y] # m.assignments[y]
        PROVE  a = [kind |-> "assign", cell |-> <<y, r.assignments[y]>>]
    <2>1. y = x /\ a.kind = "assign" /\ r.assignments[y] = v
      BY <1>2, <1>3, <1>4
    <2> QED
      BY <1>1, <2>1
  <1>5. ASSUME NEW c \in r.exclusions, c \notin m.exclusions
        PROVE  a = [kind |-> "exclude", cell |-> c]
    <2>1. a.kind = "exclude" /\ c = a.cell
      BY <1>3, <1>5
    <2> QED
      BY <1>1, <2>1
  <1> QED
    BY <1>4, <1>5

----------------------------------------------------------------------------
(* Projections: what the recursive definition of the marks determines. *)

IsProjection(g, mv) ==
  g = [n \in DOMAIN mv |->
         apply_cell_action(IF mv[n].parent = NoMove THEN given_marks ELSE g[mv[n].parent],
                                mv[n].action)]

ParentsOlder(mv) ==
  /\ DOMAIN mv \subseteq Nat
  /\ \A n \in DOMAIN mv : mv[n].parent < n /\ mv[n].parent \in DOMAIN mv \cup {NoMove}

(* A history determines the marks of its moves, also when more moves follow. *)
LEMMA ProjectionsAgree ==
  ASSUME NEW mv, NEW nv, ParentsOlder(mv), DOMAIN mv \subseteq DOMAIN nv,
         \A n \in DOMAIN mv : nv[n] = mv[n],
         NEW g, IsProjection(g, mv), NEW h, IsProjection(h, nv), NEW n \in DOMAIN mv
  PROVE  h[n] = g[n]
  <1> DEFINE Differ == {k \in DOMAIN mv : h[k] # g[k]}
  <1>1. SUFFICES ASSUME Differ # {} PROVE FALSE
    OBVIOUS
  <1>2. Differ \subseteq Nat
    BY DEF ParentsOlder
  <1>3. PICK k \in Differ : \A j \in Differ : ~ (<<j, k>> \in OpToRel(<, Nat))
    BY <1>1, <1>2, NatLessThanWellFounded, WFMin
  <1>4. \A j \in Differ : ~ (j < k)
    BY <1>2, <1>3 DEF OpToRel
  <1> DEFINE parent == mv[k].parent
  <1>5. k \in DOMAIN mv /\ nv[k] = mv[k] /\ parent < k /\ parent \in DOMAIN mv \cup {NoMove}
    BY DEF ParentsOlder
  <1>6. parent = NoMove \/ h[parent] = g[parent]
    BY <1>4, <1>5
  <1>7. /\ g[k] = apply_cell_action(IF parent = NoMove THEN given_marks ELSE g[parent],
                                         mv[k].action)
        /\ h[k] = apply_cell_action(IF parent = NoMove THEN given_marks ELSE h[parent],
                                         mv[k].action)
    <2>1. k \in DOMAIN nv
      BY <1>5
    <2> QED
      BY <1>5, <2>1 DEF IsProjection
  <1>8. h[k] = g[k]
    BY <1>6, <1>7
  <1> QED
    BY <1>8

(* A move below a retained one, or below the root, can be projected too. *)
LEMMA ProjectionExtends ==
  ASSUME NEW mv, NEW g, IsProjection(g, mv), ParentsOlder(mv), NEW n, n \notin DOMAIN mv, NEW nv,
         DOMAIN nv = DOMAIN mv \cup {n}, \A k \in DOMAIN mv : nv[k] = mv[k],
         nv[n].parent \in DOMAIN mv \cup {NoMove}, NoMove \notin DOMAIN mv
  PROVE  \E h : IsProjection(h, nv)
  <1> DEFINE before == IF nv[n].parent = NoMove THEN given_marks ELSE g[nv[n].parent]
             h == [k \in DOMAIN nv |->
                     IF k = n THEN apply_cell_action(before, nv[n].action) ELSE g[k]]
  <1>1. \A k \in DOMAIN mv : h[k] = g[k]
    OBVIOUS
  <1>2. h[n] = apply_cell_action(before, nv[n].action)
    OBVIOUS
  <1>3. DOMAIN h = DOMAIN nv /\ h = [k \in DOMAIN nv |-> h[k]]
    OBVIOUS
  <1>4. before = IF nv[n].parent = NoMove THEN given_marks ELSE h[nv[n].parent]
    BY <1>1
  <1> HIDE DEF h, before
  <1>5. ASSUME NEW k \in DOMAIN nv
        PROVE  h[k] = apply_cell_action(
                        IF nv[k].parent = NoMove THEN given_marks ELSE h[nv[k].parent], nv[k].action)
    <2>1. CASE k = n
      BY <1>2, <1>4, <2>1
    <2>2. CASE k # n
      <3>1. k \in DOMAIN mv /\ nv[k] = mv[k] /\ mv[k].parent \in DOMAIN mv \cup {NoMove}
        BY <2>2 DEF ParentsOlder
      <3>2. g[k] = apply_cell_action(
                     IF mv[k].parent = NoMove THEN given_marks ELSE g[mv[k].parent], mv[k].action)
        BY <3>1 DEF IsProjection
      <3> QED
        BY <1>1, <3>1, <3>2
    <2> QED
      BY <2>1, <2>2
  <1>6. IsProjection(h, nv)
    BY <1>3, <1>5 DEF IsProjection
  <1> QED
    BY <1>6

LEMMA ProjectionIsChosen ==
  /\ Projection = CHOOSE g : IsProjection(g, moves)
  /\ Projection' = CHOOSE g : IsProjection(g, moves')
  BY DEF IsProjection, Projection, NoMove

(* The marks at a move, or at the root, under a projection. *)
MarksAt(g, n) == IF n = NoMove THEN given_marks ELSE g[n]

LEMMA ProjectedAt ==
  /\ \A n : project_marks(n) = MarksAt(Projection, n)
  /\ \A n : project_marks(n)' = MarksAt(Projection', n)
  BY DEF MarksAt, project_marks, NoMove

----------------------------------------------------------------------------
(* The inductive invariant of a session: besides what the properties say, every *)
(* retained move leads to legal marks that its ancestors explain.               *)
SessionInv ==
  /\ TypeOK
  /\ IsProjection(Projection, moves)
  /\ MarksFollowHistory
  /\ \A n \in Nodes : LegalMarks(project_marks(n)) /\ MovedMarks(project_marks(n))
  /\ \A c, d \in checkpoints : c.checkpoint_id = d.checkpoint_id \/ c.name = d.name => c = d
  /\ \A c \in checkpoints : c.checkpoint_id <= count
  /\ ConflictsAreCurrent
  /\ status = "completed" => check_logic_grid_solution(marks)

LEMMA HistoryShape ==
  ASSUME TypeOK
  PROVE  /\ ParentsOlder(moves) /\ NoMove \notin DOMAIN moves /\ NoMove = 0
         /\ count \in Nat /\ count + 1 \notin DOMAIN moves /\ head \in Nodes
         /\ \A n \in DOMAIN moves : n \in Nat /\ moves[n].parent \in Nodes
  BY DEF TypeOK, ParentsOlder, NoMove, Nodes

LEMMA ConflictTypes ==
  ASSUME NEW m PROVE progress_conflicts(m) \subseteq Conflict
  BY DEF progress_conflicts, Conflict

(* A solution of the puzzle has no structural conflict. *)
LEMMA SolutionHasNoConflict ==
  ASSUME NEW m, check_logic_grid_solution(m) PROVE progress_conflicts(m) = {}
  <1>1. \A x \in Variables : m.assignments[x] # NoValue
    BY DEF check_logic_grid_solution
  <1>2. \A C \in AllDifferent : \A x, y \in C : m.assignments[x] = m.assignments[y] => x = y
    BY DEF check_logic_grid_solution
  <1> QED
    BY <1>1, <1>2 DEF progress_conflicts

LEMMA SessionInit == PlayInit => SessionInv
  <1> SUFFICES ASSUME PlayInit PROVE SessionInv
    OBVIOUS
  <1>1. /\ mode \in Modes /\ status = "active" /\ marks = given_marks /\ conflicts = {}
        /\ checkpoints = {} /\ head = NoMove /\ moves = [n \in {} |-> {}] /\ count = 0
    BY DEF PlayInit, NoMove
  <1>2. DOMAIN moves = {} /\ Nodes = {NoMove}
    BY <1>1 DEF Nodes
  <1>3. TypeOK
    BY <1>1, <1>2, GivenMarks, SessionAssumption DEF TypeOK, NoMove
  <1>4. IsProjection(Projection, moves)
    <2>1. IsProjection([n \in {} |-> {}], moves)
      BY <1>2 DEF IsProjection
    <2> QED
      BY <2>1, ProjectionIsChosen
  <1>5. project_marks(NoMove) = given_marks
    BY DEF project_marks, NoMove
  <1>6. MarksFollowHistory
    BY <1>1, <1>5 DEF MarksFollowHistory
  <1>7. \A n \in Nodes : LegalMarks(project_marks(n)) /\ MovedMarks(project_marks(n))
    BY <1>2, <1>5, GivenMarksLegal
  <1>8. ConflictsAreCurrent
    BY <1>1 DEF ConflictsAreCurrent, SoundPuzzle
  <1> QED
    BY <1>1, <1>3, <1>4, <1>6, <1>7, <1>8 DEF SessionInv

(* Steps that keep the marks and their history. *)
LEMMA MarksKept ==
  ASSUME SessionInv, UNCHANGED <<mode, marks, checkpoints, head, moves>>,
         count' \in 0..MAX_PLAY_EVENTS, count <= count',
         status' \in {"active", "paused", "completed"}, conflicts' \subseteq Conflict,
         ConflictsAreCurrent',
         status' = "completed" => check_logic_grid_solution(marks)
  PROVE  SessionInv'
  <1>1. TypeOK'
    BY SessionAssumption DEF SessionInv, TypeOK
  <1>2. Projection' = Projection
    BY DEF Projection
  <1>3. \A n : project_marks(n)' = project_marks(n)
    BY <1>2 DEF project_marks
  <1>4. (IsProjection(Projection, moves))'
    BY <1>2 DEF SessionInv, IsProjection
  <1>5. MarksFollowHistory'
    BY <1>3 DEF SessionInv, MarksFollowHistory
  <1>6. (\A n \in Nodes : LegalMarks(project_marks(n)) /\ MovedMarks(project_marks(n)))'
    BY <1>3 DEF SessionInv, Nodes, LegalMarks, MovedMarks, Moved
  <1>7. (\A c \in checkpoints : c.checkpoint_id <= count)'
    BY SessionAssumption DEF SessionInv, TypeOK, Checkpoint
  <1> QED
    BY <1>1, <1>4, <1>5, <1>6, <1>7 DEF SessionInv, check_logic_grid_solution

(* Moving the cursor to a retained move. *)
LEMMA CursorMoved ==
  ASSUME SessionInv, append_outcome, NEW target \in Nodes, MoveCursor(target),
         status # "completed"
  PROVE  SessionInv'
  <1>1. UNCHANGED <<mode, status, checkpoints, moves>> /\ head' = target
        /\ marks' = project_marks(target)
        /\ conflicts' = automatic_conflicts(marks') /\ count' = count + 1
        /\ count < MAX_PLAY_EVENTS
    BY DEF append_outcome, MoveCursor
  <1>2. Projection' = Projection
    BY <1>1 DEF Projection
  <1>3. \A n : project_marks(n)' = project_marks(n)
    BY <1>2 DEF project_marks
  <1>4. LegalMarks(marks')
    BY <1>1 DEF SessionInv
  <1>5. TypeOK'
    <2>1. marks' \in Marks /\ head' \in Nodes
      BY <1>1, <1>4 DEF LegalMarks
    <2>2. conflicts' \subseteq Conflict
      BY <1>1, ConflictTypes DEF automatic_conflicts
    <2> QED
      BY <1>1, <2>1, <2>2, SessionAssumption DEF SessionInv, TypeOK, Nodes, NoMove
  <1>6. (IsProjection(Projection, moves))'
    BY <1>1, <1>2 DEF SessionInv, IsProjection
  <1>7. MarksFollowHistory'
    BY <1>1, <1>3 DEF SessionInv, MarksFollowHistory
  <1>8. (\A n \in Nodes : LegalMarks(project_marks(n)) /\ MovedMarks(project_marks(n)))'
    BY <1>1, <1>3 DEF SessionInv, Nodes, LegalMarks, MovedMarks, Moved
  <1>9. (\A c \in checkpoints : c.checkpoint_id <= count)'
    BY <1>1, SessionAssumption DEF SessionInv, TypeOK, Checkpoint
  <1>10. ConflictsAreCurrent'
    BY <1>1, <1>4 DEF ConflictsAreCurrent, automatic_conflicts, LegalMarks, SoundPuzzle
  <1> QED
    BY <1>1, <1>5, <1>6, <1>7, <1>8, <1>9, <1>10 DEF SessionInv

LEMMA CheckpointMade ==
  ASSUME SessionInv, NEW name \in Names, CreateCheckpoint(name)
  PROVE  SessionInv'
  <1> DEFINE c == NewCheckpoint(name)
  <1>1. /\ UNCHANGED <<mode, status, marks, conflicts, head, moves>>
        /\ count' = count + 1 /\ count < MAX_PLAY_EVENTS
        /\ checkpoints' = IF NameTaken(name) THEN checkpoints ELSE checkpoints \cup {c}
    BY DEF CreateCheckpoint, append_outcome
  <1>2. /\ c \in Checkpoint /\ c.checkpoint_id = count + 1 /\ c.name = name
        /\ c.move_id = head /\ c.captured = marks
    BY HistoryShape DEF NewCheckpoint, Checkpoint, SessionInv, TypeOK, NoMove
  <1> HIDE DEF c
  <1>3. Projection' = Projection
    BY <1>1 DEF Projection
  <1>4. \A n : project_marks(n)' = project_marks(n)
    BY <1>3 DEF project_marks
  <1>5. TypeOK'
    BY <1>1, <1>2, SessionAssumption DEF SessionInv, TypeOK
  <1>6. (IsProjection(Projection, moves))'
    BY <1>1, <1>3 DEF SessionInv, IsProjection
  <1>7. MarksFollowHistory'
    BY <1>1, <1>2, <1>4 DEF SessionInv, MarksFollowHistory
  <1>8. (\A n \in Nodes : LegalMarks(project_marks(n)) /\ MovedMarks(project_marks(n)))'
    BY <1>1, <1>4 DEF SessionInv, Nodes, LegalMarks, MovedMarks, Moved
  <1>9. /\ \A d \in checkpoints : d.checkpoint_id \in Nat /\ d.checkpoint_id <= count
        /\ count \in Nat
    BY HistoryShape DEF SessionInv, TypeOK, Checkpoint
  <1>10. \A d, e \in checkpoints' : d.checkpoint_id = e.checkpoint_id \/ d.name = e.name => d = e
    <2>1. CASE NameTaken(name)
      BY <1>1, <2>1 DEF SessionInv
    <2>2. CASE ~NameTaken(name)
      <3>1. \A d \in checkpoints : d.checkpoint_id # c.checkpoint_id /\ d.name # c.name
        BY <1>2, <1>9, <2>2 DEF NameTaken
      <3> QED
        BY <1>1, <2>2, <3>1 DEF SessionInv
    <2> QED
      BY <2>1, <2>2
  <1>11. \A d \in checkpoints' : d.checkpoint_id <= count'
    BY <1>1, <1>2, <1>9
  <1>12. ConflictsAreCurrent'
    BY <1>1 DEF SessionInv, ConflictsAreCurrent, SoundPuzzle
  <1> QED
    BY <1>1, <1>5, <1>6, <1>7, <1>8, <1>10, <1>11, <1>12 DEF SessionInv, check_logic_grid_solution

(* An accepted cell action adds a move below the head; what the others project *)
(* to stays.                                                                    *)
LEMMA MovePlayed ==
  ASSUME SessionInv, NEW a \in CellActions, CellAction(a), ~CellRefused(a)
  PROVE  SessionInv'
  <1> DEFINE n == count + 1
             new == NewMove(a)
  <1>1. /\ UNCHANGED <<mode, status, checkpoints>> /\ status # "completed"
        /\ count' = n /\ count < MAX_PLAY_EVENTS /\ head' = n
        /\ moves' = [k \in DOMAIN moves \cup {n} |-> IF k = n THEN new ELSE moves[k]]
        /\ marks' = apply_cell_action(marks, a)
        /\ conflicts' = IF mode = "soft" THEN progress_conflicts(marks') ELSE {}
    BY DEF CellAction, append_outcome, Playing, Closed, Retained
  <1>2. /\ new.parent = head /\ new.action = a
    BY DEF NewMove
  <1>3. /\ ParentsOlder(moves) /\ NoMove \notin DOMAIN moves /\ NoMove = 0
        /\ count \in Nat /\ n \notin DOMAIN moves /\ head \in Nodes
    BY HistoryShape DEF SessionInv
  <1>4. new \in Move /\ head < n
    BY <1>3 DEF NewMove, Move, SessionInv, TypeOK, NoMove
  <1> HIDE DEF new, n
  <1>5. DOMAIN moves' = DOMAIN moves \cup {n} /\ moves'[n] = new
        /\ \A k \in DOMAIN moves : moves'[k] = moves[k]
    BY <1>1, <1>3
  <1>6. IsProjection(Projection, moves)
    BY DEF SessionInv
  <1>7. IsProjection(Projection', moves')
    <2>1. moves'[n].parent \in DOMAIN moves \cup {NoMove}
      BY <1>2, <1>3, <1>5 DEF Nodes
    <2>2. \E h : IsProjection(h, moves')
      BY <1>3, <1>5, <1>6, <2>1, ProjectionExtends
    <2> QED
      BY <2>2, ProjectionIsChosen
  <1>8. \A k \in Nodes : MarksAt(Projection', k) = MarksAt(Projection, k)
    <2>1. ASSUME NEW k \in DOMAIN moves PROVE Projection'[k] = Projection[k]
      BY <1>3, <1>5, <1>6, <1>7, ProjectionsAgree
    <2> QED
      BY <2>1 DEF Nodes, MarksAt
  <1>9. n # NoMove /\ MarksAt(Projection', n) = marks'
    <2>1. n # NoMove /\ n \in DOMAIN moves'
      BY <1>3, <1>5 DEF n
    <2>2. Projection'[n] = apply_cell_action(MarksAt(Projection', head), a)
      BY <1>2, <1>5, <1>7, <2>1 DEF IsProjection, MarksAt
    <2>3. marks = MarksAt(Projection, head)
      BY ProjectedAt DEF SessionInv, MarksFollowHistory
    <2> QED
      BY <1>1, <1>3, <1>8, <2>1, <2>2, <2>3 DEF MarksAt
  <1>10. LegalMarks(marks) /\ MovedMarks(marks)
    BY <1>3 DEF SessionInv, MarksFollowHistory
  <1>11. LegalMarks(marks')
    <2>1. ~cell_locked(a) /\ (mode = "strict" => progress_conflicts(apply_cell_action(marks, a)) = {})
      BY DEF CellRefused
    <2> QED
      BY <1>1, <1>10, <2>1, ActionKeepsLegal
  <1>12. \A kind, c : Moved(kind, c) => Moved(kind, c)'
    BY <1>5 DEF Moved
  <1>13. MovedMarks(marks)'
    <2>1. \A kind, c : a = [kind |-> kind, cell |-> c] => Moved(kind, c)'
      BY <1>2, <1>5 DEF Moved
    <2>2. marks \in Marks
      BY <1>10 DEF LegalMarks
    <2>3. /\ \A x \in Variables : marks'.assignments[x] # NoValue =>
                \/ marks'.assignments[x] = marks.assignments[x]
                \/ a = [kind |-> "assign", cell |-> <<x, marks'.assignments[x]>>]
          /\ \A c \in marks'.exclusions : c \in marks.exclusions \/ a = [kind |-> "exclude", cell |-> c]
      BY <1>1, <2>2, ActionMarks
    <2> QED
      BY <1>10, <1>12, <2>1, <2>3 DEF MovedMarks
  <1>14. (\A k \in Nodes : LegalMarks(project_marks(k)) /\ MovedMarks(project_marks(k)))'
    <2>1. ASSUME NEW m PROVE /\ LegalMarks(m) => LegalMarks(m)'
                             /\ MovedMarks(m) => MovedMarks(m)'
      BY <1>1, <1>12 DEF LegalMarks, MovedMarks, SoundPuzzle
    <2>2. ASSUME NEW k \in Nodes'
          PROVE  LegalMarks(project_marks(k))' /\ MovedMarks(project_marks(k))'
      <3>1. CASE k = n
        <4>1. project_marks(k)' = marks'
          BY <1>9, <3>1, ProjectedAt
        <4> QED
          BY <1>1, <1>11, <1>13, <4>1 DEF LegalMarks, SoundPuzzle, MovedMarks
      <3>2. CASE k # n
        <4>1. k \in Nodes
          BY <1>5, <2>2, <3>2 DEF Nodes
        <4>2. LegalMarks(project_marks(k)) /\ MovedMarks(project_marks(k))
              /\ project_marks(k)' = project_marks(k)
          BY <1>8, <4>1, ProjectedAt DEF SessionInv
        <4> QED
          BY <2>1, <4>2 DEF LegalMarks, MovedMarks, SoundPuzzle
      <3> QED
        BY <3>1, <3>2
    <2> QED
      BY <2>2
  <1>15. TypeOK'
    <2>1. marks' \in Marks
      BY <1>11 DEF LegalMarks
    <2>2. conflicts' \subseteq Conflict
      BY <1>1, ConflictTypes
    <2>3. /\ DOMAIN moves' \subseteq 1..count'
          /\ \A k \in DOMAIN moves' : /\ moves'[k] \in Move
                                      /\ moves'[k].parent \in DOMAIN moves' \cup {NoMove}
                                      /\ moves'[k].parent < k
      <3>1. DOMAIN moves \subseteq 1..count /\ \A k \in DOMAIN moves : moves[k] \in Move
        BY DEF SessionInv, TypeOK
      <3> QED
        BY <1>1, <1>2, <1>3, <1>4, <1>5, <3>1 DEF ParentsOlder, n, Nodes
    <2>4. mode' \in Modes /\ status' \in {"active", "paused", "completed"}
          /\ checkpoints' \subseteq Checkpoint
      BY <1>1 DEF SessionInv, TypeOK
    <2>5. count' \in 0..MAX_PLAY_EVENTS
      BY <1>1, <1>3, SessionAssumption DEF n
    <2>6. head' \in DOMAIN moves' \cup {NoMove}
      BY <1>1, <1>5
    <2>7. \A c \in checkpoints' : c.move_id \in DOMAIN moves' \cup {NoMove}
      BY <1>1, <1>5 DEF SessionInv, TypeOK, NoMove
    <2> QED
      BY <2>1, <2>2, <2>3, <2>4, <2>5, <2>6, <2>7 DEF TypeOK, NoMove
  <1>16. MarksFollowHistory'
    <2>1. \A c \in checkpoints :
            c.move_id \in Nodes /\ c.captured = MarksAt(Projection, c.move_id)
      BY ProjectedAt DEF SessionInv, TypeOK, MarksFollowHistory, Nodes, NoMove
    <2>2. marks' = MarksAt(Projection', head')
      BY <1>1, <1>9
    <2>3. \A c \in checkpoints' : c.captured = MarksAt(Projection', c.move_id)
      BY <1>1, <1>8, <2>1
    <2> QED
      BY <2>2, <2>3 DEF MarksFollowHistory, project_marks, MarksAt, NoMove
  <1>17. ConflictsAreCurrent'
    BY <1>1, <1>11 DEF ConflictsAreCurrent, LegalMarks, SoundPuzzle
  <1>18. \A c \in checkpoints' : c.checkpoint_id <= count'
    BY <1>1, <1>3 DEF SessionInv, TypeOK, Checkpoint, n
  <1> QED
    BY <1>1, <1>7, <1>14, <1>15, <1>16, <1>17, <1>18 DEF SessionInv, IsProjection

(* Every step of a session keeps the invariant. *)
LEMMA SessionNext == SessionInv /\ [PlayNext]_(session) => SessionInv'
  <1> SUFFICES ASSUME SessionInv, [PlayNext]_(session) PROVE SessionInv'
    OBVIOUS
  <1>1. /\ count \in 0..MAX_PLAY_EVENTS /\ status \in {"active", "paused", "completed"}
        /\ conflicts \subseteq Conflict /\ ConflictsAreCurrent
        /\ status = "completed" => check_logic_grid_solution(marks)
    BY DEF SessionInv, TypeOK
  <1>2. append_outcome => /\ UNCHANGED mode /\ count' = count + 1
                               /\ count' \in 0..MAX_PLAY_EVENTS /\ count <= count'
    BY <1>1, SessionAssumption DEF append_outcome
  <1>3. ASSUME UNCHANGED <<mode, marks, conflicts>> PROVE ConflictsAreCurrent'
    BY <1>1, <1>3 DEF ConflictsAreCurrent, SoundPuzzle
  <1>4. Playing => status # "completed"
    BY DEF Playing, Closed
  <1>5. ASSUME Rejected PROVE SessionInv'
    BY <1>1, <1>2, <1>3, <1>5, MarksKept DEF Rejected
  <1>6. CASE UNCHANGED session
    BY <1>1, <1>3, <1>6, SessionAssumption, MarksKept DEF session
  <1>7. CASE RejectClosed \/ RejectPaused
    BY <1>5, <1>7 DEF RejectClosed, RejectPaused
  <1>8. CASE ResumeSession
    BY <1>1, <1>2, <1>3, <1>8, MarksKept DEF ResumeSession
  <1>9. CASE PauseSession
    BY <1>1, <1>2, <1>3, <1>9, MarksKept DEF PauseSession
  <1>10. CASE \E name \in Names : CreateCheckpoint(name)
    BY <1>10, CheckpointMade
  <1>11. ASSUME NEW id \in 0..count, RestoreCheckpoint(id) PROVE SessionInv'
    <2>1. CASE ~ \E c \in checkpoints : c.checkpoint_id = id
      BY <1>5, <1>11, <2>1 DEF RestoreCheckpoint
    <2>2. CASE \E c \in checkpoints : c.checkpoint_id = id
      <3>1. PICK c \in checkpoints : append_outcome /\ MoveCursor(c.move_id)
        BY <1>11, <2>2 DEF RestoreCheckpoint
      <3>2. c.move_id \in Nodes
        BY DEF SessionInv, TypeOK, Nodes, NoMove
      <3> QED
        BY <1>4, <1>11, <3>1, <3>2, CursorMoved DEF RestoreCheckpoint
    <2> QED
      BY <2>1, <2>2
  <1>12. ASSUME NEW a \in CellActions, CellAction(a) PROVE SessionInv'
    <2>1. CASE CellRefused(a)
      BY <1>5, <1>12, <2>1 DEF CellAction
    <2> QED
      BY <1>12, <2>1, MovePlayed
  <1>13. CASE UndoMove
    <2> DEFINE target == IF head = NoMove THEN NoMove ELSE moves[head].parent
    <2>1. append_outcome /\ MoveCursor(target) /\ status # "completed"
      BY <1>4, <1>13 DEF UndoMove, NoMove
    <2>2. target \in Nodes
      BY HistoryShape DEF SessionInv, Nodes
    <2> HIDE DEF target
    <2> QED
      BY <2>1, <2>2, CursorMoved
  <1>14. ASSUME NEW other \in 0..count, RedoMove(other) PROVE SessionInv'
    <2> DEFINE target == IF other \in DOMAIN moves /\ moves[other].parent = head THEN other ELSE head
    <2>1. append_outcome /\ MoveCursor(target) /\ status # "completed"
      BY <1>4, <1>14 DEF RedoMove
    <2>2. target \in Nodes
      BY HistoryShape DEF SessionInv, Nodes
    <2> HIDE DEF target
    <2> QED
      BY <2>1, <2>2, CursorMoved
  <1>15. CASE ValidateProgress
    <2>1. CASE ~Discloses
      BY <1>5, <1>15, <2>1 DEF ValidateProgress
    <2>2. CASE Discloses
      <3>1. /\ append_outcome /\ conflicts' = progress_conflicts(marks)
            /\ UNCHANGED <<status, marks, checkpoints, head, moves>>
        BY <1>15, <2>2 DEF ValidateProgress
      <3>2. ConflictsAreCurrent'
        BY <1>1, <1>2, <2>2, <3>1
           DEF ConflictsAreCurrent, SoundPuzzle, Discloses
      <3> QED
        BY <1>1, <1>2, <3>1, <3>2, ConflictTypes, MarksKept
    <2> QED
      BY <2>1, <2>2
  <1>16. CASE CheckCompletion
    <2> DEFINE solved == check_logic_grid_solution(marks)
    <2>1. /\ append_outcome /\ status' = IF solved THEN "completed" ELSE status
          /\ conflicts' = IF ~solved /\ Discloses THEN progress_conflicts(marks) ELSE {}
          /\ UNCHANGED <<marks, checkpoints, head, moves>>
      BY <1>16 DEF CheckCompletion
    <2>2. solved => progress_conflicts(marks) = {}
      BY SolutionHasNoConflict
    <2> HIDE DEF solved
    <2>3. ConflictsAreCurrent'
      BY <1>1, <1>2, <2>1, <2>2 DEF ConflictsAreCurrent, SoundPuzzle, Discloses
    <2>4. conflicts' \subseteq Conflict /\ status' \in {"active", "paused", "completed"}
      BY <1>1, <2>1, ConflictTypes
    <2>5. status' = "completed" => check_logic_grid_solution(marks)
      BY <1>1, <2>1 DEF solved
    <2> QED
      BY <1>2, <2>1, <2>3, <2>4, <2>5, MarksKept
  <1> QED
    BY <1>6, <1>7, <1>8, <1>9, <1>10, <1>11, <1>12, <1>13, <1>14, <1>15, <1>16 DEF PlayNext

(* The session keeps its invariant whatever the player does. *)
THEOREM SessionInvariant == PlaySpec => []SessionInv
  BY SessionInit, SessionNext, PTL DEF PlaySpec

(* Updating the marks in place and projecting the history anew always agree, *)
(* and a checkpoint leads back to the marks it was made of.                  *)
THEOREM MarksFollow == PlaySpec => []MarksFollowHistory
  <1>1. SessionInv => MarksFollowHistory
    BY DEF SessionInv
  <1> QED
    BY <1>1, SessionInvariant, PTL

(* A session can always be rebuilt from its record: the move graph is closed *)
(* and acyclic, no cell is assigned and excluded, fixed cells are as given.  *)
THEOREM SessionsAreWellFormed == PlaySpec => []ShapeIsValid
  <1>1. SessionInv => ShapeIsValid
    <2>1. SUFFICES ASSUME SessionInv PROVE ShapeIsValid
      OBVIOUS
    <2>2. TypeOK /\ head \in Nodes /\ marks = project_marks(head)
      BY <2>1, HistoryShape DEF SessionInv, MarksFollowHistory
    <2>3. \A n \in Nodes : LegalMarks(project_marks(n))
      BY <2>1 DEF SessionInv
    <2>4. \A x \in Variables : <<x, marks.assignments[x]>> \notin marks.exclusions
      BY <2>2, <2>3 DEF LegalMarks
    <2>5. \A n \in DOMAIN moves \cup {NoMove} :
            /\ \A g \in assigned_givens : project_marks(n).assignments[g[1]] = g[2]
            /\ excluded_givens \subseteq project_marks(n).exclusions
      BY <2>3 DEF LegalMarks, Nodes
    <2> QED
      BY <2>1, <2>2, <2>4, <2>5 DEF SessionInv, ShapeIsValid
  <1> QED
    BY <1>1, SessionInvariant, PTL

(* The conflicts on show belong to the marks on show, as the mode has it. *)
THEOREM ConflictsStayCurrent == PlaySpec => []ConflictsAreCurrent
  <1>1. SessionInv => ConflictsAreCurrent
    BY DEF SessionInv
  <1> QED
    BY <1>1, SessionInvariant, PTL

(* A completed session holds a solution of the puzzle, and keeps it. *)
THEOREM CompletionMeansSolved == PlaySpec => []CompletedIsSolved
  <1>1. SessionInv => CompletedIsSolved
    BY SolutionHasNoConflict DEF SessionInv, CompletedIsSolved, check_logic_grid_solution
  <1> QED
    BY <1>1, SessionInvariant, PTL

----------------------------------------------------------------------------
(* The assistance service never changes the session it advises on: what holds  *)
(* of every session holds beside it.                                           *)
THEOREM AssistanceOnlyReads == Spec => PlaySpec
  <1>1. Init => PlayInit
    BY DEF Init
  <1>2. [Next]_vars => [PlayNext]_session
    BY DEF Next, vars, PlayOn, Dismiss, EvaluateMove, RequestHint
  <1> QED
    BY <1>1, <1>2, PTL DEF Spec, PlaySpec

----------------------------------------------------------------------------
(* What the rules propose in a state: a candidate that is still there, of an item *)
(* that is still open when it is placed, from atoms the state asserts.            *)
Based(s) == s.cand \in [Variables -> SUBSET Values] /\ Singletons(s.cand) \subseteq s.assigned

Fits(s, d) ==
  /\ d.premises \subseteq Asserted(s)
  /\ d.claim \in CellAtoms /\ d.claim.val \in s.cand[d.claim.var]
  /\ d.claim.kind = "assignment" => Open(s, d.claim.var)

LEMMA ExclusionFits ==
  ASSUME NEW s, Based(s), NEW d, d.premises \subseteq Asserted(s), NEW x \in Variables,
         NEW v \in s.cand[x], d.claim = Exclusion(x, v)
  PROVE  Fits(s, d)
  BY DEF Fits, Based, Exclusion, CellAtoms

LEMMA PlacementFits ==
  ASSUME NEW s, Based(s), NEW d, d.premises \subseteq Asserted(s), NEW x \in Variables, Open(s, x),
         NEW v \in s.cand[x], d.claim = Assignment(x, v)
  PROVE  Fits(s, d)
  BY DEF Fits, Based, Assignment, CellAtoms

LEMMA PlacementAsserted ==
  ASSUME NEW s, Based(s), NEW y \in Variables, ~Open(s, y) PROVE assignment(y, s) \subseteq Asserted(s)
  <1>1. SUFFICES ASSUME NEW v \in s.cand[y] PROVE Assignment(y, v) \in Asserted(s)
    BY DEF assignment
  <1>2. s.cand[y] = {v} /\ v \in Values
    BY DEF Open, Based
  <1>3. <<y, v>> \in s.assigned
    BY <1>2 DEF Based, Singletons, Cells
  <1> QED
    BY <1>3 DEF Asserted

LEMMA FixedIsClosed ==
  ASSUME NEW s, NEW y, Fixed(s, y) PROVE ~Open(s, y)
  BY DEF Fixed, Open

LEMMA AbsenceAsserted ==
  ASSUME NEW s, NEW y, NEW v PROVE absence_premise(y, v, s) \subseteq Asserted(s)
  <1>1. CASE <<y, v>> \in s.excluded
    BY <1>1 DEF absence_premise, Asserted
  <1>2. CASE <<y, v>> \notin s.excluded
    <2>1. ASSUME NEW w, <<y, w>> \in s.assigned PROVE Assignment(y, w) \in Asserted(s)
      BY <2>1 DEF Asserted
    <2> QED
      BY <1>2, <2>1 DEF absence_premise
  <1> QED
    BY <1>1, <1>2

LEMMA AssociationFits ==
  ASSUME NEW c \in Clues, NEW s, Based(s), NEW d \in AssociationRule(c, s) PROVE Fits(s, d)
  <1>1. ASSUME NEW x \in Variables, NEW y \in Variables, d \in MatchCandidates(c, x, y, s)
        PROVE  Fits(s, d)
    <2> DEFINE meet == s.cand[x] \cap s.cand[y]
               lost == s.cand[x] \ meet
    <2>1. CASE \E v \in meet : /\ Open(s, x) /\ d.claim = Assignment(x, v)
                               /\ d.premises = IF Fixed(s, y) THEN assignment(y, s)
                                               ELSE Absences(y, lost, s)
      <3>1. Absences(y, lost, s) \subseteq Asserted(s)
        BY AbsenceAsserted DEF Absences
      <3>2. Fixed(s, y) => assignment(y, s) \subseteq Asserted(s)
        BY FixedIsClosed, PlacementAsserted
      <3>3. d.premises \subseteq Asserted(s)
        BY <2>1, <3>1, <3>2
      <3> QED
        BY <2>1, <3>3, PlacementFits
    <2>2. CASE \E v \in lost : /\ d.claim = Exclusion(x, v)
                               /\ d.premises = absence_premise(y, v, s)
      <3>1. PICK v \in lost : d.claim = Exclusion(x, v) /\ d.premises = absence_premise(y, v, s)
        BY <2>2
      <3>2. v \in s.cand[x] /\ d.premises \subseteq Asserted(s)
        BY <3>1, AbsenceAsserted
      <3> QED
        BY <3>1, <3>2, ExclusionFits
    <2> QED
      BY <1>1, <2>1, <2>2 DEF MatchCandidates, Candidate
  <1>2. ASSUME NEW x \in Variables, NEW y \in Variables, d \in ApartCandidates(c, x, y, s)
        PROVE  Fits(s, d)
    <2>1. PICK v \in s.cand[x] : /\ s.cand[y] = {v} /\ d.premises = assignment(y, s)
                                 /\ d.claim = Exclusion(x, v)
      BY <1>2 DEF ApartCandidates, Candidate
    <2>2. ~Open(s, y)
      BY <2>1 DEF Open
    <2>3. d.premises \subseteq Asserted(s)
      BY <2>1, <2>2, PlacementAsserted
    <2> QED
      BY <2>1, <2>3, ExclusionFits
  <1>3. c.shape \in {"equal", "not_equal"} => c.left \in Variables /\ c.right \in Variables
    BY CluesAssumption DEF IsClue, Relations, Others
  <1>4. CASE c.shape = "equal"
    BY <1>1, <1>3, <1>4 DEF AssociationRule
  <1>5. CASE c.shape = "not_equal"
    BY <1>2, <1>3, <1>5 DEF AssociationRule
  <1> QED
    BY <1>4, <1>5 DEF AssociationRule

LEMMA BijectionFits ==
  ASSUME NEW g \in AllDifferent, NEW s, Based(s), NEW d \in CategoryBijectionRule(g, s)
  PROVE  Fits(s, d)
  <1>1. g \subseteq Variables
    BY AllDifferentAssumption
  <1>2. CASE d \in OccupiedRows(g, s)
    <2>1. PICK q \in g \X g \X Values :
            /\ s.cand[q[1]] = {q[3]} /\ q[3] \in s.cand[q[2]]
            /\ d.premises = {Assignment(q[1], q[3])} /\ d.claim = Exclusion(q[2], q[3])
      BY <1>2 DEF OccupiedRows, Candidate
    <2>2. ~Open(s, q[1]) /\ q[1] \in Variables /\ q[2] \in Variables
      BY <1>1, <2>1 DEF Open
    <2>3. d.premises \subseteq Asserted(s)
      BY <2>1, <2>2, PlacementAsserted DEF assignment
    <2> QED
      BY <2>1, <2>2, <2>3, ExclusionFits
  <1>3. CASE d \in SolePositions(g, s)
    <2>1. PICK q \in g \X Values :
            /\ {x \in g : q[2] \in s.cand[x]} = {q[1]} /\ Open(s, q[1])
            /\ d.premises = UNION {absence_premise(y, q[2], s) : y \in g \ {q[1]}}
            /\ d.claim = Assignment(q[1], q[2])
      BY <1>3 DEF SolePositions, Candidate
    <2>2. d.premises \subseteq Asserted(s)
      BY <2>1, AbsenceAsserted
    <2>3. q[1] \in Variables /\ q[2] \in s.cand[q[1]]
      BY <1>1, <2>1
    <2> QED
      BY <2>1, <2>2, <2>3, PlacementFits
  <1> QED
    BY <1>2, <1>3 DEF CategoryBijectionRule

LEMMA CompletionFits ==
  ASSUME NEW c \in Clues, NEW s, Based(s), NEW d \in ClueCompletionRule(c, s) PROVE Fits(s, d)
  <1> DEFINE unresolved == {x \in boolean_variables(c) : Open(s, x)}
             bounded == c.shape \in Orders /\ c.left # c.right /\ unresolved = {c.left, c.right}
  <1>1. boolean_variables(c) \subseteq Variables
    BY CluesAssumption DEF IsClue, boolean_variables, Relations, Others, Orders
  <1>2. technique_for(c) # "association"
    <2>1. SUFFICES ASSUME technique_for(c) = "association" PROVE FALSE
      OBVIOUS
    <2>2. ClueCompletionRule(c, s) = {}
      BY <2>1 DEF ClueCompletionRule, technique_for, Orders
    <2> QED
      BY <2>2
  <1>3. CASE bounded
    <2>1. d.premises = {} /\ d.claim \in ordering_bound_exclusions(c, s)
      BY <1>2, <1>3 DEF ClueCompletionRule, Candidate
    <2>2. c.left \in Variables /\ c.right \in Variables
      BY <1>1, <1>3
    <2>3. \E x \in {c.left, c.right} : \E v \in s.cand[x] : d.claim = Exclusion(x, v)
      BY <2>1 DEF ordering_bound_exclusions
    <2>4. d.premises \subseteq Asserted(s)
      BY <2>1
    <2> QED
      BY <2>2, <2>3, <2>4, ExclusionFits
  <1>4. CASE ~bounded
    <2>1. d \in UNION {{Candidate(technique_for(c), c, CompletionPremises(c, x, s), a) :
                          a \in CompletionClaims(c, x, s)} :
                       x \in {y \in boolean_variables(c) : unresolved = {y}}}
      BY <1>2, <1>4 DEF ClueCompletionRule
    <2>2. PICK x \in boolean_variables(c) :
            /\ unresolved = {x}
            /\ d.premises = CompletionPremises(c, x, s) /\ d.claim \in CompletionClaims(c, x, s)
      BY <2>1 DEF Candidate
    <2>3. \A y \in boolean_variables(c) \ {x} : assignment(y, s) \subseteq Asserted(s)
      BY <1>1, <2>2, PlacementAsserted
    <2>4. d.premises \subseteq Asserted(s)
      BY <2>2, <2>3 DEF CompletionPremises
    <2>5. Open(s, x) /\ x \in Variables
      BY <1>1, <2>2
    <2>6. \E v \in s.cand[x] : d.claim = Exclusion(x, v) \/ d.claim = Assignment(x, v)
      BY <2>2 DEF CompletionClaims, Valid
    <2> QED
      BY <2>4, <2>5, <2>6, ExclusionFits, PlacementFits
  <1> QED
    BY <1>3, <1>4

LEMMA ApplicationsFit ==
  ASSUME NEW s, Based(s), NEW d \in logic_grid_applications(s) PROVE Fits(s, d)
  BY AssociationFits, BijectionFits, CompletionFits DEF logic_grid_applications

----------------------------------------------------------------------------
(* What the authority decides, with at least one correct backend. *)

(* What a correct backend certifies is what it may answer. *)
LEMMA CorrectAnswers ==
  ASSUME NEW s, NEW P, NEW a, NEW r \in Certificates(s, P, a), NEW b \in Honest
  PROVE  r[b] \in BackendAnswers(b, s, P, a)
  <1>1. PICK h \in Honest : <<b, r[b]>> \in {h} \X BackendAnswers(h, s, P, a)
    BY DEF Certificates
  <1> QED
    BY <1>1

LEMMA CrossVerified ==
  ASSUME NEW s, NEW P, NEW a, NEW d \in proof_record(s, P, a), is_cross_verified(d)
  PROVE  prepare_problem(s) /\ Assuming(s, P) # {} /\ Entails(s, P, a)
  <1>1. PICK r \in Certificates(s, P, a) : coordinator_verify(r) = "verified"
    BY DEF proof_record, is_cross_verified
  <1>2. PICK h \in Honest : h \in Backends
    BY BackendsAssumption
  <1>3. {r[b] : b \in Backends} = {"unsat"}
    BY <1>1 DEF coordinator_verify
  <1>4. r[h] = "unsat" /\ r[h] \in BackendAnswers(h, s, P, a)
    BY <1>2, <1>3, CorrectAnswers
  <1>5. CASE ~prepare_problem(s) \/ ~encodable(h, s)
    BY <1>4, <1>5 DEF BackendAnswers
  <1>6. CASE prepare_problem(s) /\ encodable(h, s) /\ Assuming(s, P) = {}
    BY <1>4, <1>6 DEF BackendAnswers
  <1>7. CASE prepare_problem(s) /\ encodable(h, s) /\ Assuming(s, P) # {} /\ ~Entails(s, P, a)
    BY <1>4, <1>7 DEF BackendAnswers
  <1> QED
    BY <1>5, <1>6, <1>7

(* A mark is called right or wrong only when the puzzle, which then has a       *)
(* solution, decides it.                                                        *)
LEMMA VerdictsHold ==
  ASSUME NEW a, NEW v \in classify_atom(a)
  PROVE  /\ v = "supported" => Certain(a) /\ Models(genesis) # {}
         /\ v = "contradicted" => Certain(opposite_atom(a)) /\ Models(genesis) # {}
  <1>1. \A b : Entails(genesis, {}, b) /\ Assuming(genesis, {}) # {} => Certain(b) /\ Models(genesis) # {}
    BY DEF Entails, Assuming, Certain
  <1>2. PICK b \in CellAtoms : \E p \in proof_record(genesis, {}, b) \X proof_record(genesis, {}, opposite_atom(b)) :
                 <<a, v>> = <<b, classify(p[1], p[2])>>
    BY DEF classify_atom, Verdicts
  <1>3. PICK p \in proof_record(genesis, {}, a) \X proof_record(genesis, {}, opposite_atom(a)) :
               v = classify(p[1], p[2])
    BY <1>2
  <1>4. CASE v = "supported"
    <2>1. is_cross_verified(p[1])
      BY <1>3, <1>4 DEF classify
    <2> QED
      BY <1>1, <1>3, <1>4, <2>1, CrossVerified
  <1>5. CASE v = "contradicted"
    <2>1. is_cross_verified(p[2])
      BY <1>3, <1>5 DEF classify
    <2> QED
      BY <1>1, <1>3, <1>5, <2>1, CrossVerified
  <1> QED
    BY <1>4, <1>5

----------------------------------------------------------------------------
(* The state of marks that are right. *)

LEMMA GenesisShape ==
  /\ genesis.cand \in [Variables -> SUBSET Values]
  /\ genesis.assigned \subseteq Cells /\ genesis.excluded = excluded_givens
  /\ assigned_givens \subseteq genesis.assigned
  /\ \A x \in Variables : genesis.cand[x] # {}
  /\ \A c \in genesis.assigned : genesis.cand[c[1]] = {c[2]}
  /\ \A c \in genesis.excluded : c[2] \notin genesis.cand[c[1]]
  <1> DEFINE cand == GivenCandidates(puzzle)
             oth == OthersOf(Givens(puzzle))
  <1>1. genesis = build_state(cand, assigned_givens, excluded_givens, oth, {}, 0)
    BY DEF genesis, create_initial_state, assigned_givens, excluded_givens
  <1>2. cand \in [Variables -> SUBSET Values] /\ puzzle \in PuzzleSpec
    BY StartAssumption DEF GivenCandidates, PuzzleSpec
  <1> HIDE DEF cand, oth
  <1>3. /\ genesis.contradictions = {} /\ genesis.excluded = excluded_givens
        /\ genesis.assigned = assigned_givens \cup Singletons(cand) /\ genesis.cand = cand
    BY <1>1 DEF build_state
  <1>4. validate_state(genesis) /\ validate_structural_invariants(genesis)
    BY StartAssumption DEF InitialStateExists, genesis
  <1>5. \A x \in Variables : genesis.cand[x] # {}
    BY <1>3, <1>4 DEF validate_structural_invariants
  <1>6. \A c \in genesis.assigned : genesis.cand[c[1]] = {c[2]}
    BY <1>4 DEF validate_state, AssignmentsAreCandidates
  <1>7. \A c \in genesis.excluded : c[2] \notin genesis.cand[c[1]]
    BY <1>4 DEF validate_state, ExclusionsAreNotCandidates
  <1> QED
    BY <1>2, <1>3, <1>5, <1>6, <1>7, GivensAreFixed DEF Singletons

(* A set of atoms that were found supported. *)
Right(S) ==
  /\ S \subseteq CellAtoms
  /\ \A a \in S : Certain(a)
  /\ S # {} => Models(genesis) # {}

LEMMA SupportedCells ==
  ASSUME NEW S, S \subseteq CellAtoms
  PROVE  /\ \A c \in CellsOf(S, "assignment") : c \in Cells /\ Assignment(c[1], c[2]) \in S
         /\ \A c \in CellsOf(S, "exclusion") : c \in Cells /\ Exclusion(c[1], c[2]) \in S
  BY DEF CellsOf, Assignment, Exclusion

(* Supported marks take no solution away and bring no new one, and whatever the *)
(* state asserts holds in all of them.                                          *)
LEMMA SupportedState ==
  ASSUME NEW S, Right(S), NEW s, s = state_from_supported_marks(S)
  PROVE  /\ Based(s) /\ ~Impossible(s) /\ Models(s) = Models(genesis)
         /\ \A x \in Variables : s.cand[x] \subseteq genesis.cand[x]
         /\ \A a \in S : /\ a.kind = "assignment" => s.cand[a.var] \subseteq {a.val}
                         /\ a.kind = "exclusion" => a.val \notin s.cand[a.var]
         /\ \A a \in Asserted(s) : Certain(a)
  <1> DEFINE cand == MarkedCandidates(S)
             placed(x) == {v \in Values : Assignment(x, v) \in S}
  <1>1. /\ s.cand = cand /\ s.excluded = genesis.excluded \cup CellsOf(S, "exclusion")
        /\ s.assigned = (genesis.assigned \cup CellsOf(S, "assignment")) \cup Singletons(cand)
    BY DEF state_from_supported_marks, build_state
  <1>2. /\ cand \in [Variables -> SUBSET Values]
        /\ \A x \in Variables :
             cand[x] = {v \in (IF placed(x) # {} THEN placed(x) ELSE genesis.cand[x]) :
                          Exclusion(x, v) \notin S}
    BY GenesisShape DEF MarkedCandidates
  <1> HIDE DEF cand
  <1>3. \A f \in Models(genesis), a \in S : Holds(f, a)
    BY DEF Right, Certain
  <1>4. \A f \in Models(genesis) : f \in Solutions /\ \A x \in Variables : f[x] \in genesis.cand[x] /\ f[x] \in Values
    BY GenesisShape DEF Models
  <1>5. ASSUME NEW f \in Models(genesis), NEW x \in Variables
        PROVE  /\ f[x] \in cand[x]
               /\ \A v \in placed(x) : v = f[x]
    <2>1. \A v \in placed(x) : v = f[x]
      BY <1>3 DEF Holds, Assignment
    <2>2. Exclusion(x, f[x]) \notin S
      BY <1>3 DEF Holds, Exclusion
    <2> QED
      BY <1>2, <1>4, <2>1, <2>2
  <1>6. \A x \in Variables : cand[x] \subseteq genesis.cand[x] /\ cand[x] # {}
    <2>1. CASE S = {}
      BY <1>2, <2>1, GenesisShape
    <2>2. CASE S # {}
      <3>1. PICK f \in Models(genesis) : TRUE
        BY <2>2 DEF Right
      <3>2. ASSUME NEW x \in Variables, NEW v \in cand[x] PROVE v \in genesis.cand[x]
        <4>1. v \in (IF placed(x) # {} THEN placed(x) ELSE genesis.cand[x])
          BY <1>2
        <4>2. v \in placed(x) => v = f[x]
          BY <1>5, <3>1
        <4> QED
          BY <1>4, <3>1, <4>1, <4>2
      <3>3. \A x \in Variables : f[x] \in cand[x]
        BY <1>5, <3>1
      <3> QED
        BY <3>2, <3>3
    <2> QED
      BY <2>1, <2>2
  <1>7. Based(s) /\ ~Impossible(s)
    BY <1>1, <1>2, <1>6 DEF Based, Impossible
  <1>8. Models(s) = Models(genesis)
    <2>1. Models(genesis) \subseteq Models(s)
      BY <1>1, <1>4, <1>5 DEF Models
    <2>2. Models(s) \subseteq Models(genesis)
      BY <1>1, <1>6 DEF Models
    <2> QED
      BY <2>1, <2>2
  <1>9. ASSUME NEW a \in S
        PROVE  /\ a.kind = "assignment" => cand[a.var] \subseteq {a.val}
               /\ a.kind = "exclusion" => a.val \notin cand[a.var]
    <2>1. /\ a.var \in Variables /\ a.val \in Values
          /\ a.kind = "assignment" => a = Assignment(a.var, a.val)
          /\ a.kind = "exclusion" => a = Exclusion(a.var, a.val)
      BY DEF Right, CellAtoms, Assignment, Exclusion
    <2>2. CASE a.kind = "assignment"
      <3>1. a.val \in placed(a.var)
        BY <2>1, <2>2
      <3>2. PICK f \in Models(genesis) : TRUE
        BY DEF Right
      <3>3. \A v \in placed(a.var) : v = a.val
        BY <1>5, <2>1, <3>1, <3>2
      <3> QED
        BY <1>2, <2>1, <2>2, <3>1, <3>3
    <2>3. CASE a.kind = "exclusion"
      BY <1>2, <2>1, <2>3
    <2> QED
      BY <2>2, <2>3
  <1>10. ASSUME NEW c \in s.assigned PROVE Certain(Assignment(c[1], c[2]))
    <2>1. SUFFICES ASSUME NEW f \in Models(genesis) PROVE f[c[1]] = c[2]
      BY DEF Certain, Holds, Assignment
    <2>2. CASE c \in genesis.assigned
      <3>1. c[1] \in Variables /\ genesis.cand[c[1]] = {c[2]}
        BY <2>2, GenesisShape DEF Cells
      <3> QED
        BY <1>4, <3>1
    <2>3. CASE c \in CellsOf(S, "assignment")
      <3>1. Assignment(c[1], c[2]) \in S
        BY <2>3, SupportedCells DEF Right
      <3> QED
        BY <1>3, <3>1 DEF Holds, Assignment
    <2>4. CASE c \in Singletons(cand)
      <3>1. c[1] \in Variables /\ cand[c[1]] = {c[2]}
        BY <2>4 DEF Singletons, Cells
      <3> QED
        BY <1>5, <3>1
    <2> QED
      BY <1>1, <2>2, <2>3, <2>4
  <1>11. ASSUME NEW c \in s.excluded PROVE Certain(Exclusion(c[1], c[2]))
    <2>1. SUFFICES ASSUME NEW f \in Models(genesis) PROVE f[c[1]] # c[2]
      BY DEF Certain, Holds, Exclusion
    <2>2. CASE c \in genesis.excluded
      <3>1. c[1] \in Variables /\ c[2] \notin genesis.cand[c[1]]
        BY <2>2, GenesisShape, GivensAreFixed DEF Cells
      <3> QED
        BY <1>4, <3>1
    <2>3. CASE c \in CellsOf(S, "exclusion")
      <3>1. Exclusion(c[1], c[2]) \in S
        BY <2>3, SupportedCells DEF Right
      <3> QED
        BY <1>3, <3>1 DEF Holds, Exclusion
    <2> QED
      BY <1>1, <2>2, <2>3
  <1>12. \A a \in Asserted(s) : Certain(a)
    BY <1>10, <1>11 DEF Asserted
  <1> QED
    BY <1>1, <1>6, <1>7, <1>8, <1>9, <1>12

----------------------------------------------------------------------------
(* The marks that are judged. *)

LEMMA MarksOnGrid == SessionInv => LegalMarks(marks) /\ MovedMarks(marks) /\ marks \in Marks
  <1> SUFFICES ASSUME SessionInv PROVE LegalMarks(marks) /\ MovedMarks(marks) /\ marks \in Marks
    OBVIOUS
  <1>1. head \in Nodes /\ marks = project_marks(head)
    BY HistoryShape DEF SessionInv, MarksFollowHistory
  <1> QED
    BY <1>1 DEF SessionInv, LegalMarks

LEMMA MarksAreAtoms ==
  ASSUME SessionInv
  PROVE  /\ current_atoms \subseteq CellAtoms
         /\ \A a \in current_atoms :
              \/ /\ a = Assignment(a.var, a.val) /\ a.kind = "assignment"
                 /\ marks.assignments[a.var] = a.val /\ a.val # NoValue
              \/ /\ a = Exclusion(a.var, a.val) /\ a.kind = "exclusion"
                 /\ <<a.var, a.val>> \in marks.exclusions
  <1>1. /\ marks.assignments \in [Variables -> Values \cup {NoValue}]
        /\ marks.exclusions \subseteq Cells
    BY MarksOnGrid DEF Marks
  <1>2. ASSUME NEW x \in Variables, marks.assignments[x] # NoValue
        PROVE  Assignment(x, marks.assignments[x]) \in CellAtoms
    BY <1>1, <1>2 DEF Assignment, CellAtoms
  <1>3. ASSUME NEW c \in marks.exclusions
        PROVE  Exclusion(c[1], c[2]) \in CellAtoms /\ c = <<c[1], c[2]>>
    BY <1>1 DEF Exclusion, CellAtoms, Cells
  <1>4. \A a \in current_atoms :
          \/ \E x \in Variables : marks.assignments[x] # NoValue /\ a = Assignment(x, marks.assignments[x])
          \/ \E c \in marks.exclusions : a = Exclusion(c[1], c[2])
    BY DEF current_atoms
  <1> QED
    BY <1>2, <1>3, <1>4 DEF Assignment, Exclusion

LEMMA OutcomeShape ==
  ASSUME SessionInv, NEW omit, NEW o \in Outcomes(omit)
  PROVE  /\ DOMAIN o = current_atoms \ (Givens(puzzle) \cup omit)
         /\ \A a \in DOMAIN o : o[a] \in classify_atom(a) /\ o[a] \in MoveEvaluationStatus
         /\ Right(Supported(o))
  <1>1. /\ DOMAIN o = current_atoms \ (Givens(puzzle) \cup omit)
        /\ \A a \in DOMAIN o : o[a] \in classify_atom(a) /\ o[a] \in MoveEvaluationStatus
    BY DEF Outcomes
  <1>2. \A a \in Supported(o) : a \in DOMAIN o /\ o[a] = "supported"
    BY DEF Supported, AtomsWith
  <1>3. \A a \in Supported(o) : Certain(a) /\ Models(genesis) # {}
    BY <1>1, <1>2, VerdictsHold
  <1>4. Supported(o) \subseteq CellAtoms
    BY <1>1, <1>2, MarksAreAtoms
  <1> QED
    BY <1>1, <1>3, <1>4 DEF Right

----------------------------------------------------------------------------
(* Evaluations *)

LEMMA EvaluationsHold ==
  ASSUME SessionInv, NEW a, NEW e \in Evaluations(a)
  PROVE  e.kind = "evaluation" /\ e.submitted = a /\ VerdictIsTrue(e)
  <1>1. \A v \in classify_atom(a) : /\ v = "supported" => Certain(a)
                                    /\ v = "contradicted" => Certain(opposite_atom(a))
    BY VerdictsHold
  <1>2. ASSUME NEW v \in classify_atom(a), NEW t, e = Evaluation(a, v, t),
               t # NoTechnique => \A p \in t.premises : Certain(p)
        PROVE  e.kind = "evaluation" /\ e.submitted = a /\ VerdictIsTrue(e)
    BY <1>1, <1>2 DEF Evaluation, VerdictIsTrue
  <1> DEFINE decided == classify_atom(a) \cap {"supported", "contradicted"}
  <1>3. CASE \E v \in classify_atom(a) \ decided : e = Evaluation(a, v, NoTechnique)
    BY <1>2, <1>3
  <1>4. CASE \E q \in decided \X {Supported(o) : o \in Outcomes({a})} :
               LET state == state_from_supported_marks(q[2]) IN
               e \in IF Impossible(state) THEN {Failed}
                     ELSE {Evaluation(a, q[1], t) :
                             t \in technique_for_atom(state, authoritative_atom(a, q[1]))}
    <2>1. PICK v \in decided, o \in Outcomes({a}) :
            LET state == state_from_supported_marks(Supported(o)) IN
            e \in IF Impossible(state) THEN {Failed}
                  ELSE {Evaluation(a, v, t) : t \in technique_for_atom(state, authoritative_atom(a, v))}
      BY <1>4
    <2> DEFINE s == state_from_supported_marks(Supported(o))
    <2>2. Based(s) /\ ~Impossible(s) /\ \A p \in Asserted(s) : Certain(p)
      BY OutcomeShape, SupportedState
    <2>3. PICK t \in technique_for_atom(s, authoritative_atom(a, v)) : e = Evaluation(a, v, t)
      BY <2>1, <2>2
    <2> HIDE DEF s
    <2>4. t # NoTechnique => t \in logic_grid_applications(s)
      BY <2>3 DEF technique_for_atom
    <2>5. t # NoTechnique => \A p \in t.premises : Certain(p)
      BY <2>2, <2>4, ApplicationsFit DEF Fits
    <2> QED
      BY <1>2, <2>3, <2>5
  <1> QED
    BY <1>3, <1>4 DEF Evaluations

(* The event of every mark that is not given is in the history. *)
LEMMA EventsAreFound ==
  ASSUME SessionInv, NEW a \in current_atoms, a \notin Givens(puzzle) PROVE EventsOf(a) # {}
  <1>1. /\ a \in CellAtoms
        /\ \/ /\ a = Assignment(a.var, a.val) /\ a.kind = "assignment"
              /\ marks.assignments[a.var] = a.val /\ a.val # NoValue
           \/ /\ a = Exclusion(a.var, a.val) /\ a.kind = "exclusion"
              /\ <<a.var, a.val>> \in marks.exclusions
    BY MarksAreAtoms
  <1>2. a.var \in Variables
    BY <1>1 DEF CellAtoms
  <1>3. CASE a = Assignment(a.var, a.val) /\ marks.assignments[a.var] = a.val /\ a.val # NoValue
    <2>1. <<a.var, a.val>> \notin assigned_givens
      BY <1>3 DEF assigned_givens, CellsOf, Assignment
    <2>2. PICK n \in DOMAIN moves : moves[n].action = [kind |-> "assign", cell |-> <<a.var, a.val>>]
      BY <1>2, <1>3, <2>1, MarksOnGrid DEF MovedMarks, Moved
    <2>3. HasAtom(n) /\ event_atom(n) = Assignment(a.var, a.val)
      BY <2>2 DEF HasAtom, event_atom
    <2> QED
      BY <1>3, <2>2, <2>3 DEF EventsOf
  <1>4. CASE a = Exclusion(a.var, a.val) /\ <<a.var, a.val>> \in marks.exclusions
    <2>1. <<a.var, a.val>> \notin excluded_givens
      BY <1>4 DEF excluded_givens, CellsOf, Exclusion
    <2>2. PICK n \in DOMAIN moves : moves[n].action = [kind |-> "exclude", cell |-> <<a.var, a.val>>]
      BY <1>4, <2>1, MarksOnGrid DEF MovedMarks, Moved
    <2>3. HasAtom(n) /\ event_atom(n) = Exclusion(a.var, a.val)
      BY <2>2 DEF HasAtom, event_atom
    <2> QED
      BY <1>4, <2>2, <2>3 DEF EventsOf
  <1> QED
    BY <1>1, <1>3, <1>4

----------------------------------------------------------------------------
(* Hints: what follows when every mark was found supported. *)

AllSupported(o) ==
  Refuted(o) = {} /\ AtomsWith(o, "quarantined") = {} /\ AtomsWith(o, "inconclusive") = {}

LEMMA RightMarks ==
  ASSUME SessionInv, NEW o \in Outcomes({}), AllSupported(o)
  PROVE  /\ Supported(o) = current_atoms \ Givens(puzzle)
         /\ \A a \in current_atoms \ Givens(puzzle) : Certain(a)
  <1>1. DOMAIN o = current_atoms \ Givens(puzzle) /\ Right(Supported(o))
        /\ \A a \in DOMAIN o : o[a] \in MoveEvaluationStatus
    <2>1. /\ DOMAIN o = current_atoms \ (Givens(puzzle) \cup {}) /\ Right(Supported(o))
          /\ \A a \in DOMAIN o : o[a] \in MoveEvaluationStatus
      BY OutcomeShape
    <2>2. Givens(puzzle) \cup {} = Givens(puzzle)
      OBVIOUS
    <2> QED
      BY <2>1, <2>2
  <1>2. \A a \in DOMAIN o : o[a] = "supported"
    BY <1>1 DEF AllSupported, Refuted, AtomsWith, MoveEvaluationStatus
  <1>3. Supported(o) = DOMAIN o
    BY <1>2 DEF Supported, AtomsWith
  <1> QED
    BY <1>1, <1>3 DEF Right

LEMMA GivensAreCertain ==
  ASSUME NEW a \in Givens(puzzle), NEW f \in Models(genesis) PROVE Holds(f, a)
  <1>1. /\ a \in CellAtoms /\ a.var \in Variables /\ a.val \in Values
        /\ a = [kind |-> a.kind, var |-> a.var, val |-> a.val]
        /\ a.kind \in {"assignment", "exclusion"}
    BY GivensAssumption DEF ValidGivens, CellAtoms
  <1>2. f[a.var] \in genesis.cand[a.var]
    BY <1>1 DEF Models
  <1>3. CASE a.kind = "assignment"
    <2>1. <<a.var, a.val>> \in assigned_givens
      BY <1>1, <1>3 DEF assigned_givens, CellsOf, Cells
    <2>2. genesis.cand[a.var] = {a.val}
      BY <2>1, GenesisShape
    <2> QED
      BY <1>2, <1>3, <2>2 DEF Holds
  <1>4. CASE a.kind = "exclusion"
    <2>1. <<a.var, a.val>> \in excluded_givens
      BY <1>1, <1>4 DEF excluded_givens, CellsOf, Cells
    <2>2. a.val \notin genesis.cand[a.var]
      BY <2>1, GenesisShape
    <2> QED
      BY <1>2, <1>4, <2>2 DEF Holds
  <1> QED
    BY <1>1, <1>3, <1>4

(* Marks that a solution agrees with are free of conflicts. *)
LEMMA AgreedMarksFree ==
  ASSUME NEW m, NEW f \in Solutions,
         \A x \in Variables : m.assignments[x] # NoValue => f[x] = m.assignments[x],
         \A x \in Variables : <<x, f[x]>> \notin m.exclusions
  PROVE  progress_conflicts(m) = {}
  <1>1. \A x \in Variables : f[x] \in Values
    BY SolutionsAssumption
  <1>2. \A C \in AllDifferent : \A x, y \in C : x \in Variables /\ y \in Variables /\ (x # y => f[x] # f[y])
    BY SolutionsAssumption, AllDifferentAssumption
  <1>3. \A x \in Variables : ~({x} \X Values \subseteq m.exclusions)
    BY <1>1
  <1>4. \A q \in AllDifferent \X Values :
          ~ \E x, y \in q[1] : x # y /\ m.assignments[x] = q[2] /\ m.assignments[y] = q[2]
    BY <1>2, SessionAssumption
  <1> QED
    BY <1>3, <1>4 DEF progress_conflicts

(* The action that a conclusion suggests. *)
Suggested(a) ==
  [kind |-> IF a.kind = "assignment" THEN "assign" ELSE "exclude", cell |-> <<a.var, a.val>>]

LEMMA SuggestionFits ==
  ASSUME SessionInv, NEW o \in Outcomes({}), AllSupported(o), NEW s,
         s = state_from_supported_marks(Supported(o)),
         NEW c \in logic_grid_applications(s), Certain(c.claim), Models(genesis) # {}
  PROVE  LET a == Suggested(c.claim) IN ~CellRefused(a) /\ apply_cell_action(marks, a) # marks
  <1> DEFINE x == c.claim.var
             v == c.claim.val
             a == Suggested(c.claim)
             r == apply_cell_action(marks, a)
  <1>1. /\ Based(s)
        /\ \A y \in Variables : s.cand[y] \subseteq genesis.cand[y]
        /\ \A b \in current_atoms \ Givens(puzzle) :
             /\ b.kind = "assignment" => s.cand[b.var] \subseteq {b.val}
             /\ b.kind = "exclusion" => b.val \notin s.cand[b.var]
    <2>1. Supported(o) = current_atoms \ Givens(puzzle)
      BY RightMarks
    <2>2. Right(Supported(o))
      BY OutcomeShape
    <2>3. /\ Based(s)
          /\ \A y \in Variables : s.cand[y] \subseteq genesis.cand[y]
          /\ \A b \in Supported(o) :
               /\ b.kind = "assignment" => s.cand[b.var] \subseteq {b.val}
               /\ b.kind = "exclusion" => b.val \notin s.cand[b.var]
      BY <2>2, SupportedState
    <2> QED
      BY <2>1, <2>3
  <1>2. /\ x \in Variables /\ v \in Values /\ v \in s.cand[x] /\ v # NoValue
        /\ c.claim.kind \in {"assignment", "exclusion"}
        /\ c.claim.kind = "assignment" => Open(s, x)
    BY <1>1, ApplicationsFit, SessionAssumption DEF Fits, CellAtoms
  <1>3. PICK f \in Models(genesis) : TRUE
    OBVIOUS
  <1>4. f \in Solutions /\ \A y \in Variables : f[y] \in genesis.cand[y] /\ f[y] \in Values
    BY <1>3, GenesisShape DEF Models
  <1>5. Holds(f, c.claim) /\ \A b \in current_atoms : Holds(f, b)
    BY <1>3, RightMarks, GivensAreCertain DEF Certain
  <1>6. /\ marks.assignments \in [Variables -> Values \cup {NoValue}]
        /\ marks.exclusions \subseteq Cells
    BY MarksOnGrid DEF Marks
  <1>7. /\ \A y \in Variables : marks.assignments[y] # NoValue =>
             Assignment(y, marks.assignments[y]) \in current_atoms
        /\ \A d \in marks.exclusions : Exclusion(d[1], d[2]) \in current_atoms
    BY DEF current_atoms
  <1>8. /\ \A y \in Variables : marks.assignments[y] # NoValue => f[y] = marks.assignments[y]
        /\ \A d \in marks.exclusions : f[d[1]] # d[2]
    BY <1>5, <1>7 DEF Holds, Assignment, Exclusion
  <1>9. /\ a.kind = IF c.claim.kind = "assignment" THEN "assign" ELSE "exclude"
        /\ a.cell = <<x, v>> /\ a.cell[1] = x /\ a.cell[2] = v
    BY DEF Suggested
  <1>10. /\ r.assignments = [marks.assignments EXCEPT ![x] =
                              IF a.kind = "assign" THEN v ELSE IF @ = v THEN NoValue ELSE @]
         /\ r.exclusions = IF a.kind = "exclude" THEN marks.exclusions \cup {<<x, v>>}
                           ELSE marks.exclusions \ {<<x, v>>}
    BY <1>9 DEF apply_cell_action
  <1> HIDE DEF x, v, a, r
  <1>11. ~cell_locked(a)
    <2>1. ASSUME NEW g \in assigned_givens, g[1] = x PROVE FALSE
      <3>1. genesis.cand[x] = {g[2]}
        BY <2>1, GenesisShape
      <3>2. v = g[2] /\ ~Open(s, x) /\ f[x] = g[2]
        BY <1>1, <1>2, <1>4, <3>1 DEF Open
      <3>3. c.claim.kind = "exclusion" /\ f[x] # v
        BY <1>2, <1>5, <3>2 DEF Holds, x, v
      <3> QED
        BY <3>2, <3>3
    <2>2. <<x, v>> \notin excluded_givens
      <3>1. SUFFICES ASSUME <<x, v>> \in excluded_givens PROVE FALSE
        OBVIOUS
      <3>2. v \notin genesis.cand[x]
        BY <3>1, GenesisShape
      <3> QED
        BY <1>1, <1>2, <3>2
    <2> QED
      BY <1>9, <2>1, <2>2 DEF cell_locked
  <1>12. progress_conflicts(r) = {}
    <2>1. ASSUME NEW y \in Variables, r.assignments[y] # NoValue PROVE f[y] = r.assignments[y]
      <3>1. CASE y = x /\ a.kind = "assign"
        <4>1. f[x] = v
          BY <1>5, <1>9, <3>1 DEF Holds, x, v
        <4> QED
          BY <1>2, <1>6, <1>10, <3>1, <4>1
      <3>2. CASE ~(y = x /\ a.kind = "assign")
        <4>1. r.assignments[y] = marks.assignments[y]
          BY <1>2, <1>6, <1>10, <2>1, <3>2
        <4> QED
          BY <1>8, <2>1, <4>1
      <3> QED
        BY <3>1, <3>2
    <2>2. ASSUME NEW y \in Variables PROVE <<y, f[y]>> \notin r.exclusions
      <3>1. <<y, f[y]>> \notin marks.exclusions
        BY <1>8
      <3>2. a.kind = "exclude" => f[x] # v
        BY <1>2, <1>5, <1>9 DEF Holds, x, v
      <3> QED
        BY <1>10, <3>1, <3>2
    <2> QED
      BY <1>4, <2>1, <2>2, AgreedMarksFree
  <1>13. r # marks
    <2>1. CASE c.claim.kind = "assignment"
      <3>1. marks.assignments[x] # v
        <4>1. SUFFICES ASSUME marks.assignments[x] = v PROVE FALSE
          OBVIOUS
        <4>2. Assignment(x, v) \in current_atoms
          BY <1>2, <1>7, <4>1
        <4>3. CASE Assignment(x, v) \in Givens(puzzle)
          <5>1. <<x, v>> \in assigned_givens
            BY <1>2, <4>3 DEF assigned_givens, CellsOf, Assignment, Cells
          <5> QED
            BY <1>9, <1>11, <5>1 DEF cell_locked
        <4>4. CASE Assignment(x, v) \notin Givens(puzzle)
          <5>1. s.cand[x] \subseteq {v}
            BY <1>1, <4>2, <4>4 DEF Assignment
          <5> QED
            BY <1>2, <2>1, <5>1 DEF Open
        <4> QED
          BY <4>3, <4>4
      <3>2. r.assignments[x] = v
        BY <1>2, <1>6, <1>9, <1>10, <2>1
      <3> QED
        BY <3>1, <3>2
    <2>2. CASE c.claim.kind = "exclusion"
      <3>1. <<x, v>> \notin marks.exclusions
        <4>1. SUFFICES ASSUME <<x, v>> \in marks.exclusions PROVE FALSE
          OBVIOUS
        <4>2. Exclusion(x, v) \in current_atoms
          BY <1>7, <4>1
        <4>3. CASE Exclusion(x, v) \in Givens(puzzle)
          <5>1. <<x, v>> \in excluded_givens
            BY <1>2, <4>3 DEF excluded_givens, CellsOf, Exclusion, Cells
          <5> QED
            BY <1>9, <1>11, <5>1 DEF cell_locked
        <4>4. CASE Exclusion(x, v) \notin Givens(puzzle)
          BY <1>1, <1>2, <4>2, <4>4 DEF Exclusion
        <4> QED
          BY <4>3, <4>4
      <3>2. <<x, v>> \in r.exclusions
        BY <1>9, <1>10, <2>2
      <3> QED
        BY <3>1, <3>2
    <2> QED
      BY <1>2, <2>1, <2>2
  <1>14. ~CellRefused(a)
    BY <1>11, <1>12 DEF CellRefused, r
  <1> QED
    BY <1>13, <1>14 DEF a, r

----------------------------------------------------------------------------
(* Answers, as the four properties describe them. *)

GoodAnswer(r) ==
  /\ r # Failed
  /\ r.kind = "evaluation" => VerdictIsTrue(r)
  /\ r.kind = "hint" /\ r.status = "available" =>
       /\ \A a \in r.evidence.premises \cup {r.evidence.claim} : Certain(a)
       /\ \A a \in r.disclosure.action : ~CellRefused(a) /\ apply_cell_action(marks, a) # marks
  /\ r.kind = "hint" /\ r.status = "correction_required" =>
       /\ VerdictIsTrue(r.blocking)
       /\ r.blocking.submitted \in current_atoms
       /\ Certain(opposite_atom(r.blocking.submitted))
  /\ r.kind = "hint" /\ r.status \in {"available", "human_rules_exhausted"} =>
       \A a \in current_atoms \ Givens(puzzle) : Certain(a)

LEMMA AnswersAreGood ==
  GoodAnswer(answer) <=> AdviceIsTrue /\ StepsNeedRightMarks /\ SuggestionsArePlayable /\ NeverFails
  BY DEF GoodAnswer, AdviceIsTrue, StepsNeedRightMarks, SuggestionsArePlayable, NeverFails,
         Shown, CorrectionAsked

LEMMA PlainAnswers ==
  /\ GoodAnswer(NoAnswer) /\ GoodAnswer(Refused)
  /\ \A st : st \notin {"available", "human_rules_exhausted", "correction_required"} =>
       GoodAnswer(HintResult(st))
  BY DEF GoodAnswer, NoAnswer, Refused, Failed, HintResult

LEMMA EvaluationsAreGood ==
  ASSUME SessionInv, NEW a, NEW e \in Evaluations(a) PROVE GoodAnswer(e)
  <1>1. e.kind = "evaluation" /\ VerdictIsTrue(e)
    BY EvaluationsHold
  <1> QED
    BY <1>1 DEF GoodAnswer, Failed

LEMMA CorrectionsAreGood ==
  ASSUME SessionInv, NEW o \in Outcomes({}), NEW a \in Refuted(o), NEW r \in Corrections(a)
  PROVE  GoodAnswer(r)
  <1>1. a \in DOMAIN o /\ o[a] = "contradicted"
    BY DEF Refuted, AtomsWith
  <1>2. a \in current_atoms /\ a \notin Givens(puzzle) /\ "contradicted" \in classify_atom(a)
    <2>1. /\ DOMAIN o = current_atoms \ (Givens(puzzle) \cup {})
          /\ \A b \in DOMAIN o : o[b] \in classify_atom(b)
      BY OutcomeShape
    <2> QED
      BY <1>1, <2>1
  <1>3. Certain(opposite_atom(a))
    BY <1>2, VerdictsHold
  <1>4. PICK e \in Evaluations(a) : r = IF e = Failed THEN Failed ELSE Correction(e)
    BY <1>2, EventsAreFound DEF Corrections
  <1>5. e.kind = "evaluation" /\ e.submitted = a /\ VerdictIsTrue(e)
    BY EvaluationsHold
  <1>6. r = Correction(e)
    BY <1>4, <1>5 DEF Failed
  <1>7. r.kind = "hint" /\ r.status = "correction_required" /\ r.blocking = e
    BY <1>6 DEF Correction
  <1> QED
    BY <1>2, <1>3, <1>5, <1>7 DEF GoodAnswer, Failed

LEMMA StepsAreGood ==
  ASSUME SessionInv, NEW o \in Outcomes({}), Refuted(o) = {}, NEW level, NEW r \in Progress(o, level)
  PROVE  GoodAnswer(r)
  <1>1. CASE ~AllSupported(o)
    <2>1. r \in {HintResult("quarantined"), HintResult("inconclusive")}
      BY <1>1 DEF AllSupported, Progress
    <2> QED
      BY <2>1, PlainAnswers
  <1>2. CASE AllSupported(o)
    <2> DEFINE s == state_from_supported_marks(Supported(o))
    <2>1. r \in NextSteps(s, level)
      BY <1>2 DEF AllSupported, Progress
    <2>2. \A a \in current_atoms \ Givens(puzzle) : Certain(a)
      BY <1>2, RightMarks
    <2>3. Based(s) /\ Models(s) = Models(genesis) /\ \A a \in Asserted(s) : Certain(a)
      BY OutcomeShape, SupportedState
    <2>4. \A c \in logic_grid_applications(s) :
            Certain(c.claim) /\ Models(genesis) # {} =>
              LET a == Suggested(c.claim) IN ~CellRefused(a) /\ apply_cell_action(marks, a) # marks
      BY <1>2, SuggestionFits
    <2> HIDE DEF s
    <2>5. CASE r = HintResult("human_rules_exhausted")
      BY <2>2, <2>5 DEF GoodAnswer, HintResult, Failed
    <2>6. CASE r = HintResult("quarantined") \/ r = HintResult("inconclusive")
      BY <2>6, PlainAnswers
    <2>7. ASSUME NEW c \in logic_grid_applications(s), NEW d \in proof_record(s, c.premises, c.claim),
                 is_cross_verified(d), r = Hint(c, level)
          PROVE  GoodAnswer(r)
      <3>1. \A p \in c.premises : Certain(p)
        BY <2>3, ApplicationsFit DEF Fits
      <3>2. Assuming(s, c.premises) # {} /\ Entails(s, c.premises, c.claim)
        BY <2>7, CrossVerified
      <3>3. Assuming(s, c.premises) = Models(genesis)
        BY <2>3, <3>1 DEF Assuming, Certain
      <3>4. Certain(c.claim) /\ Models(genesis) # {}
        BY <3>2, <3>3 DEF Entails, Certain
      <3>5. /\ ~CellRefused(Suggested(c.claim))
            /\ apply_cell_action(marks, Suggested(c.claim)) # marks
        BY <2>4, <3>4
      <3>6. /\ r.kind = "hint" /\ r.status = "available" /\ r.evidence = c
            /\ r.disclosure = build_disclosure(c, level)
        BY <2>7 DEF Hint
      <3>7. \A a \in r.disclosure.action : a = Suggested(c.claim)
        BY <3>6 DEF build_disclosure, Suggested
      <3> QED
        BY <2>2, <3>1, <3>4, <3>5, <3>6, <3>7 DEF GoodAnswer, Failed
    <2> QED
      BY <2>1, <2>5, <2>6, <2>7 DEF NextSteps
  <1> QED
    BY <1>1, <1>2

----------------------------------------------------------------------------
(* Every answer is good for the session it was given for, and the session does  *)
(* not move while the answer is on the table.                                   *)
AdviceInv == SessionInv /\ GoodAnswer(answer)

LEMMA AnswersStep ==
  ASSUME AdviceInv, [Next]_vars PROVE AdviceInv'
  <1>1. SessionInv'
    <2>1. [PlayNext]_session
      BY DEF Next, vars, PlayOn, Dismiss, EvaluateMove, RequestHint
    <2> QED
      BY <2>1, SessionNext DEF AdviceInv
  <1>2. ASSUME NEW r, GoodAnswer(r), answer' = r, UNCHANGED session PROVE GoodAnswer(answer)'
    BY <1>2 DEF GoodAnswer, session, current_atoms, CellRefused
  <1>3. CASE UNCHANGED vars
    BY <1>1, <1>2, <1>3 DEF AdviceInv, vars
  <1>4. CASE PlayOn
    <2>1. answer' = NoAnswer
      BY <1>4 DEF PlayOn
    <2> QED
      BY <1>1, <2>1 DEF AdviceInv, GoodAnswer, NoAnswer, Failed
  <1>5. CASE Dismiss
    BY <1>1, <1>2, <1>5, PlainAnswers DEF Dismiss, AdviceInv
  <1>6. ASSUME NEW n \in 1 .. count, EvaluateMove(n) PROVE AdviceInv'
    <2>1. answer' = Refused \/ answer' \in Evaluations(event_atom(n))
      BY <1>6 DEF EvaluateMove
    <2>2. GoodAnswer(answer') /\ UNCHANGED session
      BY <1>6, <2>1, PlainAnswers, EvaluationsAreGood DEF EvaluateMove, AdviceInv
    <2> QED
      BY <1>1, <1>2, <2>2 DEF AdviceInv
  <1>7. ASSUME NEW level \in Levels, RequestHint(level) PROVE AdviceInv'
    <2>1. UNCHANGED session
      BY <1>7 DEF RequestHint
    <2>2. CASE answer' \in {HintResult("already_complete"), HintResult("unavailable_mode")}
      BY <1>1, <1>2, <2>1, <2>2, PlainAnswers DEF AdviceInv
    <2>3. CASE Assist(level)
      <3> DEFINE settled == {o \in Outcomes({}) :
                               ~Impossible(state_from_supported_marks(Supported(o)))}
      <3>1. settled = Outcomes({})
        BY OutcomeShape, SupportedState DEF AdviceInv
      <3>2. \/ \E o \in Outcomes({}) : \E a \in Refuted(o) : answer' \in Corrections(a)
            \/ \E o \in Outcomes({}) : Refuted(o) = {} /\ answer' \in Progress(o, level)
        BY <2>3, <3>1 DEF Assist
      <3>3. GoodAnswer(answer')
        BY <3>2, CorrectionsAreGood, StepsAreGood DEF AdviceInv
      <3> QED
        BY <1>1, <1>2, <2>1, <3>3 DEF AdviceInv
    <2> QED
      BY <1>7, <2>2, <2>3 DEF RequestHint
  <1> QED
    BY <1>3, <1>4, <1>5, <1>6, <1>7 DEF Next

(* The session's invariant, and answers that are right about it, together are *)
(* inductive.                                                                 *)
THEOREM AdviceInvariant == Spec => []AdviceInv
  <1>1. Init => AdviceInv
    BY SessionInit, PlainAnswers DEF Init, AdviceInv
  <1>2. AdviceInv /\ [Next]_vars => AdviceInv'
    BY AnswersStep
  <1> QED
    BY <1>1, <1>2, PTL DEF Spec

(* Advice is a fact about the puzzle, whatever the marks and whichever backend  *)
(* fails, as long as one is correct.                                            *)
THEOREM AdviceHolds == Spec => []AdviceIsTrue
  <1>1. AdviceInv => AdviceIsTrue
    BY AnswersAreGood DEF AdviceInv
  <1> QED
    BY <1>1, AdviceInvariant, PTL

(* Steps, or the news that there is none, come only over right marks. *)
THEOREM StepsComeAfterCorrections == Spec => []StepsNeedRightMarks
  <1>1. AdviceInv => StepsNeedRightMarks
    BY AnswersAreGood DEF AdviceInv
  <1> QED
    BY <1>1, AdviceInvariant, PTL

(* A suggested action is accepted in every mode and changes the grid. *)
THEOREM SuggestionsCanBePlayed == Spec => []SuggestionsArePlayable
  <1>1. AdviceInv => SuggestionsArePlayable
    BY AnswersAreGood DEF AdviceInv
  <1> QED
    BY <1>1, AdviceInvariant, PTL

(* The service never meets an impossible state and finds every mark's event. *)
THEOREM AssistanceNeverFails == Spec => []NeverFails
  <1>1. AdviceInv => NeverFails
    BY AnswersAreGood DEF AdviceInv
  <1> QED
    BY <1>1, AdviceInvariant, PTL

=============================================================================
