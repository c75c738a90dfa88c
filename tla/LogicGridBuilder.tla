--------------------------- MODULE LogicGridBuilder --------------------------
(***************************************************************************)
(* The guided builder: an author edits a draft of categories and clue      *)
(* templates; an assessment validates it, compiles it to a Logic Grid      *)
(* specification and, on request, proves it by the human engine and the    *)
(* final checker.                                                          *)
(*                                                                         *)
(* Keys and labels are compared, never read: the ones the key pattern or   *)
(* the text rules refuse are members of BadText, and labels are the ones   *)
(* left after trimming.  An id derived from keys is the tuple of them.     *)
(* Templates and drafts are immutable: each template is made of templates  *)
(* made before it.  Numbers are integers here (the code admits fractions). *)
(***************************************************************************)
EXTENDS ClueSemantics, Functions, FiniteSetsExt

CONSTANTS
  Templates,              \* every clue template and part of one, in the order they are made
  BadText,                \* keys, labels and titles that are not acceptable
  MaxCategories, MaxItems, MaxClues, MaxDepth,   \* the MAX_BUILDER_... limits
  FirstDraft,
  Edits(_)                \* the drafts an author may turn a draft into

VARIABLES draft, assessment
builder_vars == <<draft, assessment>>

None == "none"
Keys(rows) == [i \in DOMAIN rows |-> rows[i].key]
Labels(rows) == [i \in DOMAIN rows |-> rows[i].label]
Repeats(s) == ~IsInjective(s)
IsSequence(s) == s \in Seq(Range(s))

----------------------------------------------------------------------------
(* Templates.  An item reference is a pair of a category and an item key. *)

TemplatesMade(n) == {Templates[i] : i \in 1 .. n}
AllTemplates == TemplatesMade(Len(Templates))

(* What the template models validate. *)
IsTemplate(p, parts) ==
  \/ p.kind = "association" /\ p.relation \in {"same", "different"}
  \/ p.kind = "ordering"
  \/ p.kind = "numeric_difference" /\ p.difference \in Nat \ {0}
  \/ p.kind \in {"all", "any"} /\ p.operands \in Seq(parts) /\ Len(p.operands) >= 2
  \/ p.kind = "not" /\ p.operand \in parts
  \/ p.kind \in {"exclusive", "equivalent"} /\ {p.left, p.right} \subseteq parts
  \/ p.kind = "conditional" /\ {p.premise, p.conclusion} \subseteq parts
  \/ /\ p.kind = "cardinality" /\ p.operands \in Seq(parts) /\ Len(p.operands) >= 1
     /\ p.minimum \in Nat /\ p.maximum \in p.minimum .. Len(p.operands)

ASSUME TemplatesAssumption ==
  /\ Len(Templates) \in Nat
  /\ \A n \in 1 .. Len(Templates) : IsTemplate(Templates[n], TemplatesMade(n - 1))

predicate_children(p) ==
  CASE p.kind \in {"all", "any", "cardinality"}  -> {p.operands[i] : i \in 1 .. Len(p.operands)}
    [] p.kind = "not"                            -> {p.operand}
    [] p.kind \in {"exclusive", "equivalent"}    -> {p.left, p.right}
    [] p.kind = "conditional"                    -> {p.premise, p.conclusion}
    [] p.kind \in {"association", "ordering", "numeric_difference"} -> {}

Parts(p) ==
  LET parts[q \in AllTemplates] == {q} \cup UNION {parts[r] : r \in predicate_children(q)}
  IN  parts[p]

direct_refs(p) ==
  CASE p.kind = "association"        -> {p.left, p.right}
    [] p.kind = "ordering"           -> {p.earlier, p.later}
    [] p.kind = "numeric_difference" -> {p.greater, p.lesser}
    [] p.kind \notin {"association", "ordering", "numeric_difference"} -> {}

predicate_refs(p) == UNION {direct_refs(q) : q \in Parts(p)}

predicate_depth(p) ==
  LET depth[q \in AllTemplates] ==
        IF predicate_children(q) = {} THEN 1
        ELSE 1 + Max({depth[r] : r \in predicate_children(q)})
  IN  depth[p]

(* What a draft is made of; a numeric value is a set of at most one. *)
IsDraft(d) ==
  /\ IsSequence(d.categories) /\ IsSequence(d.clues)
  /\ \A c \in Range(d.categories) :
       /\ IsSequence(c.items)
       /\ \A i \in Range(c.items) :
            i.numeric_value = {} \/ \E n \in i.numeric_value : n \in Int /\ i.numeric_value = {n}
  /\ \A c \in Range(d.clues) : c.predicate \in AllTemplates

ASSUME FirstDraftAssumption == IsDraft(FirstDraft)

----------------------------------------------------------------------------
(* _validate_draft: the levels of the messages about each part.  A profile holds *)
(* the draft's id, author and locale.                                            *)

Items(d) == UNION {{<<c.key, i.key>> : i \in Range(c.items)} : c \in Range(d.categories)}
Anchor(d) == {c \in Range(d.categories) : c.key = d.anchor}
Numbers(c) == [i \in DOMAIN c.items |-> c.items[i].numeric_value]

When(problem, level) == IF problem THEN {level} ELSE {}

CategoryMessages(d, c) ==
  When({c.key, c.label} \cap BadText # {}, "invalid")
  \cup When(Len(c.items) < 2, "incomplete")
  \cup When(\/ Len(c.items) > MaxItems
            \/ Len(d.categories[1].items) >= 2 /\ Len(c.items) # Len(d.categories[1].items)
            \/ Repeats(Keys(c.items)) \/ Repeats(Labels(c.items))
            \/ \E i \in Range(c.items) : {i.key, i.label} \cap BadText # {}, "invalid")

(* Values belong to the anchor, to all of its items or none, and differ. *)
NumberMessages(d) ==
  When(\/ \E c \in Anchor(d) :
            LET n == Numbers(c) IN
            (\E i \in DOMAIN n : n[i] # {}) /\ ({} \in Range(n) \/ Repeats(n))
       \/ \E c \in Range(d.categories) :
            c.key # d.anchor /\ \E i \in DOMAIN c.items : c.items[i].numeric_value # {},
       "invalid")

AnchorMessages(d) ==
  IF d.anchor = "" THEN {"incomplete"}
  ELSE When(d.anchor \notin Range(Keys(d.categories)), "invalid")

(* Association is between items of different categories; order and difference  *)
(* are not looked at.                                                          *)
ClueMessages(d, i) ==
  LET c == d.clues[i] IN
  When(\/ c.key \in BadText \/ c.text \in BadText
       \/ predicate_depth(c.predicate) > MaxDepth
       \/ ~(predicate_refs(c.predicate) \subseteq Items(d))
       \/ \E q \in Parts(c.predicate) : q.kind = "association" /\ q.left[1] = q.right[1], "invalid")
  \cup When(\E j \in 1 .. i - 1 : d.clues[j].predicate = c.predicate, "warning")

(* Mutant: a difference of numbers is accepted whatever values the anchor has. *)
NumericClueMessages_Unchecked(d) == {}

NumericClueMessages(d) ==
  When(/\ \E c \in Range(d.clues) : \E q \in Parts(c.predicate) : q.kind = "numeric_difference"
       /\ \A a \in Anchor(d) : a.items = <<>> \/ {} \in Range(Numbers(a)), "invalid")

validate_draft(d) ==
  When(d.title = "", "incomplete") \cup When((d.profile \cup {d.title}) \cap BadText # {}, "invalid")
  \cup When(Len(d.categories) < 3, "incomplete")
  \cup When(\/ Len(d.categories) > MaxCategories
            \/ Repeats(Keys(d.categories)) \/ Repeats(Labels(d.categories)), "invalid")
  \cup (UNION {CategoryMessages(d, c) : c \in Range(d.categories)})
  \cup AnchorMessages(d) \cup NumberMessages(d)
  \cup When(d.clues = <<>>, "incomplete")
  \cup When(Len(d.clues) > MaxClues \/ Repeats(Keys(d.clues)), "invalid")
  \cup (UNION {ClueMessages(d, i) : i \in DOMAIN d.clues})
  \cup NumericClueMessages(d)

----------------------------------------------------------------------------
(* _compile. *)

Reference(ref) == [kind |-> "variable_reference", variable |-> ref]
Relation(kind, l, r) == [kind |-> kind, left |-> l, right |-> r]

(* Mutant: exactly one becomes at least one. *)
exclusive_Inclusive(l, r) == [kind |-> "or", operands |-> <<l, r>>]

exclusive(l, r) == Relation("xor", l, r)

(* A template whose parts are compiled already. *)
Compiled(q, compiled) ==
  CASE q.kind = "association" ->
         Relation(IF q.relation = "same" THEN "equal" ELSE "not_equal",
                  Reference(q.left), Reference(q.right))
    [] q.kind = "ordering" -> Relation("less_than", Reference(q.earlier), Reference(q.later))
    [] q.kind = "numeric_difference" ->
         Relation("equal", Relation("subtract", Reference(q.greater), Reference(q.lesser)),
                  [kind |-> "constant", value |-> q.difference])
    [] q.kind = "all" ->
         [kind |-> "and", operands |-> [i \in 1 .. Len(q.operands) |-> compiled[q.operands[i]]]]
    [] q.kind = "any" ->
         [kind |-> "or", operands |-> [i \in 1 .. Len(q.operands) |-> compiled[q.operands[i]]]]
    [] q.kind = "not" -> [kind |-> "not", operand |-> compiled[q.operand]]
    [] q.kind = "exclusive" -> exclusive(compiled[q.left], compiled[q.right])
    [] q.kind = "conditional" ->
         [kind |-> "implies", premise |-> compiled[q.premise],
          conclusion |-> compiled[q.conclusion]]
    [] q.kind = "equivalent" -> Relation("equivalent", compiled[q.left], compiled[q.right])
    [] q.kind = "cardinality" ->
         [kind |-> "cardinality", minimum |-> q.minimum, maximum |-> q.maximum,
          operands |-> [i \in 1 .. Len(q.operands) |-> compiled[q.operands[i]]]]

compile_predicate(p) ==
  LET compiled[q \in AllTemplates] == Compiled(q, compiled) IN compiled[p]

ASSUME CompiledAssumption == \A p \in AllTemplates : compile_predicate(p) \in AllExpressions

ItemVariables(c) == [i \in DOMAIN c.items |-> <<c.key, c.items[i].key>>]

compile(d) ==
  LET anchor == CHOOSE c \in Anchor(d) : TRUE IN
  [domains |-> [k \in DOMAIN d.categories |->
     LET c == d.categories[k] IN
     [id |-> c.key, ordered |-> c = anchor,
      values |-> [i \in DOMAIN c.items |->
        [id |-> <<c.key, c.items[i].key>>, label |-> c.items[i].label,
         ordinal |-> IF c = anchor THEN i ELSE 0,
         numeric_value |-> IF c = anchor THEN c.items[i].numeric_value ELSE {}]]]],
   categories |-> [k \in DOMAIN d.categories |->
     LET c == d.categories[k] IN
     [id |-> c.key, label |-> c.label, domain |-> c.key, variables |-> ItemVariables(c)]],
   bijections |-> [k \in DOMAIN d.categories |->
     [id |-> <<d.categories[k].key, "bijection">>, variables |-> ItemVariables(d.categories[k])]],
   clue_constraints |-> [k \in DOMAIN d.clues |->
     [id |-> <<d.clues[k].key>>, source_clue |-> d.clues[k].key,
      expression |-> compile_predicate(d.clues[k].predicate)]],
   clues |-> [k \in DOMAIN d.clues |->
     [id |-> d.clues[k].key, constraints |-> {<<d.clues[k].key>>}]],
   givens |-> [v \in Range(ItemVariables(anchor)) |-> v],
   anchor |-> anchor.key]

----------------------------------------------------------------------------
(* What the specification itself validates. *)

Ids(rows) == [i \in DOMAIN rows |-> rows[i].id]
AnchorDomain(spec) ==
  LET category == CHOOSE c \in Range(spec.categories) : c.id = spec.anchor
  IN  CHOOSE e \in Range(spec.domains) : e.id = category.domain
AllVariables(spec) == UNION {Range(c.variables) : c \in Range(spec.categories)}
HasNumbers(domain) == \A v \in Range(domain.values) : v.numeric_value # {}

(* No entry of some rows occurs twice. *)
Distinct(rows) ==
  \A k, l \in DOMAIN rows : \A i \in DOMAIN rows[k], j \in DOMAIN rows[l] :
    rows[k][i] = rows[l][j] => k = l /\ i = j

validate_expression(e, spec) ==
  LET accepted[d \in AllExpressions] ==
        /\ CASE d.kind = "variable_reference" -> d.variable \in AllVariables(spec)
             [] d.kind \in {"constant", "subtract"} -> HasNumbers(AnchorDomain(spec))
             [] d.kind \in {"equal", "not_equal"} ->
                  direct_relation(d) \/ HasNumbers(AnchorDomain(spec))
             [] d.kind \in Comparisons \ {"equal", "not_equal"} -> AnchorDomain(spec).ordered
             [] d.kind \notin Comparisons \cup {"variable_reference", "constant", "subtract"} -> TRUE
        /\ \A x \in Children(d) : accepted[x]
  IN  accepted[e]

validate_anchor_domain(domain) ==
  LET n == [i \in DOMAIN domain.values |-> domain.values[i].numeric_value] IN
  /\ domain.ordered => \A i \in DOMAIN domain.values : domain.values[i].ordinal = i
  /\ (\E i \in DOMAIN n : n[i] # {}) => {} \notin Range(n) /\ ~Repeats(n)

validate_clues(spec) ==
  LET constraints == Range(Ids(spec.clue_constraints)) IN
  /\ UNION {c.constraints : c \in Range(spec.clues)} = constraints
  /\ \A x \in Range(spec.clue_constraints) :
       \E c \in Range(spec.clues) : c.id = x.source_clue /\ x.id \in c.constraints

validate_logic_grid_contract(spec) ==
  LET size == Len(spec.domains[1].values) IN
  /\ Len(spec.categories) >= 3 /\ size >= 2
  /\ \A ids \in {Ids(spec.domains), Ids(spec.categories), Labels(spec.categories), Ids(spec.clues),
                 Ids(spec.bijections) \o Ids(spec.clue_constraints)} : ~Repeats(ids)
  /\ spec.anchor \in Range(Ids(spec.categories))
  /\ \A e \in Range(spec.domains) : Len(e.values) = size /\ ~Repeats(Labels(e.values))
  /\ Distinct([k \in DOMAIN spec.categories |-> spec.categories[k].variables])
  /\ Distinct([k \in DOMAIN spec.domains |-> Ids(spec.domains[k].values)])
  /\ {b.variables : b \in Range(spec.bijections)} = {c.variables : c \in Range(spec.categories)}
  /\ validate_anchor_domain(AnchorDomain(spec))
  /\ spec.clue_constraints # <<>>
  /\ \A x \in Range(spec.clue_constraints) :
       validate_expression(x.expression, spec) /\ boolean_variables(x.expression) # {}
  /\ validate_clues(spec)
  /\ \A i \in DOMAIN AnchorDomain(spec).values :
       LET v == AnchorDomain(spec).values[i].id IN v \in DOMAIN spec.givens /\ spec.givens[v] = v

----------------------------------------------------------------------------
(* The arrangements of a specification: each item takes a row, the anchor its  *)
(* own, and no two items of a category the same.                               *)
Arrangements(spec) ==
  LET n == Len(spec.domains[1].values) IN
  {f \in [AllVariables(spec) -> 1 .. n] :
     /\ \A b \in Range(spec.bijections) : \A i, j \in DOMAIN b.variables :
          i # j => f[b.variables[i]] # f[b.variables[j]]
     /\ \A i \in 1 .. n : f[AnchorDomain(spec).values[i].id] = i}

(* The ordinal and the number of each row, 0 where there is none. *)
Rows(spec) ==
  [i \in DOMAIN AnchorDomain(spec).values |->
     LET v == AnchorDomain(spec).values[i] IN
     [ordinal |-> v.ordinal,
      numeric_value |-> IF v.numeric_value = {} THEN 0 ELSE CHOOSE n \in v.numeric_value : TRUE]]

Satisfying(spec, reader) ==
  LET rows == Rows(spec) IN
  {f \in Arrangements(spec) :
     \A x \in Range(spec.clue_constraints) : read_grid(reader, x.expression, f, rows)}

(* The engine's promise: it stops short of a solution, or reports the only one *)
(* its backends know of.  The final checker then reads the clues itself.       *)
proofs(spec) ==
  LET known == Satisfying(spec, "z3") IN
  {[proved |-> FALSE, level |-> "unproven"]}
  \cup {[proved |-> f \in Satisfying(spec, "checker"), level |-> "invalid", solution |-> f] :
          f \in {g \in known : known = {g}}}

Assessment(status, stage) == [status |-> status, stage |-> stage, solution |-> {}]

incomplete_stage(d) ==
  IF d.title = "" THEN "profile"
  ELSE IF \/ Len(d.categories) < 3 \/ d.anchor = ""
          \/ \E c \in Range(d.categories) : Len(c.items) < 2 THEN "categories"
  ELSE "clues"

Assessments(d, verify) ==
  LET levels == validate_draft(d) IN
  IF "invalid" \in levels
  THEN {Assessment("invalid", IF d.categories = <<>> THEN "profile" ELSE "categories")}
  ELSE IF "incomplete" \in levels THEN {Assessment("incomplete", incomplete_stage(d))}
  ELSE IF ~validate_logic_grid_contract(compile(d)) THEN {Assessment("raised", "preview")}
  ELSE IF ~verify THEN {Assessment("unproven", "preview")}
  ELSE {IF ~p.proved THEN Assessment(p.level, "proof")
        ELSE [status |-> IF "warning" \in levels THEN "warning" ELSE "valid",
              stage |-> "ready", solution |-> {p.solution}] : p \in proofs(compile(d))}

----------------------------------------------------------------------------
BuilderInit == draft = FirstDraft /\ assessment = Assessment(None, None)

assess_logic_grid_builder(verify) ==
  /\ assessment.status = None
  /\ assessment' \in Assessments(draft, verify)
  /\ UNCHANGED draft

(* A revised draft has not been assessed. *)
Revise ==
  /\ draft' \in Edits(draft)
  /\ IsDraft(draft')
  /\ assessment' = Assessment(None, None)

BuilderNext == (\E verify \in BOOLEAN : assess_logic_grid_builder(verify)) \/ Revise

BuilderSpec == BuilderInit /\ [][BuilderNext]_builder_vars

----------------------------------------------------------------------------
(* Properties. *)

(* What the author's templates say of an arrangement: one template, from those of *)
(* its parts that are true, and any.                                              *)
Says(q, f, number, true) ==
  LET count == Cardinality({i \in 1 .. Len(q.operands) : q.operands[i] \in true}) IN
  CASE q.kind = "association"        -> (f[q.left] = f[q.right]) = (q.relation = "same")
    [] q.kind = "ordering"           -> f[q.earlier] < f[q.later]
    [] q.kind = "numeric_difference" -> number[f[q.greater]] = number[f[q.lesser]] + q.difference
    [] q.kind = "all"                -> count = Len(q.operands)
    [] q.kind = "any"                -> count > 0
    [] q.kind = "cardinality"        -> q.minimum <= count /\ count <= q.maximum
    [] q.kind = "not"                -> q.operand \notin true
    [] q.kind = "exclusive"          -> (q.left \in true) # (q.right \in true)
    [] q.kind = "equivalent"         -> (q.left \in true) = (q.right \in true)
    [] q.kind = "conditional"        -> q.premise \notin true \/ q.conclusion \in true

Means(p, f, number) ==
  LET true[q \in AllTemplates] ==
        Says(q, f, number, {r \in predicate_children(q) : true[r]})
  IN  true[p]

(* A draft whose messages are warnings at most is accepted by the specification  *)
(* it compiles to: the builder returns an assessment instead of raising.         *)
ValidDraftsCompile == assessment.status # "raised"

(* A puzzle called ready has exactly one arrangement that satisfies the author's *)
(* templates, the one shown as its solution, and its clues mean to the rules,    *)
(* the checker and both encodings what the author said.                          *)
ReadyMeansUnique ==
  assessment.stage = "ready" =>
    LET spec   == compile(draft)
        rows   == Rows(spec)
        number == [i \in DOMAIN rows |-> rows[i].numeric_value]
        meant  == {f \in Arrangements(spec) :
                     \A c \in Range(draft.clues) : Means(c.predicate, f, number)}
    IN  /\ Cardinality(meant) = 1 /\ meant = assessment.solution
        /\ \A f \in Arrangements(spec) : \A k \in DOMAIN draft.clues : \A reader \in Readers :
             read_grid(reader, spec.clue_constraints[k].expression, f, rows)
               = Means(draft.clues[k].predicate, f, number)
=============================================================================
