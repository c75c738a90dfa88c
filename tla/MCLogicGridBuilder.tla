------------------------- MODULE MCLogicGridBuilder -------------------------
(* A finished draft of three categories with three items, and every draft two   *)
(* edits away from it.  The anchor's numbers do not follow its order.           *)
EXTENDS LogicGridBuilder, SequencesExt

Item(key, value) == [key |-> key, label |-> key, numeric_value |-> value]
Category(key, items) == [key |-> key, label |-> key, items |-> items]
Clue(key, predicate) == [key |-> key, predicate |-> predicate, text |-> "text"]

A1 == <<"a", "1">>
B1 == <<"b", "1">>
B2 == <<"b", "2">>
B3 == <<"b", "3">>
C1 == <<"c", "1">>
C2 == <<"c", "2">>
C3 == <<"c", "3">>

Assoc(l, r, relation) == [kind |-> "association", left |-> l, right |-> r, relation |-> relation]
Same(l, r) == Assoc(l, r, "same")
Before(l, r) == [kind |-> "ordering", earlier |-> l, later |-> r]
More(l, r, n) == [kind |-> "numeric_difference", greater |-> l, lesser |-> r, difference |-> n]
Both(kind, l, r) == [kind |-> kind, left |-> l, right |-> r]
Some(kind, l, r) == [kind |-> kind, operands |-> <<l, r>>]
Count(n, m, l, r) == [kind |-> "cardinality", operands |-> <<l, r>>, minimum |-> n, maximum |-> m]
Negation(p) == [kind |-> "not", operand |-> p]

(* Each template; then a self-comparison, an unknown item, an association within *)
(* a category, and one nested too deeply.                                        *)
MCClueTemplates ==
  {Same(B1, C2), Assoc(B1, A1, "different"), Before(C3, C2), More(B3, C1, 10),
   Some("all", Same(B1, C1), Before(B1, B2)), Some("any", Same(B1, C1), Before(B3, B2)),
   Negation(Before(B1, B2)), Both("exclusive", Same(B1, C1), Before(B1, C2)),
   Both("equivalent", Before(B1, B2), Before(C2, C3)),
   [kind |-> "conditional", premise |-> Same(B1, A1), conclusion |-> More(C1, C2, 10)],
   Count(1, 1, Same(B2, C2), Before(B1, B2)),
   Before(B1, B1), Same(B1, <<"b", "9">>), Same(B1, B2), Negation(Negation(Same(B1, C1)))}

MCFirstDraft ==
  [revision |-> 0, title |-> "title", profile |-> {"id"}, anchor |-> "a",
   categories |-> <<Category("a", <<Item("1", {20}), Item("2", {30}), Item("3", {10})>>),
                    Category("b", <<Item("1", {}), Item("2", {}), Item("3", {})>>),
                    Category("c", <<Item("1", {}), Item("2", {}), Item("3", {})>>)>>,
   clues |-> <<Clue("k1", Some("all", Before(B1, B2), Before(B2, B3))),
               Clue("k2", Same(B1, C1)), Clue("k3", More(C2, C3, 20))>>]

(* The parts of a template, or of an expression, then itself. *)
RECURSIVE MakeTemplate(_), Make(_)
MakeTemplate(p) ==
  Append(FoldSet(LAMBDA q, s : s \o MakeTemplate(q), <<>>, predicate_children(p)), p)
Make(e) == Append(FoldSet(LAMBDA d, s : s \o Make(d), <<>>, Children(e)), e)

MCTemplates ==
  FoldSet(LAMBDA p, s : s \o MakeTemplate(p), <<>>,
          MCClueTemplates \cup {c.predicate : c \in Range(MCFirstDraft.clues)})
MCExpressions ==
  FoldSet(LAMBDA p, s : s \o Make(compile_predicate(p)), <<>>, Range(MCTemplates))

ItemEdits(items) ==
  {Append(items, Item("4", {})), Front(items)}
  \cup {ReplaceAt(items, 2, Item(key, {})) : key \in {"1", "bad"}}
  \cup {ReplaceAt(items, 2, [items[2] EXCEPT !.numeric_value = n]) : n \in {{}, {5}, {20}} }

CategoryEdits(cs) ==
  {Front(cs), Append(cs, Category("d", <<>>)), Append(cs, cs[2]),
   ReplaceAt(cs, 1, Category("a", [i \in DOMAIN cs[1].items |-> Item(cs[1].items[i].key, {})]))}
  \cup {ReplaceAt(cs, 3, [cs[3] EXCEPT !.label = l]) : l \in {"b", "bad"}}
  \cup UNION {{ReplaceAt(cs, k, [cs[k] EXCEPT !.items = i]) : i \in ItemEdits(cs[k].items)} : k \in 1 .. 2}

ClueEdits(cs) ==
  {Append(cs, Clue(key, p)) : key \in {"k1", "k4", "bad"}, p \in MCClueTemplates}
  \cup (IF cs = <<>> THEN {} ELSE {Front(cs)})
  \cup UNION {{ReplaceAt(cs, k, Clue(cs[k].key, p)) : p \in MCClueTemplates} : k \in DOMAIN cs}

CONSTANT MaxRevisions     \* bound on the edits of a draft

MCEdits(d) ==
  IF d.revision >= MaxRevisions THEN {}
  ELSE {[e EXCEPT !.revision = d.revision + 1] :
          e \in {[d EXCEPT !.title = t] : t \in {"", "bad"}}
                \cup {[d EXCEPT !.profile = {"bad"}]}
                \cup {[d EXCEPT !.anchor = a] : a \in {"", "b", "x"}}
                \cup {[d EXCEPT !.clues = c] : c \in ClueEdits(d.clues)}
                \cup (IF Len(d.categories) < 3 THEN {}
                      ELSE {[d EXCEPT !.categories = c] : c \in CategoryEdits(d.categories)})}
=============================================================================
