--------------------------- MODULE ClueSemantics ----------------------------
(***************************************************************************)
(* What a clue means to each part of the program that reads it.  A clue is *)
(* an expression tree; in each family the human rules, the final checker   *)
(* and the two solver encodings evaluate it with code of their own.  The   *)
(* operators take the reader as a parameter and differ where the code does.*)
(*                                                                         *)
(* Expressions are immutable: each is made of parts made before it.  What  *)
(* the code computes by recursion is a recursive function on them.         *)
(***************************************************************************)
EXTENDS Integers, Sequences, FiniteSets

CONSTANT Expressions      \* every expression and part of one, in the order they are made

Made(n) == {Expressions[i] : i \in 1 .. n}
AllExpressions == Made(Len(Expressions))

Readers == {"rules", "checker", "z3", "cpsat"}
Comparisons == {"equal", "not_equal", "less_than", "less_than_or_equal",
                "greater_than", "greater_than_or_equal"}
NumericKinds == {"constant", "variable_reference", "add", "subtract", "multiply",
                 "exact_divide", "modulo", "negate"}

Numerics(parts) == {e \in parts : e.kind \in NumericKinds}
Booleans(parts) == {e \in parts : e.kind \notin NumericKinds}

(* What an expression may be made of. *)
IsExpression(e, parts) ==
  \/ e.kind = "constant" /\ e.value \in Int
  \/ e.kind = "variable_reference"
  \/ e.kind \in {"add", "multiply"} /\ e.operands \in Seq(Numerics(parts)) /\ Len(e.operands) >= 2
  \/ e.kind \in Comparisons \cup {"subtract"} /\ {e.left, e.right} \subseteq Numerics(parts)
  \/ e.kind \in {"exact_divide", "modulo"} /\ {e.dividend, e.divisor} \subseteq Numerics(parts)
  \/ e.kind = "negate" /\ e.operand \in Numerics(parts)
  \/ e.kind \in {"and", "or"} /\ e.operands \in Seq(Booleans(parts)) /\ Len(e.operands) >= 2
  \/ e.kind = "not" /\ e.operand \in Booleans(parts)
  \/ e.kind \in {"xor", "equivalent"} /\ {e.left, e.right} \subseteq Booleans(parts)
  \/ e.kind = "implies" /\ {e.premise, e.conclusion} \subseteq Booleans(parts)
  \/ /\ e.kind = "cardinality" /\ e.operands \in Seq(Booleans(parts))
     /\ e.minimum \in Nat /\ e.maximum \in e.minimum .. Len(e.operands)

ASSUME ExpressionsAssumption ==
  /\ Len(Expressions) \in Nat
  /\ \A n \in 1 .. Len(Expressions) : IsExpression(Expressions[n], Made(n - 1))

Compare(kind, l, r) ==
  CASE kind = "equal"                 -> l = r
    [] kind = "not_equal"             -> l # r
    [] kind = "less_than"             -> l < r
    [] kind = "less_than_or_equal"    -> l <= r
    [] kind = "greater_than"          -> l > r
    [] kind = "greater_than_or_equal" -> l >= r

Children(e) ==
  CASE e.kind \in {"add", "multiply", "and", "or", "cardinality"} ->
         {e.operands[i] : i \in 1 .. Len(e.operands)}
    [] e.kind \in {"exact_divide", "modulo"}   -> {e.dividend, e.divisor}
    [] e.kind \in {"negate", "not"}            -> {e.operand}
    [] e.kind = "implies"                      -> {e.premise, e.conclusion}
    [] e.kind \in {"constant", "variable_reference"} -> {}
    [] e.kind \in {"subtract", "xor", "equivalent"} \cup Comparisons -> {e.left, e.right}

(* The connectives, from the operands that hold. *)
Connect(e, true) ==
  CASE e.kind = "and"         -> \A i \in 1 .. Len(e.operands) : e.operands[i] \in true
    [] e.kind = "or"          -> \E i \in 1 .. Len(e.operands) : e.operands[i] \in true
    [] e.kind = "not"         -> e.operand \notin true
    [] e.kind = "xor"         -> (e.left \in true) # (e.right \in true)
    [] e.kind = "implies"     -> e.premise \in true => e.conclusion \in true
    [] e.kind = "equivalent"  -> (e.left \in true) = (e.right \in true)
    [] e.kind = "cardinality" ->
         Cardinality({i \in 1 .. Len(e.operands) : e.operands[i] \in true}) \in e.minimum .. e.maximum

boolean_variables(e) ==
  LET variables[d \in AllExpressions] ==
        IF d.kind = "variable_reference" THEN {d.variable}
        ELSE UNION {variables[c] : c \in Children(d)}
  IN  variables[e]

contains_modulo(e) ==
  LET found[d \in AllExpressions] == d.kind = "modulo" \/ \E c \in Children(d) : found[c]
  IN  found[e]

----------------------------------------------------------------------------
(* Logic Equations.  A number may be invalid, which makes the comparison that  *)
(* contains it false.                                                          *)
Number(n) == [valid |-> TRUE, n |-> n]
Invalid == [valid |-> FALSE, n |-> 0]

(* Python's remainder has the sign of the divisor; Z3's is never negative. *)
Remainder(reader, a, b) ==
  IF b > 0 THEN a % b ELSE IF reader = "z3" THEN a % (-b) ELSE -((-a) % (-b))

(* Mutant: the rules round an inexact quotient down. *)
exact_divide_Rounded(reader, a, b) ==
  IF b = 0 \/ (reader # "rules" /\ Remainder(reader, a, b) # 0) THEN Invalid
  ELSE Number(IF b > 0 THEN a \div b ELSE (-a) \div (-b))

exact_divide(reader, a, b) ==
  IF b = 0 \/ Remainder(reader, a, b) # 0 THEN Invalid
  ELSE Number(IF b > 0 THEN a \div b ELSE (-a) \div (-b))

(* The encodings refuse a negative divisor, the rules and the checker do not. *)
modulo(reader, a, b) ==
  IF b = 0 \/ (reader \in {"z3", "cpsat"} /\ b < 0) THEN Invalid
  ELSE Number(Remainder(reader, a, b))

(* The running sum and product of m numbers. *)
Sum(n, m) == LET sum[i \in 0 .. m] == IF i = 0 THEN 0 ELSE sum[i - 1] + n[i] IN sum[m]
Product(n, m) == LET product[i \in 0 .. m] == IF i = 0 THEN 1 ELSE product[i - 1] * n[i] IN product[m]

(* The value of an expression whose parts have the valid values n. *)
calculate(reader, e, n) ==
  LET numbers == [i \in 1 .. Len(e.operands) |-> n[e.operands[i]]] IN
  CASE e.kind = "constant"     -> Number(e.value)
    [] e.kind = "add"          -> Number(Sum(numbers, Len(e.operands)))
    [] e.kind = "multiply"     -> Number(Product(numbers, Len(e.operands)))
    [] e.kind = "subtract"     -> Number(n[e.left] - n[e.right])
    [] e.kind = "negate"       -> Number(-n[e.operand])
    [] e.kind = "exact_divide" -> exact_divide(reader, n[e.dividend], n[e.divisor])
    [] e.kind = "modulo"       -> modulo(reader, n[e.dividend], n[e.divisor])

equation_numeric(reader, e, f) ==
  LET value[d \in AllExpressions] ==
        IF d.kind = "variable_reference" THEN Number(f[d.variable])
        ELSE IF \E c \in Children(d) : ~value[c].valid THEN Invalid
        ELSE calculate(reader, d, [c \in Children(d) |-> value[c].n])
  IN  value[e]

compare_numbers(kind, l, r) == l.valid /\ r.valid /\ Compare(kind, l.n, r.n)

equation(reader, e, f) ==
  LET holds[d \in AllExpressions] ==
        IF d.kind \in Comparisons
        THEN compare_numbers(d.kind, equation_numeric(reader, d.left, f),
                                     equation_numeric(reader, d.right, f))
        ELSE Connect(d, {c \in Children(d) : holds[c]})
  IN  holds[e]

(* The four readers. *)
equations_rules(e, f)   == equation("rules", e, f)
equations_checker(e, f) == equation("checker", e, f)
equations_z3(e, f)      == equation("z3", e, f)
equations_cpsat(e, f)   == equation("cpsat", e, f)

read_equation(reader, e, f) ==
  CASE reader = "rules"   -> equations_rules(e, f)
    [] reader = "checker" -> equations_checker(e, f)
    [] reader = "z3"      -> equations_z3(e, f)
    [] reader = "cpsat"   -> equations_cpsat(e, f)

----------------------------------------------------------------------------
(* Logic Grid.  f places each item in a row; anchor[r] gives row r its ordinal *)
(* and its number.  Two items are compared by ordinal in the rules and the     *)
(* checker, by position in the encodings; any other comparison is of numbers.  *)
Place(reader, r, anchor) == IF reader \in {"rules", "checker"} THEN anchor[r].ordinal ELSE r

(* Numbers are the anchor's, constants and differences, of parts with a value. *)
grid_number(d, f, anchor, value) ==
  CASE d.kind = "constant"           -> d.value
    [] d.kind = "variable_reference" -> anchor[f[d.variable]].numeric_value
    [] d.kind = "subtract"           -> value[d.left] - value[d.right]

grid_numeric(e, f, anchor) ==
  LET value[d \in AllExpressions] == grid_number(d, f, anchor, value) IN value[e]

direct_relation(e) ==
  e.kind \in Comparisons /\ e.left.kind = "variable_reference" /\ e.right.kind = "variable_reference"

grid(reader, e, f, anchor) ==
  LET holds[d \in AllExpressions] ==
        IF direct_relation(d)
        THEN Compare(d.kind, Place(reader, f[d.left.variable], anchor),
                             Place(reader, f[d.right.variable], anchor))
        ELSE IF d.kind \in Comparisons
        THEN Compare(d.kind, grid_numeric(d.left, f, anchor), grid_numeric(d.right, f, anchor))
        ELSE Connect(d, {c \in Children(d) : holds[c]})
  IN  holds[e]

grid_rules(e, f, anchor)   == grid("rules", e, f, anchor)
grid_checker(e, f, anchor) == grid("checker", e, f, anchor)
grid_z3(e, f, anchor)      == grid("z3", e, f, anchor)
grid_cpsat(e, f, anchor)   == grid("cpsat", e, f, anchor)

read_grid(reader, e, f, anchor) ==
  CASE reader = "rules"   -> grid_rules(e, f, anchor)
    [] reader = "checker" -> grid_checker(e, f, anchor)
    [] reader = "z3"      -> grid_z3(e, f, anchor)
    [] reader = "cpsat"   -> grid_cpsat(e, f, anchor)
=============================================================================
