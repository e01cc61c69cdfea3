----------------------------- MODULE SpecClause -----------------------------
(***************************************************************************)
(* The clauses of `requires` and `ensures` (predicate.rs): `x < 5`,        *)
(* `x < y`, or a raw SMT-LIB assertion, here one over the operand labels   *)
(* `lhs` and `rhs` of an arithmetic obligation.  A clause is kept as what  *)
(* parsing its text gives; translating it either yields a term with the    *)
(* meaning below or is refused.                                            *)
(***************************************************************************)
EXTENDS Mir

Compare(op, a, b) ==
  CASE op = "<"  -> a < b
    [] op = "<=" -> a <= b
    [] op = ">"  -> a > b
    [] op = ">=" -> a >= b
    [] op = "==" -> a = b
    [] op = "!=" -> a # b

Idents(clause) ==
  CASE clause.kind = "literal" -> {clause.x}
    [] clause.kind = "idents" -> {clause.x, clause.y}
    [] clause.kind = "raw" -> {}

\* The truth of a clause when val gives each identifier its value.
Holds(clause, val) ==
  CASE clause.kind = "literal" -> Compare(clause.op, val[clause.x], clause.literal)
    [] clause.kind = "idents" -> Compare(clause.op, val[clause.x], val[clause.y])
    [] clause.kind = "raw" -> TRUE

\* A literal must lie in the range of the type the identifier is compared at.
InRange(clause, ty) == clause.kind = "literal" => clause.literal \in Values(ty)

\* Whether a clause becomes a term over the identifiers `known`, all of type ty.
translate_spec(clause, known, ty) ==
  /\ clause.kind # "raw"
  /\ Idents(clause) \subseteq known
  /\ InRange(clause, ty)

\* The parameters an identifier names, and the one it names if there is just one.
Named(names, x) == {i \in DOMAIN names : x # "" /\ names[i] = x}
Unambiguous(names, x) == Cardinality(Named(names, x)) = 1
IndexOf(names, x) == CHOOSE i \in Named(names, x) : TRUE
=============================================================================
