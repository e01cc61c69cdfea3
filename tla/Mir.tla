--------------------------------- MODULE Mir ---------------------------------
(***************************************************************************)
(* The part of MIR that the visitor reasons about (mir_api.rs), and what a *)
(* compiled body does with it: integer types, places, operands, rvalues,   *)
(* terminators, and the value each of them has in a memory.                *)
(*                                                                         *)
(* Types have three bits or more.  Three is the least width at which, as   *)
(* at eight bits and more, the bit width of a type is a positive value of  *)
(* the signed type as well, so shifts behave as in the code's widths.      *)
(***************************************************************************)
EXTENDS Integers, FiniteSets, SequencesExt

CONSTANT int_type_info   \* the integer types: signedness and width in bits, by name

IntTy == DOMAIN int_type_info
Signed(ty) == int_type_info[ty].signed
Bits(ty) == int_type_info[ty].bits

ASSUME IntTypesAssumption ==
  /\ \A ty \in IntTy : Signed(ty) \in BOOLEAN /\ Bits(ty) \in Nat /\ Bits(ty) >= 3
  /\ IntTy \cap {"bool", "pair", "ref"} = {}

\* Powers of two: the number of patterns of n bits, each given by the bits that
\* are 1.  (The provers know nothing of `^`.)
pow2(n) == Cardinality(SUBSET (1..n))
Size(ty) == pow2(Bits(ty))

Lowest(ty)  == IF Signed(ty) THEN -(Size(ty) \div 2) ELSE 0
Highest(ty) == Lowest(ty) + Size(ty) - 1
Values(ty)  == Lowest(ty)..Highest(ty)

\* Variant, used only to test the properties: the sign bit is not carried up.
pattern_as_value(v, ty) == v % Size(ty)

Wrap(v, ty) == Lowest(ty) + ((v - Lowest(ty)) % Size(ty))

\* The bit pattern of a value, read as an unsigned number.
Pattern(v, ty) == v % Size(ty)
-----------------------------------------------------------------------------
(***************************************************************************)
(* Arithmetic: what an operator computes, and when Rust refuses to.        *)
(***************************************************************************)
ArithOp == {"Add", "Sub", "Mul", "Div", "Rem", "Shl", "Shr"}
Shifts == {"Shl", "Shr"}

Magnitude(v) == IF v < 0 THEN -v ELSE v
Quotient(a, b) ==
  LET q == Magnitude(a) \div Magnitude(b) IN IF (a < 0) = (b < 0) THEN q ELSE -q

Exact(op, a, b) ==
  CASE op = "Add" -> a + b
    [] op = "Sub" -> a - b
    [] op = "Mul" -> a * b

\* The inputs on which `a op b` panics: overflow, a zero divisor, MIN / -1, a
\* shift by the width of the type or more.
Panics(op, a, b, ty) ==
  CASE op \in {"Add", "Sub", "Mul"} -> Exact(op, a, b) \notin Values(ty)
    [] op \in {"Div", "Rem"} -> b = 0 \/ (Signed(ty) /\ a = Lowest(ty) /\ b = -1)
    [] op \in Shifts -> b \notin 0..(Bits(ty) - 1)
    [] OTHER -> FALSE

\* The bit-vector operation, total: modular, with SMT-LIB's x / 0 and x % 0.
Computed(op, a, b, ty) ==
  CASE op \in {"Add", "Sub", "Mul"} -> Wrap(Exact(op, a, b), ty)
    [] op = "Div" /\ b = 0 -> IF a < 0 THEN 1 ELSE Wrap(-1, ty)
    [] op = "Rem" /\ b = 0 -> a
    [] op = "Div" /\ b # 0 -> Wrap(Quotient(a, b), ty)
    [] op = "Rem" /\ b # 0 -> a - b * Quotient(a, b)
    [] op = "Shl" -> Wrap(a * pow2(Pattern(b, ty)), ty)
    [] op = "Shr" -> a \div pow2(Pattern(b, ty))
    [] op = "Lt"  -> IF a < b THEN 1 ELSE 0
-----------------------------------------------------------------------------
(***************************************************************************)
(* Bodies.  A local is an index from 0, the return slot; parameter i of    *)
(* the code's vectors is local i + 1, here local i of 1..Len(args).  A     *)
(* memory holds a tuple per local: one integer, the two components of a    *)
(* checked result, the local a reference points to, or nothing yet.        *)
(***************************************************************************)
Locals(body) == 0..(Len(body.locals) - 1)
LocalTy(body, l) == body.locals[l + 1]
Params(body) == DOMAIN body.args

\* The values a scalar can have: an integer's, or a truth value.
Scalars(ty) == IF ty \in IntTy THEN Values(ty) ELSE {0, 1}

\* What is inside a local: the value of a checked result, the referent of a
\* reference; a scalar holds itself.
InnerTy(body, l) == body.inner[l + 1]

PlaceTy(body, l, proj) ==
  CASE proj = "none" -> LocalTy(body, l)
    [] proj = "field1" -> "bool"
    [] proj \in {"field0", "deref"} -> InnerTy(body, l)

\* The values the parameters can have on entry: one function per call.
Entries(body) ==
  {e \in [Params(body) -> UNION {Values(LocalTy(body, i)) : i \in Params(body)}] :
     \A i \in Params(body) : e[i] \in Values(LocalTy(body, i))}

OnEntry(body, e) == [l \in Locals(body) |-> IF l \in Params(body) THEN <<e[l]>> ELSE <<>>]

\* The local a place stands for: the referent, if it is dereferenced.
Target(memory, l, proj) == IF proj = "deref" THEN memory[l][1] ELSE l

ReadPlace(memory, l, proj) ==
  LET cell == memory[Target(memory, l, proj)]
  IN CASE proj = "field0" -> <<cell[1]>>
       [] proj = "field1" -> <<cell[2]>>
       [] OTHER -> cell

OperandValue(memory, a) ==
  IF a.kind = "const" THEN <<a.value>> ELSE ReadPlace(memory, a.local, a.proj)

\* An operator works at the type of its left operand.
OperandTy(body, a) == IF a.kind = "const" THEN a.ty ELSE PlaceTy(body, a.local, a.proj)

\* An overflow-checked operation fills a pair, which an Assert inspects; the
\* others fill an integer (the Assert before a division or shift is folded in).
RvalueValue(body, memory, dest, r) ==
  CASE r.kind = "use" -> OperandValue(memory, r.a)
    [] r.kind = "ref" -> <<r.a.local>>
    [] r.kind = "binary" ->
         LET a == OperandValue(memory, r.a)[1]
             b == OperandValue(memory, r.b)[1]
             ty == OperandTy(body, r.a)
             v == Computed(r.op, a, b, ty)
         IN IF LocalTy(body, dest) = "pair"
            THEN <<v, IF Panics(r.op, a, b, ty) THEN 1 ELSE 0>>
            ELSE <<v>>

terminator_successors(t) ==
  CASE t.kind \in {"goto", "assert", "call"} -> <<t.target>>
    [] t.kind = "switch" -> t.targets
    [] OTHER -> <<>>
-----------------------------------------------------------------------------
(***************************************************************************)
(* The bodies of the models: what rustc's type checker lets through, in    *)
(* the constructs above.                                                   *)
(***************************************************************************)
IsTuple(s) == s \in Seq(ToSet(s))

IsPlace(body, l, proj) ==
  /\ l \in Locals(body)
  /\ \/ proj = "none"
     \/ proj \in {"field0", "field1"} /\ LocalTy(body, l) = "pair"
     \/ proj = "deref" /\ LocalTy(body, l) = "ref"

IsOperand(body, a) ==
  \/ /\ a.kind = "const" /\ a.known \in BOOLEAN
     /\ a.ty \in IntTy \cup {"bool"} /\ a.value \in Scalars(a.ty)
  \/ a.kind = "place" /\ IsPlace(body, a.local, a.proj)

IsInteger(body, a) == IsOperand(body, a) /\ OperandTy(body, a) \in IntTy

\* A statement assigns a value of the type of its place.
IsUse(body, s) ==
  LET a == s.rvalue.a
  IN /\ s.rvalue.kind = "use" /\ IsOperand(body, a)
     /\ PlaceTy(body, s.local, s.proj) = OperandTy(body, a)
     /\ a.kind = "place" /\ a.proj = "none" => InnerTy(body, a.local) = InnerTy(body, s.local)

IsBorrow(body, s) ==
  LET a == s.rvalue.a
  IN /\ s.rvalue.kind = "ref" /\ IsInteger(body, a) /\ a.kind = "place" /\ a.proj = "none"
     /\ s.proj = "none" /\ LocalTy(body, s.local) = "ref"
     /\ InnerTy(body, s.local) = OperandTy(body, a)

IsBinary(body, s) ==
  LET r == s.rvalue
      ty == OperandTy(body, r.a)
  IN /\ r.kind = "binary" /\ IsInteger(body, r.a) /\ IsInteger(body, r.b)
     /\ \/ r.op = "Lt" /\ PlaceTy(body, s.local, s.proj) = "bool"
        \/ r.op \in ArithOp /\ PlaceTy(body, s.local, s.proj) = ty
        \/ /\ r.op \in {"Add", "Sub", "Mul"} /\ s.proj = "none"
           /\ LocalTy(body, s.local) = "pair" /\ InnerTy(body, s.local) = ty

IsStatement(body, s) ==
  /\ IsPlace(body, s.local, s.proj) /\ s.proj # "field1"
  /\ IsUse(body, s) \/ IsBorrow(body, s) \/ IsBinary(body, s)

IsTerminator(body, t) ==
  \/ t.kind = "goto"
  \/ t.kind = "switch" /\ IsOperand(body, t.a) /\ Len(t.targets) = 2 /\ IsTuple(t.targets)
  \/ t.kind = "assert" /\ IsOperand(body, t.a) /\ t.a.kind = "place" /\ t.a.proj = "field1"
  \/ /\ t.kind = "call" /\ IsTuple(t.args) /\ \A a \in ToSet(t.args) : IsOperand(body, a)
     /\ t.local \in Locals(body) /\ LocalTy(body, t.local) \in IntTy \cup {"bool"}
  \/ t.kind = "return"

\* Parameters are integers; those that have a name have one each.
IsBody(body) ==
  /\ IsTuple(body.args) /\ IsTuple(body.locals) /\ Len(body.args) < Len(body.locals)
  /\ \A l \in Locals(body) :
       \/ LocalTy(body, l) \in IntTy \cup {"bool"} /\ InnerTy(body, l) = LocalTy(body, l)
       \/ LocalTy(body, l) \in {"pair", "ref"} /\ InnerTy(body, l) \in IntTy
  /\ \A i \in Params(body) :
       /\ LocalTy(body, i) \in IntTy
       /\ \A j \in Params(body) : body.args[i] = body.args[j] /\ body.args[i] # "" => i = j
  /\ IsTuple(body.blocks) /\ body.blocks # <<>>
  /\ \A b \in ToSet(body.blocks) :
       /\ IsTuple(b.statements) /\ \A s \in ToSet(b.statements) : IsStatement(body, s)
       /\ IsTerminator(body, b.terminator)
       /\ ToSet(terminator_successors(b.terminator)) \subseteq DOMAIN body.blocks
=============================================================================
