------------------------------- MODULE Visitor -------------------------------
(***************************************************************************)
(* The dispatch tables of the subset visitor (visitor.rs): what each       *)
(* construct of a body makes it record.  A body arrives in the compiler's  *)
(* form and is first put through the adapter (adapter.rs), which makes one *)
(* of several of the compiler's constructs, and drops parts of others.     *)
(*                                                                         *)
(* Statements, rvalues and terminators all have the same shape: a kind,    *)
(* the operands, places and types they mention, and a detail that only     *)
(* some kinds have (an operator, a cast, an assert message).  An operand   *)
(* is a constant, or a place that is copied or moved; a place is a local   *)
(* and a tuple of projections.                                             *)
(*                                                                         *)
(* Every operator here returns the set of results the visitor pushes: a    *)
(* rule with "error" or "obligation", or a gap in the coverage.            *)
(***************************************************************************)
EXTENDS LibraryCalls, TypeWalk

CONSTANT None    \* no item: the constant is not a function, or not a local one

MAX_PROJECTION_DEPTH == 16

Error(rule) == Result(rule, "error")
Obligation(rule) == Result(rule, "obligation")
Gap == Result("", "gap")
Errors(rules) == {Error(r) : r \in rules}
-----------------------------------------------------------------------------
(***************************************************************************)
(* The adapter: constructs it renames.  All others keep their kind.        *)
(***************************************************************************)
Renamed(kind, names) == IF kind \in DOMAIN names THEN names[kind] ELSE kind

cast_kind(k) ==
  Renamed(k, [pointer_expose_address |-> "ptr_to_int", subtype |-> "pointer_coercion",
              pointer_with_exposed_provenance |-> "int_to_ptr"])

bin_op(op) ==
  Renamed(op, [AddUnchecked |-> "Add", SubUnchecked |-> "Sub", MulUnchecked |-> "Mul",
               ShlUnchecked |-> "Shl", ShrUnchecked |-> "Shr", Cmp |-> "Eq"])

aggregate_kind(k) == Renamed(k, [coroutine_closure |-> "coroutine"])

assert_message(m) ==
  Renamed(m, [OverflowNeg |-> "Overflow", ResumedAfterReturn |-> "Other",
              ResumedAfterPanic |-> "Other", ResumedAfterDrop |-> "Other",
              NullPointerDereference |-> "Other", InvalidEnumConstruction |-> "Other"])

adapted_rvalue(r) ==
  CASE r.k = "address_of" -> [r EXCEPT !.k = "raw_ptr"]
    [] r.k = "checked_binary" -> [r EXCEPT !.k = "binary", !.detail = bin_op(@)]
    [] r.k = "binary"    -> [r EXCEPT !.detail = bin_op(@)]
    [] r.k = "cast"      -> [r EXCEPT !.detail = cast_kind(@)]
    [] r.k = "aggregate" -> [r EXCEPT !.detail = aggregate_kind(@)]
    [] OTHER -> r

terminator_kind(t) ==
  CASE t.k = "resume" -> [t EXCEPT !.k = "unwind_resume"]
    [] t.k = "abort"  -> [t EXCEPT !.k = "unwind_terminate"]
    [] t.k = "assert" -> [t EXCEPT !.detail = assert_message(@)]
    [] OTHER -> t

\* Only a function item has an identity and a path.
const_operand(c) == IF c.ty.k = "fn_def" THEN c ELSE [c EXCEPT !.item = None, !.path = NoPath]

Constant(t, item, path, value) ==
  [k |-> "const", ty |-> t, item |-> item, path |-> path, value |-> value]

operand(o) ==
  CASE o.k = "runtime_checks" -> Constant(Kind("bool"), None, NoPath, {})
    [] o.k = "const" -> const_operand(o)
    [] OTHER -> o
-----------------------------------------------------------------------------
(***************************************************************************)
(* Integer constants.  Widths are scaled down; the widest stands for the   *)
(* 128 bits in which the adapter keeps a value, signed whatever its type.  *)
(***************************************************************************)
Span(t) == IF t.bytes = 1 THEN 8 ELSE IF t.bytes = 16 THEN 32 ELSE 16
Low(t)  == IF t.k = "int" THEN -(Span(t) \div 2) ELSE 0
High(t) == Low(t) + Span(t) - 1
Cast(v, t) == Low(t) + ((v - Low(t)) % Span(t))

IsInt(t) == t.k \in {"int", "uint"}

\* read_int pads with zeros: the sign is carried up again.
try_extract_integer_value(v, t) ==
  CASE t.k = "int"  -> IF t.bytes = 0 THEN {} ELSE {Cast(v % Span(t), t)}
    [] t.k = "uint" -> {Cast(v, [k |-> "int", bytes |-> 16])}
    [] OTHER -> {}

\* isize, usize and u128 have no range: nothing is said to fit them.
value_fits_in_int_ty(v, t) ==
  /\ IsInt(t) /\ t.bytes # 0 /\ ~(t.k = "uint" /\ t.bytes = 16)
  /\ v \in Low(t)..High(t)

\* Variant, used only to test the properties: the source type is not looked at.
fits_the_target(op, target) ==
  /\ op.k = "const"
  /\ \E v \in op.value : \E w \in try_extract_integer_value(v, op.ty) : value_fits_in_int_ty(w, target)

value_preserving_int_cast(op, target) ==
  /\ op.k = "const"
  /\ \E v \in op.value : \E w \in try_extract_integer_value(v, op.ty) :
       value_fits_in_int_ty(w, op.ty) /\ value_fits_in_int_ty(w, target)
-----------------------------------------------------------------------------
(***************************************************************************)
(* Places, operands, rvalues.                                              *)
(***************************************************************************)
visit_projection(elem) ==
  CASE elem.k \in {"index", "constant_index", "subslice"} -> {Obligation("PB054")}
    [] elem.k \in {"opaque_cast", "subtype"} -> Errors(visit_ty[ty[elem.ty]])
    [] OTHER -> {}

visit_place(place) ==
  (IF Len(place.proj) > MAX_PROJECTION_DEPTH THEN {Error("PB054")} ELSE {})
  \cup UNION {visit_projection(place.proj[i]) : i \in DOMAIN place.proj}

visit_operand(o) ==
  LET op == operand(o)
  IN IF op.k = "const" THEN Errors(visit_ty[ty[op.ty]]) ELSE visit_place(op.place)

\* The integer type an operand can be seen to have: constants, and whole locals.
operand_primitive_int_name(o, body) ==
  LET op == operand(o)
      types == IF op.k = "const" THEN {ty[op.ty]}
               ELSE IF op.place.proj = <<>> THEN {ty[body.locals[op.place.local + 1]]} ELSE {}
  IN {t \in types : IsInt(t)}

maybe_emit_overflow_obligation(op, lhs, rhs, body) ==
  LET l == operand_primitive_int_name(lhs, body)
      r == operand_primitive_int_name(rhs, body)
  IN CASE op \notin ArithOp -> {}
       [] op \in ArithOp /\ (l = {} \/ r = {} \/ (l # r /\ op \notin Shifts)) -> {Gap}
       [] OTHER -> {Obligation("PB049")}

maybe_emit_neg_overflow_obligation(op, body) ==
  LET t == operand_primitive_int_name(op, body)
  IN CASE t = {} -> {Gap}
       [] t # {} /\ \A u \in t : u.k = "uint" -> {}
       [] OTHER -> {Obligation("PB049")}

visit_cast(kind, op, target) ==
  CASE kind = "int_to_int" -> IF value_preserving_int_cast(op, target) THEN {} ELSE {Error("PB051")}
    [] kind \in {"float_to_int", "int_to_float", "float_to_float"} -> {Error("PB050")}
    [] kind \in {"ptr_to_int", "int_to_ptr", "ptr_to_ptr", "fn_ptr_to_ptr"} -> {Error("PB004")}
    [] kind = "transmute" -> {Error("PB007")}
    [] kind = "pointer_coercion" -> {}

\* The type of an array or ADT aggregate is among the rvalue's types.
visit_aggregate_kind(kind) ==
  CASE kind = "closure" -> {Error("PB033")}
    [] kind = "coroutine" -> {Error("PB027")}
    [] kind = "raw_ptr" -> {Error("PB004")}
    [] OTHER -> {}

\* What an rvalue mentions is visited whatever its kind.
visit_rvalue(r, body) ==
  (UNION {visit_operand(r.ops[i]) : i \in DOMAIN r.ops})
  \cup (UNION {visit_place(r.places[i]) : i \in DOMAIN r.places})
  \cup (UNION {Errors(visit_ty[ty[r.types[i]]]) : i \in DOMAIN r.types})
  \cup
  CASE r.k = "thread_local_ref" -> {Error("PB019")}
    [] r.k = "raw_ptr" -> {Error("PB004")}
    [] r.k = "cast" -> visit_cast(r.detail, r.ops[1], r.types[1])
    [] r.k = "binary" ->
         (IF r.detail = "Offset" THEN {Error("PB004")} ELSE {})
         \cup maybe_emit_overflow_obligation(r.detail, r.ops[1], r.ops[2], body)
    [] r.k = "unary" -> IF r.detail = "Neg" THEN maybe_emit_neg_overflow_obligation(r.ops[1], body)
                        ELSE {}
    [] r.k = "aggregate" -> visit_aggregate_kind(r.detail)
    [] r.k = "shallow_init_box" -> {Error("PB013")}
    [] r.k = "wrap_unsafe_binder" -> {Error("PB001")}
    [] OTHER -> {}
-----------------------------------------------------------------------------
(***************************************************************************)
(* Statements and terminators.                                             *)
(***************************************************************************)
visit_intrinsic(s) ==
  IF s.k = "assume" THEN visit_operand(s.ops[1]) ELSE {Error("PB004")}

visit_statement(s, body) ==
  CASE s.k = "assign" -> visit_place(s.places[1]) \cup visit_rvalue(adapted_rvalue(s.rvalue), body)
    [] s.k \in {"fake_read", "set_discriminant", "place_mention", "ascribe_user_type"} ->
         visit_place(s.places[1])
    [] s.k = "deinit" -> visit_place(s.places[1]) \cup {Error("PB010")}
    [] s.k = "retag"  -> visit_place(s.places[1]) \cup {Error("PB009")}
    [] s.k \in {"assume", "copy_nonoverlapping"} -> visit_intrinsic(s)
    [] OTHER -> {}

visit_assert_message(m) ==
  IF m = "MisalignedPointerDereference" THEN {Error("PB004")} ELSE {}

maybe_emit_recursion_obligation(callee, self) ==
  IF callee.item # None /\ callee.item = self THEN {Obligation("PB041")} ELSE {}

visit_call(t, self, config) ==
  LET callee == const_operand(t.ops[1])
  IN (IF t.ops[1].k = "const"
      THEN classify_called_function(callee.path, config)
           \cup maybe_emit_recursion_obligation(callee, self)
      ELSE visit_place(t.ops[1].place) \cup {Error("PB032")})
     \cup visit_place(t.places[1])
     \cup UNION {visit_operand(t.ops[i]) : i \in 2..Len(t.ops)}

\* The postconditions of a return are emit_ensures_obligation's, in Worklist.
visit_terminator(t, self, config) ==
  CASE t.k = "switch" -> visit_operand(t.ops[1])
    [] t.k \in {"unwind_resume", "unwind_terminate"} -> {Error("PB048")}
    [] t.k = "drop" -> visit_place(t.places[1])
    [] t.k = "call" -> visit_call(t, self, config)
    [] t.k = "tail_call" -> {Error("PB045")}
    [] t.k = "assert" -> visit_assert_message(t.detail)
    [] t.k \in {"yield", "coroutine_drop"} -> {Error("PB027")}
    [] t.k \in {"false_edge", "false_unwind"} -> {Error("PB046")}
    [] t.k = "inline_asm" -> {Error("PB006")}
    [] OTHER -> {}

\* A static, whose type is checked like any other, and which must not be mutable.
visit_static_item(mutable, types) ==
  (IF mutable THEN {Error("PB018")} ELSE {}) \cup UNION {Errors(visit_ty[ty[t]]) : t \in types}
visit_const_item(types) == UNION {Errors(visit_ty[ty[t]]) : t \in types}
-----------------------------------------------------------------------------
(***************************************************************************)
(* Bodies as the compiler hands them over, and what their pieces mention.  *)
(***************************************************************************)
Piece(k, ops, places, types, detail) ==
  [k |-> k, ops |-> ops, places |-> places, types |-> types, detail |-> detail]

\* A place that is a whole local has its type.
ValidPlace(p, locals) ==
  /\ p.ty \in Types /\ \A n \in DOMAIN p.proj : p.proj[n].ty \in Types
  /\ p.proj = <<>> => p.ty = locals[p.local + 1]

\* An integer constant has at most one value, in the range of its type.
ValidOperand(o, locals) ==
  \/ o.k = "runtime_checks"
  \/ o.k \in {"copy", "move"} /\ ValidPlace(o.place, locals)
  \/ /\ o.k = "const" /\ o = Constant(o.ty, o.item, o.path, o.value)
     /\ o.ty \in Types
     /\ IsInt(o.ty) => \E v \in Low(o.ty)..High(o.ty) : o.value \subseteq {v}

ValidPiece(x, locals) ==
  /\ IsTuple(x.ops) /\ \A o \in ToSet(x.ops) : ValidOperand(o, locals)
  /\ IsTuple(x.places) /\ \A p \in ToSet(x.places) : ValidPlace(p, locals)
  /\ x.types \in Seq(Types)

ValidRvalue(r, locals) ==
  /\ ValidPiece(r, locals) /\ r = Piece(r.k, r.ops, r.places, r.types, r.detail)
  /\ r.k \in {"use", "repeat", "ref", "thread_local_ref", "address_of", "len", "cast", "binary",
              "checked_binary", "nullary", "unary", "discriminant", "aggregate", "shallow_init_box",
              "copy_for_deref", "wrap_unsafe_binder"}
  /\ r.k = "cast" =>
       /\ Len(r.ops) = 1 /\ Len(r.types) = 1
       /\ r.detail \in {"int_to_int", "float_to_int", "int_to_float", "float_to_float", "ptr_to_ptr",
                        "fn_ptr_to_ptr", "transmute", "pointer_expose_address", "subtype",
                        "pointer_with_exposed_provenance", "pointer_coercion"}
  /\ r.k \in {"binary", "checked_binary"} => Len(r.ops) = 2
  /\ r.k = "unary" => Len(r.ops) = 1

ValidStatement(s, locals) ==
  /\ ValidPiece(s, locals) /\ s.types = <<>>
  /\ \/ /\ s.k \in {"assign", "fake_read", "set_discriminant", "deinit", "retag", "place_mention",
                    "ascribe_user_type"}
        /\ Len(s.places) = 1 /\ s.ops = <<>>
        /\ s.k = "assign" => ValidRvalue(s.rvalue, locals)
     \/ s.k = "assume" /\ s.places = <<>> /\ Len(s.ops) = 1
     \/ /\ s.k \in {"storage_live", "storage_dead", "coverage", "const_eval_counter", "nop",
                    "copy_nonoverlapping"}
        /\ s.places = <<>> /\ s.ops = <<>>

\* The condition of an assert is a flag, in a local or in a field behind one (checked
\* arithmetic leaves it in the second field of a pair), and never an element of
\* an array: the visitor does not look at it.
ValidTerminator(t, locals) ==
  /\ ValidPiece(t, locals) /\ t = Piece(t.k, t.ops, t.places, t.types, t.detail) /\ t.types = <<>>
  /\ \/ t.k = "drop" /\ Len(t.places) = 1 /\ t.ops = <<>>
     \/ t.k = "switch" /\ t.places = <<>> /\ Len(t.ops) = 1
     \/ t.k = "call" /\ Len(t.places) = 1 /\ t.ops # <<>> /\ t.ops[1].k # "runtime_checks"
     \/ /\ t.k = "assert" /\ t.places = <<>> /\ Len(t.ops) = 1
        /\ \/ /\ t.ops[1].k \in {"copy", "move"}
              /\ LET proj == t.ops[1].place.proj
                 IN \A n \in DOMAIN proj :
                      proj[n].k \notin {"index", "constant_index", "subslice"}
           \/ t.ops[1].k = "const" /\ t.ops[1].ty = Kind("bool")
     \/ /\ t.k \in {"goto", "resume", "abort", "unreachable", "return", "tail_call", "yield",
                    "coroutine_drop", "false_edge", "false_unwind", "inline_asm"}
        /\ t.places = <<>> /\ t.ops = <<>>

ValidBody(body) ==
  /\ body.args \in Seq(Types) /\ body.ret \in Types /\ body.locals \in Seq(Types)
  /\ \A b \in DOMAIN body.blocks :
       /\ \A k \in DOMAIN body.blocks[b].statements :
            ValidStatement(body.blocks[b].statements[k], body.locals)
       /\ ValidTerminator(body.blocks[b].terminator, body.locals)
=============================================================================
