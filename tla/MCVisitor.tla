------------------------------ MODULE MCVisitor ------------------------------
(***************************************************************************)
(* Programs for Worklist.  Catalogues are programs of one function that    *)
(* has every construct of a sort in it; the rest are programs of a few     *)
(* small functions, statics and consts that refer to each other.           *)
(***************************************************************************)
EXTENDS Worklist

SmallTypes == [u3 |-> [signed |-> FALSE, bits |-> 3], i3 |-> [signed |-> TRUE, bits |-> 3]]

MCNone == 0

Listed(S) == FoldSet(LAMBDA x, list : Append(list, x), <<>>, S)

Strict == [strict_panic |-> TRUE, strict_library |-> TRUE, target_pointer_width |-> 64,
           stack_allocation_limit_bytes |-> 16]
Lenient == [strict_panic |-> FALSE, strict_library |-> FALSE, target_pointer_width |-> 32,
            stack_allocation_limit_bytes |-> 40]
MCConfigs == {Strict, Lenient}
-----------------------------------------------------------------------------
(***************************************************************************)
(* Types.                                                                  *)
(***************************************************************************)
I(bytes) == [k |-> "int", bytes |-> bytes]
U(bytes) == [k |-> "uint", bytes |-> bytes]
F(bytes) == [k |-> "float", bytes |-> bytes]
Adt_of(root, name, is_union) ==
  [k |-> "adt", root |-> root, name |-> name, is_union |-> is_union, of |-> <<U(1)>>]
FnDef == Kind("fn_def")


StdAdts == {Adt_of(r, n, FALSE) : r \in {"core", "std", "alloc"}, n \in UNION {s.names : s \in StdTypes}}
OwnAdts == {Adt_of("own", "vec::Vec", FALSE), Adt_of("own", "Bits", TRUE),
            Adt_of("core", "mem::MaybeUninit", TRUE)}
Plain == {I(0), I(4), U(1), U(16), F(8)}
         \cup {Kind(k) : k \in {"bool", "char", "never", "fn_def", "fn_ptr", "closure", "coroutine",
                                "coroutine_closure", "coroutine_witness", "bound", "alias", "param"}}
Leaves == Plain \cup StdAdts \cup OwnAdts
Samples == {U(1), F(4), Kind("never"), Kind("param"), Kind("coroutine"), Kind("fn_ptr"),
            Made("raw_ptr", U(1)), Made("pat", Made("raw_ptr", U(1))), Made("pat", U(4)),
            Adt_of("std", "vec::Vec", FALSE), Adt_of("core", "cell::Cell", FALSE),
            Adt_of("own", "Bits", TRUE)}

\* What can be made of a set of types.
Wrapped(S) ==
  {{Made("ref", t) : t \in S \cup {Kind("str"), Kind("dynamic"), Kind("foreign")}},
   {Made("raw_ptr", t) : t \in S}, {Made("ref", Made("slice", t)) : t \in S},
   {Array(t, 2) : t \in S}, {Array(t, Unevaluated) : t \in S}, {Made("tuple", <<U(1), t>>) : t \in S}}

Deep == UNION Wrapped(Samples)

Sizes ==
  LET numbers == {U(1), U(8), I(0), F(16), Made("pat", U(4)), Made("ref", U(8)), FnDef, Kind("fn_ptr")}
      pairs == {Made("tuple", <<a, b>>) : a, b \in numbers}
  IN numbers \cup pairs \cup {Made("tuple", <<>>), Made("ref", Made("slice", U(1)))}
     \cup {Array(t, n) : t \in numbers \cup {Made("tuple", <<U(8), x>>) : x \in {U(1), Kind("never")}},
                         n \in {1, 3, 8, 512, 2048, u64_max, Unevaluated}}
     \cup {Array(Array(U(1), 64), 64), Made("tuple", <<Array(U(8), 256), Array(U(8), 256)>>)}
-----------------------------------------------------------------------------
(***************************************************************************)
(* Places, operands, statements, terminators.                              *)
(***************************************************************************)
Place(local, proj, t) == [local |-> local, proj |-> proj, ty |-> t]
Elem(k, t) == [k |-> k, ty |-> t]
Copy(place) == [k |-> "copy", place |-> place]
Move(place) == [k |-> "move", place |-> place]
Lit(t, value) == Constant(t, None, NoPath, value)
One == Lit(U(4), {1})
Unit == Place(0, <<>>, U(4))
Bytes == Place(5, <<>>, Array(U(4), 2))
At_index(k) == Place(5, <<Elem(k, U(4))>>, U(4))
Far == Place(6, [n \in 1..(MAX_PROJECTION_DEPTH + 1) |-> Elem("deref", U(4))], U(4))

\* What checked arithmetic leaves: the number and whether it overflowed.
Checked == Made("tuple", <<U(4), Kind("bool")>>)
Flag == Place(9, <<Elem("field", Kind("bool"))>>, Kind("bool"))

Rvalue(k, ops, detail) == Piece(k, ops, <<>>, <<>>, detail)
Typed(k, ops, types, detail) == Piece(k, ops, <<>>, types, detail)
Bare(k) == Piece(k, <<>>, <<>>, <<>>, "")
On(k, place) == Piece(k, <<>>, <<place>>, <<>>, "")
Set(rvalue) == [k |-> "assign", ops |-> <<>>, places |-> <<Unit>>, types |-> <<>>, detail |-> "",
                rvalue |-> rvalue]

Callee(item, path) == Constant(FnDef, item, path, {})
Call(callee, args) == Piece("call", <<callee>> \o args, <<Unit>>, <<>>, "")
Own == Path("own", "", "", "f")

Bb(statements, terminator) == [statements |-> statements, terminator |-> terminator]
MCBody(args, ret, locals, blocks) ==
  [is_unsafe |-> FALSE, is_async |-> FALSE, args |-> args, ret |-> ret, locals |-> locals,
   blocks |-> blocks]

\* The slots (locals) of the catalogues: three numbers, a pair, a restricted number, an
\* array, a reference, a float, a function, the result of checked arithmetic and a flag.
Slots == <<U(4), I(4), U(4), Made("tuple", <<U(4), U(4)>>), Made("pat", U(4)), Array(U(4), 2),
            Made("ref", U(4)), F(4), Kind("fn_ptr"), Checked, Kind("bool")>>
Statements(S) == MCBody(<<U(4)>>, U(4), Slots, <<Bb(Listed(S), Bare("return"))>>)
Terminators(S) ==
  MCBody(<<U(4)>>, U(4), Slots, FoldSet(LAMBDA t, blocks : Append(blocks, Bb(<<>>, t)), <<>>, S))

\* Arithmetic as the compiler writes it where overflow is checked.
CheckedArithmetic(op) ==
  MCBody(<<U(4)>>, U(4), Slots,
         <<Bb(<<[Set(Rvalue("checked_binary", <<Copy(Unit), One>>, op)) EXCEPT
                  !.places = <<Place(9, <<>>, Checked)>>]>>,
              Piece("assert", <<Move(Flag)>>, <<>>, <<>>, "Overflow")),
           Bb(<<Set(Rvalue("use", <<Move(Place(9, <<Elem("field", U(4))>>, U(4)))>>, ""))>>,
              Bare("return"))>>)
-----------------------------------------------------------------------------
(***************************************************************************)
(* The catalogues.                                                         *)
(***************************************************************************)
OfTypes(S) == MCBody(Listed(S), U(4), Slots, <<Bb(<<>>, Bare("return"))>>)
InLocals(S) == MCBody(<<>>, U(4), Listed(S), <<Bb(<<>>, Bare("return"))>>)
Returning(t) == MCBody(<<>>, t, <<t>>, <<Bb(<<>>, Bare("return"))>>)

TypedRvalues(t) ==
  {Rvalue("use", <<Lit(t, {})>>, ""), Typed("nullary", <<>>, <<t>>, "SizeOf"),
   Typed("aggregate", <<Lit(t, {})>>, <<t>>, "array"),
   Typed("cast", <<Copy(Unit)>>, <<t>>, "pointer_coercion"),
   Typed("cast", <<Lit(t, {})>>, <<t>>, "subtype"), Rvalue("repeat", <<Lit(t, {})>>, "")}

Numbers == {Copy(Place(1, <<>>, I(4))), Copy(Unit), Copy(Place(3, <<Elem("field", U(4))>>, U(4))),
            Copy(At_index("index")), Copy(At_index("constant_index")),
            Copy(Place(7, <<>>, F(4))), One, Lit(I(4), {-1})}
BinaryOps == {"Add", "MulUnchecked", "Div", "Rem", "ShlUnchecked", "Shr", "Lt", "BitAnd", "Cmp"}
Arithmetic(op, k) == {Rvalue(k, <<x, y>>, op) : x, y \in Numbers}
Unaries == {Rvalue("unary", <<x>>, op) : x \in Numbers, op \in {"Neg", "Not"}}

IntTypes == {I(1), U(1), I(4), U(4), I(16), U(16), I(0), U(0)}
IntCasts(target, sources) ==
  {Typed("cast", <<o>>, <<target>>, "int_to_int") :
     o \in {Copy(Unit)} \cup UNION {{Lit(t, {v}) : v \in Low(t)..High(t)} \cup {Lit(t, {})} : t \in sources}}
OtherCasts ==
  {Typed("cast", <<Copy(Unit)>>, <<U(4)>>, k) :
     k \in {"float_to_int", "int_to_float", "ptr_to_ptr", "fn_ptr_to_ptr", "transmute",
            "pointer_expose_address", "pointer_with_exposed_provenance", "pointer_coercion"}}
OtherRvalues ==
  {Piece(k, <<>>, <<p>>, <<>>, "") : k \in {"ref", "address_of", "len", "discriminant", "copy_for_deref"},
                                     p \in {Unit, At_index("subslice"), Far}}
  \cup {Rvalue("aggregate", <<One>>, k) : k \in {"tuple", "array", "adt", "closure", "coroutine",
                                                 "coroutine_closure", "raw_ptr"}}
  \cup {Bare("thread_local_ref"), Rvalue("shallow_init_box", <<One>>, ""),
        Rvalue("wrap_unsafe_binder", <<One>>, ""), Rvalue("binary", <<Copy(Unit), One>>, "Offset"),
        Rvalue("use", <<[k |-> "runtime_checks"]>>, "")}
OtherStatements ==
  {On(k, p) : k \in {"fake_read", "set_discriminant", "deinit", "retag", "place_mention",
                     "ascribe_user_type"}, p \in {Unit, At_index("index"), Far}}
  \cup {Bare(k) : k \in {"storage_live", "storage_dead", "coverage", "const_eval_counter", "nop",
                         "copy_nonoverlapping"}}
  \cup {Piece("assume", <<Copy(p)>>, <<>>, <<>>, "") : p \in {Unit, At_index("index")}}

OtherTerminators ==
  {Bare(k) : k \in {"goto", "resume", "abort", "unreachable", "return", "tail_call", "yield",
                    "coroutine_drop", "false_edge", "false_unwind", "inline_asm"}}
  \cup {On("drop", p) : p \in {Unit, At_index("index")}}
  \cup {Piece("switch", <<Copy(p)>>, <<>>, <<>>, "") : p \in {Unit, At_index("index")}}
  \cup {Piece("assert", <<o>>, <<>>, <<>>, m) :
          o \in {Copy(Place(10, <<>>, Kind("bool"))), Move(Flag), Lit(Kind("bool"), {})},
          m \in {"Overflow", "OverflowNeg", "DivisionByZero", "RemainderByZero", "BoundsCheck",
                 "MisalignedPointerDereference", "NullPointerDereference", "ResumedAfterReturn"}}
  \cup {Call(Callee(None, Own), <<Copy(p)>>) : p \in {Unit, At_index("index"), Far}}
  \cup {Call(Callee(None, Own), <<Lit(t, {})>>) : t \in Samples}
  \cup {Call(Callee(1, Own), <<>>), Call(Copy(Place(8, <<>>, Kind("fn_ptr"))), <<>>),
        Call(Lit(Kind("fn_ptr"), {}), <<>>)}

Callees == StdCalls \cup Forbidden

\* Every type the programs mention, with its parts.
RECURSIVE WithParts(_)
WithParts(S) == IF S = {} THEN {} ELSE S \cup WithParts(UNION {Inside(t) : t \in S})

RECURSIVE Nesting(_)
Nesting(t) == FoldSet(LAMBDA u, n : IF Nesting(u) >= n THEN Nesting(u) + 1 ELSE n, 0, Inside(t))

Depth ==
  LET mentioned == Leaves \cup Samples \cup Sizes \cup IntTypes \cup Deep \cup ToSet(Slots)
                   \cup UNION Wrapped(Plain \cup OwnAdts) \cup UNION Wrapped(Deep)
  IN [t \in WithParts(mentioned) |-> Nesting(t)]

Catalogues ==
  {OfTypes(W) : W \in {Plain \cup OwnAdts, Deep} \cup Wrapped(Plain \cup OwnAdts) \cup Wrapped(Deep)
                      \cup {{t \in StdAdts : t.root = r} : r \in {"core", "std", "alloc"}}}
  \cup {InLocals(W) : W \in {Samples} \cup {{t \in Sizes : (t.k = "array") = b} : b \in BOOLEAN}}
  \cup {Returning(t) : t \in Samples}
  \cup {Statements({Set(r) : r \in R}) :
          R \in {UNION {TypedRvalues(t) : t \in Samples}, Unaries, OtherCasts, OtherRvalues}
                \cup {Arithmetic(op, k) : op \in BinaryOps, k \in {"binary", "checked_binary"}}
                \cup {IntCasts(t, {u \in IntTypes : u.k = k}) : t \in IntTypes, k \in Ints}}
  \cup {Statements(OtherStatements), Terminators(OtherTerminators)}
  \cup {CheckedArithmetic(op) : op \in {"Add", "Sub", "Mul"}}
  \cup {Terminators({Call(Callee(None, p), <<>>) :
                       p \in {q \in Callees : <<q.anchor, q.family>> = group}}) :
          group \in {<<q.anchor, q.family>> : q \in Callees}}
-----------------------------------------------------------------------------
(***************************************************************************)
(* Programs.                                                               *)
(***************************************************************************)
Fn(body, refs) ==
  [kind |-> "fn", body |-> body, refs |-> refs, trusted |-> FALSE, available |-> TRUE,
   requires |-> FALSE, ensures |-> FALSE]
Global(kind, mutable, types) == [kind |-> kind, mutable |-> mutable, types |-> types]
Program(items, roots, exclude, callers) ==
  [items |-> items, roots |-> roots, exclude |-> exclude, callers |-> callers]

Alone(body) == Program(<<Fn(body, <<>>)>>, <<1>>, {}, {"driver"})

\* A function that adds, calls the functions it refers to, and returns or not.
Sum == Set(Rvalue("binary", <<Copy(Unit), One>>, "Add"))
Small(refs, last) ==
  Fn(MCBody(<<U(4)>>, U(4), Slots,
            [b \in 1..(Len(refs) + 1) |->
               IF b <= Len(refs) THEN Bb(<<Sum>>, Call(Callee(refs[b], Own), <<One>>))
               ELSE Bb(<<>>, Bare(last))]), refs)

Variants(fn) ==
  {fn, [fn EXCEPT !.trusted = TRUE], [fn EXCEPT !.available = FALSE],
   [fn EXCEPT !.body.is_unsafe = TRUE], [fn EXCEPT !.body.is_async = TRUE]}

\* Two functions and a third item, called in every way, from one or two roots.
Graphs ==
  {Program(<<Small(a, "return"), b, c>>, roots, exclude, {"driver"}) :
     a \in {<<>>, <<2>>, <<2, 3>>, <<1, 3>>},
     b \in {Small(<<1>>, "return"), Small(<<3, 2>>, "return")} \cup Variants(Small(<<3, 1>>, "return")),
     c \in Variants(Small(<<2, 1>>, "return"))
           \cup {Global("static", m, {U(4)}) : m \in BOOLEAN}
           \cup {Global("const", FALSE, t) : t \in {{}, {F(4)}}},
     roots \in {<<1>>, <<2, 1>>}, exclude \in {{}, {2}, {3}}}

\* Two functions with contracts and a static between them.
Contracts ==
  LET fns == {[Small(<<>>, last) EXCEPT !.trusted = t, !.requires = r, !.ensures = e,
                                        !.body.blocks[1].statements = <<Sum>>] :
                last \in {"return", "goto"}, t, r, e \in BOOLEAN}
  IN {Program(<<a, Global("static", FALSE, {U(4)}), b>>, <<1, 2, 3>>, {}, {"wrapper", "forgetful"}) :
        a, b \in fns}

AllPrograms == {Alone(b) : b \in Catalogues} \cup Graphs \cup Contracts

\* What the theorems about the walk suppose of the programs.
ASSUME ProgramsAssumption == KnownTypes /\ KnownCalls
=============================================================================
