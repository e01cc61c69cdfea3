----------------------------- MODULE MCBodyCheck -----------------------------
(***************************************************************************)
(* Small bodies for BodyCheck.  Most have a parameter x, a variable t, the *)
(* pair of a checked addition, a reference p and a flag b; they differ in  *)
(* the statements that fill the slots of a few control-flow shapes.        *)
(***************************************************************************)
EXTENDS BodyCheck

IntTypes ==
  [u3 |-> [signed |-> FALSE, bits |-> 3],
   i3 |-> [signed |-> TRUE,  bits |-> 3],
   u4 |-> [signed |-> FALSE, bits |-> 4]]

Const(v, ty) == [kind |-> "const", value |-> v, ty |-> ty, known |-> TRUE]
Place(l, proj) == [kind |-> "place", local |-> l, proj |-> proj]
Num(v) == Const(v, "u3")
Unknown == [kind |-> "const", value |-> 3, ty |-> "u3", known |-> FALSE]

Use(a) == [kind |-> "use", a |-> a]
Binary(op, a, b) == [kind |-> "binary", op |-> op, a |-> a, b |-> b]
Ref(l) == [kind |-> "ref", a |-> Place(l, "none")]
Set(l, r) == [local |-> l, proj |-> "none", rvalue |-> r]
SetThrough(l, r) == [local |-> l, proj |-> "deref", rvalue |-> r]

Goto(b) == [kind |-> "goto", target |-> b]
IsClear(a, b) == [kind |-> "assert", a |-> a, target |-> b]
Switch(a, zero, other) == [kind |-> "switch", a |-> a, targets |-> <<zero, other>>]
Call(f, args, l, b) == [kind |-> "call", callee |-> f, args |-> args, local |-> l, target |-> b]
Ret == [kind |-> "return"]
Bb(statements, terminator) == [statements |-> statements, terminator |-> terminator]

Lit(x, op, n) == [kind |-> "literal", x |-> x, op |-> op, literal |-> n]
Var(x, op, y) == [kind |-> "idents", x |-> x, op |-> op, y |-> y]
Raw(x, op, n) == [kind |-> "raw", x |-> x, op |-> op, literal |-> n]

Fn(args, tys, requires, walked) ==
  [args |-> args, tys |-> tys, requires |-> requires, walked |-> walked]
Functions ==
  [free     |-> Fn(<<"n">>, <<"u3">>, <<>>, TRUE),
   positive |-> Fn(<<"n">>, <<"u3">>, <<Lit("n", ">", 0)>>, TRUE),
   small    |-> Fn(<<"n">>, <<"u3">>, <<Lit("n", "<", 5), Lit("n", "!=", 2)>>, TRUE),
   ordered  |-> Fn(<<"a", "b">>, <<"u3", "u3">>, <<Var("a", "<", "b"), Lit("b", "<", 7)>>, TRUE),
   opaque   |-> Fn(<<"n">>, <<"u3">>, <<Lit("n", ">", 0), Raw("lhs", "<", 5)>>, TRUE),
   extern   |-> Fn(<<"n">>, <<"u3">>, <<Lit("n", ">", 0)>>, FALSE)]

\* Locals 0..5: the result, x, t, the pair, p and b.
Names == <<"x">>
Tys == <<"u3", "u3", "u3", "pair", "ref", "bool">>
X == Place(1, "none")
T == Place(2, "none")
Flag == Place(5, "none")
Body(args, tys, requires, ensures, blocks) ==
  [args |-> args, locals |-> tys, requires |-> requires, ensures |-> ensures,
   inner |-> [l \in DOMAIN tys |-> IF tys[l] \in {"pair", "ref"} THEN "u3" ELSE tys[l]],
   blocks |-> blocks, trusted |-> FALSE]
OverX(requires, ensures, shapes) ==
  {Body(Names, Tys, q, e, s) : q \in requires, e \in ensures, s \in shapes}

\* What may stand in a slot; the last borrows t and only reads through it.
Slots ==
  {<<>>, <<Set(2, Use(Num(0)))>>, <<Set(1, Use(Num(0)))>>, <<Set(1, Use(T))>>,
   <<Set(2, Binary("Sub", X, Num(1)))>>,
   <<Set(4, Ref(2)), Set(2, Use(Place(4, "deref")))>>}

\* t = a + 1, checked, as rustc lowers it: the sum is read in block k.
Increment(a, k) ==
  Bb(<<Set(3, Binary("Add", a, Num(1)))>>, IsClear(Place(3, "field1"), k))
Sum == Set(2, Use(Place(3, "field0")))
Start(s) == Bb(<<Set(2, Use(X))>> \o s, Goto(2))

\* Shapes end with the blocks End(k) gives, k being the number of the first.
Chains(End(_)) ==
  {<<Start(s), Bb(u, Goto(3))>> \o End(3) : s \in Slots, u \in Slots}
    \cup {<<Start(s), Increment(a, 3), Bb(<<Sum>> \o u, Goto(4))>> \o End(4) :
            s \in Slots, u \in Slots, a \in {X, T}}

\* Both arms of a branch meet again; one arm may jump back to the other.
Diamonds(End(_)) ==
  {<<Bb(<<Set(2, Use(X)), Set(5, Binary("Lt", X, Num(3)))>>, Switch(Flag, 2, 3)),
     Bb(s, Goto(4)), Bb(u, Goto(k))>> \o End(4) : s \in Slots, u \in Slots, k \in {2, 4}}

\* A call in a loop, which may change its argument on the way back.
Loops(f) ==
  {<<Start(s), Bb(u, Call(f, <<T>>, 5, 3)), Bb(<<>>, Switch(Flag, 4, 5)),
     Bb(<<Set(2, Use(Num(0)))>>, Goto(2)), Bb(<<Set(0, Use(X))>>, Ret)>> :
     s \in Slots, u \in {<<>>, <<Set(2, Use(X))>>}}

\* A loop back to the first block.
Restarts(f) ==
  {<<Bb(s, Call(f, <<T>>, 5, 2)), Bb(<<>>, Switch(Flag, 3, 4)),
     Bb(<<Set(2, Use(Num(0)))>>, Goto(1)), Bb(<<Set(0, Use(X))>>, Ret)>> :
     s \in {<<Set(2, Use(X))>>, <<Set(2, Use(Num(3)))>>}}

CallEnd(f, args, k) == <<Bb(<<>>, Call(f, args, 0, k + 1)), Bb(<<>>, Ret)>>
ReturnEnd == <<Bb(<<Set(0, Use(T))>>, Ret)>>
-----------------------------------------------------------------------------
\* Preconditions over x, each list a contract; the last ones contradict
\* themselves, name nothing, speak of the result, or are spliced as they are.
Contracts ==
  {<<>>, <<Lit("x", ">", 0), Lit("x", "<", 7)>>, <<Lit("x", ">", 4), Lit("x", "<", 2)>>,
   <<Lit("z", "<", 2)>>, <<Lit("result", "<", 6)>>, <<Raw("lhs", "<", 7)>>}
Usual == {<<>>, <<Lit("x", ">", 0), Lit("x", "<", 7)>>}

CallBodies ==
  UNION {OverX(Usual, {<<>>}, Chains(LAMBDA k : CallEnd(f, <<T>>, k))
                                \cup Diamonds(LAMBDA k : CallEnd(f, <<T>>, k))
                                \cup Loops(f) \cup Restarts(f)) :
           f \in {"positive", "small"}}
    \cup UNION {OverX(Contracts, {<<>>}, {<<Start(<<>>)>> \o CallEnd(f, <<a>>, 2)}) :
                  f \in {"free", "positive", "small", "opaque", "extern"},
                  a \in {X, T, Num(0), Num(3), Num(2), Unknown, Const(3, "u4")}}
    \cup UNION {OverX(Contracts, {<<>>}, {<<Increment(X, 2), Bb(<<Sum>>, Goto(3))>>
                                            \o CallEnd("ordered", <<a, c>>, 3)}) :
                  a \in {X, T, Num(3)}, c \in {X, T, Num(6)}}

ReturnBodies ==
  OverX(Usual, {<<Var("result", "==", "x")>>, <<Var("result", ">", "x")>>},
        Chains(LAMBDA k : ReturnEnd))
    \cup OverX({<<>>}, {<<Var("result", "<=", "x")>>}, Diamonds(LAMBDA k : ReturnEnd))
    \cup OverX(Contracts,
               {<<Lit("result", "<", 6)>>, <<Lit("result", "<", 6), Lit("result", "<", 8)>>,
                <<Var("result", "<=", "x"), Raw("lhs", "<", 5)>>,
                <<Lit("result", ">", 0), Var("result", "<=", "x")>>},
               {<<Bb(<<Set(0, Use(X))>>, Ret)>>,
                <<Increment(X, 2), Bb(<<Sum>>, Goto(3))>> \o ReturnEnd,
                <<Bb(<<>>, Goto(1))>>})

\* Two parameters: x and y of the given types, or a parameter called result.
Pairs(names, ty1, ty2, op, rhs, requires, ensures) ==
  Body(names, <<ty1, ty1, ty2>>, requires, ensures,
       <<Bb(<<Set(0, Binary(op, X, rhs))>>, Ret)>>)

BinaryBodies ==
  {Pairs(<<"x", "y">>, ty, ty, op, rhs, q, e) :
     ty \in {"u3", "i3"}, op \in ArithOp, rhs \in {T, Num(2)},
     q \in {<<>>, <<Lit("y", ">", 0)>>, <<Lit("y", ">", 0), Lit("x", "<", 3)>>,
            <<Lit("y", "<", 3), Lit("x", ">=", 0)>>, <<Var("x", "<", "y")>>},
     e \in {<<Var("result", "<=", "x")>>}}
  \cup {Pairs(<<"x", "y">>, "i3", "i3", op, Const(-1, "i3"), q, <<>>) :
          op \in ArithOp, q \in {<<>>, <<Lit("x", ">", -4)>>}}
  \cup {Pairs(names, "u3", "u3", "Div", T, <<Lit("y", ">", 1)>>, <<Var("result", "<=", "x")>>) :
          names \in {<<"x", "y">>, <<"result", "y">>, <<"", "y">>}}

ShiftBodies ==
  {Pairs(<<"x", "y">>, ty, amount_ty, op, rhs, q, <<>>) :
     ty \in {"u3", "i3", "u4"}, amount_ty \in {"u3", "i3", "u4"}, op \in Shifts,
     rhs \in {T, Const(2, "u4"), Const(8, "u4"), Const(-1, "i3")},
     q \in {<<>>, <<Lit("y", "<", 3)>>, <<Lit("y", ">=", 0), Lit("y", "<", 3)>>}}

Trusted == {[m EXCEPT !.trusted = TRUE] :
              m \in OverX({<<>>}, {<<Lit("result", "<", 6)>>}, {<<Bb(<<Set(0, Use(X))>>, Ret)>>})}

AllBodies == CallBodies \cup ReturnBodies \cup BinaryBodies \cup ShiftBodies \cup Trusted

\* t is written through a mutable borrow: `let mut t = x; let p = &mut t; *p = 0; t`.
BorrowBodies ==
  OverX({<<>>}, {<<Var("result", "==", "x")>>},
        {<<Bb(<<Set(2, Use(X)), Set(4, Ref(2)), SetThrough(4, Use(a))>>, Goto(2))>> \o ReturnEnd :
           a \in {X, Num(0), Num(1), Num(2), Num(3)}})
=============================================================================
