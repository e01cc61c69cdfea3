--------------------------- MODULE BodyCheck_proofs ---------------------------
(***************************************************************************)
(* What BodyCheck says of every body, for every set of integer types and   *)
(* every contract: what is discharged holds when the body runs.            *)
(***************************************************************************)
EXTENDS BodyCheck, Capture_proofs

(***************************************************************************)
(* The inductive invariant.                                                *)
(***************************************************************************)
\* What the visitor records in one block.
BlockFindings(b, i) ==
  visit_terminator(b, i)
    \cup UNION {maybe_emit_overflow_obligation(b, i, j, b.blocks[i].statements[j]) :
                  j \in DOMAIN b.blocks[i].statements}

AllFindings(b) ==
  emit_ensures_obligation(b, Len(b.blocks) + 1)
    \cup UNION {BlockFindings(b, i) : i \in DOMAIN b.blocks}

\* The visit goes from block to block, and so does the run.
PlaceInv ==
  /\ body \in Bodies /\ phase \in Phase
  /\ at = [block |-> at.block, statement |-> at.statement]
  /\ at.block \in 1..(Len(body.blocks) + 1)
  /\ phase \in {"visit", "callable"} =>
       at.statement = 1 /\ entry = <<>> /\ memory = <<>>
  /\ phase = "callable" \/ (body.trusted /\ phase = "visit") => at.block = 1
  /\ phase \in {"running", "returned", "panicked"} =>
       /\ at.block \in DOMAIN body.blocks
       /\ at.statement \in 1..(Len(body.blocks[at.block].statements) + 1)

\* Every finding comes from a place in the body; every place visited has its own.
ReportInv ==
  /\ report \subseteq AllFindings(body)
  /\ \A i \in DOMAIN body.blocks :
       (IF phase = "visit" THEN i < at.block ELSE ~body.trusted)
         => BlockFindings(body, i) \subseteq report

Entered == phase \in {"running", "returned", "panicked"}

\* What a local of each type can hold.
Cells(b, l) ==
  CASE LocalTy(b, l) = "pair" -> Values(InnerTy(b, l)) \X {0, 1}
    [] LocalTy(b, l) = "ref" ->
         {<<t>> : t \in {u \in Locals(b) : LocalTy(b, u) = InnerTy(b, l)}}
    [] LocalTy(b, l) \in IntTy \cup {"bool"} -> {<<v>> : v \in Scalars(LocalTy(b, l))}

Typed(b, m) ==
  /\ m = [l \in Locals(b) |-> m[l]]
  /\ \A l \in Locals(b) : m[l] = <<>> \/ m[l] \in Cells(b, l)

MemoryInv ==
  Entered => entry \in Entries(body) /\ Permitted(body, entry) /\ Typed(body, memory)

BodyInv == PlaceInv /\ ReportInv /\ MemoryInv

\* The first proviso: nothing is written through a reference.  The visitor does
\* not see such a write (the finding that body_borrow shows).
DirectWrites(b) ==
  \A i \in DOMAIN b.blocks : \A j \in DOMAIN b.blocks[i].statements :
    b.blocks[i].statements[j].proj # "deref"

\* The amount of a shift may be unsigned and as wide as a signed value.  The
\* clauses about it are then read as signed, and `!=` may cut single values out.
WideAmount(b, r) ==
  /\ r.op \in Shifts /\ r.b.kind = "place"
  /\ Signed(OperandTy(b, r.a)) /\ ~Signed(OperandTy(b, r.b))
  /\ Bits(OperandTy(b, r.a)) = Bits(OperandTy(b, r.b))

NoHoles(b, r) ==
  WideAmount(b, r) =>
    \A c \in ToSet(b.requires) : c.kind = "literal" /\ c.x \in operand_arg_name(b, r.b) => c.op # "!="

\* The second proviso: no `!=` clause is about the amount of such a shift.
WholeAmounts(b) ==
  \A i \in DOMAIN b.blocks : \A j \in DOMAIN b.blocks[i].statements :
    b.blocks[i].statements[j].rvalue.kind = "binary" => NoHoles(b, b.blocks[i].statements[j].rvalue)

\* A parameter nothing is assigned to keeps its value.
ParamsInv ==
  Entered => \A l \in Params(body) \ assigned_locals(body) : memory[l] = <<entry[l]>>

\* No operation of an accepted body has overflowed.
FlagsInv ==
  Entered /\ Accepted /\ ~HasRaw =>
    /\ phase # "panicked"
    /\ \A l \in Locals(body) : LocalTy(body, l) = "pair" /\ memory[l] # <<>> => memory[l][2] = 0

\* The walks of the two captures, and what they know after j statements of a block.
OnlyWay(b) == {i \in DOMAIN b.blocks : block_in_edge_counts(b)[i] = 1}
CallWalk(b, call_block, ty) == ChainWalk(b, NamedParams(b), {call_block}, OnlyWay(b), ty)

ReturnSeeds(b) == {l \in NamedParams(b) : LocalTy(b, l) = LocalTy(b, 0)}
Returns(b) == {i \in DOMAIN b.blocks : b.blocks[i].terminator.kind = "return"}
EffectWalk(b) == ChainWalk(b, ReturnSeeds(b), Returns(b), DOMAIN b.blocks, LocalTy(b, 0))

AgreesAt(b, walk, j, e, m, ty) == Agree(b, BlockStates(b, walk.at, walk.state, ty)[j], e, m, ty)
AgreesHere(walk, ty) == AgreesAt(body, walk, at.statement - 1, entry, memory, ty)

\* Where the run is in a block of a chain only the chain leads to, it has come
\* along the chain.
ChainInv ==
  phase = "running" /\ block_in_edge_counts(body)[1] = 0 =>
    \A call_block \in DOMAIN body.blocks : \A ty \in IntTy :
      \A k \in 0..(Len(body.blocks) + 1) :
        LET walk == CallWalk(body, call_block, ty)[k]
        IN walk.status = "walking" /\ walk.at = at.block => AgreesHere(walk, ty)

\* A chain that closes with a return is all the body ever runs.
EffectInv ==
  phase = "running" /\ LocalTy(body, 0) \in IntTy
    /\ EffectWalk(body)[Len(body.blocks) + 1].status = "ended"
  => \E k \in 0..(Len(body.blocks) + 1) :
       LET walk == EffectWalk(body)[k]
       IN walk.status = "walking" /\ walk.at = at.block /\ AgreesHere(walk, LocalTy(body, 0))

ContractInv ==
  /\ BodyInv
  /\ DirectWrites(body) => ParamsInv /\ ChainInv /\ EffectInv
  /\ DirectWrites(body) /\ WholeAmounts(body) => FlagsInv
-----------------------------------------------------------------------------
(***************************************************************************)
(* Findings and where they come from.                                      *)
(***************************************************************************)
LEMMA BodiesTypeCheck ==
  ASSUME NEW b \in Bodies
  PROVE  IsBody(b) /\ b.trusted \in BOOLEAN /\ \A c \in ToSet(b.requires) : IsClause(c)
BY BodiesAssumption

LEMMA Outcomes ==
  /\ \A assumed, good : Decide(assumed, good) \in {"discharged", "unproven"}
  /\ \A assumed, good : Decide(assumed, good) = "discharged" => assumed # {} /\ assumed \subseteq good
BY DEF Decide

LEMMA OverflowFindings ==
  ASSUME NEW b, NEW i, NEW j, NEW s, NEW f \in maybe_emit_overflow_obligation(b, i, j, s)
  PROVE  f \in [rule : {"PB049"}, block : {i}, statement : {j}, outcome : Outcome]
<1>1. OverflowOutcome(b, s.rvalue) \in Outcome
  BY Outcomes DEF OverflowOutcome, Outcome
<1>2. f = Finding("PB049", i, j, "gap") \/ f = Finding("PB049", i, j, OverflowOutcome(b, s.rvalue))
  BY DEF maybe_emit_overflow_obligation
<1> QED
  BY <1>1, <1>2 DEF Finding, Outcome

LEMMA EnsuresFindings ==
  ASSUME NEW b, NEW i, NEW f \in emit_ensures_obligation(b, i)
  PROVE  /\ f \in [rule : {"PB076"}, block : {i}, statement : {0}, outcome : Outcome]
         /\ f.outcome = build_ensures_smt(b)
<1>1. build_ensures_smt(b) \in Outcome
  BY Outcomes DEF build_ensures_smt, EnsuresOutcome, Outcome
<1>2. f = Finding("PB076", i, 0, build_ensures_smt(b))
  BY DEF emit_ensures_obligation
<1> QED
  BY <1>1, <1>2 DEF Finding

LEMMA CallFindings ==
  ASSUME NEW b, NEW call, NEW i, NEW f \in maybe_gap_callsite_preconditions(b, call, i)
  PROVE  /\ f \in [rule : {"PB077"}, block : {i}, statement : {0}, outcome : Outcome]
         /\ f.outcome = build_callsite_precondition_smt(b, call, i)
<1>1. build_callsite_precondition_smt(b, call, i) \in Outcome
  BY Outcomes DEF build_callsite_precondition_smt, Outcome
<1>2. f = Finding("PB077", i, 0, build_callsite_precondition_smt(b, call, i))
  BY DEF maybe_gap_callsite_preconditions
<1> QED
  BY <1>1, <1>2 DEF Finding

LEMMA TerminatorFindings ==
  ASSUME NEW b, NEW i, NEW f \in visit_terminator(b, i)
  PROVE  LET t == b.blocks[i].terminator
         IN \/ t.kind = "call" /\ f \in maybe_gap_callsite_preconditions(b, t, i)
            \/ t.kind = "return" /\ f \in emit_ensures_obligation(b, i)
BY DEF visit_terminator

(* A finding tells which construct it is about. *)
LEMMA Origins ==
  ASSUME NEW b, NEW f \in AllFindings(b)
  PROVE  /\ f \in [rule : {"PB049", "PB076", "PB077"}, block : DOMAIN b.blocks \cup {Len(b.blocks) + 1},
                   statement : {0} \cup UNION {DOMAIN b.blocks[i].statements : i \in DOMAIN b.blocks},
                   outcome : Outcome]
         /\ f.rule = "PB049" =>
              /\ f.block \in DOMAIN b.blocks /\ f.statement \in DOMAIN b.blocks[f.block].statements
              /\ f \in maybe_emit_overflow_obligation(b, f.block, f.statement,
                                                      b.blocks[f.block].statements[f.statement])
         /\ f.rule = "PB077" =>
              /\ f.block \in DOMAIN b.blocks
              /\ f.outcome = build_callsite_precondition_smt(b, b.blocks[f.block].terminator, f.block)
         /\ f.rule = "PB076" => f.outcome = build_ensures_smt(b)
<1>1. CASE f \in emit_ensures_obligation(b, Len(b.blocks) + 1)
  BY <1>1, EnsuresFindings
<1>2. ASSUME NEW i \in DOMAIN b.blocks, f \in BlockFindings(b, i)
      PROVE  /\ f.block = i /\ f \in [rule : {"PB049", "PB076", "PB077"}, block : {i},
                   statement : {0} \cup DOMAIN b.blocks[i].statements, outcome : Outcome]
             /\ f.rule = "PB049" =>
                  /\ f.statement \in DOMAIN b.blocks[i].statements
                  /\ f \in maybe_emit_overflow_obligation(b, i, f.statement,
                                                          b.blocks[i].statements[f.statement])
             /\ f.rule = "PB077" =>
                  f.outcome = build_callsite_precondition_smt(b, b.blocks[i].terminator, i)
             /\ f.rule = "PB076" => f.outcome = build_ensures_smt(b)
  <2>1. ASSUME NEW j \in DOMAIN b.blocks[i].statements,
               f \in maybe_emit_overflow_obligation(b, i, j, b.blocks[i].statements[j])
        PROVE  /\ f.rule = "PB049" /\ f.block = i /\ f.statement = j
               /\ f \in [rule : {"PB049"}, block : {i}, statement : {j}, outcome : Outcome]
    BY <2>1, OverflowFindings
  <2>2. CASE f \in visit_terminator(b, i)
    BY <2>2, TerminatorFindings, EnsuresFindings, CallFindings
  <2>3. CASE f \notin visit_terminator(b, i)
    <3>1. PICK j \in DOMAIN b.blocks[i].statements :
             f \in maybe_emit_overflow_obligation(b, i, j, b.blocks[i].statements[j])
      BY <1>2, <2>3 DEF BlockFindings
    <3> QED
      BY <3>1, <2>1
  <2> QED
    BY <2>2, <2>3
<1>3. CASE f \notin emit_ensures_obligation(b, Len(b.blocks) + 1)
  <2>1. PICK i \in DOMAIN b.blocks : f \in BlockFindings(b, i)
    BY <1>3 DEF AllFindings
  <2> QED
    BY <2>1, <1>2
<1> QED
  BY <1>1, <1>3
-----------------------------------------------------------------------------
(***************************************************************************)
(* Arithmetic: the values an operation runs on are among those its problem *)
(* admits.                                                                 *)
(***************************************************************************)
LEMMA ParameterNames ==
  ASSUME NEW b, IsBody(b), NEW l \in Params(b), b.args[l] # ""
  PROVE  Unambiguous(b.args, b.args[l]) /\ IndexOf(b.args, b.args[l]) = l
<1>1. Named(b.args, b.args[l]) = {l}
  BY DEF IsBody, Named, Params
<1> QED
  BY <1>1, FS_Singleton DEF Unambiguous, IndexOf

(* A permitted entry keeps the clauses about a parameter an operand reads. *)
LEMMA NamedClause ==
  ASSUME NEW b, IsBody(b), NEW e, Permitted(b, e), NEW a,
         NEW c \in ToSet(b.requires), c.kind = "literal", c.x \in operand_arg_name(b, a)
  PROVE  a.kind = "place" /\ Compare(c.op, e[a.local], c.literal)
<1>1. /\ a.kind = "place" /\ a.local \in Params(b) /\ b.args[a.local] # ""
      /\ c.x = b.args[a.local]
  BY DEF operand_arg_name, local_arg_name
<1>2. Unambiguous(b.args, c.x) /\ IndexOf(b.args, c.x) = a.local
  BY <1>1, ParameterNames
<1>3. Idents(c) = {c.x}
  BY DEF Idents
<1>4. c \in Meaningful(b.requires, b.args)
  BY <1>2, <1>3 DEF Meaningful
<1>5. Holds(c, [x \in Idents(c) |-> e[IndexOf(b.args, x)]])
  BY <1>4 DEF Permitted
<1> QED
  BY <1>1, <1>2, <1>3, <1>5 DEF Holds

LEMMA AmountOutOfRange ==
  ASSUME NEW ty \in IntTy, NEW amount_ty \in IntTy, SoundAtValueWidth(amount_ty, ty),
         NEW y \in Values(amount_ty), y \notin Values(ty)
  PROVE  Signed(ty) /\ Bits(amount_ty) = Bits(ty) /\ y > Highest(ty)
<1> DEFINE n == Bits(ty)
           m == Bits(amount_ty)
<1>1. /\ n \in Nat /\ m \in Nat /\ m <= n /\ n >= 3 /\ m >= 3 /\ ~Signed(amount_ty)
      /\ Signed(ty) \in BOOLEAN
  BY IntegerTypes DEF SoundAtValueWidth
<1>2. y \in Int /\ y >= 0 /\ y <= pow2(m) - 1 /\ pow2(m) \in Int
  <2>1. Lowest(amount_ty) = 0 /\ Highest(amount_ty) = Size(amount_ty) - 1 /\ Size(amount_ty) \in Nat
    BY <1>1, IntegerTypes, Ranges
  <2>2. Size(amount_ty) = pow2(m)
    BY DEF Size
  <2> QED
    BY <2>1, <2>2 DEF Values
<1>3. Lowest(ty) \in Int /\ Highest(ty) \in Int /\ Lowest(ty) <= 0
  BY Ranges
<1>4. y > Highest(ty)
  BY <1>2, <1>3 DEF Values
<1>5. pow2(m) <= pow2(n) /\ pow2(n) \in Int
  BY <1>1, Pow2Grows, Pow2Type
<1>6. Signed(ty)
  <2> SUFFICES ASSUME ~Signed(ty) PROVE FALSE
    BY <1>1
  <2>1. Highest(ty) = pow2(n) - 1
    BY IntegerTypes DEF Size
  <2> QED
    BY <2>1, <1>2, <1>4, <1>5
<1>7. m = n
  <2> SUFFICES ASSUME m <= n - 1 PROVE FALSE
    BY <1>1
  <2>1. Highest(ty) = pow2(n - 1) - 1 /\ pow2(n - 1) \in Int
    BY <1>6, IntegerTypes
  <2>2. pow2(m) <= pow2(n - 1)
    <3>1. n - 1 \in Nat /\ m \in 0..(n - 1)
      BY <1>1
    <3> QED
      BY <3>1, Pow2Grows
  <2> QED
    BY <2>1, <2>2, <1>2, <1>4
<1> QED
  BY <1>4, <1>6, <1>7

\* What the type checker and the caller have settled when an operation runs on
\* x and y: their types, the constants, and the parameters not assigned to.
Settled(b, r, e, x, y) ==
  /\ x \in Values(OperandTy(b, r.a)) /\ y \in Values(OperandTy(b, r.b))
  /\ (r.a.kind = "const" => x = r.a.value) /\ (r.b.kind = "const" => y = r.b.value)
  /\ (operand_arg_name(b, r.a) # {} => x = e[r.a.local])
  /\ (operand_arg_name(b, r.b) # {} => y = e[r.b.local])
  /\ \A c \in ToSet(b.requires) :
       c.kind = "raw" => y \in Values(OperandTy(b, r.a)) /\ RawHolds(c, x, y)

LEMMA OverflowSound ==
  ASSUME NEW b, IsBody(b), \A c \in ToSet(b.requires) : IsClause(c),
         NEW s, IsBinary(b, s), s.rvalue.op \in ArithOp, NoHoles(b, s.rvalue),
         OverflowOutcome(b, s.rvalue) = "discharged",
         s.rvalue.op \in Shifts \/ OperandTy(b, s.rvalue.a) = OperandTy(b, s.rvalue.b),
         NEW e, Permitted(b, e), NEW x, NEW y, Settled(b, s.rvalue, e, x, y)
  PROVE  ~Panics(s.rvalue.op, x, y, OperandTy(b, s.rvalue.a))
<1> DEFINE r == s.rvalue
           ty == OperandTy(b, r.a)
           amount_ty == OperandTy(b, r.b)
           lhs_arg == operand_arg_name(b, r.a)
           rhs_arg == IF amount_ty = ty \/ SoundAtValueWidth(amount_ty, ty)
                      THEN operand_arg_name(b, r.b) ELSE {}
           assumed == {v \in Values(ty) \X Values(ty) :
                         /\ PinHolds(r.a, v[1], ty)
                         /\ PinHolds(r.b, v[2], ty)
                         /\ \A c \in ToSet(b.requires) :
                              ClauseHolds(c, lhs_arg, rhs_arg, v[1], v[2], ty)}
           good == {v \in assumed : ~Panics(r.op, v[1], v[2], ty)}
<1>1. OverflowOutcome(b, r) = Decide(assumed, good)
  BY DEF OverflowOutcome
<1>2. assumed # {} /\ assumed \subseteq good
  BY <1>1, Outcomes
<1>3. ty \in IntTy /\ amount_ty \in IntTy
  BY DEF IsBinary, IsInteger
<1>4. x \in Values(ty) /\ y \in Values(amount_ty)
  BY DEF Settled
<1>5. ASSUME NEW c \in ToSet(b.requires), c.kind = "literal", c.x \in lhs_arg
      PROVE  Compare(c.op, x, c.literal)
  BY <1>5, NamedClause DEF Settled
<1>6. ASSUME NEW c \in ToSet(b.requires), c.kind = "literal", c.x \in rhs_arg
      PROVE  Compare(c.op, y, c.literal)
  BY <1>6, NamedClause DEF Settled
<1>7. PinHolds(r.a, x, ty)
  BY DEF PinHolds, Settled
<1>8. ASSUME NEW c \in ToSet(b.requires), NEW v2,
             c.kind = "raw" => RawHolds(c, x, v2),
             c.kind = "literal" /\ InRange(c, ty) /\ c.x \in rhs_arg => Compare(c.op, v2, c.literal)
      PROVE  ClauseHolds(c, lhs_arg, rhs_arg, x, v2, ty)
  <2> HIDE DEF lhs_arg, rhs_arg, ty
  <2>1. CASE c.kind = "raw"
    BY <1>8, <2>1 DEF ClauseHolds
  <2>2. CASE c.kind = "literal" /\ InRange(c, ty) /\ c.x \in lhs_arg \cup rhs_arg
    <3>1. ClauseHolds(c, lhs_arg, rhs_arg, x, v2, ty)
            = Holds(c, [z \in Idents(c) |-> IF z \in lhs_arg THEN x ELSE v2])
      BY <2>2 DEF ClauseHolds
    <3>2. Idents(c) = {c.x}
      BY <2>2 DEF Idents
    <3> QED
      BY <3>1, <3>2, <2>2, <1>5, <1>8 DEF Holds
  <2>3. CASE /\ c.kind # "raw" /\ ~(c.kind = "literal" /\ InRange(c, ty) /\ c.x \in lhs_arg \cup rhs_arg)
    BY <2>3 DEF ClauseHolds
  <2> QED
    BY <2>1, <2>2, <2>3
<1>9. CASE y \in Values(ty)
  <2>1. PinHolds(r.b, y, ty)
    BY DEF PinHolds, Settled
  <2>2. \A c \in ToSet(b.requires) : ClauseHolds(c, lhs_arg, rhs_arg, x, y, ty)
    BY <1>6, <1>8 DEF Settled
  <2> DEFINE v == <<x, y>>
  <2>3. v \in assumed
    BY <1>4, <1>7, <1>9, <2>1, <2>2
  <2> HIDE DEF assumed
  <2>4. v \in good
    BY <1>2, <2>3
  <2> QED
    BY <2>4
<1>10. CASE y \notin Values(ty)
  <2>1. r.op \in Shifts /\ amount_ty # ty
    BY <1>4, <1>10
  <2>2. \A c \in ToSet(b.requires) : c.kind # "raw"
    BY <1>10 DEF Settled
  <2>3. ~(r.b.kind = "const" /\ r.b.known /\ (r.b.ty = ty \/ r.b.value \in Values(ty)))
    BY <2>1, <1>10 DEF Settled, OperandTy
  <2>4. SUFFICES ASSUME NEW v2 \in Values(ty), v2 >= Bits(ty),
                        \A c \in ToSet(b.requires) :
                           c.kind = "literal" /\ InRange(c, ty) /\ c.x \in rhs_arg =>
                             Compare(c.op, v2, c.literal)
                 PROVE  FALSE
    <3>1. CASE rhs_arg = {}
      <4>1. Bits(ty) \in Values(ty) /\ Bits(ty) >= Bits(ty)
        BY <1>3, ValuesFacts, Ranges
      <4> QED
        BY <3>1, <4>1
    <3>2. CASE rhs_arg # {}
      <4>1. SoundAtValueWidth(amount_ty, ty) /\ rhs_arg = operand_arg_name(b, r.b)
        BY <3>2, <2>1
      <4>2. r.b.kind = "place"
        BY <3>2, <4>1 DEF operand_arg_name
      <4>3. Signed(ty) /\ Bits(amount_ty) = Bits(ty) /\ y > Highest(ty)
        BY <4>1, <1>3, <1>4, <1>10, AmountOutOfRange
      <4>4. WideAmount(b, r)
        BY <4>1, <4>2, <4>3, <2>1 DEF WideAmount, SoundAtValueWidth
      <4>5. Highest(ty) \in Values(ty) /\ Highest(ty) >= Bits(ty)
        <5>1. Bits(ty) \in Values(ty) /\ Highest(ty) \in Values(ty)
          BY <1>3, ValuesFacts
        <5> QED
          BY <5>1, <1>3, Ranges DEF Values
      <4>6. ASSUME NEW c \in ToSet(b.requires), c.kind = "literal", InRange(c, ty), c.x \in rhs_arg
            PROVE  Compare(c.op, Highest(ty), c.literal)
        <5>1. c.op # "!="
          BY <4>4, <4>6, <4>1 DEF NoHoles
        <5>2. Compare(c.op, y, c.literal)
          BY <1>6, <4>6
        <5>3. c.literal \in Values(ty)
          BY <4>6 DEF InRange
        <5>4. c.op \in {"<", "<=", ">", ">=", "==", "!="}
          BY <4>6 DEF IsClause
        <5>5. /\ y \in Int /\ Highest(ty) \in Int /\ c.literal \in Int
              /\ c.literal <= Highest(ty)
          BY <5>3, <1>3, <1>4, Ranges, ValuesFacts DEF Values
        <5>6. c.op \in {">", ">="}
          <6>1. y > c.literal
            BY <5>5, <4>3
          <6>2. c.op = "<" => y < c.literal
            BY <5>2 DEF Compare
          <6>3. c.op = "<=" => y <= c.literal
            BY <5>2 DEF Compare
          <6>4. c.op = "==" => y = c.literal
            BY <5>2 DEF Compare
          <6>5. c.op # "<" /\ c.op # "<=" /\ c.op # "=="
            BY <6>1, <6>2, <6>3, <6>4, <5>5
          <6> QED
            BY <5>1, <5>4, <6>5
        <5>7. CASE c.op = ">="
          BY <5>5, <5>7 DEF Compare
        <5>8. CASE c.op = ">"
          <6>1. PICK v \in assumed : TRUE
            BY <1>2
          <6>2. v[2] \in Values(ty) /\ ClauseHolds(c, lhs_arg, rhs_arg, v[1], v[2], ty)
            BY <6>1
          <6>3. c.x \notin lhs_arg
            <7> SUFFICES ASSUME c.x \in lhs_arg PROVE FALSE
              OBVIOUS
            <7>1. /\ r.a.kind = "place" /\ r.a.proj = "none" /\ r.a.local \in Params(b)
                  /\ c.x = b.args[r.a.local] /\ c.x # ""
              BY DEF operand_arg_name, local_arg_name
            <7>2. /\ r.b.kind = "place" /\ r.b.proj = "none" /\ r.b.local \in Params(b)
                  /\ c.x = b.args[r.b.local]
              BY <4>6, <4>1 DEF operand_arg_name, local_arg_name
            <7>3. r.a.local = r.b.local
              <8> HIDE DEF lhs_arg, rhs_arg, ty, assumed, good
              <8>1. IndexOf(b.args, b.args[r.a.local]) = r.a.local
                BY <7>1, ParameterNames
              <8>2. IndexOf(b.args, b.args[r.b.local]) = r.b.local
                BY <7>1, <7>2, ParameterNames
              <8> QED
                BY <7>1, <7>2, <8>1, <8>2
            <7> QED
              BY <7>1, <7>2, <7>3, <2>1 DEF OperandTy
          <6>4. Idents(c) = {c.x}
            BY <4>6 DEF Idents
          <6> HIDE DEF lhs_arg, rhs_arg, ty
          <6>5. ClauseHolds(c, lhs_arg, rhs_arg, v[1], v[2], ty)
                  = Holds(c, [z \in Idents(c) |-> IF z \in lhs_arg THEN v[1] ELSE v[2]])
            BY <4>6 DEF ClauseHolds
          <6>6. Compare(c.op, v[2], c.literal)
            BY <6>2, <6>3, <6>4, <6>5, <4>6 DEF Holds
          <6>7. v[2] \in Int /\ v[2] <= Highest(ty)
            BY <6>2, <1>3, Ranges DEF Values
          <6>8. v[2] > c.literal
            BY <6>6, <5>8 DEF Compare
          <6>9. CASE c.literal = Highest(ty)
            BY <6>7, <6>8, <6>9, <5>5
          <6>10. CASE c.literal # Highest(ty)
            BY <6>10, <5>5, <5>8 DEF Compare
          <6> QED
            BY <6>9, <6>10
        <5> QED
          BY <5>6, <5>7, <5>8
      <4> QED
        BY <4>5, <4>6
    <3> QED
      BY <3>1, <3>2
  <2>5. PinHolds(r.b, v2, ty)
    BY <2>3 DEF PinHolds
  <2>6. \A c \in ToSet(b.requires) : ClauseHolds(c, lhs_arg, rhs_arg, x, v2, ty)
    BY <1>8, <2>2, <2>4
  <2> DEFINE v == <<x, v2>>
  <2>7. v \in assumed
    BY <1>4, <1>7, <2>4, <2>5, <2>6
  <2> HIDE DEF assumed
  <2>8. ~Panics(r.op, x, v2, ty)
    BY <1>2, <2>7
  <2> HIDE DEF ty
  <2>9. v2 \in Int /\ Bits(ty) \in Nat
    BY <1>3, <2>4, ValuesFacts, Ranges
  <2>10. r.op \notin {"Add", "Sub", "Mul", "Div", "Rem"}
    BY <2>1 DEF Shifts
  <2>11. v2 \in 0..(Bits(ty) - 1)
    BY <2>8, <2>1, <2>10 DEF Panics
  <2> QED
    BY <2>4, <2>9, <2>11
<1> QED
  BY <1>9, <1>10
-----------------------------------------------------------------------------
(***************************************************************************)
(* Calls: what is bound to a parameter of the callee is the value of its   *)
(* actual.                                                                 *)
(***************************************************************************)
LEMMA NamedIndex ==
  ASSUME NEW names, NEW x, Unambiguous(names, x)
  PROVE  IndexOf(names, x) \in DOMAIN names /\ names[IndexOf(names, x)] = x
<1>1. Named(names, x) # {}
  BY FS_EmptySet DEF Unambiguous
<1>2. IndexOf(names, x) \in Named(names, x)
  BY <1>1 DEF IndexOf
<1> QED
  BY <1>2 DEF Named

\* What is known of a memory at the call in block i.
KnownAtCall(b, i, e, m) ==
  /\ IsBody(b) /\ i \in DOMAIN b.blocks /\ e \in Entries(b) /\ Permitted(b, e)
  /\ b.blocks[i].terminator.kind = "call"
  /\ \A l \in Params(b) \ assigned_locals(b) : m[l] = <<e[l]>>
  /\ block_in_edge_counts(b)[1] = 0 =>
       \A ty \in IntTy : \A k \in 0..(Len(b.blocks) + 1) :
         LET walk == CallWalk(b, i, ty)[k]
         IN walk.status = "walking" /\ walk.at = i =>
              Agree(b, AfterBlock(b, i, walk.state, ty), e, m, ty)

LEMMA CapturedArgument ==
  ASSUME NEW b, NEW i, NEW e, NEW m, KnownAtCall(b, i, e, m),
         NEW a, IsOperand(b, a), NEW ty \in IntTy,
         NEW y \in capture_call_arg_expr(b, a, i, ty)
  PROVE  y.value[e] = OperandValue(m, a)[1]
<1> DEFINE in_edges == block_in_edge_counts(b)
           end == WalkEnd(b, NamedParams(b), {i}, OnlyWay(b), ty)
           w == CallWalk(b, i, ty)
           n == Len(b.blocks) + 1
<1>0. IsBody(b)
  BY DEF KnownAtCall
<1>1. /\ in_edges[1] = 0 /\ end.status = "ended" /\ a.kind = "place"
      /\ operand_primitive_int_name(b, a) = {ty} /\ y \in end.state.env[a.local]
  BY DEF capture_call_arg_expr, OnlyWay
<1>2. a.proj = "none" /\ a.local \in Locals(b)
  BY <1>1 DEF operand_primitive_int_name, IsOperand, IsPlace
<1>3. OnlyWay(b) \in SUBSET DOMAIN b.blocks
  BY DEF OnlyWay
<1>4. n \in Nat /\ WalkLaws(b, {i}, OnlyWay(b), ty, n, w) /\ end = w[n]
  BY <1>0, <1>3, ChainWalkLaws DEF CallWalk
<1> HIDE DEF w, n, end
<1>5. PICK k \in 0..n : w[k].status = "walking" /\ Ends(b, {i}, ty, w[k], w[n])
  BY <1>1, <1>4, WalkReachesEnd
<1>6. w[k].at = i /\ end.state = AfterBlock(b, i, w[k].state, ty)
  BY <1>4, <1>5 DEF Ends
<1>7. Agree(b, end.state, e, m, ty)
  BY <1>1, <1>5, <1>6 DEF KnownAtCall, w, n
<1>8. m[a.local][1] = y.value[e]
  BY <1>1, <1>2, <1>7 DEF Agree
<1> QED
  BY <1>1, <1>2, <1>8 DEF OperandValue, ReadPlace, Target

LEMMA BoundValue ==
  ASSUME NEW b, NEW i, NEW e, NEW m, KnownAtCall(b, i, e, m),
         NEW spec, DOMAIN b.blocks[i].terminator.args = DOMAIN spec.args,
         NEW x, NEW y \in bind_callsite_param(b, spec, b.blocks[i].terminator, i, x)
  PROVE  y.value[e] = OperandValue(m, b.blocks[i].terminator.args[IndexOf(spec.args, x)])[1]
<1> DEFINE call == b.blocks[i].terminator
           ty == spec.tys[IndexOf(spec.args, x)]
           a == call.args[IndexOf(spec.args, x)]
           linked == operand_as_caller_arg(b, a)
<1>0. IsBody(b) /\ i \in DOMAIN b.blocks /\ e \in Entries(b) /\ call.kind = "call"
  BY DEF KnownAtCall
<1>1. Unambiguous(spec.args, x) /\ ty \in IntTy
  BY DEF bind_callsite_param
<1>2. y \in IF a.kind = "const"
            THEN IF a.ty = ty /\ a.known THEN {Literal(b, a.value)} ELSE {}
            ELSE IF linked # {}
            THEN {Parameter(b, l) : l \in {p \in linked : LocalTy(b, p) = ty}}
            ELSE capture_call_arg_expr(b, a, i, ty)
  BY <1>1 DEF bind_callsite_param
<1>3. IsOperand(b, a)
  <2>1. IndexOf(spec.args, x) \in DOMAIN call.args
    BY <1>1, NamedIndex
  <2>2. IsTerminator(b, call)
    BY <1>0, BlockFacts
  <2> QED
    BY <1>0, <2>1, <2>2 DEF IsTerminator, ToSet
<1> HIDE DEF a, ty, call
<1>4. CASE a.kind = "const"
  <2>1. y = Literal(b, a.value)
    BY <1>2, <1>4
  <2> QED
    BY <1>0, <1>4, <2>1 DEF Literal, OperandValue, a, call
<1>5. CASE a.kind # "const" /\ linked # {}
  <2>1. PICK l \in linked : y = Parameter(b, l)
    BY <1>2, <1>5
  <2>2. a.kind = "place" /\ a.proj = "none" /\ l = a.local /\ l \in Params(b) \ assigned_locals(b)
    BY <1>5 DEF operand_as_caller_arg
  <2>3. m[l] = <<e[l]>> /\ y.value[e] = e[l]
    BY <1>0, <2>1, <2>2 DEF KnownAtCall, Parameter
  <2>4. OperandValue(m, a) = m[l]
    BY <2>2 DEF OperandValue, ReadPlace, Target
  <2> QED
    BY <2>3, <2>4 DEF a, call
<1>6. CASE a.kind # "const" /\ linked = {}
  <2>1. y \in capture_call_arg_expr(b, a, i, ty)
    BY <1>2, <1>6
  <2>2. y.value[e] = OperandValue(m, a)[1]
    BY <2>1, <1>1, <1>3, CapturedArgument
  <2> QED
    BY <2>2 DEF a, call
<1> QED
  BY <1>4, <1>5, <1>6

LEMMA CallSound ==
  ASSUME NEW b, NEW i, NEW e, NEW m, KnownAtCall(b, i, e, m),
         DOMAIN b.blocks[i].terminator.args = DOMAIN Callees[b.blocks[i].terminator.callee].args,
         build_callsite_precondition_smt(b, b.blocks[i].terminator, i) = "discharged",
         NEW c \in Meaningful(Callees[b.blocks[i].terminator.callee].requires,
                           Callees[b.blocks[i].terminator.callee].args)
  PROVE  LET call == b.blocks[i].terminator
             spec == Callees[call.callee]
         IN Holds(c, [x \in Idents(c) |-> OperandValue(m, call.args[IndexOf(spec.args, x)])[1]])
<1> DEFINE call == b.blocks[i].terminator
           spec == Callees[call.callee]
           clauses == ToSet(spec.requires)
           names == UNION {Idents(d) : d \in clauses}
           Bound(x) == bind_callsite_param(b, spec, call, i, x)
           linked == UNION {d.callers : d \in UNION {Bound(x) : x \in names}}
           Actual(x) == (CHOOSE d \in Bound(x) : TRUE).value
           assumed == {f \in Entries(b) : \A d \in Hypotheses(b, linked) :
                                       Holds(d, [x \in Idents(d) |-> f[IndexOf(b.args, x)]])}
           good == {f \in Entries(b) : \A d \in clauses : Holds(d, [x \in Idents(d) |-> Actual(x)[f]])}
<1>1. build_callsite_precondition_smt(b, call, i) =
        IF /\ spec.walked
           /\ \A d \in clauses : WellSorted(spec.args, spec.tys, d)
           /\ \A x \in names : Bound(x) # {}
        THEN Decide(assumed, good) ELSE "gap"
  BY DEF build_callsite_precondition_smt
<1>2. Decide(assumed, good) = "discharged" /\ \A x \in names : Bound(x) # {}
  BY <1>1
<1>3. assumed \subseteq good
  BY <1>2, Outcomes
<1>4. e \in assumed
  <2>1. Hypotheses(b, linked) \subseteq Meaningful(b.requires, b.args)
    BY DEF Hypotheses, caller_precondition_hypotheses, WellSorted, Meaningful
  <2> QED
    BY <2>1 DEF Permitted, KnownAtCall
<1>5. c \in clauses /\ Idents(c) \subseteq names
  BY DEF Meaningful
<1>6. Holds(c, [x \in Idents(c) |-> Actual(x)[e]])
  <2> HIDE DEF assumed
  <2>1. e \in good
    BY <1>3, <1>4
  <2> QED
    BY <2>1, <1>5
<1>7. ASSUME NEW x \in Idents(c)
      PROVE  Actual(x)[e] = OperandValue(m, call.args[IndexOf(spec.args, x)])[1]
  <2>1. (CHOOSE d \in Bound(x) : TRUE) \in Bound(x)
    BY <1>2, <1>5, <1>7
  <2> DEFINE y == CHOOSE d \in Bound(x) : TRUE
  <2>2. y \in bind_callsite_param(b, spec, call, i, x)
    BY <2>1
  <2>0. DOMAIN b.blocks[i].terminator.args = DOMAIN spec.args
    OBVIOUS
  <2> HIDE DEF y, spec, Bound, assumed, good, linked, names, clauses, Actual
  <2>3. y.value[e] = OperandValue(m, call.args[IndexOf(spec.args, x)])[1]
    <3>1. \A z \in bind_callsite_param(b, spec, b.blocks[i].terminator, i, x) :
            z.value[e] = OperandValue(m, b.blocks[i].terminator.args[IndexOf(spec.args, x)])[1]
      BY <2>0, BoundValue, SMTT(60)
    <3> QED
      BY <3>1, <2>2
  <2> QED
    BY <2>3 DEF y, spec, Actual, Bound
<1>8. [x \in Idents(c) |-> Actual(x)[e]]
        = [x \in Idents(c) |-> OperandValue(m, call.args[IndexOf(spec.args, x)])[1]]
  BY <1>7
<1> QED
  BY <1>6, <1>8
-----------------------------------------------------------------------------
(***************************************************************************)
(* Returns: what the chain captures is what the body returns.              *)
(***************************************************************************)
\* What is known of a memory at the return in block i.
KnownAtReturn(b, i, e, m) ==
  /\ IsBody(b) /\ i \in Returns(b) /\ e \in Entries(b) /\ Permitted(b, e)
  /\ LET w == EffectWalk(b)
         ty == LocalTy(b, 0)
     IN ty \in IntTy /\ w[Len(b.blocks) + 1].status = "ended" =>
          \E k \in 0..(Len(b.blocks) + 1) :
            /\ w[k].status = "walking" /\ w[k].at = i
            /\ Agree(b, AfterBlock(b, i, w[k].state, ty), e, m, ty)

LEMMA CapturedResult ==
  ASSUME NEW b, NEW i, NEW e, NEW m, KnownAtReturn(b, i, e, m), NEW x \in capture_body_effect(b)
  PROVE  m[0][1] = x.value[e]
<1> DEFINE ty == LocalTy(b, 0)
           w == EffectWalk(b)
           n == Len(b.blocks) + 1
           end == WalkEnd(b, ReturnSeeds(b), Returns(b), DOMAIN b.blocks, ty)
<1>0. IsBody(b)
  BY DEF KnownAtReturn
<1>1. ty \in IntTy /\ end.status = "ended" /\ x \in end.state.env[0]
  <2>1. ReturnSeeds(b) = {l \in Params(b) : b.args[l] # "" /\ LocalTy(b, l) = ty}
    BY DEF ReturnSeeds, NamedParams
  <2> QED
    BY <2>1 DEF capture_body_effect, Returns
<1>2. n \in Nat /\ WalkLaws(b, Returns(b), DOMAIN b.blocks, ty, n, w) /\ end = w[n]
  BY <1>0, ChainWalkLaws DEF EffectWalk
<1> HIDE DEF w, n, end
<1>3. PICK k \in 0..n : /\ w[k].status = "walking" /\ w[k].at = i
                        /\ Agree(b, AfterBlock(b, i, w[k].state, ty), e, m, ty)
  BY <1>1, <1>2 DEF KnownAtReturn, w, n
<1>4. \/ Ends(b, Returns(b), ty, w[k], w[n])
      \/ w[k].at \notin Returns(b)
  BY <1>1, <1>2, <1>3, WalkGoesOn
<1>5. end.state = AfterBlock(b, i, w[k].state, ty)
  BY <1>2, <1>3, <1>4 DEF Ends, KnownAtReturn
<1>6. Agree(b, end.state, e, m, ty)
  BY <1>3, <1>5
<1>7. 0 \in Locals(b)
  BY <1>0, BodyFacts
<1> QED
  BY <1>1, <1>6, <1>7 DEF Agree

(* What the ensures problem assumes is that the caller kept the preconditions. *)
LEMMA EnsuresAssumes ==
  ASSUME NEW b, IsBody(b), "result" \notin ToSet(b.args),
         \A c \in ToSet(b.requires) : translate_spec(c, known_pre(b), LocalTy(b, 0)),
         NEW e, NEW r
  PROVE  Permitted(b, e) <=>
           \A c \in ToSet(b.requires) :
             Holds(c, [x \in Idents(c) |-> IF x = "result" THEN r ELSE e[IndexOf(b.args, x)]])
<1>1. ASSUME NEW c \in ToSet(b.requires)
      PROVE  /\ c \in Meaningful(b.requires, b.args)
             /\ [x \in Idents(c) |-> IF x = "result" THEN r ELSE e[IndexOf(b.args, x)]]
                  = [x \in Idents(c) |-> e[IndexOf(b.args, x)]]
  <2>1. c.kind # "raw" /\ Idents(c) \subseteq Identifiers(b)
    BY <1>1 DEF translate_spec, known_pre
  <2>2. ASSUME NEW x \in Idents(c)
        PROVE  x # "result" /\ Unambiguous(b.args, x)
    <3>1. PICK l \in Params(b) : x = b.args[l] /\ x # ""
      BY <2>1, <2>2 DEF Identifiers
    <3>2. x \in ToSet(b.args)
      BY <3>1 DEF ToSet, Params
    <3> QED
      BY <3>1, <3>2, ParameterNames
  <2> QED
    BY <2>1, <2>2 DEF Meaningful
<1> QED
  BY <1>1 DEF Permitted, Meaningful

LEMMA EnsuresProblem ==
  ASSUME NEW b, IsBody(b), build_ensures_smt(b) = "discharged"
  PROVE  /\ \E e \in Entries(b) : Permitted(b, e)
         /\ \A e \in Entries(b) : Permitted(b, e) =>
              \E r \in capture_body_effect(b) :
                \A c \in ToSet(b.ensures) :
                  Holds(c, [x \in Idents(c) |-> IF x = "result" THEN r.value[e] ELSE e[IndexOf(b.args, x)]])
<1> DEFINE effect == capture_body_effect(b)
           result == (CHOOSE c \in effect : TRUE).value
           Val(e, x) == IF x = "result" THEN result[e] ELSE e[IndexOf(b.args, x)]
           assumed == {e \in Entries(b) :
                         \A c \in ToSet(b.requires) : Holds(c, [x \in Idents(c) |-> Val(e, x)])}
           good == {e \in Entries(b) :
                      \A c \in ToSet(b.ensures) : Holds(c, [x \in Idents(c) |-> Val(e, x)])}
<1>1. build_ensures_smt(b) =
        IF /\ effect # {}
           /\ "result" \notin ToSet(b.args)
           /\ \A c \in ToSet(b.requires) : translate_spec(c, known_pre(b), LocalTy(b, 0))
           /\ \A c \in ToSet(b.ensures) : translate_spec(c, known_post(b), LocalTy(b, 0))
        THEN Decide(assumed, good) ELSE "unproven"
  BY DEF build_ensures_smt, EnsuresOutcome
<1>2. /\ effect # {} /\ "result" \notin ToSet(b.args)
      /\ \A c \in ToSet(b.requires) : translate_spec(c, known_pre(b), LocalTy(b, 0))
      /\ assumed # {} /\ assumed \subseteq good
  BY <1>1, Outcomes
<1>3. ASSUME NEW e \in Entries(b) PROVE Permitted(b, e) <=> e \in assumed
  <2> DEFINE r == result[e]
  <2>1. e \in assumed <=>
          \A c \in ToSet(b.requires) :
             Holds(c, [x \in Idents(c) |-> IF x = "result" THEN r ELSE e[IndexOf(b.args, x)]])
    OBVIOUS
  <2> HIDE DEF r, assumed
  <2> QED
    BY <1>2, <2>1, EnsuresAssumes
<1>4. PICK r \in effect : result = r.value
  BY <1>2
<1>5. ASSUME NEW e \in Entries(b), Permitted(b, e)
      PROVE  \A c \in ToSet(b.ensures) :
               Holds(c, [x \in Idents(c) |-> IF x = "result" THEN r.value[e] ELSE e[IndexOf(b.args, x)]])
  <2> HIDE DEF assumed
  <2>1. e \in good
    BY <1>2, <1>3, <1>5
  <2> HIDE DEF result
  <2> QED
    BY <2>1, <1>4
<1>6. assumed \subseteq Entries(b)
  OBVIOUS
<1> HIDE DEF assumed, good, result
<1> QED
  BY <1>2, <1>3, <1>4, <1>5, <1>6

LEMMA ReturnSound ==
  ASSUME NEW b, NEW i, NEW e, NEW m, KnownAtReturn(b, i, e, m),
         build_ensures_smt(b) = "discharged",
         NEW c \in Meaningful(b.ensures, <<"result">> \o b.args)
  PROVE  Holds(c, [x \in Idents(c) |-> IF x = "result" THEN m[0][1] ELSE e[IndexOf(b.args, x)]])
<1>1. IsBody(b) /\ e \in Entries(b) /\ Permitted(b, e) /\ c \in ToSet(b.ensures)
  BY DEF KnownAtReturn, Meaningful
<1>2. PICK r \in capture_body_effect(b) :
         Holds(c, [x \in Idents(c) |-> IF x = "result" THEN r.value[e] ELSE e[IndexOf(b.args, x)]])
  BY <1>1, EnsuresProblem
<1>3. m[0][1] = r.value[e]
  BY CapturedResult
<1> QED
  BY <1>2, <1>3
-----------------------------------------------------------------------------
(***************************************************************************)
(* The memory is well typed.                                               *)
(***************************************************************************)
LEMMA TypeFacts ==
  /\ "bool" \notin IntTy /\ "pair" \notin IntTy /\ "ref" \notin IntTy
  /\ Scalars("bool") = {0, 1}
  /\ \A ty \in IntTy : Scalars(ty) = Values(ty)
BY IntTypesAssumption DEF Scalars

LEMMA CellShapes ==
  ASSUME NEW b, IsBody(b), NEW l \in Locals(b)
  PROVE  /\ LocalTy(b, l) = "pair" =>
              InnerTy(b, l) \in IntTy /\ Cells(b, l) = Values(InnerTy(b, l)) \X {0, 1}
         /\ LocalTy(b, l) = "ref" =>
              /\ InnerTy(b, l) \in IntTy
              /\ Cells(b, l) = {<<t>> : t \in {u \in Locals(b) : LocalTy(b, u) = InnerTy(b, l)}}
         /\ LocalTy(b, l) \in IntTy \cup {"bool"} =>
              Cells(b, l) = {<<v>> : v \in Scalars(LocalTy(b, l))} /\ InnerTy(b, l) = LocalTy(b, l)
BY ScalarLocals, TypeFacts DEF Cells

\* What Readable says, of any memory.
ReadableIn(m, a) ==
  a.kind = "place" => /\ m[a.local] # <<>>
                      /\ a.proj = "deref" => m[m[a.local][1]] # <<>>

LEMMA OperandTyped ==
  ASSUME NEW b, IsBody(b), NEW m, Typed(b, m), NEW a, IsOperand(b, a), ReadableIn(m, a),
         OperandTy(b, a) \in IntTy \cup {"bool"}
  PROVE  \E v \in Scalars(OperandTy(b, a)) : OperandValue(m, a) = <<v>>
<1>1. CASE a.kind = "const"
  BY <1>1 DEF IsOperand, OperandTy, OperandValue
<1>2. CASE a.kind = "place"
  <2> DEFINE l == a.local
             cell == m[l]
  <2>1. l \in Locals(b) /\ IsPlace(b, l, a.proj) /\ OperandTy(b, a) = PlaceTy(b, l, a.proj)
    BY <1>2 DEF IsOperand, IsPlace, OperandTy
  <2>2. cell \in Cells(b, l)
    BY <1>2, <2>1 DEF ReadableIn, Typed
  <2>3. OperandValue(m, a) = ReadPlace(m, l, a.proj)
    BY <1>2 DEF OperandValue
  <2>4. CASE a.proj = "none"
    <3>1. PlaceTy(b, l, a.proj) = LocalTy(b, l) /\ ReadPlace(m, l, a.proj) = cell
      BY <2>4 DEF PlaceTy, ReadPlace, Target
    <3> QED
      BY <3>1, <2>1, <2>2, <2>3, CellShapes
  <2>5. CASE a.proj \in {"field0", "field1"}
    <3>1. LocalTy(b, l) = "pair"
      BY <2>1, <2>5 DEF IsPlace
    <3>2. PICK v \in Values(InnerTy(b, l)), f \in {0, 1} : cell = <<v, f>>
      BY <3>1, <2>1, <2>2, CellShapes
    <3>3. CASE a.proj = "field0"
      <4>1. PlaceTy(b, l, a.proj) = InnerTy(b, l) /\ ReadPlace(m, l, a.proj) = <<cell[1]>>
        BY <3>3 DEF PlaceTy, ReadPlace, Target
      <4>2. cell[1] = v /\ v \in Scalars(InnerTy(b, l))
        BY <3>1, <3>2, <2>1, CellShapes, TypeFacts
      <4> QED
        BY <4>1, <4>2, <2>1, <2>3
    <3>4. CASE a.proj = "field1"
      <4>1. PlaceTy(b, l, a.proj) = "bool" /\ ReadPlace(m, l, a.proj) = <<cell[2]>>
        BY <3>4 DEF PlaceTy, ReadPlace, Target
      <4>2. cell[2] = f
        BY <3>2
      <4> QED
        BY <4>1, <4>2, <2>1, <2>3, TypeFacts
    <3> QED
      BY <2>5, <3>3, <3>4
  <2>6. CASE a.proj = "deref"
    <3>1. LocalTy(b, l) = "ref"
      BY <2>1, <2>6 DEF IsPlace
    <3>2. PICK t \in Locals(b) : LocalTy(b, t) = InnerTy(b, l) /\ cell = <<t>>
      BY <3>1, <2>1, <2>2, CellShapes
    <3>3. m[t] \in Cells(b, t)
      BY <1>2, <2>6, <3>2 DEF ReadableIn, Typed
    <3>4. PlaceTy(b, l, a.proj) = InnerTy(b, l) /\ ReadPlace(m, l, a.proj) = m[t]
      BY <2>6, <3>2 DEF PlaceTy, ReadPlace, Target
    <3> QED
      BY <3>1, <3>2, <3>3, <3>4, <2>1, <2>3, CellShapes
  <2> QED
    BY <2>1, <2>4, <2>5, <2>6 DEF IsPlace
<1> QED
  BY <1>1, <1>2 DEF IsOperand

(* The value an operator works on. *)
LEMMA IntegerOperand ==
  ASSUME NEW b, IsBody(b), NEW m, Typed(b, m), NEW a, IsInteger(b, a), ReadableIn(m, a)
  PROVE  OperandValue(m, a)[1] \in Values(OperandTy(b, a)) /\ OperandTy(b, a) \in IntTy
<1>1. IsOperand(b, a) /\ OperandTy(b, a) \in IntTy
  BY DEF IsInteger
<1>2. PICK v \in Scalars(OperandTy(b, a)) : OperandValue(m, a) = <<v>>
  BY <1>1, OperandTyped
<1> QED
  BY <1>1, <1>2, TypeFacts

\* What a value must be to be stored in a place.
Fits(b, l, proj, v) ==
  /\ proj = "none" => v \in Cells(b, l)
  /\ proj = "field0" => v[1] \in Values(InnerTy(b, l))
  /\ proj = "deref" => v \in {<<x>> : x \in Values(InnerTy(b, l))}

\* A value of a scalar type fits every place of the type.
LEMMA ScalarFits ==
  ASSUME NEW b, IsBody(b), NEW l, NEW proj, IsPlace(b, l, proj), proj # "field1",
         PlaceTy(b, l, proj) \in IntTy \cup {"bool"}, NEW x \in Scalars(PlaceTy(b, l, proj))
  PROVE  Fits(b, l, proj, <<x>>)
<1>1. l \in Locals(b)
  BY DEF IsPlace
<1>2. CASE proj = "none"
  BY <1>1, <1>2, CellShapes DEF Fits, PlaceTy
<1>3. CASE proj \in {"field0", "deref"}
  <2>1. PlaceTy(b, l, proj) = InnerTy(b, l) /\ InnerTy(b, l) \in IntTy
    BY <1>1, <1>3, CellShapes DEF IsPlace, PlaceTy
  <2>2. x \in Values(InnerTy(b, l))
    BY <2>1, TypeFacts
  <2> QED
    BY <1>3, <2>2 DEF Fits
<1> QED
  BY <1>2, <1>3 DEF IsPlace

LEMMA RvalueTyped ==
  ASSUME NEW b, IsBody(b), NEW m, Typed(b, m), NEW s, IsStatement(b, s),
         s.rvalue.kind # "ref" => ReadableIn(m, s.rvalue.a),
         s.rvalue.kind = "binary" => ReadableIn(m, s.rvalue.b)
  PROVE  Fits(b, s.local, s.proj, RvalueValue(b, m, s.local, s.rvalue))
<1> DEFINE r == s.rvalue
           v == RvalueValue(b, m, s.local, r)
           ty == PlaceTy(b, s.local, s.proj)
<1>0. IsPlace(b, s.local, s.proj) /\ s.local \in Locals(b) /\ s.proj # "field1"
  BY DEF IsStatement, IsPlace
<1>1. CASE IsUse(b, s)
  <2>1. v = OperandValue(m, r.a) /\ IsOperand(b, r.a) /\ ty = OperandTy(b, r.a) /\ ReadableIn(m, r.a)
    BY <1>1 DEF IsUse, RvalueValue
  <2>2. CASE ty \in IntTy \cup {"bool"}
    <3>1. PICK x \in Scalars(ty) : v = <<x>>
      BY <2>1, <2>2, OperandTyped
    <3> QED
      BY <3>1, <2>2, <1>0, ScalarFits
  <2>3. CASE ty \notin IntTy \cup {"bool"}
    <3>1. s.proj = "none" /\ ty = LocalTy(b, s.local)
      BY <1>0, <2>3, CellShapes DEF IsPlace, PlaceTy
    <3>2. r.a.kind = "place" /\ r.a.proj = "none" /\ r.a.local \in Locals(b)
      <4>1. r.a.kind = "place" /\ IsPlace(b, r.a.local, r.a.proj)
        BY <2>1, <2>3 DEF IsOperand, OperandTy
      <4>2. PlaceTy(b, r.a.local, r.a.proj) \notin IntTy \cup {"bool"} /\ r.a.local \in Locals(b)
        BY <4>1, <2>1, <2>3 DEF OperandTy, IsPlace
      <4> QED
        BY <4>1, <4>2, CellShapes DEF IsPlace, PlaceTy
    <3>3. v = m[r.a.local] /\ v \in Cells(b, r.a.local)
      BY <2>1, <3>2 DEF OperandValue, ReadPlace, Target, ReadableIn, Typed
    <3>4. /\ LocalTy(b, r.a.local) = LocalTy(b, s.local)
          /\ InnerTy(b, r.a.local) = InnerTy(b, s.local)
      BY <1>1, <2>1, <3>1, <3>2 DEF IsUse, OperandTy, PlaceTy
    <3>5. Cells(b, r.a.local) = Cells(b, s.local)
      BY <3>4 DEF Cells
    <3> QED
      BY <3>1, <3>3, <3>5 DEF Fits
  <2> QED
    BY <2>2, <2>3
<1>2. CASE IsBorrow(b, s)
  <2>1. v = <<r.a.local>> /\ r.a.local \in Locals(b) /\ LocalTy(b, r.a.local) = InnerTy(b, s.local)
    BY <1>2 DEF IsBorrow, RvalueValue, IsInteger, IsOperand, IsPlace, OperandTy, PlaceTy
  <2>2. s.proj = "none" /\ LocalTy(b, s.local) = "ref"
    BY <1>2 DEF IsBorrow
  <2>3. v \in Cells(b, s.local)
    BY <2>1, <2>2, <1>0, CellShapes
  <2> QED
    BY <2>2, <2>3 DEF Fits
<1>3. CASE IsBinary(b, s)
  <2> DEFINE x == OperandValue(m, r.a)[1]
             y == OperandValue(m, r.b)[1]
             lhs_ty == OperandTy(b, r.a)
             c == Computed(r.op, x, y, lhs_ty)
             flag == IF Panics(r.op, x, y, lhs_ty) THEN 1 ELSE 0
  <2>1. r.kind = "binary" /\ IsInteger(b, r.a) /\ IsInteger(b, r.b)
    BY <1>3 DEF IsBinary
  <2>2. x \in Values(lhs_ty) /\ y \in Values(OperandTy(b, r.b)) /\ lhs_ty \in IntTy
    BY <2>1, IntegerOperand
  <2>3. v = IF LocalTy(b, s.local) = "pair" THEN <<c, flag>> ELSE <<c>>
    BY <2>1 DEF RvalueValue
  <2>4. flag \in {0, 1}
    OBVIOUS
  <2>5. r.op \in ArithOp => c \in Values(lhs_ty)
    BY <2>1, <2>2, ComputedInRange, ValuesFacts DEF IsInteger
  <2>6. r.op = "Lt" => c \in {0, 1}
    BY DEF Computed, Shifts
  <2>7. v[1] = c
    BY <2>3
  <2>a. \/ r.op = "Lt" /\ ty = "bool"
        \/ r.op \in ArithOp /\ ty = lhs_ty
        \/ /\ r.op \in ArithOp /\ s.proj = "none"
           /\ LocalTy(b, s.local) = "pair" /\ InnerTy(b, s.local) = lhs_ty
    BY <1>3 DEF IsBinary, ArithOp
  <2>b. ty = IF s.proj = "none" THEN LocalTy(b, s.local) ELSE InnerTy(b, s.local)
    BY <1>0 DEF PlaceTy, IsPlace
  <2> HIDE DEF c, flag, x, y, v, lhs_ty
  <2>8. CASE LocalTy(b, s.local) = "pair"
    <3>1. InnerTy(b, s.local) = lhs_ty /\ r.op \in ArithOp
      <4>1. InnerTy(b, s.local) \in IntTy
        BY <1>0, <2>8, CellShapes
      <4> QED
        BY <4>1, <2>2, <2>8, <2>a, <2>b, TypeFacts
    <3>2. v = <<c, flag>> /\ c \in Values(InnerTy(b, s.local))
      BY <3>1, <2>3, <2>5, <2>8
    <3>3. v \in Cells(b, s.local)
      BY <3>2, <2>4, <2>8, <1>0, CellShapes
    <3>4. s.proj # "deref"
      BY <1>0, <2>8 DEF IsPlace
    <3> QED
      BY <3>2, <3>3, <3>4, <2>7 DEF Fits, v
  <2>9. CASE LocalTy(b, s.local) # "pair"
    <3>1. v = <<c>>
      BY <2>3, <2>9
    <3>2. /\ ty \in IntTy \cup {"bool"}
          /\ \/ r.op = "Lt" /\ ty = "bool"
             \/ r.op \in ArithOp /\ ty = lhs_ty
      BY <2>2, <2>9, <2>a
    <3>3. c \in Scalars(ty)
      BY <3>2, <2>2, <2>5, <2>6, TypeFacts
    <3> QED
      BY <3>1, <3>2, <3>3, <1>0, ScalarFits DEF v
  <2> QED
    BY <2>8, <2>9 DEF v
<1> QED
  BY <1>1, <1>2, <1>3 DEF IsStatement

\* A value that fits a place is stored in it.
Stores(b, m, l, proj, v, after) ==
  /\ IsBody(b) /\ Typed(b, m) /\ IsPlace(b, l, proj) /\ proj # "field1"
  /\ proj # "none" => m[l] # <<>>
  /\ Fits(b, l, proj, v)
  /\ after = [m EXCEPT ![Target(m, l, proj)] = IF proj = "field0" THEN <<v[1], @[2]>> ELSE v]

LEMMA StoreTyped ==
  ASSUME NEW b, NEW m, NEW l, NEW proj, NEW v, NEW after, Stores(b, m, l, proj, v, after)
  PROVE  /\ Typed(b, after) /\ Target(m, l, proj) \in Locals(b)
         /\ proj # "field0" => after[Target(m, l, proj)] = v
         /\ proj = "field0" => after[Target(m, l, proj)][2] = m[l][2]
         /\ \A k \in Locals(b) : k # Target(m, l, proj) => after[k] = m[k]
<1> DEFINE target == Target(m, l, proj)
           new == IF proj = "field0" THEN <<v[1], m[target][2]>> ELSE v
<1> USE DEF Stores
<1>0. l \in Locals(b) /\ (proj # "none" => m[l] \in Cells(b, l))
  BY DEF IsPlace, Typed
<1>1. target \in Locals(b) /\ new \in Cells(b, target) /\ (proj # "deref" => target = l)
  <2>1. CASE proj = "none"
    BY <1>0, <2>1 DEF Target, Fits
  <2>2. CASE proj = "field0"
    <3>1. LocalTy(b, l) = "pair"
      BY <2>2 DEF IsPlace
    <3>2. Cells(b, l) = Values(InnerTy(b, l)) \X {0, 1}
      BY <1>0, <3>1, CellShapes
    <3>3. m[l][2] \in {0, 1} /\ v[1] \in Values(InnerTy(b, l))
      BY <1>0, <2>2, <3>2 DEF Fits
    <3> QED
      BY <1>0, <2>2, <3>2, <3>3 DEF Target
  <2>3. CASE proj = "deref"
    <3>1. LocalTy(b, l) = "ref"
      BY <2>3 DEF IsPlace
    <3>2. PICK t \in Locals(b) : LocalTy(b, t) = InnerTy(b, l) /\ m[l] = <<t>> /\ InnerTy(b, l) \in IntTy
      BY <1>0, <2>3, <3>1, CellShapes
    <3>3. target = t /\ new = v
      BY <2>3, <3>2 DEF Target
    <3>4. Cells(b, t) = {<<x>> : x \in Values(InnerTy(b, l))}
      BY <3>2, CellShapes, TypeFacts
    <3> QED
      BY <2>3, <3>3, <3>4 DEF Fits
  <2> QED
    BY <2>1, <2>2, <2>3 DEF IsPlace
<1> HIDE DEF target
<1>2. after = [k \in Locals(b) |-> IF k = target THEN new ELSE m[k]]
  BY <1>1 DEF Typed, target
<1> HIDE DEF new
<1>3. /\ after = [k \in Locals(b) |-> after[k]]
      /\ after[target] = new /\ \A k \in Locals(b) : k # target => after[k] = m[k]
  BY <1>1, <1>2
<1>4. \A k \in Locals(b) : after[k] = <<>> \/ after[k] \in Cells(b, k)
  BY <1>1, <1>3 DEF Typed
<1>5. proj = "field0" => new = <<v[1], m[l][2]>>
  BY <1>1 DEF new
<1> QED
  BY <1>1, <1>3, <1>4, <1>5 DEF Typed, target, new
-----------------------------------------------------------------------------
(***************************************************************************)
(* What a step of the run reads, writes and leads to.                      *)
(***************************************************************************)
LEMMA Here ==
  ASSUME PlaceInv, phase = "running"
  PROVE  /\ IsBody(body) /\ at.block \in DOMAIN body.blocks /\ at.statement \in Nat
         /\ IsTuple(Block(at.block).statements) /\ Len(Block(at.block).statements) \in Nat
         /\ DOMAIN Block(at.block).statements = 1..Len(Block(at.block).statements)
         /\ AtTerminator => at.statement = Len(Block(at.block).statements) + 1
         /\ ~AtTerminator => /\ at.statement \in 1..Len(Block(at.block).statements)
                             /\ IsStatement(body, Statement)
         /\ IsTerminator(body, Terminator)
         /\ at = [block |-> at.block, statement |-> at.statement]
<1>1. /\ IsBody(body) /\ at.block \in DOMAIN body.blocks
      /\ at.statement \in 1..(Len(body.blocks[at.block].statements) + 1)
      /\ at = [block |-> at.block, statement |-> at.statement]
  BY BodiesTypeCheck DEF PlaceInv
<1>2. LET block == body.blocks[at.block]
      IN /\ IsTuple(block.statements)
         /\ Len(block.statements) \in Nat /\ DOMAIN block.statements = 1..Len(block.statements)
         /\ \A j \in 1..Len(block.statements) : IsStatement(body, block.statements[j])
         /\ IsTerminator(body, block.terminator)
  BY <1>1, BlockFacts
<1> DEFINE n == Len(body.blocks[at.block].statements)
<1>3. n \in Nat /\ at.statement \in 1..(n + 1)
  BY <1>1, <1>2
<1> HIDE DEF n
<1>4. /\ at.statement \in Nat
      /\ at.statement > n => at.statement = n + 1
      /\ ~(at.statement > n) => at.statement \in 1..n
  BY <1>3
<1> QED
  BY <1>1, <1>2, <1>4 DEF AtTerminator, Statement, Terminator, Block, n

LEMMA ExecuteStores ==
  ASSUME PlaceInv, MemoryInv, Execute, ~Stopped
  PROVE  LET s == Statement
             v == RvalueValue(body, memory, s.local, s.rvalue)
             target == Target(memory, s.local, s.proj)
         IN /\ Typed(body, memory') /\ target \in Locals(body)
            /\ s.proj # "field0" => memory'[target] = v
            /\ s.proj = "field0" => memory'[target][2] = memory[s.local][2]
            /\ \A k \in Locals(body) : k # target => memory'[k] = memory[k]
            /\ IsStatement(body, s)
            /\ at' = [block |-> at.block, statement |-> at.statement + 1]
            /\ phase = "running" /\ phase' = "running"
            /\ body' = body /\ report' = report /\ entry' = entry
<1> DEFINE s == Statement
           v == RvalueValue(body, memory, s.local, s.rvalue)
<1>1. phase = "running" /\ ~AtTerminator /\ Ready(s) /\ Store(s.local, s.proj, v)
  BY DEF Execute
<1>2. IsBody(body) /\ IsStatement(body, s) /\ Typed(body, memory)
  BY <1>1, Here DEF MemoryInv, Entered
<1>3. Fits(body, s.local, s.proj, v)
  <2>1. /\ s.rvalue.kind # "ref" => ReadableIn(memory, s.rvalue.a)
        /\ s.rvalue.kind = "binary" => ReadableIn(memory, s.rvalue.b)
    BY <1>1 DEF Ready, Readable, ReadableIn
  <2> HIDE DEF s
  <2> QED
    BY <1>2, <2>1, RvalueTyped
<1>4. IsPlace(body, s.local, s.proj) /\ s.proj # "field1" /\ (s.proj # "none" => memory[s.local] # <<>>)
  BY <1>1, <1>2 DEF IsStatement, Ready
<1>5. memory' = [memory EXCEPT ![Target(memory, s.local, s.proj)] =
                   IF s.proj = "field0" THEN <<v[1], @[2]>> ELSE v]
  BY <1>1 DEF Store
<1>6. /\ at' = [block |-> at.block, statement |-> at.statement + 1]
      /\ phase' = "running" /\ body' = body /\ report' = report /\ entry' = entry
  <2>1. at' = [at EXCEPT !.statement = @ + 1]
    BY DEF Execute
  <2>2. at = [block |-> at.block, statement |-> at.statement]
    BY <1>1, Here
  <2>3. at' = [block |-> at.block, statement |-> at.statement + 1]
    BY <2>1, <2>2
  <2> QED
    BY <1>1, <2>3 DEF Execute
<1> HIDE DEF s, v
<1>7. Stores(body, memory, s.local, s.proj, v, memory')
  BY <1>2, <1>3, <1>4, <1>5, Here, <1>1 DEF Stores
<1>8. /\ Typed(body, memory') /\ Target(memory, s.local, s.proj) \in Locals(body)
      /\ s.proj # "field0" => memory'[Target(memory, s.local, s.proj)] = v
      /\ s.proj = "field0" => memory'[Target(memory, s.local, s.proj)][2] = memory[s.local][2]
      /\ \A k \in Locals(body) : k # Target(memory, s.local, s.proj) => memory'[k] = memory[k]
  BY <1>7, StoreTyped
<1> QED
  BY <1>1, <1>2, <1>6, <1>8 DEF s, v

\* A step that goes on in another block.
Moves == Jump \/ (CheckFlag /\ phase' = "running") \/ CallReturns

LEMMA MovesLead ==
  ASSUME PlaceInv, Moves
  PROVE  /\ phase = "running" /\ phase' = "running" /\ AtTerminator
         /\ body' = body /\ report' = report /\ entry' = entry
         /\ \E i \in DOMAIN terminator_successors(Terminator) :
              /\ at' = StartOf(terminator_successors(Terminator)[i])
              /\ terminator_successors(Terminator)[i] \in DOMAIN body.blocks
         /\ Terminator.kind \in {"goto", "assert", "call"} => at' = StartOf(Terminator.target)
         /\ Terminator.kind \in {"goto", "assert"} => memory' = memory
         /\ Terminator.kind # "call" => memory' = memory
         /\ Terminator.kind \in {"goto", "switch", "assert", "call"}
<1>1. /\ phase = "running" /\ phase' = "running" /\ AtTerminator
      /\ body' = body /\ report' = report /\ entry' = entry
      /\ Terminator.kind # "call" => memory' = memory
      /\ Terminator.kind \in {"goto", "switch", "assert", "call"}
  BY DEF Moves, Jump, CheckFlag, CallReturns, Calling
<1>2. IsBody(body) /\ at.block \in DOMAIN body.blocks /\ IsTerminator(body, Terminator)
  BY <1>1, Here
<1>3. Terminator.kind \in {"goto", "assert", "call"} => at' = StartOf(Terminator.target)
  <2>1. Jump /\ Terminator.kind # "switch" => at' = StartOf(Terminator.target)
    BY DEF Jump
  <2>2. CheckFlag /\ phase' = "running" => at' = StartOf(Terminator.target)
    BY DEF CheckFlag
  <2>3. CallReturns => at' = StartOf(Terminator.target)
    BY DEF CallReturns
  <2> QED
    BY <2>1, <2>2, <2>3 DEF Moves
<1>4. ASSUME Terminator.kind = "switch"
      PROVE  \E i \in {1, 2} : at' = StartOf(Terminator.targets[i])
  <2>1. Jump
    BY <1>4 DEF Moves, CheckFlag, CallReturns, Calling
  <2>2. at' = StartOf(Terminator.targets[IF Operand(Terminator.a) = 0 THEN 1 ELSE 2])
    BY <2>1, <1>4 DEF Jump
  <2> QED
    BY <2>2
<1>5. \E i \in DOMAIN terminator_successors(Terminator) :
         at' = StartOf(terminator_successors(Terminator)[i])
  <2>1. CASE Terminator.kind = "switch"
    <3>1. /\ DOMAIN terminator_successors(Terminator) = {1, 2}
          /\ terminator_successors(Terminator) = Terminator.targets
      BY <1>2, <2>1, Successors
    <3> QED
      BY <3>1, <2>1, <1>4
  <2>2. CASE Terminator.kind \in {"goto", "assert", "call"}
    <3>1. /\ DOMAIN terminator_successors(Terminator) = {1}
          /\ terminator_successors(Terminator)[1] = Terminator.target
      BY <1>2, <2>2, Successors
    <3> QED
      BY <3>1, <2>2, <1>3
  <2> QED
    BY <1>1, <2>1, <2>2
<1>6. \A i \in DOMAIN terminator_successors(Terminator) :
         terminator_successors(Terminator)[i] \in DOMAIN body.blocks
  BY <1>2, SuccessorsAreBlocks DEF Terminator, Block
<1> QED
  BY <1>1, <1>3, <1>5, <1>6

LEMMA CallStores ==
  ASSUME PlaceInv, MemoryInv, CallReturns
  PROVE  /\ Typed(body, memory') /\ Terminator.local \in Locals(body)
         /\ LocalTy(body, Terminator.local) \in IntTy \cup {"bool"}
         /\ \A k \in Locals(body) : k # Terminator.local => memory'[k] = memory[k]
<1> DEFINE l == Terminator.local
<1>1. phase = "running" /\ Terminator.kind = "call"
  BY DEF CallReturns, Calling
<1>2. PICK v \in Scalars(LocalTy(body, l)) : Store(l, "none", <<v>>)
  BY DEF CallReturns
<1>3. IsBody(body) /\ IsTerminator(body, Terminator) /\ Typed(body, memory)
  BY <1>1, Here DEF MemoryInv, Entered
<1>4. l \in Locals(body) /\ LocalTy(body, l) \in IntTy \cup {"bool"}
  BY <1>1, <1>3 DEF IsTerminator
<1>5. IsPlace(body, l, "none") /\ PlaceTy(body, l, "none") = LocalTy(body, l)
  BY <1>4 DEF IsPlace, PlaceTy
<1>6. Fits(body, l, "none", <<v>>)
  BY <1>3, <1>4, <1>5, ScalarFits
<1>7. memory' = [memory EXCEPT ![Target(memory, l, "none")] =
                   IF "none" = "field0" THEN <<<<v>>[1], @[2]>> ELSE <<v>>]
  BY <1>2 DEF Store
<1> DEFINE proj == "none"
           cell == <<v>>
<1>8. /\ IsPlace(body, l, proj) /\ proj # "field1" /\ proj = "none" /\ Fits(body, l, proj, cell)
      /\ memory' = [memory EXCEPT ![Target(memory, l, proj)] =
                      IF proj = "field0" THEN <<cell[1], @[2]>> ELSE cell]
      /\ Target(memory, l, proj) = l
  BY <1>5, <1>6, <1>7 DEF Target
<1> HIDE DEF l, proj, cell
<1>9. Typed(body, memory') /\ \A k \in Locals(body) : k # l => memory'[k] = memory[k]
  <2>1. Stores(body, memory, l, proj, cell, memory')
    BY <1>3, <1>8 DEF Stores
  <2>2. /\ Typed(body, memory')
        /\ \A k \in Locals(body) : k # Target(memory, l, proj) => memory'[k] = memory[k]
    BY <2>1, StoreTyped
  <2> QED
    BY <1>8, <2>2
<1> QED
  BY <1>4, <1>9 DEF l
-----------------------------------------------------------------------------
(***************************************************************************)
(* The body is where the run is, the report comes from the body, and the   *)
(* memory is well typed: an inductive invariant.                           *)
(***************************************************************************)
\* The steps after which the body has stopped where it is.
Halts == (Execute /\ Stopped) \/ (CheckFlag /\ phase' # "running") \/ Return

LEMMA HaltsWhereItIs ==
  ASSUME Halts
  PROVE  /\ phase = "running" /\ phase' \in {"returned", "panicked"}
         /\ at' = at /\ memory' = memory /\ body' = body /\ report' = report /\ entry' = entry
<1>1. CASE Execute /\ Stopped
  BY <1>1 DEF Execute
<1>2. CASE CheckFlag /\ phase' # "running"
  BY <1>2 DEF CheckFlag
<1>3. CASE Return
  BY <1>3 DEF Return, Returning
<1> QED
  BY <1>1, <1>2, <1>3 DEF Halts

LEMMA NextCases ==
  ASSUME Next
  PROVE  \/ Visitor \/ Enter \/ (Execute /\ ~Stopped) \/ Moves \/ Halts \/ UNCHANGED vars
BY DEF Next, Machine, Moves, Halts, Over

\* The steps of the run change neither the report nor the body.
LEMMA VisitSteps ==
  ASSUME BodyInv, Visitor
  PROVE  BodyInv' /\ phase = "visit" /\ phase' \in {"visit", "callable"}
<1>1. /\ phase = "visit" /\ body \in Bodies /\ at.block \in 1..(Len(body.blocks) + 1)
      /\ at = [block |-> at.block, statement |-> at.statement]
      /\ at.statement = 1 /\ entry = <<>> /\ memory = <<>>
  BY DEF BodyInv, PlaceInv, Visitor, VisitBlock, FinishVisit, SkipTrusted
<1>2. /\ Len(body.blocks) \in Nat /\ Len(body.blocks) > 0
      /\ DOMAIN body.blocks = 1..Len(body.blocks) /\ body.trusted \in BOOLEAN
  BY <1>1, BodiesTypeCheck, BodyFacts
<1>3. \A i : StartOf(i).block = i /\ StartOf(i).statement = 1
             /\ StartOf(i) = [block |-> StartOf(i).block, statement |-> StartOf(i).statement]
  BY DEF StartOf
<1>4. CASE VisitBlock
  <2>1. /\ phase' = "visit" /\ ~body.trusted /\ at.block \in DOMAIN body.blocks
        /\ report' = report \cup BlockFindings(body, at.block)
        /\ at' = StartOf(at.block + 1) /\ body' = body /\ entry' = entry /\ memory' = memory
    BY <1>1, <1>4 DEF VisitBlock, BlockFindings, Block
  <2>2. PlaceInv'
    BY <1>1, <1>2, <1>3, <2>1 DEF PlaceInv, Phase
  <2>3. ReportInv'
    <3>1. BlockFindings(body, at.block) \subseteq AllFindings(body)
      BY <2>1 DEF AllFindings
    <3>2. ASSUME NEW i \in DOMAIN body.blocks, i < at.block + 1
          PROVE  BlockFindings(body, i) \subseteq report'
      <4>1. i < at.block \/ i = at.block
        BY <1>1, <1>2, <3>2
      <4> QED
        BY <4>1, <1>1, <2>1 DEF BodyInv, ReportInv
    <3>3. at'.block = at.block + 1
      BY <1>3, <2>1
    <3> QED
      BY <2>1, <3>1, <3>2, <3>3 DEF BodyInv, ReportInv
  <2> QED
    BY <1>1, <2>1, <2>2, <2>3 DEF BodyInv, MemoryInv, Entered
<1>5. CASE FinishVisit
  <2> DEFINE more == IF Diverging THEN emit_ensures_obligation(body, at.block) ELSE {}
  <2>1. /\ phase' = "callable" /\ ~body.trusted /\ at.block = Len(body.blocks) + 1
        /\ report' = report \cup more
        /\ at' = StartOf(1) /\ body' = body /\ entry' = entry /\ memory' = memory
    BY <1>5 DEF FinishVisit
  <2>2. PlaceInv'
    BY <1>1, <1>2, <1>3, <2>1 DEF PlaceInv, Phase
  <2>3. ReportInv'
    <3>1. more \subseteq AllFindings(body)
      BY <2>1 DEF AllFindings
    <3> HIDE DEF more
    <3>2. \A i \in DOMAIN body.blocks : i < at.block
      BY <1>2, <2>1
    <3> QED
      BY <1>1, <2>1, <3>1, <3>2 DEF BodyInv, ReportInv
  <2> QED
    BY <1>1, <2>1, <2>2, <2>3 DEF BodyInv, MemoryInv, Entered
<1>6. CASE SkipTrusted
  <2>1. /\ phase' = "callable" /\ body.trusted
        /\ report' = report /\ at' = at /\ body' = body /\ entry' = entry /\ memory' = memory
    BY <1>6 DEF SkipTrusted
  <2>2. PlaceInv'
    BY <1>1, <2>1 DEF BodyInv, PlaceInv, Phase
  <2> QED
    BY <1>1, <2>1, <2>2 DEF BodyInv, ReportInv, MemoryInv, Entered
<1> QED
  BY <1>1, <1>4, <1>5, <1>6 DEF Visitor, VisitBlock, FinishVisit, SkipTrusted

LEMMA EnterStep ==
  ASSUME BodyInv, Enter
  PROVE  BodyInv' /\ phase = "callable" /\ phase' = "running" /\ body' = body /\ report' = report
         /\ at' = StartOf(1) /\ entry' \in Entries(body) /\ memory' = OnEntry(body, entry')
<1>1. /\ phase = "callable" /\ phase' = "running" /\ body' = body /\ report' = report /\ at' = at
      /\ entry' \in Entries(body) /\ Permitted(body, entry') /\ memory' = OnEntry(body, entry')
  BY DEF Enter
<1>2. /\ body \in Bodies /\ at = [block |-> at.block, statement |-> at.statement]
      /\ at.block = 1 /\ at.statement = 1
  BY <1>1 DEF BodyInv, PlaceInv
<1>3. at' = StartOf(1)
  BY <1>1, <1>2 DEF StartOf
<1>4. IsBody(body) /\ 1 \in DOMAIN body.blocks /\ Len(body.blocks[1].statements) \in Nat
  <2>1. IsBody(body) /\ 1 \in DOMAIN body.blocks
    BY <1>2, BodiesTypeCheck, BodyFacts
  <2> QED
    BY <2>1, BlockFacts
<1>5. PlaceInv'
  BY <1>1, <1>2, <1>4 DEF BodyInv, PlaceInv, Phase
<1>6. Typed(body, memory')
  <2>1. memory' = [l \in Locals(body) |-> IF l \in Params(body) THEN <<entry'[l]>> ELSE <<>>]
    BY <1>1 DEF OnEntry
  <2>2. ASSUME NEW l \in Params(body) PROVE <<entry'[l]>> \in Cells(body, l)
    <3>1. entry'[l] \in Values(LocalTy(body, l))
      BY <1>1 DEF Entries
    <3>2. LocalTy(body, l) \in IntTy /\ l \in Locals(body)
      BY <1>4, BodyFacts DEF IsBody
    <3>3. Cells(body, l) = {<<v>> : v \in Scalars(LocalTy(body, l))}
      BY <1>4, <3>2, CellShapes
    <3> QED
      BY <3>1, <3>2, <3>3, TypeFacts
  <2> QED
    BY <2>1, <2>2 DEF Typed
<1>7. MemoryInv'
  BY <1>1, <1>6 DEF MemoryInv, Entered
<1>8. ReportInv'
  BY <1>1 DEF BodyInv, ReportInv
<1> QED
  BY <1>1, <1>3, <1>5, <1>7, <1>8 DEF BodyInv

LEMMA RunSteps ==
  ASSUME BodyInv, (Execute /\ ~Stopped) \/ Moves \/ Halts
  PROVE  BodyInv' /\ body' = body /\ report' = report /\ entry' = entry /\ phase = "running"
         /\ phase' \in {"running", "returned", "panicked"}
<1>0. PlaceInv /\ MemoryInv /\ ReportInv
  BY DEF BodyInv
<1>1. /\ body' = body /\ report' = report /\ entry' = entry /\ phase = "running"
      /\ phase' \in {"running", "returned", "panicked"}
  <2>1. Execute /\ ~Stopped => /\ body' = body /\ report' = report /\ entry' = entry
                               /\ phase = "running" /\ phase' = "running"
    BY DEF Execute
  <2>2. Moves => /\ body' = body /\ report' = report /\ entry' = entry
                 /\ phase = "running" /\ phase' = "running"
    BY <1>0, MovesLead
  <2>3. Halts => /\ body' = body /\ report' = report /\ entry' = entry
                 /\ phase = "running" /\ phase' \in {"returned", "panicked"}
    BY HaltsWhereItIs
  <2> QED
    BY <2>1, <2>2, <2>3
<1>2. ReportInv'
  BY <1>0, <1>1 DEF ReportInv
<1>3. IsBody(body) /\ body \in Bodies /\ at.block \in DOMAIN body.blocks
  BY <1>0, <1>1, Here DEF PlaceInv
<1>4. DOMAIN body.blocks \subseteq 1..(Len(body.blocks) + 1)
  BY <1>3, BodyFacts
<1>5. \A i \in DOMAIN body.blocks : 1 \in 1..(Len(body.blocks[i].statements) + 1)
  <2>1. \A i \in DOMAIN body.blocks : Len(body.blocks[i].statements) \in Nat
    BY <1>3, BlockFacts
  <2> QED
    BY <2>1
<1>6. CASE Execute /\ ~Stopped
  <2>1. Typed(body, memory') /\ at' = [block |-> at.block, statement |-> at.statement + 1]
    BY <1>0, <1>6, ExecuteStores
  <2>2. ~AtTerminator
    BY <1>6 DEF Execute
  <2>3. at.statement + 1 \in 1..(Len(body.blocks[at.block].statements) + 1)
    BY <1>0, <1>1, <2>2, Here DEF Block
  <2>4. PlaceInv'
    BY <1>1, <1>3, <1>4, <2>1, <2>3 DEF PlaceInv, Phase
  <2> QED
    BY <1>0, <1>1, <1>2, <2>1, <2>4 DEF BodyInv, MemoryInv, Entered
<1>7. CASE Moves
  <2>1. PICK i \in DOMAIN body.blocks : at' = StartOf(i)
    BY <1>0, <1>7, MovesLead
  <2>2. at'.block = i /\ at'.statement = 1 /\ at' = [block |-> i, statement |-> 1]
    BY <2>1 DEF StartOf
  <2>3. PlaceInv'
    BY <1>1, <1>3, <1>4, <1>5, <2>2 DEF PlaceInv, Phase
  <2>4. Typed(body, memory')
    <3>1. CASE CallReturns
      BY <1>0, <3>1, CallStores
    <3>2. CASE ~CallReturns
      BY <1>0, <1>1, <1>7, <3>2 DEF Moves, Jump, CheckFlag, MemoryInv, Entered
    <3> QED
      BY <3>1, <3>2
  <2> QED
    BY <1>0, <1>1, <1>2, <2>3, <2>4 DEF BodyInv, MemoryInv, Entered
<1>8. CASE Halts
  <2>1. at' = at /\ memory' = memory /\ phase' \in {"returned", "panicked"}
    BY <1>8, HaltsWhereItIs
  <2>2. PlaceInv'
    BY <1>0, <1>1, <2>1 DEF PlaceInv, Phase
  <2> QED
    BY <1>0, <1>1, <1>2, <2>1, <2>2 DEF BodyInv, MemoryInv, Entered
<1> QED
  BY <1>1, <1>6, <1>7, <1>8

LEMMA BodyInvInit == Init => BodyInv
<1> SUFFICES ASSUME Init PROVE BodyInv
  OBVIOUS
<1>1. /\ body \in Bodies /\ phase = "visit" /\ report = {} /\ entry = <<>> /\ memory = <<>>
      /\ at = StartOf(1)
  BY DEF Init
<1>2. at = [block |-> 1, statement |-> 1] /\ at.block = 1 /\ at.statement = 1
  BY <1>1 DEF StartOf
<1>3. Len(body.blocks) \in Nat /\ DOMAIN body.blocks = 1..Len(body.blocks)
  BY <1>1, BodiesTypeCheck, BodyFacts
<1>4. PlaceInv
  BY <1>1, <1>2, <1>3 DEF PlaceInv, Phase
<1>5. ReportInv
  BY <1>1, <1>2, <1>3 DEF ReportInv
<1> QED
  BY <1>1, <1>4, <1>5 DEF BodyInv, MemoryInv, Entered

LEMMA BodyInvNext == BodyInv /\ [Next]_vars => BodyInv'
<1> SUFFICES ASSUME BodyInv, [Next]_vars PROVE BodyInv'
  OBVIOUS
<1>1. CASE Visitor
  BY <1>1, VisitSteps
<1>2. CASE Enter
  BY <1>2, EnterStep
<1>3. CASE (Execute /\ ~Stopped) \/ Moves \/ Halts
  BY <1>3, RunSteps
<1>4. CASE UNCHANGED vars
  BY <1>4 DEF vars, BodyInv, PlaceInv, ReportInv, MemoryInv, Entered
<1> QED
  BY <1>1, <1>2, <1>3, <1>4, NextCases

(* TypeOK follows from the inductive invariant. *)
LEMMA BodyInvTypes == BodyInv => TypeOK
<1> SUFFICES ASSUME BodyInv PROVE TypeOK
  OBVIOUS
<1>1. /\ IsBody(body) /\ Len(body.blocks) \in Nat /\ DOMAIN body.blocks = 1..Len(body.blocks)
      /\ body \in Bodies
  BY BodiesTypeCheck, BodyFacts DEF BodyInv, PlaceInv
<1>2. \A i \in DOMAIN body.blocks :
        /\ Len(body.blocks[i].statements) \in Nat
        /\ DOMAIN body.blocks[i].statements = 1..Len(body.blocks[i].statements)
  BY <1>1, BlockFacts
<1>3. phase \in Phase
  BY DEF BodyInv, PlaceInv
<1>4. at \in [block : 1..(Len(body.blocks) + 1), statement : Nat \ {0}]
  <2>1. at.block \in 1..(Len(body.blocks) + 1) /\ at = [block |-> at.block, statement |-> at.statement]
    BY DEF BodyInv, PlaceInv
  <2>2. CASE Entered
    <3>1. /\ at.block \in DOMAIN body.blocks
          /\ at.statement \in 1..(Len(body.blocks[at.block].statements) + 1)
      BY <2>2 DEF BodyInv, PlaceInv, Entered
    <3>2. at.statement \in Nat \ {0}
      BY <3>1, <1>2
    <3> QED
      BY <2>1, <3>2
  <2>3. CASE ~Entered
    <3>1. at.statement = 1
      BY <2>3, <1>3 DEF BodyInv, PlaceInv, Entered, Phase
    <3> QED
      BY <2>1, <3>1
  <2> QED
    BY <2>2, <2>3
<1>5. report \subseteq [rule : {"PB049", "PB076", "PB077"}, block : 1..(Len(body.blocks) + 1),
                        statement : Nat, outcome : Outcome]
  <2> SUFFICES ASSUME NEW f \in report
               PROVE  f \in [rule : {"PB049", "PB076", "PB077"}, block : 1..(Len(body.blocks) + 1),
                             statement : Nat, outcome : Outcome]
    OBVIOUS
  <2>1. f \in [rule : {"PB049", "PB076", "PB077"},
               block : DOMAIN body.blocks \cup {Len(body.blocks) + 1},
               statement : {0} \cup UNION {DOMAIN body.blocks[i].statements : i \in DOMAIN body.blocks},
               outcome : Outcome]
    BY Origins DEF BodyInv, ReportInv
  <2>2. DOMAIN body.blocks \cup {Len(body.blocks) + 1} \subseteq 1..(Len(body.blocks) + 1)
    BY <1>1
  <2>3. UNION {DOMAIN body.blocks[i].statements : i \in DOMAIN body.blocks} \subseteq Nat
    BY <1>2
  <2> QED
    BY <2>1, <2>2, <2>3
<1>6. phase \in {"visit", "callable"} => entry = <<>> /\ memory = <<>>
  BY DEF BodyInv, PlaceInv
<1>7. ASSUME phase \notin {"visit", "callable"}
      PROVE  /\ entry \in Entries(body)
             /\ \A l \in Locals(body) :
                  LocalTy(body, l) \in IntTy /\ memory[l] # <<>> =>
                    memory[l][1] \in Values(LocalTy(body, l))
  <2>1. Entered
    BY <1>3, <1>7 DEF Entered, Phase
  <2>2. entry \in Entries(body) /\ Typed(body, memory)
    BY <2>1 DEF BodyInv, MemoryInv
  <2>3. ASSUME NEW l \in Locals(body), LocalTy(body, l) \in IntTy, memory[l] # <<>>
        PROVE  memory[l][1] \in Values(LocalTy(body, l))
    <3>1. memory[l] \in Cells(body, l)
      BY <2>2, <2>3 DEF Typed
    <3>2. Cells(body, l) = {<<v>> : v \in Scalars(LocalTy(body, l))}
      BY <1>1, <2>3, CellShapes
    <3>3. PICK v \in Values(LocalTy(body, l)) : memory[l] = <<v>>
      BY <3>1, <3>2, <2>3, TypeFacts
    <3> QED
      BY <3>3
  <2> QED
    BY <2>2, <2>3
<1> QED
  BY <1>3, <1>4, <1>5, <1>6, <1>7 DEF TypeOK

(* BodyInv holds in every state a body and its visit can reach. *)
THEOREM BodyIsFollowed == Spec => []BodyInv
<1>1. Init => BodyInv
  BY BodyInvInit
<1>2. BodyInv /\ [Next]_vars => BodyInv'
  BY BodyInvNext
<1> QED
  BY <1>1, <1>2, PTL DEF Spec

(* TypeOK: whatever the bodies, their types and their contracts, the run stays
   inside the body, every local keeps to its type (references and checked
   results included), and every finding names a construct of the body. *)
THEOREM BodyTypes == Spec => []TypeOK
<1>1. BodyInv => TypeOK
  BY BodyInvTypes
<1> QED
  BY <1>1, BodyIsFollowed, PTL
-----------------------------------------------------------------------------
(***************************************************************************)
(* Calls with constant arguments.                                          *)
(***************************************************************************)
LEMMA EntriesExist ==
  ASSUME NEW b, IsBody(b)
  PROVE  Entries(b) # {}
<1> DEFINE e == [i \in Params(b) |-> 0]
           V(i) == Values(LocalTy(b, i))
<1>1. \A i \in Params(b) : 0 \in V(i)
  BY ValuesFacts DEF IsBody
<1> HIDE DEF V
<1>2. e \in [Params(b) -> UNION {V(i) : i \in Params(b)}] /\ \A i \in Params(b) : e[i] \in V(i)
  BY <1>1
<1>3. e \in Entries(b)
  BY <1>2 DEF Entries, V
<1> QED
  BY <1>3

LEMMA ConstantProblem ==
  ASSUME NEW b, IsBody(b), NEW i, NEW call, NEW spec, spec = Callees[call.callee], spec.walked,
         \A c \in ToSet(spec.requires) :
           /\ WellSorted(spec.args, spec.tys, c)
           /\ \A x \in Idents(c) :
                LET a == call.args[IndexOf(spec.args, x)]
                IN a.kind = "const" /\ a.known /\ a.ty = spec.tys[IndexOf(spec.args, x)]
  PROVE  LET met == \A c \in ToSet(spec.requires) :
                      Holds(c, [x \in Idents(c) |-> call.args[IndexOf(spec.args, x)].value])
         IN build_callsite_precondition_smt(b, call, i) = IF met THEN "discharged" ELSE "unproven"
<1> DEFINE sp == Callees[call.callee]
           clauses == ToSet(sp.requires)
           names == UNION {Idents(d) : d \in clauses}
           Bound(x) == bind_callsite_param(b, sp, call, i, x)
           linked == UNION {d.callers : d \in UNION {Bound(x) : x \in names}}
           Actual(x) == (CHOOSE d \in Bound(x) : TRUE).value
           assumed == {f \in Entries(b) : \A d \in Hypotheses(b, linked) :
                                       Holds(d, [x \in Idents(d) |-> f[IndexOf(b.args, x)]])}
           good == {f \in Entries(b) : \A d \in clauses : Holds(d, [x \in Idents(d) |-> Actual(x)[f]])}
           value(x) == call.args[IndexOf(sp.args, x)].value
           met == \A c \in clauses : Holds(c, [x \in Idents(c) |-> value(x)])
<1>1. build_callsite_precondition_smt(b, call, i) =
        IF /\ sp.walked
           /\ \A d \in clauses : WellSorted(sp.args, sp.tys, d)
           /\ \A x \in names : Bound(x) # {}
        THEN Decide(assumed, good) ELSE "gap"
  BY DEF build_callsite_precondition_smt
<1>2. ASSUME NEW x \in names PROVE Bound(x) = {Literal(b, value(x))}
  <2>1. PICK c \in clauses : x \in Idents(c)
    BY <1>2
  <2> DEFINE ty == sp.tys[IndexOf(sp.args, x)]
             a == call.args[IndexOf(sp.args, x)]
  <2>2. Unambiguous(sp.args, x) /\ ty \in IntTy
    BY <2>1 DEF WellSorted
  <2>3. a.kind = "const" /\ a.known /\ a.ty = ty
    BY <2>1
  <2> HIDE DEF ty, a
  <2>4. Bound(x) = {Literal(b, a.value)}
    BY <2>2, <2>3 DEF bind_callsite_param, ty, a
  <2> QED
    BY <2>4 DEF a
<1>3. \A x \in names : Bound(x) # {} /\ Actual(x) = [e \in Entries(b) |-> value(x)]
  <2> SUFFICES ASSUME NEW x \in names
               PROVE  Bound(x) # {} /\ Actual(x) = [e \in Entries(b) |-> value(x)]
    OBVIOUS
  <2> DEFINE lit == Literal(b, value(x))
  <2>1. lit.value = [e \in Entries(b) |-> value(x)]
    BY DEF Literal
  <2> HIDE DEF lit
  <2>2. Bound(x) = {lit}
    BY <1>2 DEF lit
  <2> HIDE DEF Bound
  <2>3. (CHOOSE d \in Bound(x) : TRUE) = lit
    BY <2>2
  <2> HIDE DEF value
  <2> QED
    BY <2>1, <2>2, <2>3
<1>4. linked = {}
  <2> SUFFICES ASSUME NEW x \in names, NEW d \in Bound(x) PROVE d.callers = {}
    OBVIOUS
  <2> QED
    BY <1>2 DEF Literal
<1>5. assumed = Entries(b)
  <2> HIDE DEF linked
  <2>1. Hypotheses(b, linked) = {}
    BY <1>4 DEF Hypotheses
  <2> QED
    BY <2>1
<1>6. ASSUME NEW d \in clauses, NEW f \in Entries(b)
      PROVE  [x \in Idents(d) |-> Actual(x)[f]] = [x \in Idents(d) |-> value(x)]
  <2>1. Idents(d) \subseteq names
    OBVIOUS
  <2> HIDE DEF names, Actual, value, Bound
  <2> QED
    BY <2>1, <1>3
<1>7. good = IF met THEN Entries(b) ELSE {}
  <2> HIDE DEF Actual, value
  <2>1. \A f \in Entries(b) : (\A d \in clauses : Holds(d, [x \in Idents(d) |-> Actual(x)[f]])) <=> met
    BY <1>6
  <2> HIDE DEF met
  <2> QED
    BY <2>1
<1>8. Entries(b) # {}
  BY EntriesExist
<1>9. Decide(assumed, good) = IF met THEN "discharged" ELSE "unproven"
  <2> HIDE DEF assumed, good, met
  <2> QED
    BY <1>5, <1>7, <1>8 DEF Decide
<1>10. build_callsite_precondition_smt(b, call, i) = Decide(assumed, good)
  <2> HIDE DEF assumed, good, Bound
  <2> QED
    BY <1>1, <1>3
<1> QED
  BY <1>9, <1>10

LEMMA BodyInvDecides == BodyInv => ConstantCallsDecided
<1> SUFFICES ASSUME BodyInv, phase = "callable", ~body.trusted, NEW i \in ConstantCalls
             PROVE  LET t == Block(i).terminator
                        spec == Callees[t.callee]
                        met == \A c \in ToSet(spec.requires) :
                          Holds(c, [x \in Idents(c) |-> t.args[IndexOf(spec.args, x)].value])
                    IN Finding("PB077", i, 0, IF met THEN "discharged" ELSE "unproven") \in report
  BY DEF ConstantCallsDecided
<1> DEFINE t == Block(i).terminator
           spec == Callees[t.callee]
           met == \A c \in ToSet(spec.requires) :
                    Holds(c, [x \in Idents(c) |-> t.args[IndexOf(spec.args, x)].value])
<1>1. /\ i \in DOMAIN body.blocks /\ t.kind = "call" /\ spec.walked /\ spec.requires # <<>>
      /\ \A c \in ToSet(spec.requires) :
           /\ WellSorted(spec.args, spec.tys, c)
           /\ \A x \in Idents(c) :
                LET a == t.args[IndexOf(spec.args, x)]
                IN a.kind = "const" /\ a.known /\ a.ty = spec.tys[IndexOf(spec.args, x)]
  BY DEF ConstantCalls
<1>2. IsBody(body) /\ BlockFindings(body, i) \subseteq report
  BY <1>1, BodiesTypeCheck DEF BodyInv, PlaceInv, ReportInv
<1>3. visit_terminator(body, i) = {Finding("PB077", i, 0, build_callsite_precondition_smt(body, t, i))}
  BY <1>1 DEF visit_terminator, maybe_gap_callsite_preconditions, Block
<1> DEFINE sp == spec
<1>4. build_callsite_precondition_smt(body, t, i) = IF met THEN "discharged" ELSE "unproven"
  <2> DEFINE call == t
  <2>1. sp = Callees[call.callee]
    OBVIOUS
  <2> HIDE DEF call
  <2> QED
    BY <1>1, <1>2, <2>1, ConstantProblem DEF call
<1> QED
  BY <1>2, <1>3, <1>4 DEF BlockFindings

(* ConstantCallsDecided: whatever the caller's own clauses say, a call of
   constants is discharged if they meet the callee's contract, unproven if they
   do not, and never left as a gap. *)
THEOREM ConstantsAreDecided == Spec => []ConstantCallsDecided
<1>1. BodyInv => ConstantCallsDecided
  BY BodyInvDecides
<1> QED
  BY <1>1, BodyIsFollowed, PTL
-----------------------------------------------------------------------------
(***************************************************************************)
(* Along a chain, what is captured stays true.                             *)
(***************************************************************************)
LEMMA Assigned ==
  ASSUME NEW b, NEW i \in DOMAIN b.blocks
  PROVE  /\ \A j \in DOMAIN b.blocks[i].statements :
              b.blocks[i].statements[j].local \in assigned_locals(b)
         /\ b.blocks[i].terminator.kind = "call" =>
              b.blocks[i].terminator.local \in assigned_locals(b)
<1> DEFINE block == b.blocks[i]
           W(k) == {s.local : s \in ToSet(k.statements)}
                     \cup (IF k.terminator.kind = "call" THEN {k.terminator.local} ELSE {})
<1>1. block \in ToSet(b.blocks)
  BY DEF ToSet
<1>2. W(block) \subseteq assigned_locals(b)
  BY <1>1 DEF assigned_locals
<1>3. \A j \in DOMAIN block.statements : block.statements[j] \in ToSet(block.statements)
  BY DEF ToSet
<1> HIDE DEF block
<1>4. /\ \A j \in DOMAIN block.statements : block.statements[j].local \in W(block)
      /\ block.terminator.kind = "call" => block.terminator.local \in W(block)
  BY <1>3
<1> HIDE DEF W
<1> QED
  BY <1>2, <1>4 DEF block

LEMMA FreshBlock ==
  ASSUME NEW b, IsBody(b), NEW walk, walk.at \in DOMAIN b.blocks, NEW e, NEW m, NEW ty
  PROVE  AgreesAt(b, walk, 0, e, m, ty) <=> Agree(b, walk.state, e, m, ty)
<1>1. IsTuple(b.blocks[walk.at].statements)
  BY BlockFacts
<1>2. BlockStates(b, walk.at, walk.state, ty)[0] = walk.state
  BY <1>1, BlockStatesDef DEF Captured
<1> QED
  BY <1>2 DEF AgreesAt

LEMMA NextStatement ==
  ASSUME NEW b, IsBody(b), NEW i \in DOMAIN b.blocks, NEW start, NEW ty,
         NEW j \in 1..Len(b.blocks[i].statements)
  PROVE  BlockStates(b, i, start, ty)[j] =
           CaptureStatement(b, BlockStates(b, i, start, ty)[j - 1], b.blocks[i].statements[j], ty)
<1>1. IsTuple(b.blocks[i].statements)
  BY BlockFacts
<1> QED
  BY <1>1, BlockStatesDef DEF Captured

\* What a statement that writes directly does to the memory.
LEMMA DirectStore ==
  ASSUME PlaceInv, MemoryInv, DirectWrites(body), Execute, ~Stopped
  PROVE  LET s == Statement
             v == RvalueValue(body, memory, s.local, s.rvalue)
         IN /\ s.local \in Locals(body) \cap assigned_locals(body) /\ IsStatement(body, s)
            /\ s.proj \in {"none", "field0"}
            /\ s.proj = "none" => memory'[s.local] = v
            /\ s.proj = "field0" => memory'[s.local][2] = memory[s.local][2]
            /\ \A k \in Locals(body) : k # s.local => memory'[k] = memory[k]
<1> DEFINE s == Statement
<1>1. phase = "running" /\ ~AtTerminator /\ IsStatement(body, s)
  BY ExecuteStores DEF Execute
<1>2. at.block \in DOMAIN body.blocks /\ at.statement \in DOMAIN body.blocks[at.block].statements
  BY <1>1, Here DEF Block
<1>3. s = body.blocks[at.block].statements[at.statement]
  BY DEF Statement, Block
<1>4. s.proj \in {"none", "field0"}
  BY <1>1, <1>2, <1>3 DEF DirectWrites, IsStatement, IsPlace
<1>5. s.local \in Locals(body) \cap assigned_locals(body)
  BY <1>1, <1>2, <1>3, Assigned DEF IsStatement, IsPlace
<1>6. Target(memory, s.local, s.proj) = s.local
  BY <1>4 DEF Target
<1> QED
  BY <1>1, <1>4, <1>5, <1>6, ExecuteStores

LEMMA StaysTrue ==
  ASSUME PlaceInv, MemoryInv, DirectWrites(body), Execute, ~Stopped,
         NEW walk, walk.at = at.block, NEW ty \in IntTy, AgreesHere(walk, ty)
  PROVE  AgreesAt(body, walk, at.statement, entry, memory', ty)
<1> DEFINE s == Statement
           v == RvalueValue(body, memory, s.local, s.rvalue)
           state == BlockStates(body, walk.at, walk.state, ty)[at.statement - 1]
<1>1. phase = "running" /\ ~AtTerminator
  BY DEF Execute
<1>2. /\ IsBody(body) /\ walk.at \in DOMAIN body.blocks /\ entry \in Entries(body)
      /\ at.statement \in 1..Len(body.blocks[walk.at].statements)
  BY <1>1, Here DEF Block, MemoryInv, Entered
<1>3. s = body.blocks[walk.at].statements[at.statement]
  BY DEF Statement, Block
<1>4. BlockStates(body, walk.at, walk.state, ty)[at.statement] = CaptureStatement(body, state, s, ty)
  <2> DEFINE j == at.statement
  <2>1. j \in 1..Len(body.blocks[walk.at].statements)
    BY <1>2
  <2> HIDE DEF j, s
  <2>2. BlockStates(body, walk.at, walk.state, ty)[j] =
          CaptureStatement(body, BlockStates(body, walk.at, walk.state, ty)[j - 1],
                           body.blocks[walk.at].statements[j], ty)
    BY <1>2, <2>1, NextStatement
  <2> QED
    BY <1>3, <2>2 DEF j
<1>5. Agree(body, state, entry, memory, ty)
  BY DEF AgreesHere, AgreesAt
<1>6. /\ IsStatement(body, s)
      /\ s.proj = "none" => memory'[s.local] = v
      /\ \A k \in Locals(body) : k # s.local => memory'[k] = memory[k]
  BY DirectStore
<1> HIDE DEF s, state
<1>7. Agree(body, CaptureStatement(body, state, s, ty), entry, memory', ty)
  BY <1>2, <1>5, <1>6, StatementAgrees
<1> QED
  BY <1>4, <1>7 DEF AgreesAt

\* At the end of a block, the state the walk goes on with is true.
LEMMA TrueAtTheEnd ==
  ASSUME PlaceInv, phase = "running", AtTerminator,
         NEW walk, walk.at = at.block, NEW ty, AgreesHere(walk, ty)
  PROVE  Agree(body, AfterBlock(body, at.block, walk.state, ty), entry, memory, ty)
<1>1. at.statement - 1 = Len(body.blocks[at.block].statements)
  BY Here DEF Block
<1> QED
  BY <1>1 DEF AgreesHere, AgreesAt, AfterBlock
-----------------------------------------------------------------------------
(***************************************************************************)
(* The steps keep what is known of parameters, chains and flags.           *)
(***************************************************************************)
LEMMA ParamsStep ==
  ASSUME BodyInv, DirectWrites(body), ParamsInv, [Next]_vars
  PROVE  ParamsInv'
<1>0. PlaceInv /\ MemoryInv
  BY DEF BodyInv
<1>1. CASE Visitor
  BY <1>1, VisitSteps DEF ParamsInv, Entered
<1>2. CASE Enter
  <2>1. body' = body /\ memory' = OnEntry(body, entry') /\ IsBody(body)
    BY <1>0, <1>2, EnterStep, BodiesTypeCheck DEF PlaceInv
  <2>2. Params(body) \subseteq Locals(body)
    BY <2>1, BodyFacts
  <2> QED
    BY <2>1, <2>2 DEF ParamsInv, OnEntry
<1>3. CASE (Execute /\ ~Stopped) \/ Moves \/ Halts
  <2>1. /\ body' = body /\ entry' = entry /\ Entered
        /\ phase = "running" /\ IsBody(body) /\ at.block \in DOMAIN body.blocks
    BY <1>0, <1>3, RunSteps, Here DEF Entered
  <2>2. Params(body) \subseteq Locals(body)
    BY <2>1, BodyFacts
  <2>3. \A l \in Locals(body) \ assigned_locals(body) : memory'[l] = memory[l]
    <3>1. CASE Execute /\ ~Stopped
      BY <1>0, <3>1, DirectStore
    <3>2. CASE Moves /\ CallReturns
      <4>1. Terminator.local \in assigned_locals(body)
        BY <2>1, <3>2, Assigned DEF CallReturns, Calling, Terminator, Block
      <4> QED
        BY <1>0, <3>2, <4>1, CallStores
    <3>3. CASE Moves /\ ~CallReturns
      BY <3>3 DEF Moves, Jump, CheckFlag
    <3>4. CASE Halts
      BY <3>4, HaltsWhereItIs
    <3> QED
      BY <1>3, <3>1, <3>2, <3>3, <3>4
  <2> QED
    BY <2>1, <2>2, <2>3 DEF ParamsInv
<1>4. CASE UNCHANGED vars
  BY <1>4 DEF vars, ParamsInv, Entered
<1> QED
  BY <1>1, <1>2, <1>3, <1>4, NextCases

\* A walk through blocks only the chain leads to, one block after another.
LEMMA CallWalkLaws ==
  ASSUME NEW b, IsBody(b), NEW i, NEW ty
  PROVE  /\ Len(b.blocks) + 1 \in Nat
         /\ WalkLaws(b, {i}, OnlyWay(b), ty, Len(b.blocks) + 1, CallWalk(b, i, ty))
         /\ CallWalk(b, i, ty)[0].state = Seeded(b, NamedParams(b))
<1>1. OnlyWay(b) \in SUBSET DOMAIN b.blocks
  BY DEF OnlyWay
<1> QED
  BY <1>1, ChainWalkLaws DEF CallWalk

\* An edge leads from block c into step k of a chain with no way back to its start.
EdgeIn(b, i, ty, k, c) ==
  /\ IsBody(b) /\ block_in_edge_counts(b)[1] = 0
  /\ k \in 0..(Len(b.blocks) + 1) /\ CallWalk(b, i, ty)[k].status = "walking"
  /\ c \in DOMAIN b.blocks
  /\ \E j \in DOMAIN terminator_successors(b.blocks[c].terminator) :
       terminator_successors(b.blocks[c].terminator)[j] = CallWalk(b, i, ty)[k].at

\* It leads from the step before.
LEMMA OneWayIn ==
  ASSUME NEW b, NEW i, NEW ty, NEW k, NEW c, EdgeIn(b, i, ty, k, c)
  PROVE  /\ k - 1 \in 0..(Len(b.blocks) + 1)
         /\ CallWalk(b, i, ty)[k - 1].status = "walking" /\ CallWalk(b, i, ty)[k - 1].at = c
         /\ Follows(b, OnlyWay(b), ty, CallWalk(b, i, ty)[k - 1], CallWalk(b, i, ty)[k])
<1> DEFINE n == Len(b.blocks) + 1
           w == CallWalk(b, i, ty)
<1>0. /\ IsBody(b) /\ block_in_edge_counts(b)[1] = 0
      /\ k \in 0..n /\ w[k].status = "walking" /\ c \in DOMAIN b.blocks
  BY DEF EdgeIn
<1>a. PICK j \in DOMAIN terminator_successors(b.blocks[c].terminator) :
         terminator_successors(b.blocks[c].terminator)[j] = w[k].at
  BY DEF EdgeIn
<1>1. n \in Nat /\ WalkLaws(b, {i}, OnlyWay(b), ty, n, w)
  BY <1>0, CallWalkLaws
<1>2. terminator_successors(b.blocks[c].terminator)[j] \in DOMAIN b.blocks
  BY <1>0, <1>a, SuccessorsAreBlocks
<1>3. k # 0
  <2>1. ASSUME k = 0 PROVE FALSE
    <3>1. w[k].at = 1
      BY <1>0, <1>1, <2>1 DEF WalkLaws
    <3>2. block_in_edge_counts(b)[1] # 0
      BY <1>0, <1>a, <1>2, <3>1, InEdges
    <3> QED
      BY <1>0, <3>2
  <2> QED
    BY <2>1
<1>4. k \in 1..n
  BY <1>0, <1>1, <1>3
<1> HIDE DEF n, w
<1>5. k - 1 \in 0..n /\ w[k - 1].status = "walking" /\ Follows(b, OnlyWay(b), ty, w[k - 1], w[k])
  BY <1>0, <1>1, <1>4, WalkCameFrom DEF w
<1>6. w[k - 1].at \in DOMAIN b.blocks
  BY <1>1, <1>5 DEF WalkLaws
<1> DEFINE p == w[k - 1].at
           t == b.blocks[p].terminator
<1>7. t.kind \in {"goto", "assert"} /\ t.target \in OnlyWay(b) /\ w[k].at = t.target
  BY <1>5 DEF Follows
<1>8. IsTerminator(b, t)
  BY <1>0, <1>6, BlockFacts
<1>9. 1 \in DOMAIN terminator_successors(t) /\ terminator_successors(t)[1] = w[k].at
  <2> HIDE DEF t
  <2> QED
    BY <1>7, <1>8, Successors
<1>10. block_in_edge_counts(b)[w[k].at] = 1 /\ w[k].at \in DOMAIN b.blocks
  BY <1>7 DEF OnlyWay
<1>11. c = p
  <2> DEFINE target == w[k].at
  <2>1. /\ target \in DOMAIN b.blocks /\ p \in DOMAIN b.blocks
        /\ 1 \in DOMAIN terminator_successors(b.blocks[p].terminator)
        /\ terminator_successors(b.blocks[p].terminator)[1] = target
        /\ terminator_successors(b.blocks[c].terminator)[j] = target
        /\ block_in_edge_counts(b)[target] = 1
    BY <1>a, <1>6, <1>9, <1>10 DEF w
  <2> HIDE DEF target, p, t
  <2> QED
    BY <1>0, <1>a, <2>1, InEdges
<1> QED
  BY <1>5, <1>11 DEF w, n

LEMMA ChainStep ==
  ASSUME BodyInv, DirectWrites(body), ChainInv, [Next]_vars
  PROVE  ChainInv'
<1>0. PlaceInv /\ MemoryInv
  BY DEF BodyInv
<1>1. CASE Visitor
  BY <1>1, VisitSteps DEF ChainInv
<1>2. CASE Enter
  <2>1. /\ body' = body /\ memory' = OnEntry(body, entry') /\ IsBody(body) /\ at' = StartOf(1)
        /\ entry' \in Entries(body)
    BY <1>0, <1>2, EnterStep, BodiesTypeCheck DEF PlaceInv
  <2>2. at'.block = 1 /\ at'.statement - 1 = 0 /\ 1 \in DOMAIN body.blocks
    BY <2>1, BodyFacts DEF StartOf
  <2> SUFFICES ASSUME block_in_edge_counts(body)[1] = 0,
                      NEW i \in DOMAIN body.blocks, NEW ty \in IntTy,
                      NEW k \in 0..(Len(body.blocks) + 1),
                      CallWalk(body, i, ty)[k].status = "walking", CallWalk(body, i, ty)[k].at = 1
               PROVE  AgreesAt(body, CallWalk(body, i, ty)[k], 0, entry', memory', ty)
    BY <2>1, <2>2 DEF ChainInv, AgreesHere
  <2> DEFINE w == CallWalk(body, i, ty)
             n == Len(body.blocks) + 1
  <2>3. n \in Nat /\ WalkLaws(body, {i}, OnlyWay(body), ty, n, w)
        /\ w[0].state = Seeded(body, NamedParams(body))
    BY <2>1, CallWalkLaws
  <2>4. k = 0
    <3> SUFFICES ASSUME k # 0 PROVE FALSE
      OBVIOUS
    <3>1. k \in 1..n
      BY <2>3
    <3> HIDE DEF w, n
    <3>2. k - 1 \in 0..n /\ Follows(body, OnlyWay(body), ty, w[k - 1], w[k])
      BY <2>3, <3>1, WalkCameFrom DEF w
    <3>3. block_in_edge_counts(body)[1] = 1
      BY <3>2 DEF Follows, OnlyWay, w
    <3> QED
      BY <3>3
  <2>5. Agree(body, w[k].state, entry', memory', ty)
    <3>1. NamedParams(body) \in SUBSET Params(body)
      BY DEF NamedParams
    <3>2. Agree(body, Seeded(body, NamedParams(body)), entry', OnEntry(body, entry'), ty)
      BY <2>1, <3>1, SeedsAgree
    <3> QED
      BY <2>1, <2>3, <2>4, <3>2
  <2>6. w[k].at \in DOMAIN body.blocks
    BY <2>2
  <2> HIDE DEF w
  <2>7. AgreesAt(body, w[k], 0, entry', memory', ty)
    BY <2>1, <2>5, <2>6, FreshBlock
  <2> QED
    BY <2>7 DEF w
<1>3. CASE Execute /\ ~Stopped
  <2>1. /\ body' = body /\ entry' = entry /\ phase = "running" /\ IsBody(body)
        /\ at'.block = at.block /\ at'.statement = at.statement + 1 /\ at.statement \in Nat
    BY <1>0, <1>3, ExecuteStores, Here
  <2>2. at'.statement - 1 = at.statement
    BY <2>1
  <2> SUFFICES ASSUME block_in_edge_counts(body)[1] = 0,
                      NEW i \in DOMAIN body.blocks, NEW ty \in IntTy,
                      NEW k \in 0..(Len(body.blocks) + 1),
                      CallWalk(body, i, ty)[k].status = "walking",
                      CallWalk(body, i, ty)[k].at = at.block
               PROVE  AgreesAt(body, CallWalk(body, i, ty)[k], at.statement, entry, memory', ty)
    BY <2>1, <2>2 DEF ChainInv, AgreesHere
  <2> DEFINE walk == CallWalk(body, i, ty)[k]
  <2>3. AgreesHere(walk, ty) /\ walk.at = at.block
    BY <2>1 DEF ChainInv
  <2> HIDE DEF walk
  <2>4. AgreesAt(body, walk, at.statement, entry, memory', ty)
    BY <1>0, <1>3, <2>3, StaysTrue
  <2> QED
    BY <2>4 DEF walk
<1>4. CASE Moves
  <2>1. /\ body' = body /\ entry' = entry /\ phase = "running" /\ IsBody(body) /\ AtTerminator
        /\ at.block \in DOMAIN body.blocks /\ Terminator = body.blocks[at.block].terminator
        /\ Terminator.kind \in {"goto", "assert"} => memory' = memory
    BY <1>0, <1>4, MovesLead, Here DEF Terminator, Block
  <2>2. PICK j \in DOMAIN terminator_successors(Terminator) :
           at' = StartOf(terminator_successors(Terminator)[j])
    BY <1>0, <1>4, MovesLead
  <2>3. at'.block = terminator_successors(Terminator)[j] /\ at'.statement - 1 = 0
    BY <2>2 DEF StartOf
  <2> SUFFICES ASSUME block_in_edge_counts(body)[1] = 0,
                      NEW i \in DOMAIN body.blocks, NEW ty \in IntTy,
                      NEW k \in 0..(Len(body.blocks) + 1),
                      CallWalk(body, i, ty)[k].status = "walking",
                      CallWalk(body, i, ty)[k].at = terminator_successors(Terminator)[j]
               PROVE  AgreesAt(body, CallWalk(body, i, ty)[k], 0, entry, memory', ty)
    BY <2>1, <2>3 DEF ChainInv, AgreesHere
  <2> DEFINE w == CallWalk(body, i, ty)
             n == Len(body.blocks) + 1
             walk == w[k - 1]
  <2>4. /\ k - 1 \in 0..n /\ walk.status = "walking" /\ walk.at = at.block
        /\ Follows(body, OnlyWay(body), ty, walk, w[k])
    <3> DEFINE c == at.block
    <3>1. EdgeIn(body, i, ty, k, c)
      BY <2>1 DEF EdgeIn
    <3> HIDE DEF c
    <3>2. /\ k - 1 \in 0..n /\ walk.status = "walking" /\ walk.at = c
          /\ Follows(body, OnlyWay(body), ty, walk, w[k])
      BY <3>1, OneWayIn
    <3> QED
      BY <3>2 DEF c
  <2>5. AgreesHere(walk, ty)
    BY <2>1, <2>4 DEF ChainInv
  <2> HIDE DEF walk
  <2>6. Agree(body, AfterBlock(body, at.block, walk.state, ty), entry, memory, ty)
    BY <1>0, <2>1, <2>4, <2>5, TrueAtTheEnd
  <2>7. /\ w[k].state = AfterBlock(body, at.block, walk.state, ty)
        /\ Terminator.kind \in {"goto", "assert"}
        /\ w[k].at \in DOMAIN body.blocks
    BY <2>1, <2>4 DEF Follows, OnlyWay
  <2> HIDE DEF w
  <2>8. AgreesAt(body, w[k], 0, entry, memory', ty)
    BY <2>1, <2>6, <2>7, FreshBlock
  <2> QED
    BY <2>8 DEF w
<1>5. CASE Halts
  BY <1>5, HaltsWhereItIs DEF ChainInv
<1>6. CASE UNCHANGED vars
  BY <1>6 DEF vars, ChainInv, AgreesHere
<1> QED
  BY <1>1, <1>2, <1>3, <1>4, <1>5, <1>6, NextCases

LEMMA EffectWalkLaws ==
  ASSUME NEW b, IsBody(b)
  PROVE  /\ Len(b.blocks) + 1 \in Nat
         /\ WalkLaws(b, Returns(b), DOMAIN b.blocks, LocalTy(b, 0), Len(b.blocks) + 1, EffectWalk(b))
         /\ EffectWalk(b)[0].state = Seeded(b, ReturnSeeds(b))
BY ChainWalkLaws DEF EffectWalk

LEMMA EffectStep ==
  ASSUME BodyInv, DirectWrites(body), EffectInv, [Next]_vars
  PROVE  EffectInv'
<1>0. PlaceInv /\ MemoryInv
  BY DEF BodyInv
<1> DEFINE w == EffectWalk(body)
           n == Len(body.blocks) + 1
           ty == LocalTy(body, 0)
<1>a. /\ IsBody(body) /\ n \in Nat /\ WalkLaws(body, Returns(body), DOMAIN body.blocks, ty, n, w)
      /\ w[0].state = Seeded(body, ReturnSeeds(body))
  BY <1>0, EffectWalkLaws, BodiesTypeCheck DEF PlaceInv
<1>1. CASE Visitor
  BY <1>1, VisitSteps DEF EffectInv
<1>2. CASE Enter
  <2>1. /\ body' = body /\ memory' = OnEntry(body, entry') /\ at' = StartOf(1)
        /\ entry' \in Entries(body)
    BY <1>2, EnterStep
  <2>2. at'.block = 1 /\ at'.statement - 1 = 0 /\ 1 \in DOMAIN body.blocks
    BY <2>1, <1>a, BodyFacts DEF StartOf
  <2>3. w[0].status = "walking" /\ w[0].at = 1 /\ 0 \in 0..n
    BY <1>a DEF WalkLaws
  <2>4. Agree(body, w[0].state, entry', memory', ty)
    <3>1. ReturnSeeds(body) \in SUBSET Params(body)
      BY DEF ReturnSeeds, NamedParams
    <3>2. Agree(body, Seeded(body, ReturnSeeds(body)), entry', OnEntry(body, entry'), ty)
      BY <1>a, <2>1, <3>1, SeedsAgree
    <3> QED
      BY <1>a, <2>1, <3>2
  <2> HIDE DEF w, ty
  <2>5. AgreesAt(body, w[0], 0, entry', memory', ty)
    BY <1>a, <2>2, <2>3, <2>4, FreshBlock
  <2> QED
    BY <2>1, <2>2, <2>3, <2>5 DEF EffectInv, AgreesHere, w, ty
<1>3. CASE Execute /\ ~Stopped
  <2>1. /\ body' = body /\ entry' = entry /\ phase = "running"
        /\ at'.block = at.block /\ at'.statement = at.statement + 1 /\ at.statement \in Nat
    BY <1>0, <1>3, ExecuteStores, Here
  <2>2. at'.statement - 1 = at.statement
    BY <2>1
  <2> SUFFICES ASSUME ty \in IntTy, w[n].status = "ended"
               PROVE  \E k \in 0..n : /\ w[k].status = "walking" /\ w[k].at = at.block
                                      /\ AgreesAt(body, w[k], at.statement, entry, memory', ty)
    BY <2>1, <2>2 DEF EffectInv, AgreesHere
  <2>3. PICK k \in 0..n : w[k].status = "walking" /\ w[k].at = at.block /\ AgreesHere(w[k], ty)
    BY <2>1 DEF EffectInv
  <2> DEFINE walk == w[k]
  <2> HIDE DEF w, ty
  <2>4. walk.at = at.block /\ AgreesHere(walk, ty)
    BY <2>3
  <2> HIDE DEF walk
  <2>5. AgreesAt(body, walk, at.statement, entry, memory', ty)
    BY <1>0, <1>3, <2>4, StaysTrue
  <2> QED
    BY <2>3, <2>5 DEF walk
<1>4. CASE Moves
  <2>1. /\ body' = body /\ entry' = entry /\ phase = "running" /\ AtTerminator
        /\ at.block \in DOMAIN body.blocks /\ Terminator = body.blocks[at.block].terminator
        /\ Terminator.kind \in {"goto", "assert"} =>
             memory' = memory /\ at' = StartOf(Terminator.target)
        /\ Terminator.kind # "return"
    BY <1>0, <1>4, MovesLead, Here DEF Terminator, Block
  <2> SUFFICES ASSUME ty \in IntTy, w[n].status = "ended"
               PROVE  \E k \in 0..n : /\ w[k].status = "walking" /\ w[k].at = at'.block
                                      /\ AgreesAt(body, w[k], at'.statement - 1, entry, memory', ty)
    BY <2>1 DEF EffectInv, AgreesHere
  <2>2. PICK k \in 0..n : w[k].status = "walking" /\ w[k].at = at.block /\ AgreesHere(w[k], ty)
    BY <2>1 DEF EffectInv
  <2> HIDE DEF w, ty, n
  <2>3. /\ k + 1 \in 0..n
        /\ \/ Ends(body, Returns(body), ty, w[k], w[n])
           \/ w[k].at \notin Returns(body) /\ Follows(body, DOMAIN body.blocks, ty, w[k], w[k + 1])
    BY <1>a, <2>2, WalkGoesOn
  <2>4. at.block \notin Returns(body)
    BY <2>1 DEF Returns
  <2>5. Follows(body, DOMAIN body.blocks, ty, w[k], w[k + 1])
    BY <2>2, <2>3, <2>4 DEF Ends
  <2> DEFINE walk == w[k]
             next == w[k + 1]
  <2>6. /\ Terminator.kind \in {"goto", "assert"} /\ next.status = "walking"
        /\ next.at = Terminator.target /\ next.at \in DOMAIN body.blocks
        /\ next.state = AfterBlock(body, at.block, walk.state, ty)
    BY <2>1, <2>2, <2>5 DEF Follows
  <2>7. walk.at = at.block /\ AgreesHere(walk, ty)
    BY <2>2
  <2> HIDE DEF walk, next
  <2>8. Agree(body, next.state, entry, memory, ty)
    BY <1>0, <2>1, <2>6, <2>7, TrueAtTheEnd
  <2>9. AgreesAt(body, next, 0, entry, memory', ty)
    BY <1>a, <2>1, <2>6, <2>8, FreshBlock
  <2>10. at'.block = next.at /\ at'.statement - 1 = 0
    BY <2>1, <2>6 DEF StartOf
  <2> QED
    BY <2>3, <2>6, <2>9, <2>10 DEF next
<1>5. CASE Halts
  BY <1>5, HaltsWhereItIs DEF EffectInv
<1>6. CASE UNCHANGED vars
  BY <1>6 DEF vars, EffectInv, AgreesHere
<1> QED
  BY <1>1, <1>2, <1>3, <1>4, <1>5, <1>6, NextCases
-----------------------------------------------------------------------------
(***************************************************************************)
(* What is discharged holds.                                               *)
(***************************************************************************)
LEMMA WhileRunning ==
  ASSUME BodyInv, phase = "running"
  PROVE  /\ IsBody(body) /\ body \in Bodies /\ entry \in Entries(body) /\ Permitted(body, entry)
         /\ Typed(body, memory) /\ at.block \in DOMAIN body.blocks
         /\ report \subseteq AllFindings(body)
         /\ ~body.trusted => BlockFindings(body, at.block) \subseteq report
BY Here DEF BodyInv, PlaceInv, MemoryInv, ReportInv, Entered

\* The operation that is about to run.
LEMMA OperationHere ==
  ASSUME BodyInv, Operating
  PROVE  /\ phase = "running" /\ at.statement \in DOMAIN body.blocks[at.block].statements
         /\ Statement = body.blocks[at.block].statements[at.statement]
         /\ Statement.rvalue.kind = "binary" /\ IsBinary(body, Statement)
         /\ Operand(Statement.rvalue.a) \in Values(OperandTy(body, Statement.rvalue.a))
         /\ Operand(Statement.rvalue.b) \in Values(OperandTy(body, Statement.rvalue.b))
<1>1. /\ phase = "running" /\ ~AtTerminator /\ Statement.rvalue.kind = "binary"
      /\ ReadableIn(memory, Statement.rvalue.a) /\ ReadableIn(memory, Statement.rvalue.b)
  BY DEF Operating, Readable, ReadableIn
<1>2. /\ IsStatement(body, Statement) /\ IsBody(body) /\ Typed(body, memory)
      /\ at.statement \in DOMAIN body.blocks[at.block].statements
  BY <1>1, WhileRunning, Here DEF BodyInv, Block
<1>3. IsBinary(body, Statement)
  BY <1>1, <1>2 DEF IsStatement, IsUse, IsBorrow
<1>4. IsInteger(body, Statement.rvalue.a) /\ IsInteger(body, Statement.rvalue.b)
  BY <1>3 DEF IsBinary
<1> QED
  BY <1>1, <1>2, <1>3, <1>4, IntegerOperand DEF Statement, Block, Operand

LEMMA NamedOperand ==
  ASSUME BodyInv, ParamsInv, phase = "running", NEW a, operand_arg_name(body, a) # {}
  PROVE  Operand(a) = entry[a.local]
<1>1. /\ a.kind = "place" /\ a.proj = "none"
      /\ a.local \in Params(body) \ assigned_locals(body)
  BY DEF operand_arg_name, local_arg_name
<1>2. memory[a.local] = <<entry[a.local]>>
  BY <1>1 DEF ParamsInv, Entered
<1> QED
  BY <1>1, <1>2 DEF Operand, OperandValue, ReadPlace, Target

LEMMA OperationSafe ==
  ASSUME BodyInv, ParamsInv, WholeAmounts(body), Operating,
         Discharged("PB049", at.block, at.statement), RawClausesHold
  PROVE  ~AboutToPanic
<1> DEFINE s == Statement
           r == s.rvalue
           x == Operand(r.a)
           y == Operand(r.b)
           f == Finding("PB049", at.block, at.statement, "discharged")
<1>1. /\ phase = "running" /\ r.kind = "binary" /\ IsBinary(body, s)
      /\ x \in Values(OperandTy(body, r.a)) /\ y \in Values(OperandTy(body, r.b))
      /\ at.statement \in DOMAIN body.blocks[at.block].statements
      /\ s = body.blocks[at.block].statements[at.statement]
  BY OperationHere
<1>2. /\ IsBody(body) /\ body \in Bodies /\ Permitted(body, entry) /\ f \in AllFindings(body)
      /\ at.block \in DOMAIN body.blocks
  BY <1>1, WhileRunning DEF Discharged
<1>3. f.rule = "PB049" /\ f.block = at.block /\ f.statement = at.statement /\ f.outcome = "discharged"
  BY DEF Finding
<1>4. f \in maybe_emit_overflow_obligation(body, at.block, at.statement, s)
  <2> HIDE DEF f
  <2>1. f \in maybe_emit_overflow_obligation(body, f.block, f.statement,
                                              body.blocks[f.block].statements[f.statement])
    BY <1>2, <1>3, Origins
  <2> QED
    BY <1>1, <1>3, <2>1
<1>5. /\ r.op \in ArithOp /\ OverflowOutcome(body, r) = "discharged"
      /\ r.op \in Shifts \/ OperandTy(body, r.a) = OperandTy(body, r.b)
  <2> DEFINE lhs_ty == operand_primitive_int_name(body, r.a)
             rhs_ty == operand_primitive_int_name(body, r.b)
  <2>1. f # Finding("PB049", at.block, at.statement, "gap")
    BY DEF Finding
  <2>2. /\ r.op \in ArithOp /\ lhs_ty # {} /\ rhs_ty # {}
        /\ lhs_ty = rhs_ty \/ r.op \in Shifts
        /\ f = Finding("PB049", at.block, at.statement, OverflowOutcome(body, r))
    BY <1>4, <2>1 DEF maybe_emit_overflow_obligation
  <2>3. OverflowOutcome(body, r) = "discharged"
    BY <2>2 DEF Finding
  <2>4. lhs_ty # {} => lhs_ty = {OperandTy(body, r.a)}
    BY DEF operand_primitive_int_name
  <2>5. rhs_ty # {} => rhs_ty = {OperandTy(body, r.b)}
    BY DEF operand_primitive_int_name
  <2> QED
    BY <2>2, <2>3, <2>4, <2>5
<1>6. NoHoles(body, r)
  BY <1>1, <1>2 DEF WholeAmounts
<1>7. Settled(body, r, entry, x, y)
  <2>1. /\ r.a.kind = "const" => x = r.a.value
        /\ r.b.kind = "const" => y = r.b.value
    BY DEF Operand, OperandValue
  <2>2. /\ operand_arg_name(body, r.a) # {} => x = entry[r.a.local]
        /\ operand_arg_name(body, r.b) # {} => y = entry[r.b.local]
    BY <1>1, NamedOperand
  <2>3. \A c \in ToSet(body.requires) :
          c.kind = "raw" => y \in Values(OperandTy(body, r.a)) /\ RawHolds(c, x, y)
    BY DEF RawClausesHold
  <2> QED
    BY <1>1, <2>1, <2>2, <2>3 DEF Settled
<1>8. \A c \in ToSet(body.requires) : IsClause(c)
  BY <1>2, BodiesTypeCheck
<1> HIDE DEF s, x, y
<1>9. ~Panics(r.op, x, y, OperandTy(body, r.a))
  BY <1>1, <1>2, <1>5, <1>6, <1>7, <1>8, OverflowSound
<1> QED
  BY <1>9 DEF AboutToPanic, s, x, y

LEMMA CallHolds ==
  ASSUME BodyInv, ParamsInv, ChainInv, Calling, Discharged("PB077", at.block, 0)
  PROVE  CalleeHolds
<1> DEFINE t == Terminator
           spec == Callees[t.callee]
           i == at.block
           f == Finding("PB077", i, 0, "discharged")
<1>1. phase = "running" /\ AtTerminator /\ t.kind = "call" /\ t = body.blocks[i].terminator
  BY DEF Calling, Terminator, Block
<1>2. /\ IsBody(body) /\ body \in Bodies /\ entry \in Entries(body) /\ Permitted(body, entry)
      /\ i \in DOMAIN body.blocks /\ f \in AllFindings(body)
  BY <1>1, WhileRunning DEF Discharged
<1>3. build_callsite_precondition_smt(body, t, i) = "discharged"
  <2>1. f.rule = "PB077" /\ f.block = i /\ f.outcome = "discharged"
    BY DEF Finding
  <2> HIDE DEF f
  <2>2. f.outcome = build_callsite_precondition_smt(body, body.blocks[f.block].terminator, f.block)
    BY <1>2, <2>1, Origins
  <2> QED
    BY <1>1, <2>1, <2>2
<1>4. DOMAIN t.args = DOMAIN spec.args
  BY <1>1, <1>2, CalleesAssumption
<1>5. KnownAtCall(body, i, entry, memory)
  <2>1. \A l \in Params(body) \ assigned_locals(body) : memory[l] = <<entry[l]>>
    BY <1>1 DEF ParamsInv, Entered
  <2>2. ASSUME block_in_edge_counts(body)[1] = 0, NEW ty \in IntTy,
               NEW k \in 0..(Len(body.blocks) + 1),
               CallWalk(body, i, ty)[k].status = "walking", CallWalk(body, i, ty)[k].at = i
        PROVE  Agree(body, AfterBlock(body, i, CallWalk(body, i, ty)[k].state, ty), entry, memory, ty)
    <3> DEFINE walk == CallWalk(body, i, ty)[k]
    <3>1. AgreesHere(walk, ty) /\ walk.at = at.block
      BY <1>1, <1>2, <2>2 DEF ChainInv
    <3> HIDE DEF walk
    <3>2. Agree(body, AfterBlock(body, at.block, walk.state, ty), entry, memory, ty)
      BY <1>1, <3>1, TrueAtTheEnd DEF BodyInv
    <3> QED
      BY <3>2 DEF walk
  <2> QED
    BY <1>1, <1>2, <2>1, <2>2 DEF KnownAtCall
<1>6. ASSUME NEW c \in Meaningful(spec.requires, spec.args)
      PROVE  Holds(c, [x \in Idents(c) |-> OperandValue(memory, t.args[IndexOf(spec.args, x)])[1]])
  <2>1. \A b, j, e, m : KnownAtCall(b, j, e, m) =>
          LET call == b.blocks[j].terminator
              sp == Callees[call.callee]
          IN DOMAIN call.args = DOMAIN sp.args
               /\ build_callsite_precondition_smt(b, call, j) = "discharged" =>
             \A d \in Meaningful(sp.requires, sp.args) :
               Holds(d, [x \in Idents(d) |-> OperandValue(m, call.args[IndexOf(sp.args, x)])[1]])
    BY CallSound
  <2> QED
    BY <1>1, <1>3, <1>4, <1>5, <1>6, <2>1
<1> QED
  BY <1>6 DEF CalleeHolds, Operand

LEMMA ReturnKeepsIt ==
  ASSUME BodyInv, EffectInv, Returning, build_ensures_smt(body) = "discharged"
  PROVE  ReturnHolds
<1> DEFINE i == at.block
<1>1. /\ phase = "running" /\ AtTerminator
      /\ body.blocks[i].terminator.kind = "return"
  BY DEF Returning, Terminator, Block
<1>2. /\ IsBody(body) /\ entry \in Entries(body) /\ Permitted(body, entry) /\ i \in DOMAIN body.blocks
  BY <1>1, WhileRunning
<1>3. KnownAtReturn(body, i, entry, memory)
  <2> DEFINE w == EffectWalk(body)
             ty == LocalTy(body, 0)
             n == Len(body.blocks) + 1
  <2>1. ASSUME ty \in IntTy, w[n].status = "ended"
        PROVE  \E k \in 0..n : /\ w[k].status = "walking" /\ w[k].at = i
                               /\ Agree(body, AfterBlock(body, i, w[k].state, ty), entry, memory, ty)
    <3>1. PICK k \in 0..n : w[k].status = "walking" /\ w[k].at = at.block /\ AgreesHere(w[k], ty)
      BY <1>1, <2>1 DEF EffectInv
    <3> DEFINE walk == w[k]
    <3> HIDE DEF w, ty
    <3>2. walk.at = at.block /\ AgreesHere(walk, ty)
      BY <3>1
    <3> HIDE DEF walk
    <3>3. Agree(body, AfterBlock(body, at.block, walk.state, ty), entry, memory, ty)
      BY <1>1, <3>2, TrueAtTheEnd DEF BodyInv
    <3> QED
      BY <3>1, <3>3 DEF walk
  <2> QED
    BY <1>1, <1>2, <2>1 DEF KnownAtReturn, Returns
<1>4. ASSUME NEW c \in Meaningful(body.ensures, <<"result">> \o body.args)
      PROVE  Holds(c, [x \in Idents(c) |->
                         IF x = "result" THEN memory[0][1] ELSE entry[IndexOf(body.args, x)]])
  BY <1>3, <1>4, ReturnSound
<1> QED
  BY <1>4 DEF ReturnHolds

\* Every finding an untrusted body can have was recorded.
LEMMA EveryOperation ==
  ASSUME BodyInv, Accepted, Operating, Statement.rvalue.op \in ArithOp
  PROVE  Discharged("PB049", at.block, at.statement)
<1> DEFINE s == Statement
           found == maybe_emit_overflow_obligation(body, at.block, at.statement, s)
<1>1. /\ phase = "running" /\ s.rvalue.kind = "binary"
      /\ at.statement \in DOMAIN body.blocks[at.block].statements
      /\ s = body.blocks[at.block].statements[at.statement]
  BY OperationHere
<1>2. ~body.trusted /\ \A g \in report : g.outcome = "discharged"
  BY DEF Accepted
<1>3. BlockFindings(body, at.block) \subseteq report
  BY <1>1, <1>2, WhileRunning
<1>4. found \subseteq BlockFindings(body, at.block)
  BY <1>1 DEF BlockFindings
<1>5. \E outcome : Finding("PB049", at.block, at.statement, outcome) \in found
  BY <1>1 DEF maybe_emit_overflow_obligation
<1> HIDE DEF found
<1>6. PICK outcome : Finding("PB049", at.block, at.statement, outcome) \in report
  BY <1>3, <1>4, <1>5
<1>7. outcome = "discharged"
  BY <1>2, <1>6 DEF Finding
<1> QED
  BY <1>6, <1>7 DEF Discharged

LEMMA AcceptedOperationSafe ==
  ASSUME BodyInv, ParamsInv, WholeAmounts(body), Accepted, ~HasRaw
  PROVE  ~AboutToPanic
<1> SUFFICES ASSUME AboutToPanic PROVE FALSE
  OBVIOUS
<1>1. Operating
  BY DEF AboutToPanic
<1>2. RawClausesHold
  BY DEF HasRaw, RawClausesHold
<1>3. Statement.rvalue.op \in ArithOp
  BY DEF AboutToPanic, Panics, ArithOp, Shifts
<1> QED
  BY <1>1, <1>2, <1>3, EveryOperation, OperationSafe

LEMMA FlagsStep ==
  ASSUME BodyInv, DirectWrites(body), WholeAmounts(body), ParamsInv, FlagsInv, [Next]_vars
  PROVE  FlagsInv'
<1>0. PlaceInv /\ MemoryInv
  BY DEF BodyInv
<1>1. CASE Visitor
  BY <1>1, VisitSteps DEF FlagsInv, Entered
<1>2. CASE Enter
  <2>1. /\ body' = body /\ memory' = OnEntry(body, entry') /\ IsBody(body) /\ phase' = "running"
    BY <1>0, <1>2, EnterStep, BodiesTypeCheck DEF PlaceInv
  <2>2. \A l \in Locals(body) : LocalTy(body, l) = "pair" => l \notin Params(body)
    BY <2>1, TypeFacts DEF IsBody
  <2>3. \A l \in Locals(body) : l \notin Params(body) => memory'[l] = <<>>
    BY <2>1 DEF OnEntry
  <2> QED
    BY <2>1, <2>2, <2>3 DEF FlagsInv
<1>3. CASE (Execute /\ ~Stopped) \/ Moves \/ Halts
  <2>1. /\ body' = body /\ report' = report /\ Entered /\ phase = "running" /\ IsBody(body)
        /\ Typed(body, memory)
    BY <1>0, <1>3, RunSteps, WhileRunning DEF Entered
  <2>2. (Accepted' <=> Accepted) /\ (HasRaw' <=> HasRaw)
    BY <2>1 DEF Accepted, HasRaw
  <2> SUFFICES ASSUME Accepted, ~HasRaw
               PROVE  /\ phase' # "panicked"
                      /\ \A l \in Locals(body) :
                           LocalTy(body, l) = "pair" /\ memory'[l] # <<>> => memory'[l][2] = 0
    BY <2>1, <2>2 DEF FlagsInv
  <2>3. /\ ~AboutToPanic
        /\ \A l \in Locals(body) : LocalTy(body, l) = "pair" /\ memory[l] # <<>> => memory[l][2] = 0
    BY <2>1, AcceptedOperationSafe DEF FlagsInv
  <2>4. CASE Execute /\ ~Stopped
    <3> DEFINE s == Statement
               r == s.rvalue
               v == RvalueValue(body, memory, s.local, r)
    <3>1. /\ s.local \in Locals(body) /\ IsStatement(body, s) /\ s.proj \in {"none", "field0"}
          /\ s.proj = "none" => memory'[s.local] = v
          /\ s.proj = "field0" => memory'[s.local][2] = memory[s.local][2]
          /\ \A k \in Locals(body) : k # s.local => memory'[k] = memory[k]
      BY <1>0, <2>4, DirectStore
    <3>2. Ready(s) /\ ~AtTerminator /\ phase' = "running"
      BY <2>4 DEF Execute
    <3>3. ASSUME s.proj = "none", LocalTy(body, s.local) = "pair" PROVE v[2] = 0
      <4>1. PlaceTy(body, s.local, s.proj) = "pair"
        BY <3>3 DEF PlaceTy
      <4>2. CASE IsUse(body, s)
        <5>1. /\ r.kind = "use" /\ IsOperand(body, r.a) /\ OperandTy(body, r.a) = "pair"
              /\ Readable(r.a)
          BY <3>2, <4>1, <4>2 DEF IsUse, Ready
        <5>2. r.a.kind = "place" /\ IsPlace(body, r.a.local, r.a.proj) /\ r.a.local \in Locals(body)
          BY <5>1, TypeFacts DEF IsOperand, OperandTy, IsPlace
        <5>3. PlaceTy(body, r.a.local, r.a.proj) = "pair"
          BY <5>1, <5>2 DEF OperandTy
        <5>4. r.a.proj = "none"
          <6>1. LocalTy(body, r.a.local) \in {"pair", "ref"} => InnerTy(body, r.a.local) # "pair"
            BY <2>1, <5>2, ScalarLocals, TypeFacts
          <6> QED
            BY <5>2, <5>3, <6>1 DEF IsPlace, PlaceTy
        <5>5. LocalTy(body, r.a.local) = "pair" /\ memory[r.a.local] # <<>>
          BY <5>1, <5>2, <5>3, <5>4 DEF PlaceTy, Readable
        <5>6. v = memory[r.a.local]
          BY <5>1, <5>2, <5>4 DEF RvalueValue, OperandValue, ReadPlace, Target
        <5> QED
          BY <2>3, <5>2, <5>5, <5>6
      <4>3. CASE IsBorrow(body, s)
        BY <3>3, <4>3 DEF IsBorrow
      <4>4. CASE IsBinary(body, s)
        <5>1. r.kind = "binary"
          BY <4>4 DEF IsBinary
        <5>2. Operating
          BY <2>1, <3>2, <5>1 DEF Operating, Ready
        <5>3. ~Panics(r.op, Operand(r.a), Operand(r.b), OperandTy(body, r.a))
          BY <2>3, <5>2 DEF AboutToPanic
        <5> QED
          BY <3>3, <5>1, <5>3 DEF RvalueValue, Operand
      <4> QED
        BY <3>1, <4>2, <4>3, <4>4 DEF IsStatement
    <3>4. s.proj = "field0" => memory[s.local] # <<>>
      BY <3>2 DEF Ready
    <3> HIDE DEF s, v
    <3>5. ASSUME NEW l \in Locals(body), LocalTy(body, l) = "pair", memory'[l] # <<>>
          PROVE  memory'[l][2] = 0
      <4>1. CASE l # s.local
        BY <2>3, <3>1, <3>5, <4>1
      <4>2. CASE l = s.local
        BY <2>3, <3>1, <3>3, <3>4, <3>5, <4>2
      <4> QED
        BY <4>1, <4>2
    <3> QED
      BY <3>2, <3>5
  <2>5. CASE Moves
    <3>1. phase' = "running"
      BY <1>0, <2>5, MovesLead
    <3>2. CASE CallReturns
      <4>1. /\ LocalTy(body, Terminator.local) # "pair"
            /\ \A k \in Locals(body) : k # Terminator.local => memory'[k] = memory[k]
        BY <1>0, <3>2, CallStores, TypeFacts
      <4> QED
        BY <2>3, <3>1, <4>1
    <3>3. CASE ~CallReturns
      <4>1. memory' = memory
        BY <2>5, <3>3 DEF Moves, Jump, CheckFlag
      <4> QED
        BY <2>3, <3>1, <4>1
    <3> QED
      BY <3>2, <3>3
  <2>6. CASE Halts
    <3>1. memory' = memory
      BY <2>6, HaltsWhereItIs
    <3>2. ~(Execute /\ Stopped)
      BY <2>3 DEF Stopped
    <3>3. ~(CheckFlag /\ phase' # "running")
      <4> SUFFICES ASSUME CheckFlag, phase' # "running" PROVE FALSE
        OBVIOUS
      <4> DEFINE a == Terminator.a
      <4>1. Terminator.kind = "assert" /\ Readable(a) /\ Operand(a) # 0
        BY <2>1 DEF CheckFlag
      <4>2. IsOperand(body, a) /\ a.kind = "place" /\ a.proj = "field1"
        BY <1>0, <2>1, <4>1, Here DEF IsTerminator
      <4>3. a.local \in Locals(body) /\ LocalTy(body, a.local) = "pair" /\ memory[a.local] # <<>>
        BY <4>1, <4>2 DEF IsOperand, IsPlace, Readable
      <4>4. Operand(a) = memory[a.local][2]
        BY <4>2 DEF Operand, OperandValue, ReadPlace, Target
      <4> QED
        BY <2>3, <4>1, <4>3, <4>4
    <3>4. phase' = "returned"
      BY <2>6, <3>2, <3>3 DEF Halts, Return
    <3> QED
      BY <2>3, <3>1, <3>4
  <2> QED
    BY <1>3, <2>4, <2>5, <2>6
<1>4. CASE UNCHANGED vars
  BY <1>4 DEF vars, FlagsInv, Entered, Accepted, HasRaw
<1> QED
  BY <1>1, <1>2, <1>3, <1>4, NextCases

LEMMA EnsuresDischarged ==
  ASSUME BodyInv, NEW f \in report, f.rule = "PB076", f.outcome = "discharged"
  PROVE  build_ensures_smt(body) = "discharged"
BY Origins DEF BodyInv, ReportInv

LEMMA ReturnsHold == BodyInv /\ EffectInv => DischargedReturnsHold
<1> SUFFICES ASSUME BodyInv, EffectInv PROVE DischargedReturnsHold
  OBVIOUS
<1>1. ASSUME Returning, Discharged("PB076", at.block, 0) PROVE ReturnHolds
  <2> DEFINE f == Finding("PB076", at.block, 0, "discharged")
  <2>1. f \in report /\ f.rule = "PB076" /\ f.outcome = "discharged"
    BY <1>1 DEF Discharged, Finding
  <2> HIDE DEF f
  <2> QED
    BY <1>1, <2>1, EnsuresDischarged, ReturnKeepsIt
<1>2. ASSUME NEW f \in report, f.rule = "PB076", f.outcome = "discharged"
      PROVE  \E e \in Entries(body) : Permitted(body, e)
  BY <1>2, EnsuresDischarged, EnsuresProblem, BodiesTypeCheck DEF BodyInv, PlaceInv
<1> QED
  BY <1>1, <1>2 DEF DischargedReturnsHold

\* An accepted body has a discharged obligation wherever it owes one.
LEMMA EveryTerminator ==
  ASSUME BodyInv, Accepted, phase = "running"
  PROVE  /\ Terminator.kind = "call" /\ Callees[Terminator.callee].requires # <<>> =>
              Discharged("PB077", at.block, 0)
         /\ Terminator.kind = "return" /\ body.ensures # <<>> =>
              build_ensures_smt(body) = "discharged"
<1> DEFINE i == at.block
           t == Terminator
<1>1. ~body.trusted /\ \A f \in report : f.outcome = "discharged"
  BY DEF Accepted
<1>2. visit_terminator(body, i) \subseteq report
  BY <1>1, WhileRunning DEF BlockFindings
<1>3. visit_terminator(body, i) =
        CASE t.kind = "call" -> maybe_gap_callsite_preconditions(body, t, i)
          [] t.kind = "return" -> emit_ensures_obligation(body, i)
          [] OTHER -> {}
  BY DEF visit_terminator, Terminator, Block
<1>4. ASSUME t.kind = "call", Callees[t.callee].requires # <<>>
      PROVE  Discharged("PB077", at.block, 0)
  <2> DEFINE outcome == build_callsite_precondition_smt(body, t, i)
  <2>1. visit_terminator(body, i) = {Finding("PB077", i, 0, outcome)}
    BY <1>3, <1>4 DEF maybe_gap_callsite_preconditions
  <2> HIDE DEF outcome
  <2>2. outcome = "discharged"
    BY <1>1, <1>2, <2>1 DEF Finding
  <2> QED
    BY <1>2, <2>1, <2>2 DEF Discharged
<1>5. ASSUME t.kind = "return", body.ensures # <<>>
      PROVE  build_ensures_smt(body) = "discharged"
  <2>1. visit_terminator(body, i) = {Finding("PB076", i, 0, build_ensures_smt(body))}
    BY <1>3, <1>5 DEF emit_ensures_obligation
  <2> QED
    BY <1>1, <1>2, <2>1 DEF Finding
<1> QED
  BY <1>4, <1>5

LEMMA NothingOwed ==
  \A names : Meaningful(<<>>, names) = {}
BY DEF Meaningful, ToSet

LEMMA NeverFails ==
  BodyInv /\ ParamsInv /\ ChainInv /\ EffectInv /\ FlagsInv /\ WholeAmounts(body)
    => AcceptedBodyNeverFails
<1> SUFFICES ASSUME BodyInv, ParamsInv, ChainInv, EffectInv, FlagsInv, WholeAmounts(body),
                    Accepted, ~HasRaw
             PROVE  /\ phase # "panicked" /\ ~AboutToPanic
                    /\ Calling => CalleeHolds
                    /\ Returning => ReturnHolds
  BY DEF AcceptedBodyNeverFails
<1>1. phase # "panicked"
  BY DEF FlagsInv, Entered
<1>2. ~AboutToPanic
  BY AcceptedOperationSafe
<1>3. ASSUME Calling PROVE CalleeHolds
  <2>1. phase = "running" /\ Terminator.kind = "call"
    BY <1>3 DEF Calling
  <2>2. CASE Callees[Terminator.callee].requires = <<>>
    BY <2>2, NothingOwed DEF CalleeHolds
  <2>3. CASE Callees[Terminator.callee].requires # <<>>
    BY <1>3, <2>1, <2>3, EveryTerminator, CallHolds
  <2> QED
    BY <2>2, <2>3
<1>4. ASSUME Returning PROVE ReturnHolds
  <2>1. phase = "running" /\ Terminator.kind = "return"
    BY <1>4 DEF Returning
  <2>2. CASE body.ensures = <<>>
    BY <2>2, NothingOwed DEF ReturnHolds
  <2>3. CASE body.ensures # <<>>
    BY <1>4, <2>1, <2>3, EveryTerminator, ReturnKeepsIt
  <2> QED
    BY <2>2, <2>3
<1> QED
  BY <1>1, <1>2, <1>3, <1>4

(* ContractInv is inductive: whatever the body does, what the visitor captured
   about its parameters, its chains of blocks and its flags stays true. *)
THEOREM ContractsAreFollowed == Spec => []ContractInv
<1>1. Init => ContractInv
  <2> SUFFICES ASSUME Init PROVE ContractInv
    OBVIOUS
  <2>1. BodyInv
    BY BodyInvInit
  <2>2. ParamsInv /\ ChainInv /\ EffectInv /\ FlagsInv
    BY DEF Init, ParamsInv, ChainInv, EffectInv, FlagsInv, Entered
  <2> QED
    BY <2>1, <2>2 DEF ContractInv
<1>2. ContractInv /\ [Next]_vars => ContractInv'
  <2> SUFFICES ASSUME ContractInv, [Next]_vars PROVE ContractInv'
    OBVIOUS
  <2>1. BodyInv /\ BodyInv'
    BY BodyInvNext DEF ContractInv
  <2>2. body' = body
    BY DEF Next, Visitor, VisitBlock, FinishVisit, SkipTrusted, Machine, Enter, Execute, Jump,
           CheckFlag, CallReturns, Return, Over, vars
  <2>3. ASSUME DirectWrites(body) PROVE ParamsInv' /\ ChainInv' /\ EffectInv'
    BY <2>1, <2>3, ParamsStep, ChainStep, EffectStep DEF ContractInv
  <2>4. ASSUME DirectWrites(body), WholeAmounts(body) PROVE FlagsInv'
    BY <2>1, <2>4, FlagsStep DEF ContractInv
  <2>5. (DirectWrites(body)' <=> DirectWrites(body)) /\ (WholeAmounts(body)' <=> WholeAmounts(body))
    BY <2>2
  <2> QED
    BY <2>1, <2>3, <2>4, <2>5 DEF ContractInv
<1> QED
  BY <1>1, <1>2, PTL DEF Spec

(* DischargedOperationsHold: for every body that writes directly, whatever its
   types, blocks and contract, an operation whose obligation was discharged does
   not panic on the values it is run on, and a call whose obligation was
   discharged passes actuals that meet the callee's preconditions. *)
THEOREM OperationsHold ==
  Spec => [](DirectWrites(body) /\ WholeAmounts(body) => DischargedOperationsHold)
<1>1. ContractInv => (DirectWrites(body) /\ WholeAmounts(body) => DischargedOperationsHold)
  BY OperationSafe, CallHolds DEF ContractInv, DischargedOperationsHold
<1> QED
  BY <1>1, ContractsAreFollowed, PTL

(* The calls alone, without the proviso about shifts. *)
THEOREM CallsHold ==
  Spec => [](DirectWrites(body) /\ Calling /\ Discharged("PB077", at.block, 0) => CalleeHolds)
<1>1. ContractInv => (DirectWrites(body) /\ Calling /\ Discharged("PB077", at.block, 0) => CalleeHolds)
  BY CallHolds DEF ContractInv
<1> QED
  BY <1>1, ContractsAreFollowed, PTL

(* DischargedReturnsHold: a return whose obligation was discharged returns a
   value that meets the postconditions in terms of the entry, and some caller
   can keep the preconditions. *)
THEOREM DischargedReturns == Spec => [](DirectWrites(body) => DischargedReturnsHold)
<1>1. ContractInv => (DirectWrites(body) => DischargedReturnsHold)
  BY ReturnsHold DEF ContractInv
<1> QED
  BY <1>1, ContractsAreFollowed, PTL

(* AcceptedBodyNeverFails: a body with no gap and no open obligation never
   panics, breaks no callee's contract and keeps its own. *)
THEOREM AcceptedBodies ==
  Spec => [](DirectWrites(body) /\ WholeAmounts(body) => AcceptedBodyNeverFails)
<1>1. ContractInv => (DirectWrites(body) /\ WholeAmounts(body) => AcceptedBodyNeverFails)
  BY NeverFails DEF ContractInv
<1> QED
  BY <1>1, ContractsAreFollowed, PTL
=============================================================================
