----------------------------- MODULE BodyCheck -----------------------------
(***************************************************************************)
(* What the visitor claims about one body, and what the body then does.    *)
(*                                                                         *)
(* SubsetVisitor::visit_body walks the blocks and records obligations:     *)
(* arithmetic that must not panic (PB049), calls that must meet the        *)
(* callee's preconditions (PB077), returns that must meet the body's own   *)
(* postconditions (PB076).  Each comes with the SMT problem that decides   *)
(* it; what cannot be encoded is a coverage gap.  The problem's answer is  *)
(* taken to be the true one: Dispatch shows that a pool discharges nothing *)
(* else.  Then a caller that keeps the preconditions runs the body.        *)
(***************************************************************************)
EXTENDS Capture

CONSTANTS Callees,   \* the functions bodies call: parameter names, types, requires
          Bodies     \* the bodies to walk

VARIABLES body,      \* the body being walked
          phase,     \* "visit", then "callable", "running", "returned" or "panicked"
          at,        \* the block and statement being visited or executed
          report,    \* the obligations and gaps recorded, with their outcomes
          entry,     \* the values of the parameters on entry
          memory     \* what every local holds

vars == <<body, phase, at, report, entry, memory>>

IsClause(c) ==
  /\ c.kind \in {"literal", "idents", "raw"}
  /\ c.kind = "literal" => c.op \in {"<", "<=", ">", ">=", "==", "!="} /\ c.literal \in Int

ASSUME BodiesAssumption ==
  \A b \in Bodies :
    /\ IsBody(b) /\ b.trusted \in BOOLEAN
    /\ \A c \in ToSet(b.requires) : IsClause(c)

\* A body calls the functions of Callees only, with an operand per parameter.
ASSUME CalleesAssumption ==
  \A b \in Bodies : \A i \in DOMAIN b.blocks :
    LET t == b.blocks[i].terminator
    IN t.kind = "call" => /\ t.callee \in DOMAIN Callees
                          /\ DOMAIN t.args = DOMAIN Callees[t.callee].args

Phase == {"visit", "callable", "running", "returned", "panicked"}
Outcome == {"discharged", "unproven", "gap"}
Finding(rule, block, statement, outcome) ==
  [rule |-> rule, block |-> block, statement |-> statement, outcome |-> outcome]

\* Variant, used only to test the properties: contradictory hypotheses prove everything.
ProvesVacuously(assumed, good) ==
  IF assumed \subseteq good THEN "discharged" ELSE "unproven"

\* A problem is proved when the values its hypotheses admit are all good, and
\* there are such values.
Decide(assumed, good) ==
  IF assumed # {} /\ assumed \subseteq good THEN "discharged" ELSE "unproven"
-----------------------------------------------------------------------------
(***************************************************************************)
(* PB049: no operand values the body may see make the operation panic.     *)
(***************************************************************************)
RawHolds(clause, lhs, rhs) ==
  clause.kind = "raw" =>
    Compare(clause.op, IF clause.x = "lhs" THEN lhs ELSE rhs, clause.literal)

\* Variant, used only to test the properties: the sign of the amount is not looked at.
narrow_enough(amount_ty, ty) == Bits(amount_ty) <= Bits(ty)

\* Whether the amount of a shift can be constrained at the width of the value.
SoundAtValueWidth(amount_ty, ty) == ~Signed(amount_ty) /\ Bits(amount_ty) <= Bits(ty)

\* A constant operand is pinned, unless it is a shift amount the type cannot hold.
PinHolds(a, v, ty) ==
  a.kind = "const" /\ a.known /\ (a.ty = ty \/ a.value \in Values(ty)) => v = a.value

\* The clauses bound to an operand's parameter hold; raw ones are spliced in;
\* the others are dropped.
ClauseHolds(clause, lhs_arg, rhs_arg, lhs, rhs, ty) ==
  CASE clause.kind = "raw" -> RawHolds(clause, lhs, rhs)
    [] clause.kind = "literal" /\ InRange(clause, ty) /\ clause.x \in lhs_arg \cup rhs_arg ->
         Holds(clause, [x \in Idents(clause) |-> IF x \in lhs_arg THEN lhs ELSE rhs])
    [] OTHER -> TRUE

OverflowOutcome(b, r) ==
  LET ty == OperandTy(b, r.a)
      amount_ty == OperandTy(b, r.b)
      lhs_arg == operand_arg_name(b, r.a)
      rhs_arg == IF amount_ty = ty \/ SoundAtValueWidth(amount_ty, ty)
                 THEN operand_arg_name(b, r.b) ELSE {}
      assumed == {v \in Values(ty) \X Values(ty) :
                    /\ PinHolds(r.a, v[1], ty)
                    /\ PinHolds(r.b, v[2], ty)
                    /\ \A c \in ToSet(b.requires) :
                         ClauseHolds(c, lhs_arg, rhs_arg, v[1], v[2], ty)}
  IN Decide(assumed, {v \in assumed : ~Panics(r.op, v[1], v[2], ty)})

maybe_emit_overflow_obligation(b, at_block, i, s) ==
  LET lhs_ty == operand_primitive_int_name(b, s.rvalue.a)
      rhs_ty == operand_primitive_int_name(b, s.rvalue.b)
  IN IF s.rvalue.kind # "binary" \/ s.rvalue.op \notin ArithOp THEN {}
     ELSE IF lhs_ty = {} \/ rhs_ty = {} \/ (lhs_ty # rhs_ty /\ s.rvalue.op \notin Shifts)
     THEN {Finding("PB049", at_block, i, "gap")}
     ELSE {Finding("PB049", at_block, i, OverflowOutcome(b, s.rvalue))}
-----------------------------------------------------------------------------
(***************************************************************************)
(* PB077: the actuals of a call meet the callee's preconditions.           *)
(***************************************************************************)
\* The parameter of the caller an operand reads, if it still has its entry value.
operand_as_caller_arg(b, a) ==
  IF a.kind = "place" /\ a.proj = "none"
  THEN {l \in Params(b) \ assigned_locals(b) : l = a.local /\ LocalTy(b, l) \in IntTy} ELSE {}

\* What the callee's parameter x is at this call: a pinned constant, a linked
\* parameter of the caller, or a captured expression.
bind_callsite_param(b, spec, call, at_block, x) ==
  LET ty == spec.tys[IndexOf(spec.args, x)]
      actual == call.args[IndexOf(spec.args, x)]
      linked == operand_as_caller_arg(b, actual)
  IN IF ~Unambiguous(spec.args, x) \/ ty \notin IntTy THEN {}
     ELSE IF actual.kind = "const"
     THEN IF actual.ty = ty /\ actual.known THEN {Literal(b, actual.value)} ELSE {}
     ELSE IF linked # {}
     THEN {Parameter(b, l) : l \in {p \in linked : LocalTy(b, p) = ty}}
     ELSE capture_call_arg_expr(b, actual, at_block, ty)

\* The parameters a clause compares have one type, and its literal fits it.
WellSorted(names, tys, clause) ==
  /\ clause.kind # "raw"
  /\ \A x \in Idents(clause) : Unambiguous(names, x)
  /\ \E ty \in IntTy : /\ \A x \in Idents(clause) : tys[IndexOf(names, x)] = ty
                       /\ InRange(clause, ty)

\* The caller's own clauses that can be read as hypotheses; the rest are dropped.
caller_precondition_hypotheses(b) ==
  {c \in ToSet(b.requires) :
     WellSorted(b.args, [i \in Params(b) |-> LocalTy(b, i)], c)}

\* Variant, used only to test the properties: constant calls assume them as well.
hypotheses_always(b, linked) == caller_precondition_hypotheses(b)

\* They are assumed only where an actual depends on a parameter of the caller.
Hypotheses(b, linked) == IF linked = {} THEN {} ELSE caller_precondition_hypotheses(b)

\* Every clause of the callee must translate, over actuals that were captured.
build_callsite_precondition_smt(b, call, at_block) ==
  LET spec == Callees[call.callee]
      clauses == ToSet(spec.requires)
      names == UNION {Idents(c) : c \in clauses}
      Bound(x) == bind_callsite_param(b, spec, call, at_block, x)
      linked == UNION {c.callers : c \in UNION {Bound(x) : x \in names}}
      Actual(x) == (CHOOSE c \in Bound(x) : TRUE).value
  IN IF /\ spec.walked
        /\ \A c \in clauses : WellSorted(spec.args, spec.tys, c)
        /\ \A x \in names : Bound(x) # {}
     THEN Decide({e \in Entries(b) : \A c \in Hypotheses(b, linked) :
                                       Holds(c, [x \in Idents(c) |-> e[IndexOf(b.args, x)]])},
                 {e \in Entries(b) : \A c \in clauses : Holds(c, [x \in Idents(c) |-> Actual(x)[e]])})
     ELSE "gap"

\* Variant, used only to test the properties: a callee outside the walk is passed over.
unwalked_calls_skipped(b, call, at_block) ==
  IF Callees[call.callee].requires = <<>> \/ ~Callees[call.callee].walked THEN {}
  ELSE {Finding("PB077", at_block, 0, build_callsite_precondition_smt(b, call, at_block))}

maybe_gap_callsite_preconditions(b, call, at_block) ==
  IF Callees[call.callee].requires = <<>> THEN {}
  ELSE {Finding("PB077", at_block, 0, build_callsite_precondition_smt(b, call, at_block))}
-----------------------------------------------------------------------------
(***************************************************************************)
(* PB076: what the body returns meets its postconditions.                  *)
(***************************************************************************)
Identifiers(b) == {b.args[l] : l \in {p \in Params(b) : LocalTy(b, p) = LocalTy(b, 0)}} \ {""}

\* Variant, used only to test the properties: preconditions may speak of the result.
known_pre_with_result(b) == Identifiers(b) \cup {"result"}

known_post(b) == Identifiers(b) \cup {"result"}
known_pre(b) == Identifiers(b)

\* Preconditions speak of the parameters of the returned type; postconditions
\* of `result` too.  A clause that does not translate leaves all of it pending.
\* `effect` is the captured result.
EnsuresOutcome(b, effect) ==
  LET ty == LocalTy(b, 0)
      result == (CHOOSE c \in effect : TRUE).value
      Val(e, x) == IF x = "result" THEN result[e] ELSE e[IndexOf(b.args, x)]
  IN IF /\ effect # {}
        /\ "result" \notin ToSet(b.args)
        /\ \A c \in ToSet(b.requires) : translate_spec(c, known_pre(b), ty)
        /\ \A c \in ToSet(b.ensures) : translate_spec(c, known_post(b), ty)
     THEN Decide({e \in Entries(b) :
                    \A c \in ToSet(b.requires) : Holds(c, [x \in Idents(c) |-> Val(e, x)])},
                 {e \in Entries(b) :
                    \A c \in ToSet(b.ensures) : Holds(c, [x \in Idents(c) |-> Val(e, x)])})
     ELSE "unproven"

build_ensures_smt(b) == EnsuresOutcome(b, capture_body_effect(b))

emit_ensures_obligation(b, at_block) ==
  IF b.ensures = <<>> THEN {} ELSE {Finding("PB076", at_block, 0, build_ensures_smt(b))}
-----------------------------------------------------------------------------
(***************************************************************************)
(* visit_body.                                                             *)
(***************************************************************************)
Block(i) == body.blocks[i]
AtTerminator == at.statement > Len(Block(at.block).statements)
Statement == Block(at.block).statements[at.statement]
Terminator == Block(at.block).terminator
StartOf(block) == [block |-> block, statement |-> 1]

visit_terminator(b, i) ==
  LET t == b.blocks[i].terminator
  IN CASE t.kind = "call" -> maybe_gap_callsite_preconditions(b, t, i)
       [] t.kind = "return" -> emit_ensures_obligation(b, i)
       [] OTHER -> {}

VisitBlock ==
  /\ phase = "visit" /\ ~body.trusted /\ at.block \in DOMAIN body.blocks
  /\ report' = report
       \cup visit_terminator(body, at.block)
       \cup UNION {maybe_emit_overflow_obligation(body, at.block, i,
                                                  Block(at.block).statements[i]) :
                     i \in DOMAIN Block(at.block).statements}
  /\ at' = StartOf(at.block + 1)
  /\ UNCHANGED <<body, phase, entry, memory>>

\* A body that declares a postcondition and never returns still owes it.
Diverging == \A f \in report : f.rule # "PB076"

FinishVisit ==
  /\ phase = "visit" /\ ~body.trusted /\ at.block = Len(body.blocks) + 1
  /\ report' = report \cup IF Diverging THEN emit_ensures_obligation(body, at.block) ELSE {}
  /\ phase' = "callable" /\ at' = StartOf(1)
  /\ UNCHANGED <<body, entry, memory>>

\* A trusted body is taken at its signature.
SkipTrusted ==
  /\ phase = "visit" /\ body.trusted
  /\ phase' = "callable"
  /\ UNCHANGED <<body, at, report, entry, memory>>
-----------------------------------------------------------------------------
(***************************************************************************)
(* The compiled body, run by a caller that keeps the preconditions whose   *)
(* identifiers name parameters.                                            *)
(***************************************************************************)
Meaningful(clauses, names) ==
  {c \in ToSet(clauses) : c.kind # "raw" /\ \A x \in Idents(c) : Unambiguous(names, x)}

Permitted(b, e) ==
  \A c \in Meaningful(b.requires, b.args) : Holds(c, [x \in Idents(c) |-> e[IndexOf(b.args, x)]])

Enter ==
  /\ phase = "callable"
  /\ entry' \in {e \in Entries(body) : Permitted(body, e)}
  /\ memory' = OnEntry(body, entry')
  /\ phase' = "running"
  /\ UNCHANGED <<body, at, report>>

\* rustc refuses a body that reads a local before it is written.
Readable(a) ==
  a.kind = "place" => /\ memory[a.local] # <<>>
                      /\ a.proj = "deref" => memory[memory[a.local][1]] # <<>>
Operand(a) == OperandValue(memory, a)[1]

\* The operation about to run, and whether it is one that panics.
Operating ==
  /\ phase = "running" /\ ~AtTerminator /\ Statement.rvalue.kind = "binary"
  /\ Readable(Statement.rvalue.a) /\ Readable(Statement.rvalue.b)
AboutToPanic ==
  /\ Operating
  /\ LET r == Statement.rvalue
     IN Panics(r.op, Operand(r.a), Operand(r.b), OperandTy(body, r.a))

\* Additions and the like report overflow in a flag, or wrap when built so;
\* divisions and shifts panic where they stand.
Stopped == AboutToPanic /\ Statement.rvalue.op \in {"Div", "Rem"} \cup Shifts

\* What a statement reads, and the reference or pair it writes into, is written.
Ready(s) ==
  /\ s.rvalue.kind # "ref" => Readable(s.rvalue.a)
  /\ s.rvalue.kind = "binary" => Readable(s.rvalue.b)
  /\ s.proj # "none" => memory[s.local] # <<>>

Store(l, proj, value) ==
  memory' = [memory EXCEPT ![Target(memory, l, proj)] =
               IF proj = "field0" THEN <<value[1], @[2]>> ELSE value]

Execute ==
  /\ phase = "running" /\ ~AtTerminator /\ Ready(Statement)
  /\ IF Stopped
     THEN phase' = "panicked" /\ UNCHANGED <<at, memory>>
     ELSE /\ Store(Statement.local, Statement.proj,
                   RvalueValue(body, memory, Statement.local, Statement.rvalue))
          /\ at' = [at EXCEPT !.statement = @ + 1]
          /\ UNCHANGED phase
  /\ UNCHANGED <<body, report, entry>>

Jump ==
  /\ phase = "running" /\ AtTerminator /\ Terminator.kind \in {"goto", "switch"}
  /\ Terminator.kind = "switch" => Readable(Terminator.a)
  /\ at' = StartOf(IF Terminator.kind = "goto" THEN Terminator.target
                   ELSE Terminator.targets[IF Operand(Terminator.a) = 0 THEN 1 ELSE 2])
  /\ UNCHANGED <<body, phase, report, entry, memory>>

\* The compiler's overflow check: the flag of a checked operation must be clear.
CheckFlag ==
  /\ phase = "running" /\ AtTerminator /\ Terminator.kind = "assert" /\ Readable(Terminator.a)
  /\ IF Operand(Terminator.a) = 0
     THEN at' = StartOf(Terminator.target) /\ UNCHANGED phase
     ELSE phase' = "panicked" /\ UNCHANGED at
  /\ UNCHANGED <<body, report, entry, memory>>

Calling ==
  /\ phase = "running" /\ AtTerminator /\ Terminator.kind = "call"
  /\ \A i \in DOMAIN Terminator.args : Readable(Terminator.args[i])

\* A callee may return anything of its type.
CallReturns ==
  /\ Calling
  /\ \E v \in Scalars(LocalTy(body, Terminator.local)) : Store(Terminator.local, "none", <<v>>)
  /\ at' = StartOf(Terminator.target)
  /\ UNCHANGED <<body, phase, report, entry>>

Returning ==
  phase = "running" /\ AtTerminator /\ Terminator.kind = "return" /\ memory[0] # <<>>

Return ==
  /\ Returning
  /\ phase' = "returned"
  /\ UNCHANGED <<body, at, report, entry, memory>>

\* A body no caller may enter, or one that has ended.
Over ==
  /\ \/ phase \in {"returned", "panicked"}
     \/ phase = "callable" /\ ~\E e \in Entries(body) : Permitted(body, e)
  /\ UNCHANGED vars

Init ==
  /\ body \in Bodies
  /\ phase = "visit" /\ at = StartOf(1) /\ report = {}
  /\ entry = <<>> /\ memory = <<>>

Visitor == VisitBlock \/ FinishVisit \/ SkipTrusted
Machine == Enter \/ Execute \/ Jump \/ CheckFlag \/ CallReturns \/ Return
Next == Visitor \/ Machine \/ Over
Spec == Init /\ [][Next]_vars
-----------------------------------------------------------------------------
TypeOK ==
  /\ phase \in Phase
  /\ at \in [block : 1..(Len(body.blocks) + 1), statement : Nat \ {0}]
  /\ report \subseteq [rule : {"PB049", "PB076", "PB077"}, block : 1..(Len(body.blocks) + 1),
                       statement : Nat, outcome : Outcome]
  /\ phase \in {"visit", "callable"} => entry = <<>> /\ memory = <<>>
  /\ phase \notin {"visit", "callable"} =>
       /\ entry \in Entries(body)
       /\ \A l \in Locals(body) :
            LocalTy(body, l) \in IntTy /\ memory[l] # <<>> => memory[l][1] \in Values(LocalTy(body, l))

Discharged(rule, block, statement) == Finding(rule, block, statement, "discharged") \in report

\* Raw clauses speak of the operands of every operation, which are taken to be
\* values of the left one's type; here they are kept.
RawClausesHold ==
  LET r == Statement.rvalue
  IN \A c \in ToSet(body.requires) :
       c.kind = "raw" => /\ Operand(r.b) \in Values(OperandTy(body, r.a))
                         /\ RawHolds(c, Operand(r.a), Operand(r.b))

CalleeHolds ==
  LET spec == Callees[Terminator.callee]
  IN \A c \in Meaningful(spec.requires, spec.args) :
       Holds(c, [x \in Idents(c) |-> Operand(Terminator.args[IndexOf(spec.args, x)])])

(* An arithmetic operation whose PB049 obligation was discharged never panics,
   and a call whose PB077 obligation was discharged passes actuals that meet the
   callee's preconditions, whatever path the run took to it and whatever was
   assigned on the way (maybe_emit_overflow_obligation binds the preconditions
   to operands, build_callsite_precondition_smt the captured arguments). *)
DischargedOperationsHold ==
  /\ Operating /\ Discharged("PB049", at.block, at.statement) /\ RawClausesHold => ~AboutToPanic
  /\ Calling /\ Discharged("PB077", at.block, 0) => CalleeHolds

ReturnHolds ==
  \A c \in Meaningful(body.ensures, <<"result">> \o body.args) :
    Holds(c, [x \in Idents(c) |-> IF x = "result" THEN memory[0][1] ELSE entry[IndexOf(body.args, x)]])

(* A return whose PB076 obligation was discharged returns a value that meets
   the postconditions, in terms of the parameters on entry (build_ensures_smt);
   and there are such runs: a contradictory contract proves nothing, and no
   precondition about the result makes one hold (the consistency problem). *)
DischargedReturnsHold ==
  /\ Returning /\ Discharged("PB076", at.block, 0) => ReturnHolds
  /\ (\E f \in report : f.rule = "PB076" /\ f.outcome = "discharged") =>
       \E e \in Entries(body) : Permitted(body, e)

Accepted == ~body.trusted /\ \A f \in report : f.outcome = "discharged"
HasRaw == \E c \in ToSet(body.requires) : c.kind = "raw"

(* Nothing is passed over: a body with no gap and no open obligation never
   panics, calls no function against its contract and returns nothing against
   its own (visit_body reaches every operation, call and return). *)
AcceptedBodyNeverFails ==
  Accepted /\ ~HasRaw =>
    /\ phase # "panicked"
    /\ ~AboutToPanic
    /\ Calling => CalleeHolds
    /\ Returning => ReturnHolds

\* The calls of the body whose clauses are all over constants of the right type.
ConstantCalls ==
  {i \in DOMAIN body.blocks :
     /\ Block(i).terminator.kind = "call"
     /\ LET t == Block(i).terminator
            spec == Callees[t.callee]
        IN /\ spec.walked /\ spec.requires # <<>>
           /\ \A c \in ToSet(spec.requires) :
                /\ WellSorted(spec.args, spec.tys, c)
                /\ \A x \in Idents(c) :
                     LET i_x == IndexOf(spec.args, x)
                         a == t.args[i_x]
                     IN a.kind = "const" /\ a.known /\ a.ty = spec.tys[i_x]}

(* A call with constant arguments is decided, and decided right: it is never
   left as a gap, and it is discharged exactly if the constants meet the
   contract, whatever the caller's own clauses say. *)
ConstantCallsDecided ==
  phase = "callable" /\ ~body.trusted =>
    \A i \in ConstantCalls :
      LET t == Block(i).terminator
          spec == Callees[t.callee]
          met == \A c \in ToSet(spec.requires) :
                   Holds(c, [x \in Idents(c) |-> t.args[IndexOf(spec.args, x)].value])
      IN Finding("PB077", i, 0, IF met THEN "discharged" ELSE "unproven") \in report
=============================================================================
