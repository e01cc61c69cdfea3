------------------------------ MODULE Capture ------------------------------
(***************************************************************************)
(* How the visitor captures the value a body computes (visitor.rs): the    *)
(* straight chain of blocks it walks from bb0, the expressions it keeps    *)
(* for the locals on the way, and the two questions it answers with them,  *)
(* what the body returns and what a call is passed.                        *)
(*                                                                         *)
(* A captured expression is kept by its meaning: its value for every entry *)
(* of the body, and the parameters it mentions.  Where the code returns an *)
(* Option, an operator here returns a set of at most one expression.       *)
(***************************************************************************)
EXTENDS SpecClause

Literal(body, v) == [value |-> [e \in Entries(body) |-> v], callers |-> {}]
Parameter(body, i) == [value |-> [e \in Entries(body) |-> e[i]], callers |-> {i}]

\* Every local the body writes: bases of assigned places, call destinations.
assigned_locals(body) ==
  UNION {{s.local : s \in ToSet(b.statements)}
           \cup (IF b.terminator.kind = "call" THEN {b.terminator.local} ELSE {}) :
         b \in ToSet(body.blocks)}

\* A switch that names a block twice counts twice.
block_in_edge_counts(body) ==
  LET Successors(b) == terminator_successors(body.blocks[b].terminator)
      edges == UNION {{b} \X DOMAIN Successors(b) : b \in DOMAIN body.blocks}
  IN [target \in DOMAIN body.blocks |->
        Cardinality({x \in edges : Successors(x[1])[x[2]] = target})]

\* Variant, used only to test the properties: a reassigned parameter keeps its name.
name_survives_assignment(body, l) ==
  IF l \in Params(body) /\ body.args[l] # "" THEN {body.args[l]} ELSE {}

\* The name that ties an operand to the entry value of a parameter.
local_arg_name(body, l) ==
  IF l \in Params(body) \ assigned_locals(body) /\ body.args[l] # "" THEN {body.args[l]} ELSE {}

operand_arg_name(body, a) ==
  IF a.kind = "place" /\ a.proj = "none" THEN local_arg_name(body, a.local) ELSE {}

operand_primitive_int_name(body, a) ==
  IF a.kind = "place" /\ a.proj # "none" THEN {} ELSE {OperandTy(body, a)} \cap IntTy
-----------------------------------------------------------------------------
(***************************************************************************)
(* One statement.  `state` maps every local to the expression it holds and *)
(* to the one its `.0` holds, if it is a checked result.                   *)
(***************************************************************************)
capture_operand(body, a, state, ty) ==
  CASE a.kind = "const" -> IF a.known /\ a.ty = ty THEN {Literal(body, a.value)} ELSE {}
    [] a.kind = "place" /\ a.proj = "none" ->
         IF LocalTy(body, a.local) = ty THEN state.env[a.local] ELSE {}
    [] a.kind = "place" /\ a.proj = "field0" -> state.checked[a.local]
    [] OTHER -> {}

\* A shift amount may be a constant of another type, cut to the value's width.
capture_shift_amount(body, a, state, ty) ==
  IF a.kind = "const"
  THEN IF a.known THEN {Literal(body, Wrap(a.value, ty))} ELSE {}
  ELSE capture_operand(body, a, state, ty)

capture_rvalue(body, r, state, ty) ==
  CASE r.kind = "use" -> capture_operand(body, r.a, state, ty)
    [] r.kind = "binary" /\ r.op \in ArithOp ->
         LET rhs == IF r.op \in Shifts THEN capture_shift_amount(body, r.b, state, ty)
                                       ELSE capture_operand(body, r.b, state, ty)
         IN {[value |-> [e \in Entries(body) |-> Computed(r.op, x.value[e], y.value[e], ty)],
              callers |-> x.callers \cup y.callers] :
               x \in capture_operand(body, r.a, state, ty), y \in rhs}
    [] OTHER -> {}

\* A write through a projection forgets the local it goes through.
CaptureStatement(body, state, s, ty) ==
  LET captured == IF s.proj = "none" THEN capture_rvalue(body, s.rvalue, state, ty) ELSE {}
  IN [state EXCEPT !.env[s.local] = captured, !.checked[s.local] = captured]

\* The captured state in a block, after each of its statements.
BlockStates(body, at, start, ty) ==
  LET statements == body.blocks[at].statements
      after[j \in 0..Len(statements)] ==
        IF j = 0 THEN start ELSE CaptureStatement(body, after[j - 1], statements[j], ty)
  IN after

AfterBlock(body, at, start, ty) ==
  BlockStates(body, at, start, ty)[Len(body.blocks[at].statements)]

\* The parameters hold their entry values; no local holds a checked result.
Seeded(body, seeds) ==
  [env |-> [l \in Locals(body) |-> IF l \in seeds THEN {Parameter(body, l)} ELSE {}],
   checked |-> [l \in Locals(body) |-> {}]]
-----------------------------------------------------------------------------
(***************************************************************************)
(* The walk.  Goto and Assert are followed, to an admitted block not seen  *)
(* before, until a block of `ends`; anything else abandons the capture.    *)
(***************************************************************************)
WalkBlock(body, walk, ends, admitted, ty) ==
  LET state == AfterBlock(body, walk.at, walk.state, ty)
      t == body.blocks[walk.at].terminator
  IN IF walk.at \in walk.visited THEN [walk EXCEPT !.status = "abandoned"]
     ELSE IF walk.at \in ends THEN [walk EXCEPT !.status = "ended", !.state = state]
     ELSE IF t.kind \in {"goto", "assert"} /\ t.target \in admitted
     THEN [walk EXCEPT !.at = t.target, !.visited = @ \cup {walk.at}, !.state = state]
     ELSE [walk EXCEPT !.status = "abandoned"]

\* The walk after each block; every block is seen once at most.
ChainWalk(body, seeds, ends, admitted, ty) ==
  LET walk[k \in 0..(Len(body.blocks) + 1)] ==
        IF k = 0
        THEN [status |-> "walking", at |-> 1, visited |-> {}, state |-> Seeded(body, seeds)]
        ELSE IF walk[k - 1].status = "walking"
             THEN WalkBlock(body, walk[k - 1], ends, admitted, ty)
             ELSE walk[k - 1]
  IN walk

WalkEnd(body, seeds, ends, admitted, ty) ==
  ChainWalk(body, seeds, ends, admitted, ty)[Len(body.blocks) + 1]

\* What the body returns: the chain must close with a Return.
capture_body_effect(body) ==
  LET ty == LocalTy(body, 0)
      seeds == {l \in Params(body) : body.args[l] # "" /\ LocalTy(body, l) = ty}
      returns == {b \in DOMAIN body.blocks : body.blocks[b].terminator.kind = "return"}
      walk == WalkEnd(body, seeds, returns, DOMAIN body.blocks, ty)
  IN IF ty \in IntTy /\ walk.status = "ended" THEN walk.state.env[0] ELSE {}

NamedParams(body) == {l \in Params(body) : body.args[l] # ""}

\* Variant, used only to test the properties: a merge point is walked through.
capture_through_merges(body, a, call_block, ty) ==
  LET walk == WalkEnd(body, NamedParams(body), {call_block}, DOMAIN body.blocks, ty)
  IN IF walk.status = "ended" /\ operand_primitive_int_name(body, a) = {ty}
     THEN walk.state.env[a.local] ELSE {}

\* What a call in block call_block is passed: the chain stops inside the body,
\* so nothing else may lead into any of its blocks.
capture_call_arg_expr(body, a, call_block, ty) ==
  LET in_edges == block_in_edge_counts(body)
      only_way == {b \in DOMAIN body.blocks : in_edges[b] = 1}
      walk == WalkEnd(body, NamedParams(body), {call_block}, only_way, ty)
  IN IF /\ in_edges[1] = 0
        /\ walk.status = "ended"
        /\ a.kind = "place"
        /\ operand_primitive_int_name(body, a) = {ty}
     THEN walk.state.env[a.local] ELSE {}
=============================================================================
