------------------------------ MODULE Worklist ------------------------------
(***************************************************************************)
(* Walking the items of a program with one SubsetVisitor.                  *)
(*                                                                         *)
(* Three callers drive it.  The ReachabilityDriver (reachability.rs) takes *)
(* items off a stack, from the roots, and pushes what each body refers to. *)
(* The compiler wrapper (pitbull-rustc.rs) goes over all local items and   *)
(* installs the contracts of each body before visiting it.  The third is   *)
(* the caller the visitor guards against: a driver that installs contracts *)
(* only for bodies that have some, and leaves it at that.                  *)
(*                                                                         *)
(* A visit to one body is one step: the visitor is not reentrant.          *)
(***************************************************************************)
EXTENDS StdLibrary, Visitor

CONSTANTS Programs,   \* items, roots, exclusions
          Configs     \* strict_panic, strict_library and the stack limit

\* Functions refer to items of their program, and have bodies made of its types.
ValidItem(item, items) ==
  \/ /\ item.kind = "fn" /\ item.refs \in Seq(items) /\ ValidBody(item.body)
     /\ {item.trusted, item.available, item.requires, item.ensures} \subseteq BOOLEAN
  \/ item.kind \in {"static", "const"} /\ item.types \subseteq Types

ValidProgram(p) ==
  LET items == DOMAIN p.items
  IN /\ None \notin items
     /\ \A i \in items : ValidItem(p.items[i], items)
     /\ p.roots \in Seq(items)
     /\ p.callers \subseteq {"driver", "wrapper", "forgetful"}

\* The largest limit a u64 holds is no limit.
ASSUME WorklistAssumption ==
  /\ \A p \in Programs : ValidProgram(p)
  /\ \A c \in Configs :
       /\ c.target_pointer_width \in Nat /\ c.target_pointer_width >= 8
       /\ c.stack_allocation_limit_bytes \in 0..(u64_max - 1)

VARIABLES program, config, caller,
          worklist,     \* the items still to take up; the last one is next
          visited,
          contracts,    \* whose requires and ensures the visitor has installed
          unavailable,  \* functions whose body could not be had
          report,       \* what has been recorded
          done

vars == <<program, config, caller, worklist, visited, contracts, unavailable, report, done>>

Items == DOMAIN program.items
Item(i) == program.items[i]

NoContracts == [requires |-> None, ensures |-> None]

Site(at, block, index) == [at |-> at, block |-> block, index |-> index]
Finding(i, site, result, under) ==
  [item |-> i, site |-> site, rule |-> result.rule, outcome |-> result.outcome, under |-> under]

\* Obligations over values carry the preconditions that are installed.
Assumes(result, installed) ==
  IF result.outcome = "obligation" /\ result.rule \in {"PB043", "PB049", "PB054"}
  THEN installed.requires ELSE None

At(i, site, results, installed) ==
  {Finding(i, site, r, Assumes(r, installed)) : r \in results}
-----------------------------------------------------------------------------
(***************************************************************************)
(* visit_body.                                                             *)
(***************************************************************************)
LocalRules(t) ==
  visit_ty[ty[t]] \cup IF exceeds_stack_limit(ty[t], config) THEN {"PB020"} ELSE {}

SignatureFindings(i, body, installed) ==
  At(i, Site("body", 0, 0),
     Errors((IF body.is_unsafe THEN {"PB002"} ELSE {}) \cup (IF body.is_async THEN {"PB026"} ELSE {})),
     installed)
  \cup At(i, Site("ret", 0, 0), Errors(visit_ty[ty[body.ret]]), installed)
  \cup (UNION {At(i, Site("arg", 0, k), Errors(visit_ty[ty[body.args[k]]]), installed) :
               k \in DOMAIN body.args})
  \cup UNION {At(i, Site("local", 0, k), Errors(LocalRules(body.locals[k])), installed) :
              k \in DOMAIN body.locals}

BlockFindings(i, b, body, installed) ==
  LET block == body.blocks[b]
  IN At(i, Site("term", b, 0),
        visit_terminator(terminator_kind(block.terminator), i, config), installed)
     \cup UNION {At(i, Site("stmt", b, k), visit_statement(block.statements[k], body), installed) :
                 k \in DOMAIN block.statements}

\* Variant, used only to test the properties: postconditions are looked at where
\* the body returns, and nowhere else.
ensures_at_returns(returns) == returns

\* One obligation per return, or one for the whole body if it never returns.
EnsuresSites(returns) == IF returns = {} THEN {Site("body", 0, 0)} ELSE returns

EnsuresFindings(i, body, installed) ==
  LET returns == {Site("term", b, 0) : b \in {c \in DOMAIN body.blocks :
                                                body.blocks[c].terminator.k = "return"}}
  IN IF installed.ensures = None THEN {}
     ELSE {Finding(i, s, Obligation("PB076"), installed.ensures) : s \in EnsuresSites(returns)}

\* A trusted body is not looked into: its postconditions are assumed, and noted.
visit_body(i, installed) ==
  LET body == Item(i).body
  IN SignatureFindings(i, body, installed)
     \cup IF Item(i).trusted
          THEN IF installed.ensures = None THEN {}
               ELSE {Finding(i, Site("body", 0, 0), Result("PB076", "note"), installed.ensures)}
          ELSE EnsuresFindings(i, body, installed)
               \cup UNION {BlockFindings(i, b, body, installed) : b \in DOMAIN body.blocks}

\* Variant, used only to test the properties: only the exit of a body that is
\* walked to its end clears what was installed for it.
clear_at_the_end(trusted, installed) == IF trusted THEN installed ELSE NoContracts

\* Both exits of visit_body clear what was installed for it.
clear_per_body_state(trusted, installed) == NoContracts

\* set_current_preconditions and set_current_ensures, as each caller uses them.
set_current_contracts(i) ==
  LET own == [requires |-> IF Item(i).requires THEN i ELSE None,
              ensures |-> IF Item(i).ensures THEN i ELSE None]
  IN CASE caller = "wrapper" -> own
       [] caller = "forgetful" -> IF own = NoContracts THEN contracts ELSE own
       [] caller = "driver" -> contracts
-----------------------------------------------------------------------------
(***************************************************************************)
(* The walk.                                                               *)
(***************************************************************************)
TypeOK ==
  /\ config \in Configs
  /\ caller \in {"driver", "wrapper", "forgetful"}
  /\ worklist \in Seq(Items) /\ visited \subseteq Items /\ unavailable \subseteq visited
  /\ contracts = NoContracts
  /\ \A f \in report :
       /\ f.item \in visited /\ f.under \in Items \cup {None}
       /\ f.outcome \in {"error", "obligation", "gap", "note"}
       /\ f.outcome = "gap" \/ f.rule # ""
  /\ done \in BOOLEAN

Init ==
  /\ program \in Programs
  /\ config \in Configs
  /\ caller \in program.callers
  /\ worklist = program.roots
  /\ visited = {} /\ contracts = NoContracts /\ unavailable = {} /\ report = {}
  /\ done = FALSE

IsExcluded(i) == i \in program.exclude

\* The item taken off the stack.
Popped == worklist[Len(worklist)]

\* Variant, used only to test the properties: the item is looked at, not taken off.
left_in_place == worklist

Rest == Front(worklist)

\* The items that have not been visited, in order.
Unseen(refs, seen) ==
  LET kept[n \in 0..Len(refs)] ==
        IF n = 0 THEN <<>>
        ELSE IF refs[n] \in seen THEN kept[n - 1] ELSE Append(kept[n - 1], refs[n])
  IN kept[Len(refs)]

\* Variant, used only to test the properties: trust stops at the body itself.
whatever_it_calls(i, seen) == IF caller = "wrapper" THEN <<>> ELSE Unseen(Item(i).refs, seen)

Pushed(i, seen) ==
  IF Item(i).trusted \/ caller = "wrapper" THEN <<>> ELSE Unseen(Item(i).refs, seen)

Skip ==
  /\ worklist # <<>>
  /\ Popped \in visited \/ IsExcluded(Popped)
  /\ worklist' = Rest
  /\ UNCHANGED <<program, config, caller, visited, contracts, unavailable, report, done>>

TakeUp ==
  /\ worklist # <<>> /\ Popped \notin visited /\ ~IsExcluded(Popped)
  /\ visited' = visited \cup {Popped}
  /\ UNCHANGED <<program, config, caller, done>>

BodyUnavailable ==
  /\ TakeUp
  /\ Item(Popped).kind = "fn" /\ ~Item(Popped).available
  /\ unavailable' = unavailable \cup {Popped}
  /\ worklist' = Rest
  /\ UNCHANGED <<contracts, report>>

VisitFunction ==
  /\ TakeUp
  /\ Item(Popped).kind = "fn" /\ Item(Popped).available
  /\ LET installed == set_current_contracts(Popped)
     IN /\ report' = report \cup visit_body(Popped, installed)
        /\ contracts' = clear_per_body_state(Item(Popped).trusted, installed)
  /\ worklist' = Rest \o Pushed(Popped, visited')
  /\ UNCHANGED unavailable

\* A static or const contributes its type, if the provider has it.
VisitGlobal ==
  /\ TakeUp
  /\ Item(Popped).kind \in {"static", "const"}
  /\ LET types == Item(Popped).types
         results == IF Item(Popped).kind = "const" THEN visit_const_item(types)
                    ELSE visit_static_item(Item(Popped).mutable, types)
     IN report' = report \cup At(Popped, Site("item", 0, 0), results, contracts)
  /\ worklist' = Rest
  /\ UNCHANGED <<contracts, unavailable>>

\* The bodies that could not be had become gaps when the walk is over.
Finish ==
  /\ worklist = <<>> /\ ~done
  /\ report' = report \cup {Finding(i, Site("item", 0, 0), Gap, None) : i \in unavailable}
  /\ done' = TRUE
  /\ UNCHANGED <<program, config, caller, worklist, visited, contracts, unavailable>>

Next == Skip \/ BodyUnavailable \/ VisitFunction \/ VisitGlobal \/ Finish

\* One thread runs the loop to its end.
Spec == Init /\ [][Next]_vars /\ WF_vars(Next)
-----------------------------------------------------------------------------
(***************************************************************************)
(* What a program does, read off its items and not off the report.         *)
(***************************************************************************)
IsWalkedFn(i) == Item(i).kind = "fn" /\ Item(i).available /\ ~IsExcluded(i)
Untrusted(i) == IsWalkedFn(i) /\ ~Item(i).trusted

\* The least set that holds the roots, and what its untrusted functions refer to.
Closure(roots) ==
  {i \in Items :
     \A S \in SUBSET Items :
       roots \subseteq S /\ (\A j \in S : Untrusted(j) => ToSet(Item(j).refs) \subseteq S) => i \in S}

Blocks(i) == Item(i).body.blocks
StatementSites(i) ==
  UNION {{Site("stmt", b, k) : k \in DOMAIN Blocks(i)[b].statements} : b \in DOMAIN Blocks(i)}
StatementAt(i, s) == Blocks(i)[s.block].statements[s.index]
TerminatorSites(i) == {Site("term", b, 0) : b \in DOMAIN Blocks(i)}
TerminatorAt(i, s) == Blocks(i)[s.block].terminator
Assigned(i) == {s \in StatementSites(i) : StatementAt(i, s).k = "assign"}
Calls(i) == {s \in TerminatorSites(i) : TerminatorAt(i, s).k = "call"}

\* What a statement or terminator mentions, with the rvalue it assigns.
Mentions(i, s) ==
  IF s.at = "term" THEN {TerminatorAt(i, s)}
  ELSE {StatementAt(i, s)} \cup IF s \in Assigned(i) THEN {StatementAt(i, s).rvalue} ELSE {}
OperandsOf(i, s) == UNION {ToSet(m.ops) : m \in Mentions(i, s)}
PlacesOf(i, s) ==
  {o.place : o \in {x \in OperandsOf(i, s) : x.k \in {"copy", "move"}}}
  \cup UNION {ToSet(m.places) : m \in Mentions(i, s)}
\* Operands without the callee of a call, which is not a value.
Arguments(m) == ToSet(IF m.k = "call" THEN Tail(m.ops) ELSE m.ops)
TypesOf(i, s) ==
  (UNION {ToSet(m.types) : m \in Mentions(i, s)})
  \cup UNION {{o.ty : o \in {x \in Arguments(m) : x.k = "const"}} : m \in Mentions(i, s)}
BodySites(i) == StatementSites(i) \cup TerminatorSites(i)

TypeOfOperand(o) == IF o.k = "const" THEN o.ty ELSE o.place.ty

MayOverflow(r) ==
  \/ /\ r.k \in {"binary", "checked_binary"}
     /\ r.detail \in ArithOp \cup {"AddUnchecked", "SubUnchecked", "MulUnchecked", "ShlUnchecked",
                                   "ShrUnchecked"}
     /\ TypeOfOperand(r.ops[1]).k \in {"int", "uint"}
  \/ r.k = "unary" /\ r.detail = "Neg" /\ TypeOfOperand(r.ops[1]).k = "int"

Indexes(place) ==
  \E n \in DOMAIN place.proj : place.proj[n].k \in {"index", "constant_index", "subslice"}

\* Calls that can panic, as far as the configuration is meant to see them: the
\* opt-out from strict_library gives up those that no matcher names.
Unlisted == {"RefCell", "ops"}
CallsForTrouble(o) ==
  o.k = "const" /\ MayPanic(o.path) /\ (config.strict_library \/ o.path.anchor \notin Unlisted)

\* Where a body can go wrong at run time, and the rule that is about it.
RiskySites(i) ==
  {<<s, "PB049">> : s \in {x \in Assigned(i) : MayOverflow(StatementAt(i, x).rvalue)}}
  \cup {<<s, "PB054">> : s \in {x \in BodySites(i) : \E p \in PlacesOf(i, x) : Indexes(p)}}
  \cup {<<s, "PB043">> : s \in {x \in Calls(i) : CallsForTrouble(TerminatorAt(i, x).ops[1])}}
  \cup {<<s, "PB041">> : s \in {x \in Calls(i) : /\ TerminatorAt(i, x).ops[1].k = "const"
                                               /\ TerminatorAt(i, x).ops[1].item = i}}

\* Types the subset has no place for, and the rule of those that are library types.
StdRules(t) == {s.rule : s \in {x \in StdTypes : t.name \in x.names /\ x.rule # ""}}
Outside(t) ==
  CASE t.k = "adt" -> t.is_union \/ (t.root \in {"core", "std", "alloc"} /\ StdRules(t) # {})
    [] OTHER -> t.k \in {"float", "raw_ptr", "fn_ptr", "closure", "coroutine", "coroutine_closure",
                         "coroutine_witness", "dynamic", "bound", "alias", "param", "foreign"}

\* The library types of the programs are those of StdTypes, and no crate is named
\* like the adapter's placeholders.
KnownTypes ==
  \A t \in Types : t.k = "adt" =>
    /\ t.root # "__pitbull"
    /\ IsStdlibRoot(t.root) => \E s \in StdTypes : t.name \in s.names

\* Likewise the library calls; and Mir has an integer type of either signedness.
KnownCalls ==
  /\ {Signed(t) : t \in IntTy} = BOOLEAN
  /\ \A p \in Programs : \A i \in DOMAIN p.items : p.items[i].kind = "fn" =>
       \A b \in DOMAIN p.items[i].body.blocks :
         LET t == p.items[i].body.blocks[b].terminator
         IN t.k = "call" /\ t.ops[1].k = "const" /\ is_stdlib_namespace_path(t.ops[1].path) =>
              t.ops[1].path \in StdCalls \cup Forbidden

SignatureTypes(i) ==
  LET body == Item(i).body
  IN {<<Site("arg", 0, k), body.args[k]>> : k \in DOMAIN body.args}
     \cup {<<Site("ret", 0, 0), body.ret>>}
     \cup {<<Site("local", 0, k), body.locals[k]>> : k \in DOMAIN body.locals}
BodyTypes(i) == UNION {{s} \X TypesOf(i, s) : s \in BodySites(i)}

\* Constructs the subset has no place for: raw pointers, threads' own state,
\* unsafe intrinsics, lossy casts, captures, unwinding, assembly.
OutsideConstruct(x) ==
  \/ x.k \in {"address_of", "thread_local_ref", "shallow_init_box", "retag", "copy_nonoverlapping",
              "resume", "abort", "inline_asm", "tail_call", "yield", "coroutine_drop",
              "false_edge", "false_unwind"}
  \/ x.k = "aggregate" /\ x.detail \in {"closure", "coroutine", "coroutine_closure", "raw_ptr"}
  \/ x.k = "cast" /\ x.detail \notin {"int_to_int", "pointer_coercion", "subtype"}
  \/ x.k = "binary" /\ x.detail = "Offset"
  \/ x.k = "assert" /\ x.detail = "MisalignedPointerDereference"
  \/ x.k = "call" /\ TypeOfOperand(x.ops[1]).k # "fn_def"
-----------------------------------------------------------------------------
(***************************************************************************)
(* Properties.                                                             *)
(***************************************************************************)
Recorded(i, site, outcomes) ==
  {f.rule : f \in {x \in report : x.item = i /\ x.site = site /\ x.outcome \in outcomes}}
Errors_at(i, site) == Recorded(i, site, {"error"}) \ {"PB020"}

VisitedFns == {i \in visited : IsWalkedFn(i)}

\* The driver covers the closure of its roots, and nothing else: every function
\* that can be called is visited, unless it is excluded, lies behind a trusted
\* body, or is reported as a gap because its body could not be had.
ReachableIsCovered ==
  done /\ caller # "wrapper" =>
    /\ visited = Closure(ToSet(program.roots)) \ program.exclude
    /\ \A i \in visited : Item(i).kind = "fn" /\ ~Item(i).available =>
         "" \in Recorded(i, Site("item", 0, 0), {"gap"})

\* Whatever the standard library or the hardware can refuse at run time leaves
\* a trace in the report, at the place where it can happen: arithmetic that
\* overflows, indexing, library calls that panic on some argument, recursion.
RiskySitesReported ==
  done => \A i \in VisitedFns : Untrusted(i) =>
    \A x \in RiskySites(i) :
      Recorded(i, x[1], {"error", "obligation", "gap"}) \cap {x[2], ""} # {}

\* A type is judged by its parts: it is rejected, at any position and depth and
\* under any of the paths a library type is rendered with, exactly when some
\* part of it is outside the subset.  A construct that is outside is rejected.
OutsideIsReported ==
  done => \A i \in VisitedFns :
    /\ \A x \in SignatureTypes(i) :
         /\ (Errors_at(i, x[1]) # {}) <=> \E t \in Parts[x[2]] : Outside(t)
         /\ \A t \in Parts[x[2]] : t.k = "adt" /\ ~t.is_union /\ Outside(t) =>
              StdRules(t) \subseteq Errors_at(i, x[1])
    /\ Untrusted(i) =>
         /\ \A x \in BodyTypes(i) :
              (\E t \in Parts[x[2]] : Outside(t)) => Errors_at(i, x[1]) # {}
         /\ \A s \in BodySites(i) : \A m \in Mentions(i, s) :
              OutsideConstruct(m) => Recorded(i, s, {"error", "gap"}) # {}

\* An integer cast that is let through keeps the value it is applied to.
AcceptedCastsKeepTheValue ==
  done => \A i \in VisitedFns : Untrusted(i) =>
    \A s \in Assigned(i) :
      LET r == StatementAt(i, s).rvalue
      IN r.k = "cast" /\ r.detail = "int_to_int" /\ "PB051" \notin Errors_at(i, s) =>
           r.ops[1].k = "const" /\ \A v \in r.ops[1].value : Cast(v, r.types[1]) = v

\* A contract serves the body it was installed for, whichever caller drives the
\* visitor: an obligation never assumes what the contract of another body says,
\* nor does it lose its own; and a postcondition comes out of the visit, as an
\* obligation or, for a trusted body, as a note - also if the body never returns.
ContractsServeTheirBody ==
  /\ \A f \in report :
       /\ f.under \in {None, f.item}
       /\ (caller # "driver" /\ Item(f.item).requires /\ f.outcome = "obligation"
            /\ f.rule \in {"PB043", "PB049", "PB054"}) => f.under = f.item
  /\ done /\ caller # "driver" => \A i \in VisitedFns : Item(i).ensures =>
       \E f \in report : /\ f.item = i /\ f.rule = "PB076" /\ f.under = i
                         /\ f.outcome = IF Item(i).trusted THEN "note" ELSE "obligation"

PtrBytes == config.target_pointer_width \div 8
LayoutSize(t) == Layout(t, PtrBytes).size

\* The stack limit is applied between two bounds.  A local made of numbers, thin
\* pointers, arrays and tuples that is larger than the limit even without padding
\* is rejected, however large it is, and so is an array whose length cannot be
\* evaluated.  Conversely "the estimator never returns a size larger than the
\* actual layout": a local that is rejected for its size really is larger than
\* the limit.  (Function items have no size, and are counted as pointers.)
StackLimitKept ==
  done => \A i \in VisitedFns : \A k \in DOMAIN Item(i).body.locals :
    LET t == Item(i).body.locals[k]
        rejected == "PB020" \in Recorded(i, Site("local", 0, k), {"error"})
        sized(u) == HasLayout(u) /\ Kind("never") \notin Held[u]
    IN /\ \/ sized(t) /\ Bulk(t, PtrBytes) > config.stack_allocation_limit_bytes
          \/ t.k = "array" /\ t.len = Unevaluated /\ sized(t.of) /\ Bulk(t.of, PtrBytes) > 0
          => rejected
       /\ HasLayout(t) /\ Kind("fn_def") \notin Held[t] /\ rejected =>
            LayoutSize(t) > config.stack_allocation_limit_bytes

\* The walk ends, whatever cycles the program's references have.
WalkEnds == <>done
=============================================================================
