----------------------------- MODULE MCReachGate -----------------------------
(***************************************************************************)
(* Finite instances of ReachGate for TLC: a crate of four functions - an   *)
(* entry point, a helper, an impl of a trait method and a Drop impl.       *)
(***************************************************************************)
EXTENDS ReachGate

Fn(name, trait) == [crate |-> "demo", name |-> name, trait |-> trait]
Work == [crate |-> "demo", method |-> "Work::run"]
DropTrait == [crate |-> "core", method |-> "Drop::drop"]

entry  == Fn("entry", NoTrait)
helper == Fn("helper", NoTrait)
run    == Fn("Calc::run", Work)
other  == Fn("Spare::run", Work)
drop   == Fn("Calc::drop", DropTrait)

Call(from, to, how) == [from |-> from, to |-> to, how |-> how]

\* Every way one function of the set may reach another.
Edges(items, drops) ==
  {Call(f, g, how) : f \in items, g \in items \ drops, how \in {"call", "argument", "indirect"}}
    \cup {Call(f, g, "drop") : f \in items, g \in drops}

Pairs(S) == {{}} \cup {{a, b} : a, b \in S}

Four == {entry, helper, run, drop}
Clean(items) == [f \in items |-> "none"]
Defects(items, at, kinds) ==
  {Clean(items)} \cup {[Clean(items) EXCEPT ![f] = k] : f \in at, k \in kinds}

\* The reachability question, for a crate with the Drop impl and one without:
\* two edges, at most one defect, no specs.
NoLoop == {c \in Edges(Four, {drop}) : c.from # c.to /\ c.to # entry}
GraphsOver(items, drops) ==
  {[items |-> items, drops |-> drops, calls |-> calls, misused |-> {},
    defect |-> defect, trusted |-> trusted, requires |-> {}, ensures |-> {}] :
     calls \in Pairs({c \in NoLoop : c.from \in items /\ c.to \in items}),
     defect \in Defects(items, items \ {entry}, {"violation"}),
     trusted \in {{}, {helper}, {run}, {Rendered(run)}}}
Graphs == GraphsOver(Four, {drop}) \cup GraphsOver(Four \ {drop}, {})

\* The specification question: one call, preconditions and postconditions on
\* either kind of function, and one defect of every kind.
Pair == {entry, helper, run}
SpecifiedBy(c) ==
  {[items |-> Pair, drops |-> {}, calls |-> {c}, misused |-> misused,
    defect |-> defect, trusted |-> trusted, requires |-> requires, ensures |-> ensures] :
     misused \in {{}, {c}}, defect \in Defects(Pair, Pair, Finding),
     trusted \in {{}, {helper}}, requires \in {{}, {helper}, {run}},
     ensures \in {{}, {run}}}
Specified ==
  UNION {SpecifiedBy(c) : c \in {d \in NoLoop : /\ d.from = entry /\ d.to \in Pair
                                               /\ d.how # "argument"}}

Section(roots, exclude, keys, fail) ==
  [verify_roots |-> roots, exclude |-> exclude, preconditions |-> keys,
   fail_on_coverage_gaps |-> fail]

\* No roots, one or two of them, one that names a whole module, and a typo.
Roots == {{}, {{entry}}, {{entry}, {run}}, {{entry, helper}}, {{}}}
GraphRoots == {{}, {{entry}}, {{entry, drop}, {run}}, {Four}}
GraphSections == {Section(r, x, {}, TRUE) : r \in GraphRoots, x \in {{}, {{helper}}}}
SpecSections ==
  {Section(r, x, keys, fail) : r \in Roots, x \in {{}, {{helper}}, {Pair}},
                               keys \in {{}, {helper}}, fail \in BOOLEAN}

\* Both questions.
Questions == [program : Graphs, section : GraphSections]
               \cup [program : Specified, section : SpecSections]

\* Single crates outside the assumptions of the runs above.  One call, from
\* the entry point, to `to`.
OneCall(items, to, how) ==
  {[items |-> items, drops |-> {}, calls |-> {Call(entry, to, how)},
    misused |-> misused, defect |-> Clean(items), trusted |-> {},
    requires |-> {}, ensures |-> {}] :
     misused \in {{}, {Call(entry, to, how)}}}

\* A second impl of the same trait method.
TwoImpls ==
  [program : OneCall({entry, helper, run, other}, run, "call"),
   section : {Section(r, {}, {}, TRUE) : r \in Roots \cup {{{entry}, {other}}}}]

\* A function with a precondition is passed on as an fn item.
PassedOn ==
  [program : OneCall({entry, helper}, helper, "argument"),
   section : {Section({}, {}, {helper}, TRUE)}]
=============================================================================
