---------------------------- MODULE MCCargoCheck ----------------------------
(***************************************************************************)
(* Finite instances of CargoCheck for TLC: a binary crate "a" that uses a  *)
(* library crate "b", both members of the workspace.                       *)
(***************************************************************************)
EXTENDS CargoCheck

Fn(crate, name, trait) == [crate |-> crate, name |-> name, trait |-> trait]
Call(from, to, how) == [from |-> from, to |-> to, how |-> how]

main  == Fn("a", "main", NoTrait)
spare == Fn("a", "spare", NoTrait)
f     == Fn("b", "f", NoTrait)
g     == Fn("b", "g", NoTrait)
run   == Fn("b", "T::run", [crate |-> "b", method |-> "Work::run"])
drop  == Fn("b", "T::drop", [crate |-> "core", method |-> "Drop::drop"])

MCDeps == [c \in Members |-> IF c = "a" THEN {"b"} ELSE {}]

A(calls) == [items |-> {main, spare}, drops |-> {}, trusted |-> {}, calls |-> calls]

\* main calls across the boundary, directly and through b's trait, and drops a
\* value of b's type; within b, f passes g on and g is called by the impl.
MCProgram ==
  [c \in Members |->
     IF c = "a"
     THEN A({Call(main, f, "call"), Call(spare, run, "call"), Call(spare, drop, "drop")})
     ELSE [items |-> {f, g, run, drop}, drops |-> {drop}, trusted |-> {drop},
           calls |-> {Call(f, g, "argument"), Call(run, g, "call")}]]

Section(roots, exclude, fail) ==
  [verify_roots |-> roots, exclude |-> exclude, fail_on_coverage_gaps |-> fail]

\* Full coverage, with and without an excluded function; roots in both crates,
\* in one, in all of b; and the same under both gap policies.
MCSections ==
  {Section({}, {}, TRUE), Section({}, {{g}}, TRUE), Section({{main}}, {}, TRUE),
   Section({{main}, {f, g}}, {}, FALSE), Section({{spare}, {drop}}, {}, FALSE),
   Section({{main}, {spare}, {f, g, run, drop}}, {{f}}, FALSE)}

\* Functions with arithmetic, of which each section walks more or less.
MCObliging == {f, run, spare}

MCDefects == {{}, {f}, {run}, {main, g}}
=============================================================================
