------------------------------ MODULE CrateWalk ------------------------------
(***************************************************************************)
(* What one wrapper run over a crate amounts to: the sets its item walk    *)
(* accumulates, as functions of the crate and the configuration            *)
(* (`run_pitbull_subset_check` in crates/pitbull-driver/src/bin/           *)
(* pitbull-rustc.rs).  ReachGate takes the walk step by step and ends in   *)
(* these sets; CargoCheck runs one walk per crate of a workspace.          *)
(*                                                                         *)
(* A program is a record:                                                  *)
(*   items     the functions that have a body                              *)
(*   drops     those that are impls of Drop::drop                          *)
(*   calls     records [from, to, how], how being "call", "argument" (an   *)
(*             fn item passed on), "indirect" (fn pointer, dyn, closure)   *)
(*             or "drop" (drop glue)                                       *)
(*   trusted   the paths with #[pitbull::trusted]: functions, or methods   *)
(*             that a trait declares without a body                        *)
(* A section has sets of patterns verify_roots and exclude; a pattern is   *)
(* the set of paths it matches (`pattern_matches`).                        *)
(***************************************************************************)
EXTENDS Reachability

How == {"call", "argument", "indirect", "drop"}

IsProgram(p) ==
  /\ IsFiniteSet(p.items) /\ p.drops \subseteq p.items
  /\ \A c \in p.calls : /\ c.from \in p.items /\ c.to \in p.items /\ c.how \in How
                        /\ c.how = "drop" => c.to \in p.drops

Matches(patterns, path) == \E pattern \in patterns : path \in pattern

\* The attribute is keyed by def_path_str, which names a trait-impl method
\* differently than the walk does: on those it never binds.
Binding(paths) == {f \in paths : ~ IsTraitImpl(f)}

InRoots(section, f) == section.verify_roots = {} \/ Matches(section.verify_roots, f)

Universe(p, section) == {f \in p.items : ~ Matches(section.exclude, f)}

Walked(p, section) == {f \in Universe(p, section) : InRoots(section, f)}

\* A local Drop impl counts as referenced by whoever is walked.
Referenced(p, section) ==
  (p.drops \cap Universe(p, section))
    \cup UNION {callee_paths(p.calls, f) : f \in Walked(p, section) \ Binding(p.trusted)}

\* The gate runs only for a narrowed walk.
Unverified(p, section) ==
  IF section.verify_roots = {} THEN {}
  ELSE unverified_reachable_callees(Referenced(p, section), Universe(p, section),
                                    Walked(p, section), Binding(p.trusted))

\* The root patterns that matched no function of a crate that has some.
UnmatchedRoots(p, section) ==
  {pattern \in section.verify_roots :
     Universe(p, section) # {} /\ pattern \cap Universe(p, section) = {}}

Manifest(name, p, section) ==
  [crate_name |-> name,
   walked     |-> Walked(p, section),
   referenced |-> Referenced(p, section),
   trusted    |-> Binding(p.trusted),
   universe   |-> Universe(p, section)]
=============================================================================
