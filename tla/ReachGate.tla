------------------------------ MODULE ReachGate ------------------------------
(***************************************************************************)
(* One wrapper run over one crate: `run_pitbull_subset_check` in           *)
(* crates/pitbull-driver/src/bin/pitbull-rustc.rs, from the item walk      *)
(* through the in-crate reachability gate to the exit code.                *)
(*                                                                         *)
(* The crate is given: its functions, who calls whom and how, where a      *)
(* function has a defect the walk of its body would report, and what its   *)
(* specs say.  What the walk has seen so far is the state.  The solver     *)
(* pool behind an obligation is the module Dispatch; here an obligation is *)
(* discharged exactly when it is true.                                     *)
(***************************************************************************)
EXTENDS CrateWalk, Naturals

CONSTANT
  Instances  \* the crates considered, each with a configuration

\* An instance is a record [program, section].  A program of CrateWalk, with what its bodies and specs hold:
\* program.misused   the calls whose arguments break the callee's contract
\* program.defect    what the walk of each body would report: "none",
\*                   "signature", "violation", "obligation" or "gap"
\* program.requires, program.ensures
\*                   the functions with that #[pitbull::...] attribute
\*
\* A section of CrateWalk, with preconditions, the paths used as keys of
\* [verification.preconditions], and fail_on_coverage_gaps.
Finding == {"signature", "violation", "obligation", "gap"}

ASSUME ReachGateAssumption ==
  \A i \in Instances :
    LET p == i.program
    IN /\ IsProgram(p)
       /\ p.misused \subseteq p.calls
       /\ p.defect \in [p.items -> Finding \cup {"none"}]
       /\ p.requires \cup p.ensures \subseteq p.items
       /\ i.section.fail_on_coverage_gaps \in BOOLEAN

VARIABLES
  program, section,  \* fixed for the run
  todo,              \* items the walk has not come to
  local_fn_universe, referenced_callees, walked_fn_paths,
  found,             \* kinds of finding reported so far
  unverified,        \* unverified_reachable_callees
  pc,                \* "start", "walk", "bridge_failed", "exit" or "done"
  exit_code          \* of the wrapper, once pc = "done"

vars == <<program, section, todo, local_fn_universe, referenced_callees,
          walked_fn_paths, found, unverified, pc, exit_code>>

Excluded == {f \in program.items : Matches(section.exclude, f)}

\* `requires` is keyed like `trusted`; `ensures` keys go through
\* canonical_spec_key and bind on every function.
hir_trusted       == Binding(program.trusted)
hir_preconditions == Binding(program.requires)

\* The functions whose body is walked under assumed preconditions, and the
\* paths at whose calls the visitor asks for them: the same keys.
known_precondition_fns == section.preconditions \cup hir_preconditions

\* The callees with a spec to prove a call against (PB077).
callee_specs == {f \in program.items \ Excluded : f \in known_precondition_fns}

-----------------------------------------------------------------------------
(***************************************************************************)
(* What the visitor reports of one body.                                   *)
(***************************************************************************)
Calls(f) == {c \in program.calls : c.from = f}

\* The type of a local gives an indirect call away, in a trusted body too;
\* trust ends the visit before the statements.
BodyFindings(f, trusted) ==
  (IF \E c \in Calls(f) : c.how = "indirect" THEN {"violation"} ELSE {})
    \cup {k \in {program.defect[f]} \ {"none"} : trusted => k = "signature"}

\* Variant, used only to test the properties: calls are not checked against contracts.
UncheckedCall(c) == {{}}

\* A call of a function with preconditions is proved from its arguments, or
\* is a coverage gap when they cannot be encoded.
CallFindings(c) ==
  IF c.how # "call" \/ Rendered(c.to) \notin known_precondition_fns THEN {{}}
  ELSE {{"gap"}} \cup (IF Rendered(c.to) \notin callee_specs THEN {}
                       ELSE {IF c \in program.misused THEN {"obligation"} ELSE {}})

\* The possible reports of the visit of one body.
visit_body(f, trusted) ==
  LET contracts == [Calls(f) -> SUBSET {"gap", "obligation"}]
  IN  IF trusted THEN {BodyFindings(f, TRUE)}
      ELSE {BodyFindings(f, FALSE) \cup UNION {r[c] : c \in Calls(f)} :
              r \in {g \in contracts : \A c \in Calls(f) : g[c] \in CallFindings(c)}}
-----------------------------------------------------------------------------
(***************************************************************************)
(* The walk.                                                               *)
(***************************************************************************)
\* rustc_public's bridge runs the analysis, or fails to.
Bridge ==
  /\ pc = "start"
  /\ pc' \in {"walk", "bridge_failed"}
  /\ UNCHANGED <<program, section, todo, local_fn_universe, referenced_callees,
                 walked_fn_paths, found, unverified, exit_code>>

SkipExcluded(f) ==
  /\ pc = "walk" /\ f \in todo
  /\ Matches(section.exclude, f)
  /\ todo' = todo \ {f}
  /\ UNCHANGED <<program, section, local_fn_universe, referenced_callees,
                 walked_fn_paths, found, unverified, pc, exit_code>>

\* Variant, used only to test the properties: drop glue is not counted as a reference.
NoDropGlue(f) == {}

DropGlue(f) == IF f \in program.drops THEN {f} ELSE {}

\* Filtered out by verify_roots, but in the universe of the gate.
SkipNarrowed(f) ==
  /\ pc = "walk" /\ f \in todo
  /\ ~ Matches(section.exclude, f) /\ ~ InRoots(section, f)
  /\ todo' = todo \ {f}
  /\ local_fn_universe' = local_fn_universe \cup {f}
  /\ referenced_callees' = referenced_callees \cup DropGlue(f)
  /\ UNCHANGED <<program, section, walked_fn_paths, found, unverified, pc, exit_code>>

Walk(f) ==
  /\ pc = "walk" /\ f \in todo
  /\ ~ Matches(section.exclude, f) /\ InRoots(section, f)
  /\ todo' = todo \ {f}
  /\ local_fn_universe' = local_fn_universe \cup {f}
  /\ walked_fn_paths' = walked_fn_paths \cup {f}
  /\ \E report \in visit_body(f, f \in hir_trusted) : found' = found \cup report
  /\ referenced_callees' = referenced_callees \cup DropGlue(f)
       \cup (IF f \in hir_trusted THEN {} ELSE callee_paths(program.calls, f))
  /\ UNCHANGED <<program, section, unverified, pc, exit_code>>

\* The root patterns that matched no function of a crate that has some.
ZeroMatchRoots ==
  {p \in section.verify_roots :
     local_fn_universe # {} /\ p \cap local_fn_universe = {}}

\* Variant, used only to test the properties: postconditions that bind to nothing pass.
EnsuresUnchecked == {}

UnmatchedEnsures == program.ensures \ walked_fn_paths

\* The gate runs only for a narrowed walk; postconditions that bound to no
\* walked body are a gap always.
Gate ==
  /\ pc = "walk" /\ todo = {}
  /\ unverified' = IF section.verify_roots = {} THEN {}
                   ELSE unverified_reachable_callees(referenced_callees,
                          local_fn_universe, walked_fn_paths, hir_trusted)
  /\ found' = found \cup (IF ZeroMatchRoots # {} \/ UnmatchedEnsures # {}
                          THEN {"gap"} ELSE {})
  /\ pc' = "exit"
  /\ UNCHANGED <<program, section, todo, local_fn_universe, referenced_callees,
                 walked_fn_paths, exit_code>>

\* Variant, used only to test the properties: the codes are added up.
SummedExit(rustc_exit_code, bridge_failed) ==
  rustc_exit_code + (IF bridge_failed THEN 2 ELSE IF found = {} THEN 0 ELSE 1)

decide_pitbull_exit_code(rustc_exit_code, bridge_failed) ==
  LET pitbull == IF bridge_failed THEN 2
                 ELSE IF \/ found \ {"gap"} # {} \/ unverified # {}
                         \/ section.fail_on_coverage_gaps /\ "gap" \in found
                 THEN 1 ELSE 0
  IN  IF rustc_exit_code > pitbull THEN rustc_exit_code ELSE pitbull

Exit ==
  /\ pc \in {"exit", "bridge_failed"}
  /\ \E rustc_exit_code \in {0, 1} :
       exit_code' = decide_pitbull_exit_code(rustc_exit_code, pc = "bridge_failed")
  /\ pc' = "done"
  /\ UNCHANGED <<program, section, todo, local_fn_universe, referenced_callees,
                 walked_fn_paths, found, unverified>>

Exited == pc = "done" /\ UNCHANGED vars

Init ==
  /\ \E i \in Instances : program = i.program /\ section = i.section
  /\ todo = program.items
  /\ local_fn_universe = {} /\ referenced_callees = {} /\ walked_fn_paths = {}
  /\ found = {} /\ unverified = {}
  /\ pc = "start" /\ exit_code = 0

Next == \/ Bridge
        \/ \E f \in todo : SkipExcluded(f) \/ SkipNarrowed(f) \/ Walk(f)
        \/ Gate \/ Exit \/ Exited

Spec == Init /\ [][Next]_vars
-----------------------------------------------------------------------------
\* Type correctness; the walk never counts a function it did not enumerate.
TypeOK ==
  /\ todo \subseteq program.items
  /\ walked_fn_paths \subseteq local_fn_universe
  /\ local_fn_universe \subseteq program.items \ todo
  /\ referenced_callees \subseteq program.items \cup {Rendered(f) : f \in program.items}
  /\ found \subseteq Finding
  /\ unverified \subseteq referenced_callees
  /\ pc \in {"start", "walk", "bridge_failed", "exit", "done"}
  /\ exit_code \in 0..2

Accepted == pc = "done" /\ exit_code = 0

\* Trusted, itself or by the declaration it is called through, or excluded: the
\* user answers for these.
Waived == {f \in program.items : Rendered(f) \in hir_trusted} \cup Excluded

\* In whatever order the items come, the walk is at every moment what CrateWalk
\* says of the items it has enumerated, and at its end what it says of them all.
WalkIsItsSummary ==
  /\ TypeOK
  /\ local_fn_universe = Universe(program, section) \ todo
  /\ walked_fn_paths = Walked(program, section) \ todo
  /\ referenced_callees \subseteq Referenced(program, section)
  /\ pc = "exit" =>
       /\ todo = {}
       /\ referenced_callees = Referenced(program, section)
       /\ unverified = Unverified(program, section)
       /\ ZeroMatchRoots = UnmatchedRoots(program, section)

\* Exit 0 covers the whole call closure: whatever a walked, untrusted function
\* can reach in one step - directly, through an fn item it passes on, through
\* a pointer, or through drop glue - was walked itself or is waived, and no
\* walked body has a defect, not even a coverage gap unless gaps were opted out
\* of.  Being closed under single steps, the walked set contains everything
\* that is reachable, so no defect is.
ClosureVerified ==
  Accepted =>
    /\ \A c \in program.calls :
         c.from \in walked_fn_paths \ hir_trusted => c.to \in walked_fn_paths \cup Waived
    /\ \A f \in walked_fn_paths \ hir_trusted :
         program.defect[f] \in {"none", IF section.fail_on_coverage_gaps THEN "none" ELSE "gap"}

\* Exit 0 under the default gap policy means that no walked function calls one
\* that was verified under assumed preconditions in a way that breaks them.
ContractsHold ==
  Accepted /\ section.fail_on_coverage_gaps => \A c \in program.misused :
    /\ c.from \in walked_fn_paths \ hir_trusted
    => c.to \notin known_precondition_fns

\* Exit 0 under the default gap policy is not vacuous: in a crate that has a
\* function left, every root pattern selected a function whose body was walked, and
\* every postcondition is on a function whose body was.
NothingDropped ==
  Accepted /\ section.fail_on_coverage_gaps =>
    /\ program.items # Excluded =>
         \A p \in section.verify_roots : p \cap walked_fn_paths # {}
    /\ program.ensures \subseteq walked_fn_paths

\* Full coverage never fails for reachability alone: with no verify_roots, or
\* with roots that match every function, the gate finds nothing.
FullWalkIsNotFlagged ==
  pc \in {"exit", "done"} /\ (\A f \in program.items : InRoots(section, f)) => unverified = {}
=============================================================================
