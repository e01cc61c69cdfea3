--------------------------- MODULE ReachGate_proofs ---------------------------
(***************************************************************************)
(* Proofs about one wrapper run, for every crate, every configuration and  *)
(* every order in which the items are walked.                              *)
(***************************************************************************)
EXTENDS ReachGate, TLAPS

(***************************************************************************)
(* The sets of the walk.                                                   *)
(***************************************************************************)

CalleesOf(calls, S) == UNION {callee_paths(calls, f) : f \in S}

\* The references of the items that were enumerated.
ReferencedSoFar ==
  (program.drops \cap (Universe(program, section) \ todo))
    \cup CalleesOf(program.calls, (Walked(program, section) \ todo) \ hir_trusted)

Given == \E i \in Instances : program = i.program /\ section = i.section

WalkInv ==
  /\ Given
  /\ todo \subseteq program.items
  /\ local_fn_universe = Universe(program, section) \ todo
  /\ walked_fn_paths = Walked(program, section) \ todo
  /\ referenced_callees = ReferencedSoFar
  /\ found \subseteq Finding
  /\ pc \in {"start", "walk", "bridge_failed", "exit", "done"}
  /\ pc = "exit" => todo = {} /\ unverified = Unverified(program, section)
  /\ pc \in {"start", "walk", "bridge_failed"} => unverified = {}
  /\ pc = "done" => unverified \in {{}, Unverified(program, section)}
  /\ unverified \subseteq referenced_callees
  /\ exit_code \in 0..2
  /\ pc # "done" => exit_code = 0

LEMMA InstanceAssumption ==
  ASSUME Given
  PROVE  /\ IsProgram(program)
         /\ program.misused \subseteq program.calls
         /\ program.defect \in [program.items -> Finding \cup {"none"}]
         /\ section.fail_on_coverage_gaps \in BOOLEAN
BY ReachGateAssumption DEF Given

LEMMA ReportsAreFindings ==
  ASSUME Given, NEW f \in program.items, NEW report \in visit_body(f, f \in hir_trusted)
  PROVE  report \subseteq Finding
<1>1. BodyFindings(f, TRUE) \subseteq Finding /\ BodyFindings(f, FALSE) \subseteq Finding
  BY InstanceAssumption DEF BodyFindings, Finding
<1>2. CASE f \in hir_trusted
  BY <1>1, <1>2 DEF visit_body
<1>3. CASE f \notin hir_trusted
  <2>1. PICK r \in [Calls(f) -> SUBSET {"gap", "obligation"}] :
          report = BodyFindings(f, FALSE) \cup UNION {r[c] : c \in Calls(f)}
    BY <1>3 DEF visit_body
  <2> QED
    BY <1>1, <2>1 DEF Finding
<1> QED
  BY <1>2, <1>3

\* One item more is enumerated.
LEMMA EnumerateOne ==
  ASSUME NEW f \in todo, UNCHANGED <<program, section>>, todo' = todo \ {f},
         todo \subseteq program.items
  PROVE  /\ (Universe(program, section) \ todo)' =
              (Universe(program, section) \ todo) \cup
                (IF Matches(section.exclude, f) THEN {} ELSE {f})
         /\ (Walked(program, section) \ todo)' =
              (Walked(program, section) \ todo) \cup
                (IF Matches(section.exclude, f) \/ ~ InRoots(section, f) THEN {} ELSE {f})
         /\ Universe(program, section)' = Universe(program, section)
         /\ Walked(program, section)' = Walked(program, section)
         /\ hir_trusted' = hir_trusted
<1>1. /\ Universe(program, section)' = Universe(program, section)
      /\ Walked(program, section)' = Walked(program, section)
      /\ hir_trusted' = hir_trusted
  BY DEF Universe, Walked, Matches, InRoots, hir_trusted, Binding
<1>2. f \in Universe(program, section) <=> ~ Matches(section.exclude, f)
  BY DEF Universe
<1>3. f \in Walked(program, section) <=> ~ Matches(section.exclude, f) /\ InRoots(section, f)
  BY <1>2 DEF Walked
<1> HIDE DEF Universe, Walked
<1> QED
  BY <1>1, <1>2, <1>3

LEMMA CalleesGrow ==
  ASSUME NEW calls, NEW S, NEW f
  PROVE  CalleesOf(calls, S \cup {f}) = CalleesOf(calls, S) \cup callee_paths(calls, f)
<1>1. \A x, T : x \in CalleesOf(calls, T) <=> \E g \in T : x \in callee_paths(calls, g)
  BY DEF CalleesOf
<1> QED
  BY <1>1

LEMMA ReferencesOfOne ==
  ASSUME NEW f \in todo, UNCHANGED <<program, section>>, todo' = todo \ {f},
         todo \subseteq program.items
  PROVE  ReferencedSoFar' = ReferencedSoFar
           \cup (IF Matches(section.exclude, f) THEN {} ELSE DropGlue(f))
           \cup (IF \/ Matches(section.exclude, f) \/ ~ InRoots(section, f)
                    \/ f \in hir_trusted
                 THEN {} ELSE callee_paths(program.calls, f))
<1> DEFINE W == Walked(program, section) \ todo
           U == Universe(program, section) \ todo
<1>1. /\ U' = U \cup (IF Matches(section.exclude, f) THEN {} ELSE {f})
      /\ W' = W \cup (IF Matches(section.exclude, f) \/ ~ InRoots(section, f) THEN {} ELSE {f})
      /\ hir_trusted' = hir_trusted
  BY EnumerateOne
<1>3. ReferencedSoFar' = (program.drops \cap U')
        \cup CalleesOf(program.calls, W' \ hir_trusted)
  BY <1>1 DEF ReferencedSoFar
<1>4. ReferencedSoFar = (program.drops \cap U)
        \cup CalleesOf(program.calls, W \ hir_trusted)
  BY DEF ReferencedSoFar
<1> DEFINE drops == IF Matches(section.exclude, f) THEN {} ELSE DropGlue(f)
           calls == IF \/ Matches(section.exclude, f) \/ ~ InRoots(section, f)
                       \/ f \in hir_trusted
                    THEN {} ELSE callee_paths(program.calls, f)
<1>5. program.drops \cap U' = (program.drops \cap U) \cup drops
  <2> HIDE DEF U
  <2> QED
    BY <1>1 DEF DropGlue
<1>6. CalleesOf(program.calls, W' \ hir_trusted) =
        CalleesOf(program.calls, W \ hir_trusted) \cup calls
  <2> HIDE DEF W
  <2>1. CASE Matches(section.exclude, f) \/ ~ InRoots(section, f) \/ f \in hir_trusted
    <3>1. W' \ hir_trusted = W \ hir_trusted /\ calls = {}
      BY <1>1, <2>1
    <3> QED
      BY <3>1
  <2>2. CASE ~ (Matches(section.exclude, f) \/ ~ InRoots(section, f) \/ f \in hir_trusted)
    <3>1. W' \ hir_trusted = (W \ hir_trusted) \cup {f}
          /\ calls = callee_paths(program.calls, f)
      BY <1>1, <2>2
    <3> QED
      <4>1. CalleesOf(program.calls, (W \ hir_trusted) \cup {f}) =
              CalleesOf(program.calls, W \ hir_trusted) \cup callee_paths(program.calls, f)
        BY CalleesGrow
      <4> QED
        BY <3>1, <4>1
  <2> QED
    BY <2>1, <2>2
<1>7. ReferencedSoFar' = ReferencedSoFar \cup drops \cup calls
  <2> HIDE DEF U, W, drops, calls
  <2> QED
    BY <1>3, <1>4, <1>5, <1>6
<1> QED
  BY <1>7

LEMMA ReferencesOfAll ==
  ASSUME todo = {}
  PROVE  ReferencedSoFar = Referenced(program, section)
<1>1. /\ Universe(program, section) \ todo = Universe(program, section)
      /\ Walked(program, section) \ todo = Walked(program, section)
  OBVIOUS
<1> QED
  BY <1>1 DEF ReferencedSoFar, Referenced, CalleesOf, hir_trusted

\* Steps that leave the crate and the sets of the walk alone.
LEMMA SetsKept ==
  ASSUME UNCHANGED <<program, section, todo>>
  PROVE  /\ Universe(program, section)' = Universe(program, section)
         /\ Walked(program, section)' = Walked(program, section)
         /\ ReferencedSoFar' = ReferencedSoFar
         /\ Unverified(program, section)' = Unverified(program, section)
         /\ hir_trusted' = hir_trusted
         /\ (Given => Given')
BY DEF Universe, Walked, Matches, InRoots, ReferencedSoFar, CalleesOf, callee_paths, Rendered,
       Unverified, Referenced, unverified_reachable_callees, hir_trusted, Binding, Given

LEMMA WalkInvIsInductive == WalkInv /\ [Next]_vars => WalkInv'
<1> SUFFICES ASSUME WalkInv, [Next]_vars PROVE WalkInv'
  OBVIOUS
<1>1. CASE Bridge
  BY <1>1, SetsKept DEF Bridge, WalkInv
<1>2. ASSUME NEW f \in todo, SkipExcluded(f) \/ SkipNarrowed(f) \/ Walk(f)
      PROVE  WalkInv'
  <2>1. /\ UNCHANGED <<program, section, unverified, pc, exit_code>>
        /\ pc = "walk" /\ todo' = todo \ {f} /\ todo \subseteq program.items
        /\ f \in program.items
    BY <1>2 DEF SkipExcluded, SkipNarrowed, Walk, WalkInv
  <2>2. Given'
    BY <2>1 DEF WalkInv, Given
  <2>3. local_fn_universe' = (Universe(program, section) \ todo)'
    BY <1>2, <2>1, EnumerateOne DEF SkipExcluded, SkipNarrowed, Walk, WalkInv
  <2>4. walked_fn_paths' = (Walked(program, section) \ todo)'
    BY <1>2, <2>1, EnumerateOne DEF SkipExcluded, SkipNarrowed, Walk, WalkInv
  <2>5. referenced_callees' = ReferencedSoFar'
    BY <1>2, <2>1, ReferencesOfOne DEF SkipExcluded, SkipNarrowed, Walk, WalkInv
  <2>6. found' \subseteq Finding
    <3>1. CASE Walk(f)
      <4>1. PICK report \in visit_body(f, f \in hir_trusted) : found' = found \cup report
        BY <3>1 DEF Walk
      <4>2. report \subseteq Finding
        BY <2>1, ReportsAreFindings DEF WalkInv
      <4> QED
        BY <4>1, <4>2 DEF WalkInv
    <3>2. CASE SkipExcluded(f) \/ SkipNarrowed(f)
      BY <3>2 DEF SkipExcluded, SkipNarrowed, WalkInv
    <3> QED
      BY <1>2, <3>1, <3>2
  <2> QED
    BY <2>1, <2>2, <2>3, <2>4, <2>5, <2>6 DEF WalkInv
<1>3. CASE Gate
  <2>1. UNCHANGED <<program, section, todo, local_fn_universe, walked_fn_paths,
                    referenced_callees, exit_code>> /\ pc' = "exit" /\ todo = {}
    BY <1>3 DEF Gate
  <2>2. found' \subseteq Finding
    BY <1>3 DEF Gate, WalkInv, Finding
  <2>3. /\ referenced_callees = Referenced(program, section)
        /\ local_fn_universe = Universe(program, section)
        /\ walked_fn_paths = Walked(program, section)
    BY <2>1, ReferencesOfAll DEF WalkInv
  <2>4. unverified' = Unverified(program, section)
    BY <1>3, <2>3 DEF Gate, Unverified, hir_trusted
  <2>5. unverified' \subseteq referenced_callees
    BY <2>3, <2>4 DEF Unverified, unverified_reachable_callees
  <2> QED
    <3>1. /\ Given' /\ ReferencedSoFar' = ReferencedSoFar
          /\ Universe(program, section)' = Universe(program, section)
          /\ Walked(program, section)' = Walked(program, section)
          /\ Unverified(program, section)' = Unverified(program, section)
      BY <2>1, SetsKept DEF WalkInv
    <3>2. unverified' = Unverified(program, section)'
      BY <2>4, <3>1
    <3>3. unverified' \subseteq referenced_callees'
      BY <2>1, <2>5
    <3>4. exit_code' = 0
      BY <1>3, <2>1 DEF Gate, WalkInv
    <3> QED
      BY <2>1, <2>2, <3>1, <3>2, <3>3, <3>4 DEF WalkInv
<1>4. CASE Exit
  <2>1. UNCHANGED <<program, section, todo, local_fn_universe, walked_fn_paths,
                    referenced_callees, found, unverified>>
        /\ pc' = "done" /\ pc \in {"exit", "bridge_failed"}
    BY <1>4 DEF Exit
  <2>2. exit_code' \in 0..2
    BY <1>4 DEF Exit, decide_pitbull_exit_code
  <2> QED
    BY <2>1, <2>2, SetsKept DEF WalkInv
<1>5. CASE UNCHANGED vars
  BY <1>5, SetsKept DEF vars, WalkInv
<1> QED
  BY <1>1, <1>2, <1>3, <1>4, <1>5 DEF Next, Exited

LEMMA WalkInvAlways == Spec => []WalkInv
<1>1. Init => WalkInv
  <2> SUFFICES ASSUME Init PROVE WalkInv
    OBVIOUS
  <2>1. Given
    BY DEF Init, Given
  <2>2. todo = program.items
    BY DEF Init
  <2>3. Universe(program, section) \ todo = {} /\ Walked(program, section) \ todo = {}
    BY <2>2 DEF Universe, Walked
  <2>4. program.drops \cap {} = {} /\ CalleesOf(program.calls, {} \ hir_trusted) = {}
    BY DEF CalleesOf
  <2>5. ReferencedSoFar = {}
    BY <2>3, <2>4 DEF ReferencedSoFar
  <2> QED
    BY <2>1, <2>2, <2>3, <2>5 DEF Init, WalkInv
<1> QED
  BY <1>1, WalkInvIsInductive, PTL DEF Spec

\* In whatever order the items of the crate come, the sets that
\* run_pitbull_subset_check hands to the gate are those of the whole crate.
THEOREM WalkEndsInItsSummary == Spec => []WalkIsItsSummary
<1>1. WalkInv => WalkIsItsSummary
  <2> SUFFICES ASSUME WalkInv PROVE WalkIsItsSummary
    OBVIOUS
  <2>1. /\ Universe(program, section) \subseteq program.items
        /\ Walked(program, section) \subseteq Universe(program, section)
    BY DEF Universe, Walked
  <2>2. ReferencedSoFar \subseteq Referenced(program, section)
    BY DEF ReferencedSoFar, Referenced, CalleesOf, hir_trusted
  <2>3. Referenced(program, section)
          \subseteq program.items \cup {Rendered(f) : f \in program.items}
    BY <2>1, InstanceAssumption DEF Referenced, callee_paths, IsProgram, WalkInv
  <2>4. TypeOK
    <3> HIDE DEF Universe, Walked
    <3> QED
      BY <2>1, <2>2, <2>3 DEF WalkInv, TypeOK
  <2>5. pc = "exit" =>
          /\ todo = {} /\ referenced_callees = Referenced(program, section)
          /\ unverified = Unverified(program, section)
    BY ReferencesOfAll DEF WalkInv
  <2>6. todo = {} => local_fn_universe = Universe(program, section)
    BY DEF WalkInv
  <2>7. pc = "exit" => ZeroMatchRoots = UnmatchedRoots(program, section)
    BY <2>5, <2>6 DEF ZeroMatchRoots, UnmatchedRoots
  <2> QED
    BY <2>2, <2>4, <2>5, <2>7 DEF WalkInv, WalkIsItsSummary
<1> QED
  BY <1>1, WalkInvAlways, PTL

\* A crate that is walked in full never fails for reachability alone.
THEOREM FullWalkPasses == Spec => []FullWalkIsNotFlagged
<1>1. WalkInv => FullWalkIsNotFlagged
  <2> SUFFICES ASSUME WalkInv, pc \in {"exit", "done"},
                      \A f \in program.items : InRoots(section, f)
               PROVE  unverified = {}
    BY DEF FullWalkIsNotFlagged
  <2>1. Walked(program, section) = Universe(program, section)
    BY DEF Walked, Universe
  <2>2. Unverified(program, section) = {}
    BY <2>1 DEF Unverified, unverified_reachable_callees
  <2> QED
    BY <2>2 DEF WalkInv
<1> QED
  BY <1>1, WalkInvAlways, PTL
-----------------------------------------------------------------------------
(***************************************************************************)
(* The findings.                                                           *)
(***************************************************************************)

\* A broken contract that the walk of the caller is to report.
Reportable(c) ==
  /\ c \in program.misused /\ c.how = "call"
  /\ Rendered(c.to) \in known_precondition_fns

\* What the walked bodies had to report was reported.
BodiesReported ==
  \A f \in walked_fn_paths :
    /\ \A k \in BodyFindings(f, f \in hir_trusted) : k \in found
    /\ f \notin hir_trusted =>
         \A c \in Calls(f) : Reportable(c) => found \cap {"gap", "obligation"} # {}

\* What the end of the walk had to report was.
GateReported == ZeroMatchRoots # {} \/ UnmatchedEnsures # {} => "gap" \in found

\* Exit 0 of a wrapper whose bridge worked.
Clean ==
  /\ found \subseteq {"gap"}
  /\ section.fail_on_coverage_gaps => found = {}
  /\ unverified = {} /\ Unverified(program, section) = {} /\ todo = {}

ReportInv ==
  /\ BodiesReported
  /\ pc = "exit" => GateReported
  /\ Accepted => Clean /\ GateReported

LEMMA WalkReports ==
  ASSUME Given, NEW f \in program.items,
         NEW report \in visit_body(f, f \in hir_trusted)
  PROVE  /\ \A k \in BodyFindings(f, f \in hir_trusted) : k \in report
         /\ f \notin hir_trusted =>
              \A c \in Calls(f) : Reportable(c) => report \cap {"gap", "obligation"} # {}
<1>1. CASE f \in hir_trusted
  <2>1. BodyFindings(f, f \in hir_trusted) = BodyFindings(f, TRUE)
    BY <1>1 DEF BodyFindings
  <2> QED
    BY <1>1, <2>1 DEF visit_body
<1>2. CASE f \notin hir_trusted
  <2>1. BodyFindings(f, f \in hir_trusted) = BodyFindings(f, FALSE)
    BY <1>2 DEF BodyFindings
  <2>2. PICK r \in [Calls(f) -> SUBSET {"gap", "obligation"}] :
          /\ \A c \in Calls(f) : r[c] \in CallFindings(c)
          /\ report = BodyFindings(f, FALSE) \cup UNION {r[c] : c \in Calls(f)}
    BY <1>2 DEF visit_body
  <2>3. ASSUME NEW c \in Calls(f), Reportable(c)
        PROVE  report \cap {"gap", "obligation"} # {}
    <3>1. r[c] \in {{"gap"}, {"obligation"}}
      BY <2>2, <2>3 DEF CallFindings, Reportable
    <3>2. r[c] \subseteq report
      BY <2>2
    <3> QED
      BY <3>1, <3>2
  <2> QED
    BY <2>1, <2>2, <2>3
<1> QED
  BY <1>1, <1>2

\* The properties of the crate are the same in the next state.
LEMMA CrateKept ==
  ASSUME UNCHANGED <<program, section>>
  PROVE  /\ \A f : Calls(f)' = Calls(f)
         /\ \A c : Reportable(c)' = Reportable(c)
         /\ \A f : BodyFindings(f, f \in hir_trusted)' = BodyFindings(f, f \in hir_trusted)
         /\ hir_trusted' = hir_trusted
BY DEF Calls, Reportable, BodyFindings, hir_trusted, Binding, known_precondition_fns,
       hir_preconditions, Rendered

\* Findings only accumulate, so what was reported stays reported.
LEMMA ReportedStays ==
  ASSUME BodiesReported, UNCHANGED <<program, section, walked_fn_paths>>,
         found \subseteq found'
  PROVE  BodiesReported'
BY CrateKept DEF BodiesReported

LEMMA ReportInvIsInductive == WalkInv /\ ReportInv /\ [Next]_vars => ReportInv'
<1> SUFFICES ASSUME WalkInv, ReportInv, [Next]_vars PROVE ReportInv'
  OBVIOUS
<1>1. CASE Bridge
  BY <1>1, ReportedStays DEF Bridge, ReportInv, Accepted
<1>2. ASSUME NEW f \in todo, SkipExcluded(f) \/ SkipNarrowed(f) PROVE ReportInv'
  BY <1>2, ReportedStays DEF SkipExcluded, SkipNarrowed, ReportInv, Accepted
<1>3. ASSUME NEW f \in todo, Walk(f) PROVE ReportInv'
  <2>1. /\ UNCHANGED <<program, section, pc>> /\ pc = "walk"
        /\ walked_fn_paths' = walked_fn_paths \cup {f}
        /\ f \in program.items
    BY <1>3 DEF Walk, WalkInv
  <2>2. PICK report \in visit_body(f, f \in hir_trusted) : found' = found \cup report
    BY <1>3 DEF Walk
  <2>3. /\ \A k \in BodyFindings(f, f \in hir_trusted) : k \in found'
        /\ f \notin hir_trusted =>
             \A c \in Calls(f) : Reportable(c) => found' \cap {"gap", "obligation"} # {}
    BY <2>1, <2>2, WalkReports DEF WalkInv
  <2>4. ASSUME NEW g \in walked_fn_paths
        PROVE  /\ \A k \in BodyFindings(g, g \in hir_trusted) : k \in found'
               /\ g \notin hir_trusted =>
                    \A c \in Calls(g) : Reportable(c) => found' \cap {"gap", "obligation"} # {}
    BY <2>2 DEF ReportInv, BodiesReported
  <2>5. BodiesReported'
    BY <2>1, <2>3, <2>4, CrateKept DEF BodiesReported
  <2> QED
    BY <2>1, <2>5 DEF ReportInv, Accepted
<1>4. CASE Gate
  <2>1. /\ UNCHANGED <<program, section, walked_fn_paths, local_fn_universe>>
        /\ pc' = "exit" /\ found \subseteq found'
        /\ ZeroMatchRoots # {} \/ UnmatchedEnsures # {} => "gap" \in found'
    BY <1>4 DEF Gate
  <2>2. ZeroMatchRoots' = ZeroMatchRoots /\ UnmatchedEnsures' = UnmatchedEnsures
    BY <2>1 DEF ZeroMatchRoots, UnmatchedEnsures
  <2> QED
    BY <2>1, <2>2, ReportedStays DEF ReportInv, GateReported, Accepted
<1>5. CASE Exit
  <2>1. UNCHANGED <<program, section, todo, walked_fn_paths, local_fn_universe, found, unverified>>
        /\ pc \in {"exit", "bridge_failed"} /\ pc' = "done"
    BY <1>5 DEF Exit
  <2>2. GateReported' = GateReported
    BY <2>1 DEF GateReported, ZeroMatchRoots, UnmatchedEnsures
  <2>3. ASSUME exit_code' = 0 PROVE Clean' /\ GateReported'
    <3>1. PICK rustc \in {0, 1} :
            exit_code' = decide_pitbull_exit_code(rustc, pc = "bridge_failed")
      BY <1>5 DEF Exit
    <3>2. pc # "bridge_failed"
      BY <2>3, <3>1 DEF decide_pitbull_exit_code
    <3>3. /\ found \ {"gap"} = {} /\ unverified = {}
          /\ ~ (section.fail_on_coverage_gaps /\ "gap" \in found)
      BY <2>3, <3>1, <3>2 DEF decide_pitbull_exit_code
    <3>4. /\ found \subseteq {"gap"}
          /\ section.fail_on_coverage_gaps => found = {}
      BY <3>3
    <3>5. todo = {} /\ Unverified(program, section) = {}
      BY <2>1, <3>2, <3>3 DEF WalkInv
    <3>6. GateReported
      BY <2>1, <3>2 DEF ReportInv
    <3> QED
      BY <2>1, <2>2, <3>3, <3>4, <3>5, <3>6, SetsKept DEF Clean
  <2> QED
    BY <2>1, <2>3, ReportedStays DEF ReportInv, Accepted
<1>6. CASE UNCHANGED vars
  <2>1. /\ GateReported' = GateReported /\ Accepted' = Accepted
    BY <1>6 DEF vars, GateReported, ZeroMatchRoots, UnmatchedEnsures, Accepted
  <2>2. Clean' = Clean
    BY <1>6, SetsKept DEF vars, Clean
  <2> QED
    BY <1>6, <2>1, <2>2, ReportedStays DEF vars, ReportInv
<1> QED
  BY <1>1, <1>2, <1>3, <1>4, <1>5, <1>6 DEF Next, Exited

LEMMA ReportInvAlways == Spec => []ReportInv
<1>1. Init => ReportInv
  BY DEF Init, ReportInv, BodiesReported, Accepted
<1> QED
  BY <1>1, ReportInvIsInductive, WalkInvAlways, PTL DEF Spec
-----------------------------------------------------------------------------
(***************************************************************************)
(* What exit 0 says.                                                       *)
(***************************************************************************)

\* An accepted walk is over.
LEMMA AcceptedWalk ==
  ASSUME WalkInv, ReportInv, Accepted
  PROVE  /\ local_fn_universe = Universe(program, section)
         /\ walked_fn_paths = Walked(program, section)
         /\ Clean /\ GateReported /\ BodiesReported
BY DEF WalkInv, ReportInv, Clean

\* No impl is called by the name of another function or by that of another
\* impl: for each trait method the crate has one impl, and no default body.
OneImpl(p) == \A f, g \in p.items : Rendered(f) \in {g, Rendered(g)} => f = g

\* A referenced function of the universe that is neither walked nor waived
\* makes the gate fail.
LEMMA ReferencedIsCovered ==
  ASSUME WalkInv, ReportInv, Accepted, OneImpl(program),
         NEW f \in program.items \ Excluded,
         NEW path \in {f, Rendered(f)}, path \in Referenced(program, section)
  PROVE  f \in walked_fn_paths \cup Waived
<1>1. f \in Universe(program, section)
  BY DEF Universe, Excluded
<1>2. CASE section.verify_roots = {}
  BY <1>1, <1>2, AcceptedWalk DEF Walked, InRoots
<1>3. CASE section.verify_roots # {}
  <2>1. path \in with_trait_method_forms(Universe(program, section))
    BY <1>1 DEF with_trait_method_forms, Rendered
  <2>2. \/ path \in with_trait_method_forms(Walked(program, section))
        \/ path \in with_trait_method_forms(hir_trusted)
    BY <1>3, <2>1, AcceptedWalk DEF Clean, Unverified, unverified_reachable_callees, hir_trusted
  <2>3. CASE path \in with_trait_method_forms(Walked(program, section))
    <3>1. PICK w \in Walked(program, section) : path \in {w, Rendered(w)}
      BY <2>3 DEF with_trait_method_forms, Rendered
    <3>2. w \in program.items
      BY DEF Walked, Universe
    <3>3. w = f
      BY <3>1, <3>2 DEF OneImpl
    <3> QED
      BY <3>3, AcceptedWalk
  <2>4. CASE path \in with_trait_method_forms(hir_trusted)
    <3>1. path \in hir_trusted /\ ~ IsTraitImpl(path)
      BY <2>4 DEF with_trait_method_forms, hir_trusted, Binding
    <3>2. Rendered(f) = path
      BY <3>1 DEF Rendered
    <3> QED
      BY <3>1, <3>2 DEF Waived
  <2> QED
    BY <2>2, <2>3, <2>4
<1> QED
  BY <1>2, <1>3

\* Exit 0 covers the call closure of what was walked, and no walked body has a
\* defect, in every crate that has at most one impl of each trait method.
THEOREM AcceptedClosureIsVerified ==
  ASSUME \A i \in Instances : OneImpl(i.program)
  PROVE  Spec => []ClosureVerified
<1>1. WalkInv /\ ReportInv => ClosureVerified
  <2> SUFFICES ASSUME WalkInv, ReportInv, Accepted
               PROVE  /\ \A c \in program.calls :
                           c.from \in walked_fn_paths \ hir_trusted =>
                             c.to \in walked_fn_paths \cup Waived
                      /\ \A f \in walked_fn_paths \ hir_trusted :
                           program.defect[f] \in
                             {"none", IF section.fail_on_coverage_gaps THEN "none" ELSE "gap"}
    BY DEF ClosureVerified
  <2>1. OneImpl(program) /\ IsProgram(program)
    BY InstanceAssumption DEF WalkInv, Given
  <2>2. found \subseteq {"gap"} /\ (section.fail_on_coverage_gaps => found = {})
    BY AcceptedWalk DEF Clean
  <2>3. ASSUME NEW f \in walked_fn_paths \ hir_trusted,
               NEW k \in BodyFindings(f, FALSE)
        PROVE  k \in found
    <3>1. BodyFindings(f, f \in hir_trusted) = BodyFindings(f, FALSE)
      BY <2>3 DEF BodyFindings
    <3> QED
      BY <2>3, <3>1 DEF ReportInv, BodiesReported
  <2>4. ASSUME NEW c \in program.calls, c.from \in walked_fn_paths \ hir_trusted
        PROVE  c.to \in walked_fn_paths \cup Waived
    <3>1. c.to \in program.items /\ c.how \in How /\ (c.how = "drop" => c.to \in program.drops)
      BY <2>1 DEF IsProgram
    <3>2. CASE c.to \in Excluded
      BY <3>2 DEF Waived
    <3>3. CASE c.to \notin Excluded /\ c.how \in {"call", "argument"}
      <4>1. Rendered(c.to) \in callee_paths(program.calls, c.from)
        BY <3>3 DEF callee_paths
      <4>2. c.from \in Walked(program, section) \ Binding(program.trusted)
        BY <2>4, AcceptedWalk DEF hir_trusted
      <4>3. Rendered(c.to) \in Referenced(program, section)
        BY <4>1, <4>2 DEF Referenced
      <4> QED
        BY <2>1, <3>1, <3>3, <4>3, ReferencedIsCovered
    <3>4. CASE c.how = "indirect"
      <4>1. "violation" \in BodyFindings(c.from, FALSE)
        BY <3>4 DEF BodyFindings, Calls
      <4>2. "violation" \in found
        BY <2>3, <2>4, <4>1
      <4> QED
        BY <2>2, <4>2
    <3>5. CASE c.to \notin Excluded /\ c.how = "drop"
      <4>1. c.to \in Referenced(program, section)
        BY <3>1, <3>5 DEF Referenced, Universe, Excluded
      <4> QED
        BY <2>1, <3>1, <3>5, <4>1, ReferencedIsCovered
    <3> QED
      BY <3>1, <3>2, <3>3, <3>4, <3>5 DEF How
  <2>5. ASSUME NEW f \in walked_fn_paths \ hir_trusted
        PROVE  program.defect[f] \in
                 {"none", IF section.fail_on_coverage_gaps THEN "none" ELSE "gap"}
    <3>1. program.defect[f] # "none" => program.defect[f] \in BodyFindings(f, FALSE)
      BY DEF BodyFindings
    <3>2. program.defect[f] # "none" => program.defect[f] \in found
      BY <2>3, <3>1
    <3> QED
      BY <2>2, <3>2
  <2> QED
    BY <2>4, <2>5
<1> QED
  BY <1>1, WalkInvAlways, ReportInvAlways, PTL

\* Exit 0 under the default gap policy is not vacuous.
THEOREM AcceptedWalkDropsNothing == Spec => []NothingDropped
<1>1. WalkInv /\ ReportInv => NothingDropped
  <2> SUFFICES ASSUME WalkInv, ReportInv, Accepted, section.fail_on_coverage_gaps
               PROVE  /\ program.items # Excluded =>
                           \A p \in section.verify_roots : p \cap walked_fn_paths # {}
                      /\ program.ensures \subseteq walked_fn_paths
    BY DEF NothingDropped
  <2>1. ZeroMatchRoots = {} /\ UnmatchedEnsures = {}
    BY AcceptedWalk DEF Clean, GateReported
  <2>2. program.ensures \subseteq walked_fn_paths
    BY <2>1 DEF UnmatchedEnsures
  <2>3. ASSUME program.items # Excluded, NEW p \in section.verify_roots
        PROVE  p \cap walked_fn_paths # {}
    <3>1. local_fn_universe # {}
      BY <2>3, AcceptedWalk DEF Universe, Excluded
    <3>2. PICK f \in p \cap local_fn_universe : TRUE
      BY <2>1, <3>1 DEF ZeroMatchRoots
    <3>3. f \in Walked(program, section)
      BY <3>2, AcceptedWalk DEF Walked, InRoots, Matches
    <3> QED
      BY <3>2, <3>3, AcceptedWalk
  <2> QED
    BY <2>2, <2>3
<1> QED
  BY <1>1, WalkInvAlways, ReportInvAlways, PTL

\* Under the default gap policy exit 0 means that no walked function breaks the
\* contract of a function it calls, if contracts are keyed by the names calls
\* use and functions with a contract are not handed on as values.
THEOREM AcceptedCallsKeepContracts ==
  ASSUME \A i \in Instances :
           /\ \A key \in i.section.preconditions : ~ IsTraitImpl(key)
           /\ \A c \in i.program.misused : c.how \in {"call", "indirect"}
  PROVE  Spec => []ContractsHold
<1>1. WalkInv /\ ReportInv => ContractsHold
  <2> SUFFICES ASSUME WalkInv, ReportInv, Accepted, section.fail_on_coverage_gaps,
                      NEW c \in program.misused,
                      c.from \in walked_fn_paths \ hir_trusted,
                      c.to \in known_precondition_fns
               PROVE  FALSE
    BY DEF ContractsHold
  <2>1. /\ c.how \in {"call", "indirect"} /\ c \in Calls(c.from)
        /\ \A key \in section.preconditions : ~ IsTraitImpl(key)
    BY InstanceAssumption DEF WalkInv, Given, Calls
  <2>2. found = {}
    BY AcceptedWalk DEF Clean
  <2>3. CASE c.how = "call"
    <3>1. ~ IsTraitImpl(c.to)
      BY <2>1 DEF known_precondition_fns, hir_preconditions, Binding
    <3>2. Reportable(c)
      BY <2>3, <3>1 DEF Reportable, Rendered
    <3> QED
      BY <2>1, <2>2, <3>2 DEF ReportInv, BodiesReported
  <2>4. CASE c.how = "indirect"
    <3>1. "violation" \in BodyFindings(c.from, c.from \in hir_trusted)
      BY <2>1, <2>4 DEF BodyFindings
    <3> QED
      BY <2>2, <3>1 DEF ReportInv, BodiesReported
  <2> QED
    BY <2>1, <2>3, <2>4
<1> QED
  BY <1>1, WalkInvAlways, ReportInvAlways, PTL
=============================================================================
