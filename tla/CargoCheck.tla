----------------------------- MODULE CargoCheck -----------------------------
(***************************************************************************)
(* `cargo pitbull check` over a workspace, again and again: `run_check` in *)
(* crates/pitbull-driver/src/main.rs.                                      *)
(*                                                                         *)
(* Each check starts cargo with the wrapper in place of rustc.  Cargo      *)
(* compiles the members in dependency order but serves those it holds      *)
(* fresh from its cache, so the wrapper never runs for them; a wrapper     *)
(* that runs walks its crate, leaves a reachability manifest behind and    *)
(* exits.  Then the manifests are aggregated.  Between and during checks   *)
(* sources and pitbull.toml change; cargo notices only the former.         *)
(*                                                                         *)
(* PITBULL_CERT_OUT names one file for the whole workspace: each wrapper   *)
(* that has obligations to dispatch writes its bundle there, over that of  *)
(* any other crate and of any earlier check.                               *)
(***************************************************************************)
EXTENDS CrateWalk, Naturals, Functions

CONSTANTS
  Members,   \* the workspace crates, by crate name
  Deps,      \* Deps[c]: the members c depends on
  Program,   \* Program[c]: the functions of c; calls may lead to other crates
  Sections,  \* the contents of pitbull.toml considered
  Defects,   \* the sets of functions that may be defective at one time
  Obliging,  \* the functions whose bodies leave obligations to the solvers
  MaxEdits,  \* bound: edits of sources and configuration
  MaxChecks  \* bound: invocations of the check

ASSUME CargoCheckAssumption ==
  /\ IsFiniteSet(Members)
  /\ Deps \in [Members -> SUBSET Members]
  /\ \A c \in Members : c \notin Deps[c] /\ IsFiniteSet(Program[c].items)
  /\ \A c, d \in Members : c # d => Program[c].items \cap Program[d].items = {}
  /\ Obliging \subseteq UNION {Program[c].items : c \in Members}
  /\ Defects \subseteq SUBSET UNION {Program[c].items : c \in Members}
  /\ \A s \in Sections : s.fail_on_coverage_gaps \in BOOLEAN
  /\ MaxEdits \in Nat /\ MaxChecks \in Nat

VARIABLES
  section,   \* pitbull.toml as it is now
  defects,   \* the functions whose source, as it is now, has a defect
  cache,     \* fresh member |-> the section and defects it was analyzed with
  bundle,    \* what the bundle file is about: a crate and its cache entry, if any
  unwritten, \* the members whose last bundle could not be written
  phase,     \* "idle", "building" or "done"
  strict,    \* --strict of the current check
  todo,      \* members cargo has not come to
  built,     \* members available to their dependents
  manifests, \* the manifests written during this check
  failed,    \* some compilation of this check failed
  read,      \* the manifests that were read back
  metadata,  \* `cargo metadata` worked
  exit_code,
  edits, checks  \* counted for the bounds

build == <<todo, built, manifests, failed>>
file == <<bundle, unwritten>>
vars == <<section, defects, cache, file, phase, strict, build, read, metadata,
          exit_code, edits, checks>>

Fresh(c) == c \in DOMAIN cache
Entry(c) == [section |-> section, defects |-> defects \cap Program[c].items]
Items(c) == Program[c].items
Dependents(c) == {d \in Members : c \in Deps[d]}
-----------------------------------------------------------------------------
(***************************************************************************)
(* The user.                                                               *)
(***************************************************************************)
EditConfig ==
  /\ edits < MaxEdits /\ phase # "done"
  /\ section' \in Sections \ {section}
  /\ edits' = edits + 1
  /\ UNCHANGED <<defects, cache, file, phase, strict, build, read, metadata, exit_code, checks>>

\* Variant, used only to test the properties: cargo overlooks an edit.
EditUnseen(c) ==
  /\ edits < MaxEdits /\ phase = "idle"
  /\ \E d \in Defects : defects' = (defects \ Items(c)) \cup (d \cap Items(c))
  /\ defects' # defects
  /\ edits' = edits + 1
  /\ UNCHANGED <<section, cache, file, phase, strict, build, read, metadata, exit_code, checks>>

\* Cargo's fingerprint of a crate covers its sources.
EditSource(c) ==
  /\ edits < MaxEdits /\ phase = "idle"
  /\ \E d \in Defects : defects' = (defects \ Items(c)) \cup (d \cap Items(c))
  /\ defects' # defects
  /\ cache' = Restrict(cache, DOMAIN cache \ {c})
  /\ edits' = edits + 1
  /\ UNCHANGED <<section, file, phase, strict, build, read, metadata, exit_code, checks>>

Start ==
  /\ phase = "idle" /\ checks < MaxChecks
  /\ strict' \in BOOLEAN
  /\ phase' = "building"
  /\ todo' = Members /\ built' = {} /\ manifests' = {} /\ failed' = FALSE
  /\ read' = {} /\ metadata' = TRUE /\ exit_code' = 0
  /\ checks' = checks + 1
  /\ UNCHANGED <<section, defects, cache, file, edits>>
-----------------------------------------------------------------------------
(***************************************************************************)
(* cargo and the wrapper.                                                  *)
(***************************************************************************)
Ready(c) == phase = "building" /\ c \in todo /\ Deps[c] \subseteq built

UseCached(c) ==
  /\ Ready(c) /\ Fresh(c)
  /\ todo' = todo \ {c} /\ built' = built \cup {c}
  /\ UNCHANGED <<section, defects, cache, file, phase, strict, manifests, failed, read,
                 metadata, exit_code, edits, checks>>

\* What the walk of the crate finds; an indirect call is found in any body.
Findings(c) ==
  \/ Walked(Program[c], section) \cap (defects \ Binding(Program[c].trusted)) # {}
  \/ \E call \in Program[c].calls :
       call.how = "indirect" /\ call.from \in Walked(Program[c], section)

\* decide_pitbull_exit_code, as zero or not.
WrapperFails(c) ==
  \/ Findings(c)
  \/ Unverified(Program[c], section) # {}
  \/ section.fail_on_coverage_gaps /\ UnmatchedRoots(Program[c], section) # {}

\* The walk leaves obligations, so a bundle is written when they are settled.
Obliged(c, using) ==
  (Walked(Program[c], using) \cap Obliging) \ Binding(Program[c].trusted) # {}

About(c) == [crate |-> c, entry |-> Entry(c)]

\* Variant, used only to test the properties: a bundle that is there is kept.
WriteOnce(c) ==
  /\ bundle' = IF Obliged(c, section) /\ bundle = {} THEN {About(c)} ELSE bundle
  /\ UNCHANGED unwritten

\* Writing is best effort; without obligations the file is left as it is.
WriteBundle(c) ==
  \/ /\ Obliged(c, section)
     /\ bundle' = {About(c)} /\ unwritten' = unwritten \ {c}
  \/ /\ Obliged(c, section)
     /\ unwritten' = unwritten \cup {c} /\ UNCHANGED bundle
  \/ ~ Obliged(c, section) /\ UNCHANGED file

\* The cache after c was compiled: a failure leaves nothing of it, and a
\* recompiled crate has its dependents recompiled.
Recached(c) ==
  LET kept == DOMAIN cache \ Dependents(c)
  IN  IF WrapperFails(c) THEN Restrict(cache, kept)
      ELSE [d \in kept \cup {c} |-> IF d = c THEN Entry(c) ELSE cache[d]]

\* The wrapper runs on c.
Analyze(c) ==
  /\ Ready(c) /\ ~ Fresh(c)
  /\ todo' = todo \ {c}
  /\ manifests' = manifests \cup {Manifest(c, Program[c], section)}
  /\ failed' = (failed \/ WrapperFails(c))
  /\ built' = IF WrapperFails(c) THEN built ELSE built \cup {c}
  /\ cache' = Recached(c)
  /\ WriteBundle(c)
  /\ UNCHANGED <<section, defects, phase, strict, read, metadata, exit_code, edits, checks>>

\* rustc itself fails on the crate, or its bridge does: no analysis.
CannotAnalyze(c) ==
  /\ Ready(c) /\ ~ Fresh(c)
  /\ todo' = todo \ {c} /\ failed' = TRUE
  /\ UNCHANGED <<section, defects, cache, file, phase, strict, built, manifests, read,
                 metadata, exit_code, edits, checks>>

\* After a failure, jobs already running still end.
Cargo(c) == UseCached(c) \/ Analyze(c) \/ CannotAnalyze(c)
-----------------------------------------------------------------------------
(***************************************************************************)
(* The aggregation.                                                        *)
(***************************************************************************)
run_cross_crate_gate(m) ==
  /\ m # {}
  /\ \/ cross_crate_unverified(m, Members) # {}
     \/ strict /\ cross_crate_indeterminate(m, Members) # {}

\* Variant, used only to test the properties: the status of cargo is dropped.
ExitOfGate(cargo_success, cross_crate_failed, manifests_present) ==
  IF cross_crate_failed THEN 1
  ELSE IF manifests_present \/ ~ strict THEN 0 ELSE 2

check_exit_code(cargo_success, cross_crate_failed, manifests_present) ==
  IF cargo_success /\ ~ cross_crate_failed
  THEN IF manifests_present \/ ~ strict THEN 0 ELSE 2
  ELSE IF ~ cargo_success /\ ~ manifests_present THEN 2 ELSE 1

\* Writing and reading back a manifest are both best effort, and so is asking
\* cargo for the member names.
Aggregate ==
  /\ phase = "building" /\ (todo = {} \/ failed)
  /\ read' \in SUBSET manifests
  /\ metadata' \in BOOLEAN
  /\ exit_code' = check_exit_code(~ failed, metadata' /\ run_cross_crate_gate(read'),
                                  read' # {})
  /\ phase' = "done"
  /\ UNCHANGED <<section, defects, cache, file, strict, build, edits, checks>>

\* The verdict has been read.
Settle ==
  /\ phase = "done"
  /\ phase' = "idle"
  /\ UNCHANGED <<section, defects, cache, file, strict, build, read, metadata, exit_code,
                 edits, checks>>

Finished == phase = "idle" /\ checks = MaxChecks /\ UNCHANGED vars

Init ==
  /\ section \in Sections /\ defects \in Defects
  /\ cache = <<>> /\ bundle = {} /\ unwritten = {}
  /\ phase = "idle" /\ strict = FALSE
  /\ todo = {} /\ built = {} /\ manifests = {} /\ failed = FALSE
  /\ read = {} /\ metadata = TRUE /\ exit_code = 0
  /\ edits = 0 /\ checks = 0

Next ==
  \/ EditConfig \/ Start \/ Aggregate \/ Settle \/ Finished
  \/ \E c \in Members : EditSource(c) \/ Cargo(c)

Spec == Init /\ [][Next]_vars
-----------------------------------------------------------------------------
\* Type correctness; only members that were compiled leave a manifest, and a
\* fresh cache entry is about the source as it is.
TypeOK ==
  /\ section \in Sections /\ defects \in SUBSET UNION {Items(c) : c \in Members}
  /\ DOMAIN cache \subseteq Members
  /\ \A c \in Members : Fresh(c) => /\ cache[c].section \in Sections
                                   /\ cache[c].defects = defects \cap Items(c)
  /\ Cardinality(bundle) <= 1 /\ unwritten \subseteq Members
  /\ \A b \in bundle : b.crate \in Members /\ Obliged(b.crate, b.entry.section)
  /\ phase \in {"idle", "building", "done"} /\ strict \in BOOLEAN
  /\ todo \subseteq Members /\ built \subseteq Members \ todo
  /\ {m.crate_name : m \in manifests} \subseteq Members \ todo
  /\ read \subseteq manifests
  /\ failed \in BOOLEAN /\ metadata \in BOOLEAN /\ exit_code \in 0..2
  /\ edits \in 0..MaxEdits /\ checks \in 0..MaxChecks

Accepted == phase = "done" /\ exit_code = 0

AnalyzedHere == {m.crate_name : m \in manifests}

\* The functions of a member the user answers for: those its walk excluded,
\* and those marked trusted, at their own declaration or at that of the trait.
WaivedHere ==
  {f \in UNION {Items(c) : c \in Members} : Rendered(f) \in Field(manifests, "trusted")}
    \cup UNION {Items(m.crate_name) \ m.universe : m \in manifests}

\* No call out of the verified code of the workspace ends in code that nobody
\* verified: when every member was analyzed, or with --strict whichever were,
\* exit 0 means that each callee of a walked function was walked in this very
\* check or is waived.  (Drop glue names no callee; it needs the full build.)
AcceptedWorkspaceVerified ==
  Accepted /\ metadata /\ read = manifests /\ (strict \/ AnalyzedHere = Members) =>
    \A m \in manifests : \A call \in Program[m.crate_name].calls :
      /\ call.from \in m.walked \ m.trusted
      /\ call.how # "drop" \/ AnalyzedHere = Members
      => call.to \in Field(manifests, "walked") \cup WaivedHere

\* Exit 0 is never the work of a stale cache over changed code: each member, as
\* its source is now, passed the wrapper under a configuration that was in
\* effect at the time, and none of what that walk covered has a defect.
AcceptedMeansAnalyzed ==
  Accepted => \A c \in Members :
    /\ Fresh(c)
    /\ Walked(Program[c], cache[c].section) \cap defects
         \subseteq Binding(Program[c].trusted)

\* A warm cache or a lost manifest is never a finding: what the cross-crate
\* gate flags was walked by no wrapper run of this check.
NothingWalkedIsFlagged ==
  phase = "done" => \A r \in cross_crate_unverified(read, Members) :
    r \notin with_trait_method_forms(Field(manifests, "walked"))

\* The members whose wrapper run of this check wrote the bundle file.
Writers == {c \in AnalyzedHere : Obliged(c, cache[c].section) /\ c \notin unwritten}

\* The bundle file is one for all crates: wrapper runs overwrite each other's,
\* and one without obligations or with a failed write leaves what is there.
\* What can be said of it after exit 0: if any run of this check wrote it, then
\* it names a crate whose run did, whatever the order of the runs and whichever
\* others failed to write; and whichever crate it names, if that left
\* obligations when it was last analyzed, in this check or before, and they
\* could be written down, then the bundle is of that analysis, and so about the
\* source as it is.
BundleIsOfLastAnalysis ==
  Accepted =>
    /\ Writers # {} => \E b \in bundle : b.crate \in Writers
    /\ \A b \in bundle :
         Obliged(b.crate, cache[b.crate].section) /\ b.crate \notin unwritten =>
           b.entry = cache[b.crate]

\* --strict as its help text has it: fail closed if any workspace crate was
\* served from a warm cargo cache and not re-analyzed in this run.
StrictReanalyzesAll == Accepted /\ strict => AnalyzedHere = Members
=============================================================================
