# A TLA+ model of Pitbull

Pitbull is a verifier for a subset of Rust. `cargo pitbull check` runs cargo with
a compiler wrapper, `pitbull-rustc`, in place of `rustc`; the wrapper walks the
MIR of each workspace crate, reports what is outside the subset, turns what it
cannot decide into SMT obligations, and has a pool of solvers vote on them. The
exit code is the product: **0 must mean verified**. `cargo pitbull replay` repeats
the solver runs recorded in a certificate.

The project states what "0 must mean verified" amounts to at each stage, checks
it with TLC, and proves with TLAPS what concerns the dispatcher, a solver invocation, the
walk of a crate, the checks of a workspace and replay. All paths below are
under `src/crates/`.

## 1. Inventory

| Component | State | Operations | Talks to | What makes it correct |
|---|---|---|---|---|
| Agreement policy (`pitbull-vc/src/solver.rs`) | none | `vote`, `known_solver`, `run_solvers` | dispatcher, replay | distinct voters; a sat blocks; a threshold of 0 is 1 |
| Solver invocation (`solver.rs`) | child, three pipes, three threads, deadline | `invoke_solver_with_timeout`, `read_capped` | the solver process | a decisive answer is true of the whole problem; nothing leaks; it returns |
| Dispatcher (`pitbull-driver/src/bin/pitbull-rustc.rs`) | pool, counters, certificates, ledger | `dispatch_vc_obligations` | solver pool, PATH | no vacuous or unproved discharge; a complete ledger |
| Certificates and replay (`pitbull-vc/src/cert.rs`, `pitbull-driver/src/main.rs`) | bundle file, keys | `new`, `sign*`, `from_json`, `replay_bundle`, `run_replay` | file system, solver pool | a partial or changed bundle does not replay cleanly |
| Item walk and exit code (`pitbull-rustc.rs`) | walked, referenced, universe sets, counters | `after_analysis`, `run_pitbull_subset_check` | visitor, gate, dispatcher | exit 0 covers the call closure |
| Reachability gates (`pitbull-subset/src/reachability.rs`) | none | `callee_paths`, `unverified_reachable_callees`, `cross_crate_*` | wrapper, subcommand | one function, three renderings, one answer |
| `check` (`pitbull-driver/src/main.rs`) | manifest directory | `run_check`, `run_cross_crate_gate`, `check_exit_code` | cargo, its cache, the wrapper | acceptance is about the code as it is now |
| Visitor (`pitbull-subset/src/visitor.rs`) | installed contracts, current body, report | `visit_body` and its dispatch tables | adapter, wrapper, worklist driver | every construct that is unsupported or can fail is a finding, a gap or an obligation; nothing is carried from one body to the next |
| Library-call classifier (`visitor.rs`) | none | `classify_called_function` and its matchers | visitor | every library call that can panic is named, whatever it is rendered as |
| Adapter (`pitbull-subset/src/mir_api/adapter.rs`) | none | conversion of the compiler's MIR | visitor | a construct is not lost in the conversion |
| Worklist driver (`reachability.rs`) | stack, visited set, bodies it could not get | `ReachabilityDriver::run` | visitor | it covers the closure of the roots, and ends |
| Predicates, SMT encoder, obligation compiler (`predicate.rs`, `smt.rs`, `vc.rs`) | none | parse, translate, `compile_with_index_bits` | visitor, dispatcher | the formula says what the operation does at its width |
| Configuration, rules, diagnostics, mutation list, attribute macros | static | | | |

Interaction is by calls inside one wrapper process, by threads and pipes towards
a solver, and by files between processes: one manifest per crate, one certificate
bundle. Nobody coordinates these files except the subcommand that reads them.

What is hard: the kill racing a child that may already have answered; solvers
that appear on PATH between two runs; values captured in one block and spent in another; contracts
installed for one body and still there at the next; a cargo cache that knows nothing of
`pitbull.toml`; sets of paths in which one function has several names; library calls known by
their names only; best-effort files that several processes write; early exits of the dispatch
loop. `PROJECT.json` lists these hazards at their
lines with the properties aimed at each.

## 2. Modules

| Module | Models | Composition |
|---|---|---|
| `Agreement` | `vote`, the verdict tags, vote counts | extended by `Dispatch` and `Replay` |
| `VerificationContract` | abstract: obligations are decided once, discharged only if proven, and the crate is accepted only if all were | refined by `Dispatch` |
| `Dispatch` | pool construction, the dispatch loop with every early exit, one thread per solver, the bundle | `Outcomes` stands for `SolverRun` |
| `Dispatch_proofs` | theorems about `Dispatch`, with its refinement of the safety part of `VerificationContract` | extends `Dispatch` |
| `SolverRun` | one invocation: caller, writer, two readers, deadline, child, pipes | theorems in `SolverRun_proofs` |
| `Reachability` | the gates, over path records | extended by `CrateWalk` |
| `CrateWalk` | what one wrapper run computes, as functions of crate and configuration | extended by `ReachGate` and `CargoCheck` |
| `ReachGate` | the walk item by item, gate, unmatched roots and postconditions, exit code | an obligation is discharged exactly when it is true (`Dispatch`); theorems in `ReachGate_proofs` |
| `CargoCheck` | repeated checks of a workspace under edits and a warm cache, cross-crate gate, the one bundle file | one `CrateWalk` per crate; theorems in `CargoCheck_proofs` |
| `Replay` | certificate bundle, load checks, signatures, replay | `Agreement`; theorems in `Replay_proofs` |
| `Mir` | a fragment of MIR and what a compiled body does with it | extended by `SpecClause` |
| `SpecClause` | clauses of a contract: which translate, at which type, and what they mean | extended by `Capture` |
| `Capture` | symbolic capture of an argument or a result through straight-line blocks | extended by `BodyCheck` |
| `Capture_proofs` | lemmas about `Mir` and `Capture`: two's complement, walks over blocks | extended by `BodyCheck_proofs` |
| `BodyCheck` | the obligations of one body (PB049, PB076, PB077), then its execution | a problem's answer is the true one (`Dispatch`); theorems in `BodyCheck_proofs` |
| `LibraryCalls` | what the visitor concludes from the path of a callee | extends `Mir`; extended by `Visitor` and `StdLibrary` |
| `TypeWalk` | types: the adapter's conversion, the rules they break, the size estimated for a local | extended by `Visitor` |
| `Visitor` | the adapter's renamings and the dispatch tables for statements, rvalues, terminators | extended by `Worklist` |
| `StdLibrary` | external: which library calls can panic, what library types there are, layout | the measure `Worklist` holds the visitor to |
| `Worklist` | `visit_body`, what the visitor keeps between bodies, and the callers that drive it | theorems in `Worklist_proofs` |

`MC*` modules hold the finite instances. Operators whose comment begins with
"Variant" are deliberately wrong forms of the definition below them; no
specification uses them, and each property is tested by substituting one.

### Dispatch

`pc = "next"` is the head of the loop over `report.vc_obligations`; `TakeUp`,
`ConsistencyPassed` and `Gate` are the places where the loop calls `run_solvers`,
and `Pending`, `ConsistencyRefused`, `ConsistencyUnconfirmed` and
`MainUnconfirmed` are its four `continue`s. Each of the latter is `Refuse`: push to
`uncertified`, count as undischarged. `threads` holds the results of the threads of
`run_solvers`; a step that consults them waits for the join. `installed` is the set
of solver binaries on PATH and may change at every step. `faulty` and
`obligations` are the truth, which no code reads: an honest solver answers
truly or abstains, a faulty one answers anything.

### SolverRun

The caller spawns, polls `try_wait`, kills at the deadline and joins. Pipes hold
`PipeCap` items; a line is the unit of output, a directive the unit of input. The
child is honest in the sense a solver is: a rejected directive produces an
`(error` line, an internal failure a non-zero exit, and otherwise the verdict is true.
It may crash, hang or stop reading at any moment. `task` is the child's own state.

### Reachability, CrateWalk, ReachGate

A path is a record of its crate, its name and the trait method it implements, which
is what the code parses out of `<crate::Type as crate::Trait>::method`. `Rendered` is
the one assumption about the compiler: a statically dispatched call names the trait
method, not the impl. A pattern is the set of paths it matches. The visitor is
represented by what it would report of each body (`defect`) and by what it does at a
call of a function with preconditions (`CallFindings`): prove it, report it, or, when
the argument cannot be encoded, record a gap.

### CargoCheck

Cargo is the environment: jobs in dependency order, a cache that is invalidated by
source edits and by recompiled dependencies but not by `pitbull.toml`, and after a
failure any subset of the other jobs may still run. A member is one compile unit here,
while `cargo check --all-targets` compiles a member once per target. Reading a manifest
back may fail for each crate separately (`read`).

`bundle` is the file that `PITBULL_CERT_OUT` names. `WriteBundle` is part of the wrapper's run
(`Analyze`): a crate whose walk leaves obligations (`Obliging`) overwrites whatever is there, or
fails to, which the exit code does not show (`unwritten`); any other crate leaves the file alone.

### Replay

`produced` is any bundle a dispatch can write: its certificates come from runs of
the recorded pool over any problem. `InitOver` takes two slices of them: all bundles with no
signature policy, and a few bundles with all keys, holders and policies. `Edit` changes one field of the file. A signature is
its key and the content it covers, so a signature over changed content does not verify.

### Mir, SpecClause, Capture, BodyCheck

A behaviour has two halves. First `visit_body`: one `VisitBlock` per basic block, with every
statement and the terminator of the block, then `FinishVisit` for a body that never returns. It
fills `report` with findings: a place, a rule, and whether the obligation is discharged, open or a
gap. Then a caller that keeps the preconditions enters the compiled body (`Enter`), and `Execute`,
`Jump`, `CheckFlag`, `CallReturns` and `Return` run it; a callee may return anything of its type.
The properties compare the report with the run.

An SMT expression is represented by its value at an entry, together with the parameters
it mentions (`callers`, which decides whether the caller's preconditions are assumed). An SMT
problem is the set of values its hypotheses admit and the set on which the goal holds: `Decide`
asks for inclusion and for consistency, as the main and the consistency problem do. Types
have three or four bits: three is the least width at which the width itself is
representable as a signed value, as it is from eight bits on, so that shift amounts behave
as they do in the code (`int_type_info` is a constant, and `IntTypesAssumption` says this
of it). A body is a record like the compiler's: parameter names, blocks, and for each local its type
and what is inside it (`inner`: the value of a checked result, the referent of a reference). `IsBody`
is the type checker's part: every assignment, argument and jump is of the right type.
A body runs only while what it reads was written before (`Readable`, `Ready`), as rustc
demands. The fragment has integers, checked results, references, branches and
calls; unary negation, indexing and casts are only looked at by `Visitor`, as places where an
obligation or a rejection is due.

### LibraryCalls, TypeWalk, Visitor, StdLibrary, Worklist

Statements, rvalues, operands and terminators are records of one shape: a kind, and the operands,
places and types they mention, in the compiler's form. The operators named `visit_...` put them
through the adapter (`ty`, `operand`, `adapted_rvalue`, `terminator_kind`) and return the set of
results the visitor pushes; what the adapter drops (generic arguments of an ADT) or folds together
(`AddUnchecked` and `Add`, `coroutine` and `closure`) is dropped and folded there. A callee's path is
a record too: root, anchor (the type, trait or module), family prefix and name, which is what the
substring tests of the matchers look for.

`Worklist` has one step per item, since the visitor is not reentrant. `caller` is who drives it: the
`ReachabilityDriver`, which installs no contracts and pushes what a body refers to (only the tests
drive the visitor this way); the
wrapper, which goes over a fixed list and installs the contracts of each body; and one that installs
contracts only for bodies that have some. No such caller exists, but the visitor promises to be safe
under it (`clear_per_body_state`), and it is the one that tells whether both exits of `visit_body`
clear. Findings record under whose contract they were made (`under`).

The properties do not read the tables back. `RiskySites`, `Outside` and `Layout` say what a program
can do in terms of the language and its library, and `StdLibrary` computes which integer
methods can panic from their arithmetic at three bits. Integer constants of 8, 16 to 64 and 128 bits
have 3, 4 and 5 bits, and the largest `u64`, at which sizes saturate (`u64_max`), is 4095.

## 3. Runs

Every run checks deadlock; where the system stops, an explicit action stutters
(`Terminated`, `Returned`, `Exited`, `Finished`), except in `visitor_safe`: a finished walk
is a state without successors there, and `WalkEnds` says that the walk gets to it.

| Run | Shows | Bounds, and why they are enough |
|---|---|---|
| `dispatch_two` | type correctness, `DischargeSound`, `AcceptedMeansProven`, `LedgerComplete`, `IndependentVotes`, `HonestSolversAgree`, `ImplementsContract` | two obligations, so that state can leak from one to the next; four configurations with duplicates, an unknown name, a pin, an empty list and thresholds 0 to 2 |
| `solver_safe` | `VerdictIsTruth`, `NothingLeaks`, `CleanAnswerIsHeard`, `ReturnsUnlessHeld` | two directives, so that one can be dropped; pipes of one item and caps of one and two lines, so that every blocking and every truncation happens; a process may be left behind that holds the pipes |
| `reach_safe` | `WalkIsItsSummary`, `ClosureVerified`, `FullWalkIsNotFlagged`, `ContractsHold`, `NothingDropped` | all graphs of at most two edges over a free function, a helper, a trait impl and a Drop impl: the gate is closed under single calls, so a violation needs one edge and a disguise of it another; and one call under all combinations of specs, trust, roots, exclusions, keys and gap policy |
| `check_safe` | `AcceptedWorkspaceVerified`, `AcceptedMeansAnalyzed`, `NothingWalkedIsFlagged`, `BundleIsOfLastAnalysis` | two crates, three checks, two edits: analyze, edit one side, reuse the other |
| `replay_safe` | `PartialNeverPasses`, `CleanReplayReproves`, `SignedMeansUntouched`, `GenuineReplays` | every bundle of two obligations from three pools, one of them empty, with any two solvers on PATH at replay and any of them faulty; and two edits, two keys per scheme, all holders, recorded timeouts of 1 and 3 around a cap of 2, problems that need 1 or 2 |
| `visitor_safe` | `ReachableIsCovered`, `RiskySitesReported`, `OutsideIsReported`, `AcceptedCastsKeepTheValue`, `ContractsServeTheirBody`, `StackLimitKept`, `WalkEnds` | catalogues (one function with every construct of a sort: types to depth two, operators by operand types, checked arithmetic with the assert that follows it, casts by constants, callees by path); two functions and a third item (function, static or const) that refer to each other in every way, with trust, exclusion and missing bodies; all pairs of functions with contracts, under each caller; a strict and a lenient configuration |
| `body_safe` | `DischargedOperationsHold`, `DischargedReturnsHold`, `AcceptedBodyNeverFails`, `ConstantCallsDecided` | two thousand bodies, each run from every entry: chains, diamonds and loops of two slots around a call or a return, with every filling of the slots by a reassignment, a swap, a borrow or arithmetic, because a stale capture needs one write to capture and another to invalidate; all operators and shift-amount types; contracts that contradict themselves, name nothing, speak of the result or are raw |

All runs but `dispatch_two` end within about a minute; that one takes two to four.

Bounded counters are named: `MaxEdits`, `MaxChecks`, `MaxChatter`, `MaxObligations`.

### Fairness

* `Dispatch`: weak fairness of the dispatcher thread, which waits for nothing but
  joins, and of the solver threads, which return by their kill deadline
  (`ReturnsUnlessHeld` in `solver_safe`, which assumes that no helper process keeps the pipes). PATH changes are not fair.
* `SolverRun`: weak fairness of each thread of the wrapper and of the clock. Nothing
  is assumed of the child or of its helpers.
* `Worklist`: weak fairness of the whole loop, which one thread runs without waiting for anyone.
* The other modules have safety properties only.

### Findings

These runs check a sentence of the repository and end in a counterexample.

| Run | The sentence | What happens |
|---|---|---|
| `solver_stderr` | `solver.rs:694`: the truncation flag decides whether output is interpreted | stderr's flag is dropped, and with it an `(error` report past the cap |
| `reach_impls` | `docs/HANDOFF.md:1622`: a trait call is flagged if any impl is unwalked | one walked impl hides the others |
| `reach_argument` | `visitor.rs:940`: every call of a function with preconditions is proved or a gap | a function passed as an argument is neither |
| `check_strict` | `main.rs:65`: `--strict` fails if any crate was not re-analyzed | it fails only if one that is referred to was not |
| `body_borrow` | `visitor.rs:3749`: the effect is captured only for shapes that are certain | a write through `&mut` forgets the reference and keeps the captured value of its target |

The passing runs are over crates without the disguise in question: one impl per trait
method, no misused fn item with preconditions, no write through a mutable borrow; `solver_safe` has a
stderr below its cap.

The following disagreements were met while modelling and follow from the same modules under other
instances; no run shows them, and the passing runs leave them out.

* A recorded timeout above an hour is clamped by replay (`main.rs:672`) while the producer's is
  not, although `cert.rs:478` says that recording it prevents spurious mismatches;
  `GenuineReplays` is about timeouts within the cap.
* `#[pitbull::trusted]` on a trait's required method waives every impl of it from the
  in-crate gate (`pitbull-rustc.rs:2427`; the comment at 2395 calls such specs harmless).
* A `[verification.preconditions]` key that names a trait impl by its walked path binds to the
  body, while calls are rendered under the trait and go unchecked (`pitbull-rustc.rs:672`).
* A lost or unreadable manifest takes its own references with it, so a finding may vanish
  rather than turn INDETERMINATE (`main.rs:405`).
* A call of a workspace impl of a standard-library trait is rendered under `std` and skipped by the
  cross-crate gate (`reachability.rs:636`).
* A clean replay is about the obligations; the wrapper run that wrote the bundle may have had
  violations (`main.rs:709`).
* A process that the solver command leaves behind with the pipes open outlives the
  deadline (`solver.rs:419`): `ReturnsUnlessHeld` excludes exactly this case.
* A non-empty `verify_roots` in a workspace fails each crate that no pattern matches, unless
  `fail_on_coverage_gaps` is off.
* `PITBULL_CERT_OUT` names one file for all crates: the last wrapper run wins, and a crate without
  obligations leaves an older bundle in place, as does a failed write. `BundleIsOfLastAnalysis`
  covers the overwriting (the file names a crate whose run of this check wrote it, if any did) and
  leaves what then remains: nobody wrote in this check, and the crate that an older file names was
  analyzed since without obligations or with a failed write.
* A local of function-item type has no size and is counted as a pointer (`visitor.rs:2634`), although
  the estimator is said to never exceed the layout; `StackLimitKept` leaves such locals out.
* A local that holds a `!`, such as `[(u64, !); 4096]`, is never rejected for its size: the adapter's placeholder
  has no estimate (`visitor.rs:2655`, "documented under-detection"), and one such part leaves the whole without one. `StackLimitKept` leaves them
  out where it demands a rejection: the proof failed until it did. Such a value cannot be made.
* The adapter drops the generic arguments of an ADT (`adapter.rs:204`), so a type that is outside
  the subset is not seen inside `Option<...>`; `Parts` does not look there either.
* Alt-Ergo's limit in seconds is truncated, where the comment at `solver.rs:393` says rounded up.
* A clause about the amount of a shift is evaluated at the type of the shifted value, sign
  included, while the comment at `visitor.rs:2931` says that it and the over-shift condition
  "compare UNSIGNED". For a signed value and an unsigned amount of the same width, `y >= 0` then
  excludes the upper half of the amounts, and `!=` clauses can exclude the rest: with three bits `y >= 0` and `y != 3`
  discharge the shift, and `y = 5` panics. With any other clause the two readings agree where it
  matters, which is what `BodyCheck_proofs` shows: `WholeAmounts` is the one exception.
* Replay ignores version pins, and a certificate records nothing of the consistency run, so
  replay repeats the main problems only (`docs/HANDOFF.md` says so too).

## 4. Proofs

Each theorem holds for all values of the constants that satisfy the module's assumption
(`DispatchAssumption`, ...: the constants have their types, and what is said below). Each rests on an
inductive invariant, proved in the same module; most properties are not inductive as
they stand.

### Dispatch_proofs

For every number of obligations, every finite set of solver
names, every configuration and every kind of obligation; contradictory hypotheses are not
called safe, and no solver is named like a panicked thread.

* `TypeCorrect`: `Spec => []TypeOK`.
* `LedgerIsComplete`: inductive with the type invariant: `current`
  advances exactly when one of the two lists grows by an entry about it.
* `DischargeIsSound` and `AcceptanceIsSound`: `[]DischargeSound` and `[]AcceptedMeansProven`, from
  the inductive invariant `GateInv`.
* `VotesAreIndependent` and `HonestPoolAgrees`: `[]IndependentVotes` and `[]HonestSolversAgree`.
* `DispatchRefinesContract`: `Spec => Contract!ContractSafety`.

`DischargeSound` is not inductive: at the gate it needs to know what the unsat votes
mean. `GateInv` adds `HonestThreads` (a thread that answered and is not faulty told the truth
about the problem in hand), `MainIsGuarded` (the main run starts behind a
confirmed consistency check or an exemption remembered in `skipped`) and
`NoFailureSoFar` (the counter is 0 only while nothing failed). The step that matters is `Gate`:
with fewer faulty solvers than the threshold, one of the distinct unsat voters is honest, a
counting argument on finite sets; its answer is the truth about the main problem, so the
obligation is safe or its hypotheses are contradictory; the second is excluded by
`MainIsGuarded`, whose own step `ConsistencyPassed` is the same counting argument over
sat voters, and by `WorldChanged` when the consistency run was exempt, because a voter
is not a solver that was missing.

`AcceptanceIsSound` then follows with `LedgerComplete`: no failure means that the ledger of the
uncertified is empty, every obligation has a certificate, and every certificate is a discharge.

The refinement needs in addition that the dispatcher rejects only for a reason: `RefinementInv` adds
`FailureShows`, the converse of `NoFailureSoFar`. Then each step decides one open obligation,
concludes, or is invisible in the mapping.

### SolverRun_proofs

For every number of directives, every size of the pipes and caps, any amount of chatter.

* `SolverRunTypeCorrect` and `CallLeaksNothing`, from `SafeInv`: the type invariant and the
  `Lifecycle` of call, child and threads.
* `DecisiveAnswersAreTrue`: `[]VerdictIsTruth`, assuming `~ ChattyStderr`. `solver_stderr` is the same
  property without the assumption, and fails.
* `CleanAnswersAreHeard`: `[]CleanAnswerIsHeard`, with any stderr.

The last two need `LineInv`: follow each line from the child through pipe and buffer (`Transit`, which
reading leaves as it is). A rejection shows on one of the streams unless that
stream was cut or failed (`RejectionShows`), there is no error line without one, stdout carries the
verdict once (`OneVerdict`). `Interpreted` says that the result is the interpretation of what was
read; `AcceptedIsTheAnswer` closes the case split.

### ReachGate_proofs

For every set of crates and configurations, and every order of the walk.

* `WalkEndsInItsSummary`: `[]WalkIsItsSummary`, from `WalkInv`, which says at every moment what
  `CrateWalk` says at the end, with `todo` taken out.
* `FullWalkPasses`: `[]FullWalkIsNotFlagged`.
* `AcceptedWalkDropsNothing`: `[]NothingDropped`.
* `AcceptedClosureIsVerified`: `[]ClosureVerified`, assuming `OneImpl`: no impl goes by the name of
  another function or impl. `reach_impls` shows that the assumption is needed.
* `AcceptedCallsKeepContracts`: `[]ContractsHold`, assuming that contract keys are not paths of trait
  impls and that a function whose contract a caller breaks is called, not handed on.
  `reach_argument` shows the need of the second; the first is under Findings.

`ReportInv` is the second invariant: what the walked bodies had to report is in `found`
(`BodiesReported`), so are unmatched roots and postconditions (`GateReported`), and exit 0 means
that nothing of it is there. A function counts as waived (`Waived`) also when the declaration it is
called through is trusted, as the code has it (see Findings).

### CargoCheck_proofs

For every workspace, dependency order and sequence of edits, checks and lost files. Two members have
no function in common, and edits are about functions of the workspace.

* `CargoTypeCorrect`, `AcceptedIsAnalyzed` and `BundleIsFresh`: `[]TypeOK`, `[]AcceptedMeansAnalyzed` and
  `[]BundleIsOfLastAnalysis`, from `CargoInv`: a fresh cache entry is of a walk that found nothing,
  cargo leaves a member behind only when it is fresh and its dependencies are built, and the member
  that wrote the bundle last in this check is the one the file names.
* `WalkedIsNotFlagged`: `[]NothingWalkedIsFlagged`, assuming `OneImplEach`, which is `OneImpl` across
  the workspace. It adds `ManifestInv`: a manifest is about its crate, and no crate has two.
* `AcceptedCallsAreCovered`: `[]AcceptedWorkspaceVerified`, assuming `OneImplEach` and `NamedByCrate`:
  functions go by the name of their crate, and an impl that is called by that of a trait of its own
  crate. Impls of standard-library traits are outside, as under Findings. It adds `OriginInv` (each
  manifest tells of one walk, and of none with an indirect call unless the build failed) and
  `GatePassed`.

### Replay_proofs

For every pool, threshold, timeout, set of keys, and number of changes to the file.

* `ReplayTypeCorrect`: `[]TypeOK`.
* `SignedFilesAreUntouched`: `[]SignedMeansUntouched`. No change signs, so a signature that verifies is one of those
  made over `produced`.
* `CleanReplayIsProof`: `[]CleanReplayReproves`, by the load checks and one honest unsat voter.
* `PartialReplaysFail`: `[]PartialNeverPasses`, about one change at most: the case split is over the field changed.
* `GenuineFilesReplay`: `[]GenuineReplays`, assuming `Abstentions = {}`, as `replay_safe` does: an
  installed solver whose budget suffices answers.

`ReplayInv` says what the file is after no change, after one, and after any number (`FileInv`), that
the runs so far are of the recorded pool (`RunsInv`), and that replay gets past the load checks
exactly when they pass (`StageInv`).

### Capture_proofs, BodyCheck_proofs

For every set of integer types of at least three bits, every set of bodies that
type-check, every set of callees and every contract: any number of locals, parameters, blocks and
clauses, loops included.

* `BodyTypes` and `ConstantsAreDecided`: `[]TypeOK` and `[]ConstantCallsDecided`, without provisos.
* `CallsHold`, `OperationsHold`, `DischargedReturns`, `AcceptedBodies`: `[]DischargedOperationsHold` (the calls
  alone in the first), `[]DischargedReturnsHold` and `[]AcceptedBodyNeverFails`.
* Two provisos, each for a finding above. `DirectWrites`: no statement writes through a
  reference; `body_borrow` is a violation without it. `WholeAmounts`: no `!=` clause is about
  an unsigned shift amount as wide as the signed value; only `OperationsHold` and `AcceptedBodies` need it.

`BodyInv` is the type invariant in an inductive form: the visit has recorded the findings of exactly
the blocks behind it (`ReportInv`), every local holds a value of its type (`MemoryInv`), the entry
keeps the preconditions. That the value of an operation is of its type is two's
complement at an unknown width: `Capture_proofs` has `Wrap` and the bounds of quotients,
remainders and shifts, from powers of two as numbers of bit patterns.

The properties relate what the visitor concluded once to what the body does on any path,
so none is inductive. `ContractInv` adds four parts:

* `ParamsInv`: a parameter nothing is assigned to holds its entry value; that is what a linked
  operand and a clause bound to an operand stand for.
* `ChainInv`: whenever the run is in a block of the chain that `capture_call_arg_expr` walks, every
  expression captured so far has, at this entry, the value its local has. A block of the chain
  has one way in, and the first has none, so the run got there through the block before it: this is
  where the in-edge count is used, and it fails for `capture_through_merges`.
* `EffectInv`: the same for `capture_body_effect`, where nothing is asked of the in-edges: from a
  chain of jumps and checks that closes with a return, the run has no way out. So the run is always at some
  step of the chain, and agrees with it.
* `FlagsInv`: in an accepted body no overflow flag is set and nothing has panicked.

`OverflowSound` is the step for PB049: an operand bound to a clause satisfies it, so the operand
values are among the assumed ones. The case that took the most is the shift amount of
another type: unsigned and narrower, a clause has the same meaning at both types; of the same width as a
signed value, `<`, `<=` and `==` clauses cut off the large amounts either way, and `>`, `>=` leave an
assumed amount that over-shifts, or none at all, so that nothing was discharged; `!=` is the exception. `CallSound` and `ReturnSound` do the
same for PB077 and PB076, with consistency from the entry itself.

Expressions are built along walks of any length, so these proofs are by induction over
the steps of a walk. The library's induction theorems take a predicate, which the
provers cannot instantiate; `SetInduction` and `BoundedInduction` say the same of a set, and
follow from the theorem that a well-founded relation has minimal elements.

### Worklist_proofs

For every set of types, every program made of them, every configuration and each caller.

* `RootsAreCovered`: `[]ReachableIsCovered`, for every graph of references.
* `TypesHold`, `ContractsServe`: `[]TypeOK` and `[]ContractsServeTheirBody`.
* `CastsKeepTheValue`: `[]AcceptedCastsKeepTheValue`, for every body.
* `OutsideReported`: `[]OutsideIsReported`, with `KnownTypes`: the library types of the programs are
  those of `StdTypes` and none of its crates is named `__pitbull`, after the adapter's placeholders
  (`visitor.rs:2560` is about that name).
* `RiskReported`: `[]RiskySitesReported`, with `KnownCalls`: the library calls of the programs are those
  of `StdLibrary`, and `Mir` has an integer type of either signedness.
* `StackLimit`: `[]StackLimitKept`, for types of any depth, arrays of any length and every `u64_max`.

The assumptions say what the compiler hands over. `TypesAssumption`: a type has the parts of its kind
and each is nested less deep than the type. `WorklistAssumption`: statements and terminators have
the operands their kind has, a place that is a whole local is of the local's type, an integer constant
is in the range of its type; the condition of an `assert` is a `bool` constant or any place without an
indexing projection, such as the flag `_n.1` that checked `+`, `-` and `*` leave (`visitor.rs:805`
looks at the message only, so an index in the condition would go unreported; rustc writes the flag to
a local first); the stack limit is below the largest `u64`, which would be
no limit, and a pointer has at least one byte. `U64Assumption`: the largest `u64` is a positive number. TLC evaluates them, `KnownTypes` and `KnownCalls`
on the programs of `visitor_safe`.

`WalkInv` is the inductive invariant: the report is, at any moment, the union of what
the visited items contribute (`Contribution`, a function of item, caller and configuration), nothing is
installed between two visits, and stack and visited set hold items. That a visit's contribution does not
depend on the visits before it is what `clear_per_body_state` is for; with it, the properties about the
report come down to one visit. `CoverInv` adds what only the driver promises: roots and references
of visited functions are visited, on the stack or excluded, and nothing else is.

`OutsideReported` is then about the tables. `VisitTyDef` gives the two recursive functions `ty` and
`visit_ty` their equations, by induction over the depth of types; `AdaptedInduction` is the induction for
properties of `visit_ty[ty[t]]`. `Judged` is the judgement of a type by its parts. That whatever a
statement or terminator mentions is visited (`StatementRecorded`, `TerminatorRecorded`) holds case by
case of `visit_statement`, `visit_rvalue` and `visit_terminator`.

`RiskReported` has two sides. `CallsAreNoted`, `IndexInStatement`, `IndexInTerminator` and
`ArithmeticIsNoted` follow each risk through the adapter to the result that is pushed for it, or to the gap
where the visitor cannot tell the type. `PanicsAreKnown` holds the library against the matchers: a method
with an argument, of a type of any width, on which its arithmetic is undefined or leaves the type
(`IntPanicsAreKnown`) is named by one of them, or is one of those that only the strict mode sees.

`StackLimit` compares three recursions over a type: the estimate, over what the adapter made of it, and the
layout and the bulk, over the compiler's. `SizesDef`, `LayoutDef` and `BulkDef` give them their equations, `SumsCompare`
and `TimesCompares` say that adding and multiplying with saturation keep a bound from above, and one from below
unless the result is the largest `u64`, and `SizesCompare` carries both bounds through every type.

### Only model-checked

* Liveness (fairness and `ENABLED` are outside the prover): the liveness half of
  `ImplementsContract`, `ReturnsUnlessHeld`, `WalkEnds`.

## 5. Not modelled

* **The rest of the visitor**: fragment text, spans and messages; obligations about indexing, casts
  and negation are due at a place (`Visitor`), but their formulas are not evaluated (`BodyCheck`
  has binary arithmetic, calls and returns). `ReachGate` takes the visitor's result per body as given.
* **Predicate parser and formula text**: `Dispatch` takes an obligation's truth as given and
  `BodyCheck` takes the meaning of a clause; that the text says so is not shown. A clause as
  tokens would need the recursive-descent parser and the SMT printer together, and shows little
  until both are there.
* **Paths as text**: gates and matchers compare records, so the string parsing of renderings
  with generics, sigils or nested qualification is outside.
* **Adapter spans and identities**: a function's identity is the function.
* **Version probing**: its output only ends up in the certificate's text.
* **Configuration parsing**: serde with defaults; the values in use appear as constants or `config`.
* **Report text, SARIF, rule tables, `rules`, `explain`, `verify`**: output only.
* **Attribute macros, mutation list, build scripts**: without state.
