------------------------------ MODULE Dispatch ------------------------------
(***************************************************************************)
(* The obligation dispatcher of the compiler wrapper,                      *)
(* `dispatch_vc_obligations` in crates/pitbull-driver/src/bin/             *)
(* pitbull-rustc.rs, together with the pool it is given and the            *)
(* certificate bundle its caller writes.                                   *)
(*                                                                         *)
(* One dispatcher thread walks the obligations in order.  For each one it  *)
(* runs the whole pool, one thread per solver, on the consistency problem  *)
(* (are the hypotheses jointly satisfiable?) and then on the main problem  *)
(* (hypotheses /\ ~safety), and takes its decision from the two sets of    *)
(* results.  Between any two steps the set of solver binaries on PATH may  *)
(* change.                                                                 *)
(*                                                                         *)
(* What a solver SHOULD answer is part of the state: an obligation carries *)
(* the truth about itself, an honest solver returns it or abstains, and a  *)
(* faulty one returns anything.                                            *)
(***************************************************************************)
EXTENDS Agreement, Sequences

CONSTANTS
  NumObligations, \* how many VC obligations the walk of the crate emitted
  Known,          \* the solver names known_solver resolves
  Configs,        \* the [verification] sections considered
  Obligations,    \* the kinds of obligation considered
  Abstentions     \* the ways an installed solver fails to decide

\* A [verification] section: the configured names in order, the names with a
\* version pin, and the agreement threshold as written (it may be 0).
Config == [solvers : Seq(STRING), pinned : SUBSET Known, solver_agreement : Nat]

(***************************************************************************)
(* Obligations and what is true of them.                                   *)
(***************************************************************************)
Obligation == [compiles : BOOLEAN,                            \* has a VcGoal
               hyps     : {"none", "satisfiable", "contradictory"},
               safe     : BOOLEAN]     \* the property holds under the hyps

\* Hypotheses that no state satisfies imply everything; an obligation that has
\* them does not count as safe.
Genuine(o) == o.hyps = "contradictory" => ~ o.safe

\* What an ideal solver answers to each of the two problems.
ConsistencyTruth(o) == IF o.hyps = "contradictory" THEN "unsat" ELSE "sat"
MainTruth(o) == IF o.hyps = "contradictory" \/ o.safe THEN "unsat" ELSE "sat"

\* The obligation really establishes its property, and not vacuously.
Proven(o) == o.compiles /\ o.hyps # "contradictory" /\ o.safe

ASSUME DispatchAssumption ==
  /\ NumObligations \in Nat \ {0}
  /\ IsFiniteSet(Known) /\ Known \subseteq STRING
  /\ "<panicked>" \notin Known
  /\ Configs \subseteq Config
  /\ Obligations \subseteq {o \in Obligation : Genuine(o)}
  /\ Abstentions \subseteq {"unknown", "timeout", "error"}

-----------------------------------------------------------------------------
VARIABLES
  cfg,          \* the validated configuration
  obligations,  \* what is true of each obligation (never read by the code)
  faulty,       \* the solvers whose answers may be wrong (never read)
  installed,    \* the solver binaries currently on PATH
  pool,         \* slot |-> solver name, after dedup and version pins
  pc,           \* where the dispatcher thread is
  current,      \* the obligation in hand; obligations before it are decided
  threads,      \* slot |-> result of that solver's thread, or Running
  skipped,      \* consistency_skipped_no_solver
  discharged, undischarged,  \* the two counters
  certs,        \* certificates of the obligations that reached the gate
  uncertified,  \* ledger entries of those that did not
  bundle        \* the certificate bundle on disk, or NoBundle

vars == <<cfg, obligations, faulty, installed, pool, pc, current, threads,
          skipped, discharged, undischarged, certs, uncertified, bundle>>

world    == <<cfg, obligations, faulty>>
counters == <<discharged, undischarged, certs, uncertified>>
threshold == AtLeastOne(cfg.solver_agreement)

\* What the gate takes on trust: fewer wrong solvers than votes required.
Trusted == Cardinality(faulty) < threshold
-----------------------------------------------------------------------------
(***************************************************************************)
(* The pool.                                                               *)
(***************************************************************************)
Running == [solver |-> "", verdict |-> "running"]

\* Variant, used only to test the properties: unknown names stay in the pool.
FirstOnly(names) == {j \in DOMAIN names : \A h \in 1..(j - 1) : names[h] # names[j]}

\* Known names, first occurrence of each.
KnownOnce(names) ==
  {j \in DOMAIN names : /\ names[j] \in Known
                        /\ \A h \in 1..(j - 1) : names[h] # names[j]}

\* A pinned solver stays only when its binary answers --version with a
\* matching token; `matching` are the pinned solvers that would.
Retained(names, matching) ==
  {j \in KnownOnce(names) :
     names[j] \in cfg.pinned => names[j] \in installed \cap matching}

BuildPool ==
  /\ pc = "pool"
  /\ \E matching \in SUBSET cfg.pinned :
       pool' = [j \in Retained(cfg.solvers, matching) |-> cfg.solvers[j]]
  /\ pc' = "next"
  /\ UNCHANGED <<world, installed, current, threads, skipped, counters, bundle>>

\* Variant, used only to test the properties: the results of the consistency run are
\* kept for the main run.
SpawnedOnce == IF threads # <<>> THEN threads ELSE [k \in DOMAIN pool |-> Running]

\* run_solvers spawns one thread per solver of the pool.
Spawned == [k \in DOMAIN pool |-> Running]

\* Variant, used only to test the properties: a thread that did not decide is awaited.
AllDecided == \A k \in DOMAIN threads : threads[k].verdict \in {"sat", "unsat"}

Joined == \A k \in DOMAIN threads : threads[k] # Running

\* The problem the threads work on, by the dispatcher's position.
Truth == IF pc = "consistency" THEN ConsistencyTruth(obligations[current])
                               ELSE MainTruth(obligations[current])

\* What one invocation of s may return now.  SolverRun is the detailed model.
Outcomes(s) ==
  IF s \notin installed THEN {"not-installed"}
  ELSE Abstentions \cup (IF s \in faulty THEN {"sat", "unsat"} ELSE {Truth})

\* The thread of slot k returns, or panics and is recorded under a name that
\* is no solver's.
SolverReturns(k) ==
  /\ threads[k] = Running
  /\ \/ \E r \in Outcomes(pool[k]) :
          threads' = [threads EXCEPT ![k] = [solver |-> pool[k], verdict |-> r]]
     \/ /\ "error" \in Abstentions
        /\ threads' = [threads EXCEPT
                         ![k] = [solver |-> "<panicked>", verdict |-> "error"]]
  /\ UNCHANGED <<world, installed, pool, pc, current, skipped, counters, bundle>>
-----------------------------------------------------------------------------
(***************************************************************************)
(* The dispatcher.                                                         *)
(***************************************************************************)
\* Variant, used only to test the properties: the early exits forget the counter, or the
\* ledger entry.
RefuseUncounted(status) ==
  /\ uncertified' = Append(uncertified, [id |-> current, status |-> status])
  /\ current' = current + 1 /\ pc' = "next" /\ threads' = <<>>
  /\ UNCHANGED <<discharged, undischarged, certs>>

RefuseUnlisted(status) ==
  /\ undischarged' = undischarged + 1
  /\ current' = current + 1 /\ pc' = "next" /\ threads' = <<>>
  /\ UNCHANGED <<discharged, certs, uncertified>>

\* The early exits of the loop body: the obligation never reaches the gate.
Refuse(status) ==
  /\ uncertified' = Append(uncertified, [id |-> current, status |-> status])
  /\ undischarged' = undischarged + 1
  /\ current' = current + 1
  /\ pc' = "next"
  /\ threads' = <<>>
  /\ UNCHANGED <<discharged, certs>>

\* compile_with_index_bits returned None.
Pending ==
  /\ pc = "next" /\ current <= NumObligations
  /\ ~ obligations[current].compiles
  /\ Refuse("pending")
  /\ UNCHANGED <<world, installed, pool, skipped, bundle>>

\* Take up an obligation; with hypotheses, the consistency problem runs first.
TakeUp ==
  /\ pc = "next" /\ current <= NumObligations
  /\ obligations[current].compiles
  /\ skipped' = FALSE
  /\ threads' = Spawned
  /\ pc' = IF obligations[current].hyps = "none" THEN "main" ELSE "consistency"
  /\ UNCHANGED <<world, installed, pool, current, counters, bundle>>

\* Any solver that proves the hypotheses contradictory stops the obligation.
ConsistencyRefused ==
  /\ pc = "consistency" /\ Joined
  /\ Voters(threads, "unsat") # {}
  /\ Refuse("consistency-refused")
  /\ UNCHANGED <<world, installed, pool, skipped, bundle>>

\* Proceeding takes as many independent sat votes as the gate takes unsat.
ConsistencyUnconfirmed ==
  /\ pc = "consistency" /\ Joined
  /\ Voters(threads, "unsat") = {}
  /\ ~ AllNotInstalled(threads)
  /\ Cardinality(Voters(threads, "sat")) < threshold
  /\ Refuse("consistency-unconfirmed")
  /\ UNCHANGED <<world, installed, pool, skipped, bundle>>

\* Confirmed, or exempt because no solver is installed at all: run the main
\* problem, remembering which of the two it was.
ConsistencyPassed ==
  /\ pc = "consistency" /\ Joined
  /\ Voters(threads, "unsat") = {}
  /\ \/ AllNotInstalled(threads)
     \/ Cardinality(Voters(threads, "sat")) >= threshold
  /\ skipped' = AllNotInstalled(threads)
  /\ threads' = Spawned
  /\ pc' = "main"
  /\ UNCHANGED <<world, installed, pool, current, counters, bundle>>

\* Variant, used only to test the properties: nobody looks whether solvers appeared.
NeverChanged == FALSE

\* The consistency check was skipped for want of a solver, yet the main run
\* reached one.
WorldChanged == skipped /\ DOMAIN threads # {} /\ ~ AllNotInstalled(threads)

MainUnconfirmed ==
  /\ pc = "main" /\ Joined
  /\ WorldChanged
  /\ Refuse("consistency-unconfirmed")
  /\ UNCHANGED <<world, installed, pool, skipped, bundle>>

\* Variant, used only to test the properties: a certificate is voted at threshold 1.
CertificateAtOne(id, results) ==
  [id |-> id, solver_results |-> results, verdict |-> Vote(results, 1),
   unsat_votes |-> UnsatVotes(results), threshold |-> 1]

\* ObligationCertificate::from_run
Certificate(id, results) ==
  [id |-> id, solver_results |-> results, verdict |-> Vote(results, threshold),
   unsat_votes |-> UnsatVotes(results), threshold |-> threshold]

\* The gate: certify, then count the verdict of the same results.
Gate ==
  /\ pc = "main" /\ Joined
  /\ ~ WorldChanged
  /\ certs' = Append(certs, Certificate(current, threads))
  /\ IF Vote(threads, threshold) = "discharged"
     THEN discharged' = discharged + 1 /\ UNCHANGED undischarged
     ELSE undischarged' = undischarged + 1 /\ UNCHANGED discharged
  /\ current' = current + 1
  /\ pc' = "next"
  /\ threads' = <<>>
  /\ UNCHANGED <<world, installed, pool, skipped, uncertified, bundle>>

Return ==
  /\ pc = "next" /\ current > NumObligations
  /\ pc' = "returned"
  /\ UNCHANGED <<world, installed, pool, current, threads, skipped, counters, bundle>>

NoBundle == [total_obligations |-> 0]

\* The caller writes the bundle when PITBULL_CERT_OUT asks for one; a failed
\* write only warns.
WriteBundle ==
  /\ pc = "returned"
  /\ \/ bundle' = [total_obligations |-> NumObligations,
                   solver_agreement  |-> threshold,
                   obligations       |-> certs,
                   uncertified       |-> uncertified]
     \/ bundle' = NoBundle
  /\ pc' = "done"
  /\ UNCHANGED <<world, installed, pool, current, threads, skipped, counters>>

\* The environment: a binary appears on or vanishes from PATH, at any moment.
PathChange ==
  /\ pc # "done"
  /\ \E s \in Known : installed' \in {installed \cup {s}, installed \ {s}}
  /\ UNCHANGED <<world, pool, pc, current, threads, skipped, counters, bundle>>
-----------------------------------------------------------------------------
Init ==
  /\ cfg \in Configs
  /\ obligations \in [1..NumObligations -> Obligations]
  /\ faulty \in SUBSET Known
  /\ installed \in SUBSET Known
  /\ pool = <<>>
  /\ pc = "pool"
  /\ current = 1
  /\ threads = <<>>
  /\ skipped = FALSE
  /\ discharged = 0 /\ undischarged = 0
  /\ certs = <<>> /\ uncertified = <<>>
  /\ bundle = NoBundle

Dispatcher ==
  \/ BuildPool
  \/ Pending
  \/ TakeUp
  \/ ConsistencyRefused
  \/ ConsistencyUnconfirmed
  \/ ConsistencyPassed
  \/ MainUnconfirmed
  \/ Gate
  \/ Return
  \/ WriteBundle

Solvers == \E k \in DOMAIN threads : SolverReturns(k)

\* The wrapper goes on to its report; nothing here changes any more.
Terminated == pc = "done" /\ UNCHANGED vars

Next == Dispatcher \/ Solvers \/ PathChange \/ Terminated

\* The dispatcher never waits for anything but the join of its threads, and
\* every thread returns by its kill deadline.
Fairness == WF_vars(Dispatcher) /\ WF_vars(Solvers)

Spec == Init /\ [][Next]_vars /\ Fairness
-----------------------------------------------------------------------------
(***************************************************************************)
(* Properties.                                                             *)
(***************************************************************************)
Names      == Known \cup {"<panicked>"}
Result     == [solver : Names, verdict : SolverResult]
ResultSet(Slot) == [Slot -> Result]
Slots      == DOMAIN cfg.solvers
CertType   == [id             : 1..NumObligations,
               solver_results : UNION {ResultSet(S) : S \in SUBSET Slots},
               verdict        : AgreementTag,
               unsat_votes    : Nat,
               threshold      : Nat \ {0}]
LedgerType == [id     : 1..NumObligations,
               status : {"pending", "consistency-refused", "consistency-unconfirmed"}]

\* Type correctness.  A run uses exactly the slots of the pool, and the pool
\* only slots of the configured list.
TypeOK ==
  /\ cfg \in Configs
  /\ obligations \in [1..NumObligations -> Obligations]
  /\ faulty \in SUBSET Known
  /\ installed \in SUBSET Known
  /\ DOMAIN pool \in SUBSET Slots
  /\ pool \in [DOMAIN pool -> Known]
  /\ pc \in {"pool", "next", "consistency", "main", "returned", "done"}
  /\ current \in 1..(NumObligations + 1)
  /\ pc \in {"consistency", "main"} =>
       /\ current \in 1..NumObligations
       /\ threads \in [DOMAIN pool -> Result \cup {Running}]
  /\ pc \notin {"consistency", "main"} => threads = <<>>
  /\ skipped \in BOOLEAN
  /\ discharged \in Nat /\ undischarged \in Nat
  /\ certs \in Seq(CertType)
  /\ uncertified \in Seq(LedgerType)

\* While fewer solvers than the threshold are wrong, a certificate that says
\* `discharged` is about an obligation that is true and whose hypotheses are
\* satisfiable - whatever PATH did between the consistency and the main run,
\* whichever invocations timed out, failed or panicked.
DischargeSound ==
  Trusted => \A k \in DOMAIN certs :
    certs[k].verdict = "discharged" => Proven(obligations[certs[k].id])

\* The exit code's question: a dispatch that reports nothing undischarged has
\* proven every obligation, the ones that never reached the gate included.
AcceptedMeansProven ==
  pc \in {"returned", "done"} /\ undischarged = 0 /\ Trusted =>
    \A o \in 1..NumObligations : Proven(obligations[o])

\* Why the two hold.  A thread that answered and is not faulty told the truth
\* about the problem in hand; the main run starts only behind a confirmed
\* consistency check, or an exemption remembered in `skipped`; and the counter
\* of failures is 0 only while there has been none.
HonestThreads ==
  \A k \in DOMAIN threads :
    /\ threads[k].verdict \in {"sat", "unsat"} => threads[k].solver \in Known
    /\ /\ threads[k].verdict \in {"sat", "unsat"}
       /\ threads[k].solver \notin faulty
       => threads[k].verdict = Truth
MainIsGuarded ==
  /\ pc \in {"consistency", "main"} => obligations[current].compiles
  /\ pc = "main" /\ ~ skipped /\ Trusted =>
       obligations[current].hyps # "contradictory"
NoFailureSoFar ==
  undischarged = 0 =>
    /\ uncertified = <<>>
    /\ \A k \in DOMAIN certs : certs[k].verdict = "discharged"
GateInv == HonestThreads /\ MainIsGuarded /\ NoFailureSoFar /\ DischargeSound

\* The ledger is complete and has no duplicate: at every loop head each
\* obligation already taken up is in exactly one entry of exactly one list.
CertIds == {certs[k].id : k \in DOMAIN certs}
LedgerIds == {uncertified[k].id : k \in DOMAIN uncertified}
LedgerComplete ==
  /\ CertIds \cup LedgerIds = 1..(current - 1)
  /\ Len(certs) + Len(uncertified) = current - 1

\* No single binary, no empty pool and no threshold of 0 discharges anything:
\* at least max(1, solver_agreement) different configured solvers stand
\* behind every discharge, and none against it.
IndependentVotes ==
  \A k \in DOMAIN certs : certs[k].verdict = "discharged" =>
    LET results == certs[k].solver_results
        backers == {n \in Known : \E j \in DOMAIN results :
                      results[j] = [solver |-> n, verdict |-> "unsat"]}
    IN  /\ backers # {}
        /\ Cardinality(backers) >= cfg.solver_agreement
        /\ backers \subseteq {cfg.solvers[j] : j \in DOMAIN cfg.solvers}
        /\ \A j \in DOMAIN results : results[j].verdict # "sat"

\* The converse direction, against false alarms: when every solver is honest
\* no certificate records a disagreement, and one that records a refutation
\* is about an obligation whose property really fails.
HonestSolversAgree ==
  faulty = {} => \A k \in DOMAIN certs :
    /\ certs[k].verdict # "disagreement"
    /\ certs[k].verdict = "refuted" => ~ obligations[certs[k].id].safe

\* What the dispatch amounts to, seen from outside.
DecisionOf(o) ==
  IF o >= current THEN "open"
  ELSE IF \E k \in DOMAIN certs : certs[k].id = o /\ certs[k].verdict = "discharged"
       THEN "discharged" ELSE "refused"
Outcome ==
  IF pc \notin {"returned", "done"} THEN "running"
  ELSE IF undischarged = 0 THEN "accepted" ELSE "rejected"

Contract == INSTANCE VerificationContract WITH
  Ids      <- 1..NumObligations,
  trusted  <- Trusted,
  proven   <- {o \in 1..NumObligations : Proven(obligations[o])},
  decision <- [o \in 1..NumObligations |-> DecisionOf(o)],
  outcome  <- Outcome

\* The dispatcher implements the contract of VerificationContract: an obligation
\* is decided once and for all, and the answer is the conjunction of the
\* decisions.  Liveness is included: no thread outcome and no change of PATH
\* leaves the dispatcher waiting, so every obligation is decided in the end and
\* the dispatch returns.
ImplementsContract == Contract!ContractSpec
=============================================================================
