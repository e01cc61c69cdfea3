------------------------------- MODULE Replay -------------------------------
(***************************************************************************)
(* `cargo pitbull replay`: the certificate bundle a dispatch wrote is read *)
(* back, possibly much later, on another machine, under another set of     *)
(* solvers, and after its file has been damaged or edited.                 *)
(*   crates/pitbull-vc/src/cert.rs        CertificateBundle and its checks *)
(*   crates/pitbull-driver/src/main.rs    run_replay                       *)
(*                                                                         *)
(* A recorded SMT problem is the answer it has and the seconds a solver    *)
(* needs for it.  A signature is the signer and the content it covers, so  *)
(* that it verifies exactly under that key and over that content.          *)
(***************************************************************************)
EXTENDS Agreement, Integers, SequencesExt

CONSTANTS
  Names,           \* the solver names recorded and known to the replayer
  Pools,           \* the pools recorded, each without a duplicate name
  MaxObligations,  \* bound on the obligations of the certified crate
  Thresholds,      \* agreement thresholds, as clamped by the producer
  Timeouts,        \* recorded timeouts, in seconds
  ReplayCap,       \* the largest timeout replay uses (3600 s in the code)
  Needs,           \* the seconds a problem may need
  Abstentions,     \* why an installed solver may fail to answer in time
  Paths,           \* the sets of solvers that may be on PATH during a run
  Keys,            \* per scheme, the keys a signer or a verifier may hold
  Policies,        \* the values of PITBULL_REQUIRE_SIGNED
  MaxEdits         \* bound on the changes made to the file at rest

ASSUME ReplayAssumption ==
  /\ IsFiniteSet(Names)
  /\ \A pool \in Pools : pool \in Seq(Names) /\ IsInjective(pool)
  /\ MaxObligations \in Nat /\ MaxEdits \in Nat /\ ReplayCap \in Nat \ {0}
  /\ Thresholds \subseteq Nat \ {0}
  /\ Timeouts \subseteq Nat \ {0} /\ Needs \subseteq Nat \ {0}
  /\ Abstentions \subseteq {"unknown", "timeout", "error"}
  /\ Paths \subseteq SUBSET Names
  /\ "none" \in Keys /\ Policies \subseteq BOOLEAN

CERT_FORMAT_VERSION == 3
Problems == [answer : {"sat", "unsat"}, needs : Needs]

VARIABLES
  env,       \* the replayer's environment: the two keys, PITBULL_REQUIRE_SIGNED
  faulty,    \* the solvers whose answers may be wrong
  produced,  \* the bundle as the wrapper wrote it
  bundle,    \* the bundle in the file now
  edits,     \* how often the file was changed
  pc,        \* where run_replay is
  runs,      \* the fresh results, one per certificate replayed
  exit       \* the exit code

vars == <<env, faulty, produced, bundle, edits, pc, runs, exit>>
world == <<env, faulty, produced>>
-----------------------------------------------------------------------------
(***************************************************************************)
(* Solver runs: what a pool may return on problem p within `budget`.       *)
(***************************************************************************)
Outcomes(s, p, present, budget, wrong) ==
  IF s \notin present THEN {"not-installed"}
  ELSE IF p.needs > budget THEN {"timeout"}
  ELSE Abstentions \cup (IF s \in wrong THEN {"sat", "unsat"} ELSE {p.answer})

Results(pool, p, budget, wrong) ==
  UNION {{[k \in DOMAIN pool |-> [solver |-> pool[k], verdict |-> v[k]]] :
            v \in {w \in [DOMAIN pool -> SolverResult] :
                     \A k \in DOMAIN pool :
                       w[k] \in Outcomes(pool[k], p, present, budget, wrong)}} :
         present \in Paths}

\* ObligationCertificate::from_run
from_run(p, results, threshold) ==
  [smt |-> p, solver_results |-> results, verdict |-> Vote(results, threshold),
   unsat_votes |-> UnsatVotes(results), threshold |-> threshold]

(***************************************************************************)
(* Bundles.                                                                *)
(***************************************************************************)
Unsigned == [key |-> "none", content |-> <<>>]

\* canonical_bytes: everything but the two signature fields.
Content(b) == [b EXCEPT !.signature = Unsigned, !.ed25519_signature = Unsigned]

Sign(b, key) == IF key = "none" THEN Unsigned
                ELSE [key |-> key, content |-> Content(b)]

is_discharged(c) == c.verdict = "discharged"

\* Variant, used only to test the properties: the ledger need not add up.
LedgerUnchecked(b) == TRUE

ledger_consistent(b) ==
  b.total_obligations = Len(b.obligations) + Len(b.uncertified)

attests_full_verification(b) ==
  /\ b.total_obligations # 0
  /\ ledger_consistent(b)
  /\ b.uncertified = <<>>
  /\ \A k \in DOMAIN b.obligations : is_discharged(b.obligations[k])

\* The bundle of a dispatch over `certs` and `uncertified`, signed with the
\* keys the producer has.
Bundle(certs, uncertified, pool, threshold, timeout, hmac, ed) ==
  LET b == [format_version |-> CERT_FORMAT_VERSION, threshold |-> threshold,
            timeout_seconds |-> timeout, solvers |-> pool,
            obligations |-> certs, uncertified |-> uncertified,
            total_obligations |-> Len(certs) + Len(uncertified),
            signature |-> Unsigned, ed25519_signature |-> Unsigned]
  IN  [b EXCEPT !.signature = Sign(b, hmac), !.ed25519_signature = Sign(b, ed)]

\* Variant, used only to test the properties: a verdict needs its votes.
MustBeVoted(c) ==
  /\ Vote(c.solver_results, c.threshold) = c.verdict
  /\ c.unsat_votes >= c.threshold

\* check_internal_consistency: the recorded decision is re-derived from the
\* recorded results.
InternallyConsistent(c) ==
  /\ Vote(c.solver_results, c.threshold) = c.verdict
  /\ UnsatVotes(c.solver_results) = c.unsat_votes

\* Variant, used only to test the properties: the certificates' thresholds are their own.
LoadsUnpinned(b) ==
  /\ b.format_version <= CERT_FORMAT_VERSION /\ b.threshold # 0
  /\ \A k \in DOMAIN b.obligations :
       b.obligations[k].threshold # 0 /\ InternallyConsistent(b.obligations[k])
  /\ b.total_obligations # 0 => ledger_consistent(b)

\* CertificateBundle::from_json accepts the file.
from_json(b) ==
  /\ b.format_version <= CERT_FORMAT_VERSION
  /\ b.threshold # 0
  /\ \A k \in DOMAIN b.obligations :
       /\ b.obligations[k].threshold # 0
       /\ b.obligations[k].threshold = b.threshold
       /\ InternallyConsistent(b.obligations[k])
  /\ b.total_obligations # 0 => ledger_consistent(b)

\* verify_signature and verify_ed25519, None without a key to verify with.
Verify(signature, b, key) ==
  IF key = "none" THEN "None"
  ELSE IF signature = Unsigned THEN "Unsigned"
  ELSE IF signature = [key |-> key, content |-> Content(b)] THEN "Valid"
  ELSE "Invalid"

\* Variant, used only to test the properties: an invalid signature is as good as none.
AnyValidWillDo(require_signed, hmac, ed25519) ==
  require_signed => "Valid" \in {hmac, ed25519}

signing_policy_ok(require_signed, hmac, ed25519) ==
  /\ "Invalid" \notin {hmac, ed25519}
  /\ require_signed => "Valid" \in {hmac, ed25519}

\* Variant, used only to test the properties: the failures are counted.
FailureCount(mismatches, attests_full) ==
  mismatches + (IF attests_full THEN 0 ELSE 1)

replay_exit_code(mismatches, attests_full) ==
  IF mismatches = 0 /\ attests_full THEN 0 ELSE 1

\* Variant, used only to test the properties: every replay gets the largest budget.
LargestBudget(b) == ReplayCap

\* The recorded timeout, clamped to a sane range.
Budget(b) == IF b.timeout_seconds > ReplayCap THEN ReplayCap ELSE b.timeout_seconds
-----------------------------------------------------------------------------
(***************************************************************************)
(* The file at rest: any one field may change.                             *)
(***************************************************************************)
Small == 0..(MaxObligations + 1)

EditedCertificates(c) ==
  {[c EXCEPT !.verdict = v] : v \in AgreementTag}
  \cup {[c EXCEPT !.threshold = t] : t \in Small}
  \cup {[c EXCEPT !.unsat_votes = n] : n \in Small}
  \cup {[c EXCEPT !.smt = p] : p \in Problems}
  \cup UNION {{[c EXCEPT !.solver_results[k].verdict = v] : v \in SolverResult} :
              k \in DOMAIN c.solver_results}

Edited(b) ==
  {[b EXCEPT !.format_version = n] : n \in {1, CERT_FORMAT_VERSION + 1}}
  \cup {[b EXCEPT !.threshold = t] : t \in Small}
  \cup {[b EXCEPT !.total_obligations = n] : n \in Small}
  \cup {[b EXCEPT !.solvers = RemoveAt(@, k)] : k \in DOMAIN b.solvers}
  \cup {[b EXCEPT !.uncertified = RemoveAt(@, k)] : k \in DOMAIN b.uncertified}
  \cup {[b EXCEPT !.obligations = RemoveAt(@, k)] : k \in DOMAIN b.obligations}
  \cup {[b EXCEPT !.signature = Unsigned], [b EXCEPT !.ed25519_signature = Unsigned]}
  \cup UNION {{[b EXCEPT !.obligations[k] = c] :
                 c \in EditedCertificates(b.obligations[k])} :
              k \in DOMAIN b.obligations}

Edit ==
  /\ pc = "at rest" /\ edits < MaxEdits
  /\ bundle' \in Edited(bundle) \ {bundle}
  /\ edits' = edits + 1
  /\ UNCHANGED <<world, pc, runs, exit>>
-----------------------------------------------------------------------------
(***************************************************************************)
(* run_replay.                                                             *)
(***************************************************************************)
HmacStatus    == Verify(bundle.signature, bundle, env.hmac)
Ed25519Status == Verify(bundle.ed25519_signature, bundle, env.ed25519)

\* The checks before any solver runs: the file loads, it records something,
\* the signing policy holds, and a recorded solver is known.
Replayable ==
  /\ from_json(bundle)
  /\ ~ (bundle.obligations = <<>> /\ bundle.uncertified = <<>>)
  /\ signing_policy_ok(env.require_signed, HmacStatus, Ed25519Status)
  /\ bundle.solvers # <<>>

Refuse ==
  /\ pc = "at rest" /\ ~ Replayable
  /\ exit' = 2 /\ pc' = "done"
  /\ UNCHANGED <<world, bundle, edits, runs>>

Load ==
  /\ pc = "at rest" /\ Replayable
  /\ pc' = "replaying"
  /\ UNCHANGED <<world, bundle, edits, runs, exit>>

\* replay_certificate: run the recorded problem through the recorded pool.
ReplayCertificate ==
  /\ pc = "replaying" /\ Len(runs) < Len(bundle.obligations)
  /\ \E fresh \in Results(bundle.solvers, bundle.obligations[Len(runs) + 1].smt,
                          Budget(bundle), faulty) :
       runs' = Append(runs, fresh)
  /\ UNCHANGED <<world, bundle, edits, pc, exit>>

\* replay_with_results: votes with the certificate's own threshold.
Replayed(k) == Vote(runs[k], bundle.obligations[k].threshold)
Mismatches == {k \in DOMAIN runs : Replayed(k) # bundle.obligations[k].verdict}

Report ==
  /\ pc = "replaying" /\ Len(runs) = Len(bundle.obligations)
  /\ exit' = replay_exit_code(Cardinality(Mismatches),
                              attests_full_verification(bundle))
  /\ pc' = "done"
  /\ UNCHANGED <<world, bundle, edits, runs>>

Finished == pc = "done" /\ UNCHANGED vars

(***************************************************************************)
(* Init: any bundle a dispatch writes.  An obligation is certified by a    *)
(* run of the pool or is left in the ledger of the uncertified.            *)
(***************************************************************************)
Certificates(pool, threshold, timeout, wrong) ==
  UNION {{from_run(p, r, threshold) : r \in Results(pool, p, timeout, wrong)} :
         p \in Problems}

InitOver(pools, most, thresholds, timeouts, keys, policies) ==
  /\ env \in [hmac : keys, ed25519 : keys, require_signed : policies]
  /\ faulty \in SUBSET Names
  /\ \E pool \in pools, threshold \in thresholds, timeout \in timeouts, hmac \in keys, ed \in keys,
        certified \in 0..most :
       \E certs \in [1..certified -> Certificates(pool, threshold, timeout, faulty)],
          left \in 0..(most - certified) :
         /\ certified + left > 0
         /\ produced = Bundle(certs, [k \in 1..left |-> "uncertified"], pool,
                              threshold, timeout, hmac, ed)
  /\ bundle = produced
  /\ edits = 0 /\ pc = "at rest" /\ runs = <<>> /\ exit = -1

Init == InitOver(Pools, MaxObligations, Thresholds, Timeouts, Keys, Policies)

Next == Edit \/ Refuse \/ Load \/ ReplayCertificate \/ Report \/ Finished

Spec == Init /\ [][Next]_vars
-----------------------------------------------------------------------------
(***************************************************************************)
(* Properties.                                                             *)
(***************************************************************************)
\* Type correctness; a replay never runs more problems than are recorded, and
\* it exits only when it is done.
TypeOK ==
  /\ env \in [hmac : Keys, ed25519 : Keys, require_signed : BOOLEAN]
  /\ faulty \in SUBSET Names
  /\ edits \in 0..MaxEdits
  /\ pc \in {"at rest", "replaying", "done"}
  /\ exit \in {-1, 0, 1, 2} /\ (exit = -1 <=> pc # "done")
  /\ Len(runs) <= Len(bundle.obligations)
  /\ \A k \in DOMAIN runs : DOMAIN runs[k] = DOMAIN bundle.solvers

\* While fewer solvers than the printed threshold are wrong, a clean replay has
\* proved every recorded problem again in this very run - whatever happened to
\* the file before, and whatever the recorded results claim.
CleanReplayReproves ==
  exit = 0 /\ Cardinality(faulty) < bundle.threshold =>
    /\ bundle.obligations # <<>>
    /\ \A k \in DOMAIN bundle.obligations : bundle.obligations[k].smt.answer = "unsat"

\* No single change to the file turns the certificate of a dispatch that left
\* an obligation undischarged or uncertified into one that replays cleanly.
PartialNeverPasses ==
  exit = 0 /\ edits <= 1 => attests_full_verification(produced)

\* Under PITBULL_REQUIRE_SIGNED a clean replay is about the content one of the
\* two keys signed, however often the file was changed; and a signature that is
\* present and fails under the key at hand is never passed over, strict or not.
SignedMeansUntouched ==
  exit \in {0, 1} =>
    /\ env.require_signed => Content(bundle) = Content(produced)
    /\ \A k \in {"hmac", "ed25519"} :
         LET signature == IF k = "hmac" THEN bundle.signature
                                        ELSE bundle.ed25519_signature
         IN  env[k] # "none" /\ signature # Unsigned =>
               Content(bundle) = Content(produced) /\ signature.key = env[k]

\* What the wrapper wrote is not found at fault, whatever the dispatch decided.
\* The load checks admit it.  And since replay re-uses the recorded timeout "so
\* a non-default original timeout cannot cause a spurious MISMATCH", it
\* reproduces every verdict, the timeouts among them, with the solvers of the
\* certifying run, all of them honest and in reach, if the recorded timeout is
\* within the replay cap.
AllInReach(results) == \A k \in DOMAIN results : results[k].verdict # "not-installed"
GenuineReplays ==
  edits = 0 =>
    /\ from_json(bundle)
    /\ exit = 2 => \/ bundle.solvers = <<>>
                  \/ ~ signing_policy_ok(env.require_signed, HmacStatus, Ed25519Status)
    /\ /\ faulty = {} /\ produced.timeout_seconds <= ReplayCap
       /\ \A k \in DOMAIN runs :
            AllInReach(runs[k]) /\ AllInReach(bundle.obligations[k].solver_results)
       => Mismatches = {}
=============================================================================
