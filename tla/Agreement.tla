------------------------------ MODULE Agreement ------------------------------
(***************************************************************************)
(* The multi-solver agreement policy: `vote` of                            *)
(* crates/pitbull-vc/src/solver.rs, and the tags and counts that           *)
(* crates/pitbull-vc/src/cert.rs derives from it.                          *)
(*                                                                         *)
(* A run of the solver pool yields one result per thread.  `results` is a  *)
(* function from the pool's slots to records [solver, verdict] (the wire   *)
(* form, `SolverVerdictRecord`); no operator here depends on slot order,   *)
(* as no line of the code does.                                            *)
(***************************************************************************)
EXTENDS Naturals, FiniteSets

\* The outcomes of one solver invocation, by their certificate tags.
SolverResult == {"sat", "unsat", "unknown", "not-installed", "timeout", "error"}

\* The agreement verdicts, by their certificate tags.
AgreementTag == {"discharged", "refuted", "disagreement", "inconclusive"}

\* The DISTINCT names that returned r: `vote` sorts and dedups the names, so
\* that one binary listed twice is one voter.
Voters(results, r) ==
  {results[k].solver : k \in {j \in DOMAIN results : results[j].verdict = r}}

\* Variant, used only to test the properties: a threshold of 0 is taken as it is.
ZeroKept(t) == t

\* `threshold.max(1)`: with a threshold of 0 an empty vote would discharge.
AtLeastOne(t) == IF t = 0 THEN 1 ELSE t

\* The verdict tag of a set of results: any sat blocks the discharge.
Vote(results, threshold) ==
  LET sat   == Voters(results, "sat")
      unsat == Voters(results, "unsat")
  IN  IF sat # {} /\ unsat # {} THEN "disagreement"
      ELSE IF sat # {} THEN "refuted"
      ELSE IF Cardinality(unsat) >= AtLeastOne(threshold) THEN "discharged"
      ELSE "inconclusive"

\* `distinct_unsat_votes`: the count recorded in a certificate.
UnsatVotes(results) == Cardinality(Voters(results, "unsat"))

\* Every solver of a non-empty pool was missing from PATH.
AllNotInstalled(results) ==
  /\ DOMAIN results # {}
  /\ \A k \in DOMAIN results : results[k].verdict = "not-installed"
=============================================================================
