---------------------------- MODULE Replay_proofs ----------------------------
(***************************************************************************)
(* Proofs about Replay, for every pool, threshold, timeout, key and number *)
(* of changes to the file.                                                 *)
(***************************************************************************)
EXTENDS Replay, TLAPS, FiniteSetTheorems, SequenceTheorems

Fields == {"format_version", "threshold", "timeout_seconds", "solvers", "obligations",
           "uncertified", "total_obligations", "signature", "ed25519_signature"}

Result == [solver : Names, verdict : SolverResult]
Certificate == [smt : Problems, solver_results : Seq(Result), verdict : AgreementTag,
                unsat_votes : Nat, threshold : Nat]

\* What the file is a rendering of, genuine or not.
IsBundle(b) ==
  /\ DOMAIN b = Fields
  /\ b.format_version \in Nat /\ b.threshold \in Nat /\ b.timeout_seconds \in Nat
  /\ b.solvers \in Seq(Names) /\ b.obligations \in Seq(Certificate)
  /\ b.uncertified \in Seq({"uncertified"}) /\ b.total_obligations \in Nat

LEMMA EmptyHasNoLength ==
  ASSUME NEW S, NEW s \in Seq(S)
  PROVE  s = <<>> <=> Len(s) = 0
<1>1. s # <<>> => Len(s) \in Nat \ {0}
  BY EmptySeq
<1>2. Len(<<>>) = 0
  BY EmptySeq
<1> QED
  BY <1>1, <1>2

LEMMA LedgerArithmetic ==
  ASSUME NEW m \in Nat, NEW n \in Nat, NEW i \in Nat, NEW j \in Nat
  PROVE  /\ ~ (m + n = m + j /\ j < n) /\ ~ (m + n = i + n /\ i < m)
         /\ m = 0 /\ n = 0 => m + n = 0
OBVIOUS

LEMMA RemoveAtKeepsSeq ==
  ASSUME NEW S, NEW s \in Seq(S), NEW k \in DOMAIN s
  PROVE  RemoveAt(s, k) \in Seq(S) /\ Len(RemoveAt(s, k)) = Len(s) - 1
<1> DEFINE front == SubSeq(s, 1, k - 1)
           back == SubSeq(s, k + 1, Len(s))
<1>1. k \in 1..Len(s) /\ Len(s) \in Nat
  BY LenProperties
<1>2. front \in Seq(S) /\ Len(front) = k - 1
  BY <1>1, SubSeqProperties
<1>3. back \in Seq(S) /\ Len(back) = Len(s) - k
  BY <1>1, SubSeqProperties
<1>4. RemoveAt(s, k) = front \o back
  BY DEF RemoveAt
<1> HIDE DEF front, back
<1>5. front \o back \in Seq(S) /\ Len(front \o back) = Len(front) + Len(back)
  BY <1>2, <1>3, ConcatProperties
<1> QED
  BY <1>1, <1>2, <1>3, <1>4, <1>5

\* A certificate with one field changed; only the first kind has another verdict,
\* and of the others only two can have another decision.
LEMMA EditedCertificate ==
  ASSUME NEW c \in Certificate, NEW d \in EditedCertificates(c)
  PROVE  /\ d \in Certificate
         /\ \/ d.solver_results = c.solver_results /\ d.threshold = c.threshold
            \/ d.verdict = c.verdict
<1>1. CASE \E v \in AgreementTag : d = [c EXCEPT !.verdict = v]
  BY <1>1 DEF Certificate
<1>2. CASE \E t \in Small : d = [c EXCEPT !.threshold = t]
  BY <1>2, ReplayAssumption DEF Certificate, Small
<1>3. CASE \E n \in Small : d = [c EXCEPT !.unsat_votes = n]
  BY <1>3, ReplayAssumption DEF Certificate, Small
<1>4. CASE \E p \in Problems : d = [c EXCEPT !.smt = p]
  BY <1>4 DEF Certificate
<1>5. ASSUME NEW k \in DOMAIN c.solver_results, NEW v \in SolverResult,
             d = [c EXCEPT !.solver_results[k].verdict = v]
      PROVE  d \in Certificate /\ d.verdict = c.verdict
  <2>1. c.solver_results \in Seq(Result)
    BY DEF Certificate
  <2>2. [c.solver_results[k] EXCEPT !.verdict = v] \in Result
    <3>1. k \in 1..Len(c.solver_results)
      BY <2>1, LenProperties
    <3>2. c.solver_results[k] \in Result
      BY <2>1, <3>1, ElementOfSeq
    <3> QED
      BY <3>2 DEF Result
  <2>3. [c.solver_results EXCEPT ![k] = [c.solver_results[k] EXCEPT !.verdict = v]] \in Seq(Result)
    BY <2>1, <2>2, ExceptSeq, LenProperties
  <2> QED
    BY <1>5, <2>3 DEF Certificate
<1> QED
  BY <1>1, <1>2, <1>3, <1>4, <1>5 DEF EditedCertificates

\* What a change to the file leaves: a signature as it was or none, and an
\* obligation list of the same length unless entries of one ledger are gone.
LEMMA EditedBundle ==
  ASSUME NEW b, IsBundle(b), NEW e \in Edited(b)
  PROVE  /\ IsBundle(e)
         /\ e.signature \in {b.signature, Unsigned}
         /\ e.ed25519_signature \in {b.ed25519_signature, Unsigned}
         /\ \/ /\ e.obligations = b.obligations /\ e.uncertified = b.uncertified
               /\ e.total_obligations = b.total_obligations \/ e.threshold = b.threshold
            \/ /\ e.obligations = b.obligations /\ Len(e.uncertified) < Len(b.uncertified)
               /\ e.total_obligations = b.total_obligations
            \/ /\ Len(e.obligations) < Len(b.obligations) /\ e.uncertified = b.uncertified
               /\ e.total_obligations = b.total_obligations
            \/ /\ e.uncertified = b.uncertified /\ e.threshold = b.threshold
               /\ e.total_obligations = b.total_obligations
               /\ Len(e.obligations) = Len(b.obligations)
               /\ \A k \in DOMAIN b.obligations :
                    \/ e.obligations[k] = b.obligations[k]
                    \/ e.obligations[k] \in EditedCertificates(b.obligations[k])
<1>0. \/ \E n \in {1, CERT_FORMAT_VERSION + 1} : e = [b EXCEPT !.format_version = n]
      \/ \E t \in Small : e = [b EXCEPT !.threshold = t]
      \/ \E n \in Small : e = [b EXCEPT !.total_obligations = n]
      \/ \E k \in DOMAIN b.solvers : e = [b EXCEPT !.solvers = RemoveAt(b.solvers, k)]
      \/ \E k \in DOMAIN b.uncertified :
           e = [b EXCEPT !.uncertified = RemoveAt(b.uncertified, k)]
      \/ \E k \in DOMAIN b.obligations :
           e = [b EXCEPT !.obligations = RemoveAt(b.obligations, k)]
      \/ \E k \in DOMAIN b.obligations : \E c \in EditedCertificates(b.obligations[k]) :
           e = [b EXCEPT !.obligations[k] = c]
      \/ e = [b EXCEPT !.signature = Unsigned]
      \/ e = [b EXCEPT !.ed25519_signature = Unsigned]
  BY DEF Edited
<1> USE DEF IsBundle, Fields
<1>1. CASE \E n \in {1, CERT_FORMAT_VERSION + 1} : e = [b EXCEPT !.format_version = n]
  BY <1>1 DEF CERT_FORMAT_VERSION
<1>2. CASE \E t \in Small : e = [b EXCEPT !.threshold = t]
  BY <1>2, ReplayAssumption DEF Small
<1>3. CASE \E n \in Small : e = [b EXCEPT !.total_obligations = n]
  BY <1>3, ReplayAssumption DEF Small
<1>4. CASE \E k \in DOMAIN b.solvers : e = [b EXCEPT !.solvers = RemoveAt(b.solvers, k)]
  BY <1>4, RemoveAtKeepsSeq
<1>5. ASSUME NEW k \in DOMAIN b.uncertified,
             e = [b EXCEPT !.uncertified = RemoveAt(b.uncertified, k)]
      PROVE  /\ IsBundle(e) /\ e.obligations = b.obligations
             /\ e.signature = b.signature /\ e.ed25519_signature = b.ed25519_signature
             /\ e.total_obligations = b.total_obligations
             /\ Len(e.uncertified) < Len(b.uncertified)
  <2>1. /\ RemoveAt(b.uncertified, k) \in Seq({"uncertified"})
        /\ Len(RemoveAt(b.uncertified, k)) = Len(b.uncertified) - 1
    BY RemoveAtKeepsSeq
  <2>2. Len(b.uncertified) \in Nat
    BY LenProperties
  <2> QED
    BY <1>5, <2>1, <2>2
<1>6. ASSUME NEW k \in DOMAIN b.obligations,
             e = [b EXCEPT !.obligations = RemoveAt(b.obligations, k)]
      PROVE  /\ IsBundle(e) /\ e.uncertified = b.uncertified
             /\ e.signature = b.signature /\ e.ed25519_signature = b.ed25519_signature
             /\ e.total_obligations = b.total_obligations
             /\ Len(e.obligations) < Len(b.obligations)
  <2>1. /\ RemoveAt(b.obligations, k) \in Seq(Certificate)
        /\ Len(RemoveAt(b.obligations, k)) = Len(b.obligations) - 1
    BY RemoveAtKeepsSeq
  <2>2. Len(b.obligations) \in Nat
    BY LenProperties
  <2> QED
    BY <1>6, <2>1, <2>2
<1>7. ASSUME NEW k \in DOMAIN b.obligations, NEW c \in EditedCertificates(b.obligations[k]),
             e = [b EXCEPT !.obligations[k] = c]
      PROVE  /\ IsBundle(e) /\ e.uncertified = b.uncertified /\ e.threshold = b.threshold
             /\ e.signature = b.signature /\ e.ed25519_signature = b.ed25519_signature
             /\ e.total_obligations = b.total_obligations
             /\ Len(e.obligations) = Len(b.obligations)
             /\ \A j \in DOMAIN b.obligations :
                  e.obligations[j] = IF j = k THEN c ELSE b.obligations[j]
  <2>1. k \in 1..Len(b.obligations) /\ DOMAIN b.obligations = 1..Len(b.obligations)
    BY LenProperties
  <2>2. c \in Certificate
    BY <2>1, ElementOfSeq, EditedCertificate
  <2>3. /\ [b.obligations EXCEPT ![k] = c] \in Seq(Certificate)
        /\ Len([b.obligations EXCEPT ![k] = c]) = Len(b.obligations)
        /\ \A j \in 1..Len(b.obligations) :
             [b.obligations EXCEPT ![k] = c][j] = IF j = k THEN c ELSE b.obligations[j]
    BY <2>1, <2>2, ExceptSeq
  <2>4. e = [b EXCEPT !.obligations = [b.obligations EXCEPT ![k] = c]]
    BY <1>7
  <2> QED
    BY <2>1, <2>3, <2>4
<1>8. CASE \/ e = [b EXCEPT !.signature = Unsigned]
           \/ e = [b EXCEPT !.ed25519_signature = Unsigned]
  BY <1>8
<1>10. CASE \E k \in DOMAIN b.obligations : \E c \in EditedCertificates(b.obligations[k]) :
              e = [b EXCEPT !.obligations[k] = c]
  BY <1>7, <1>10
<1>11. CASE \E k \in DOMAIN b.obligations :
              e = [b EXCEPT !.obligations = RemoveAt(b.obligations, k)]
  BY <1>6, <1>11
<1>12. CASE \E k \in DOMAIN b.uncertified :
              e = [b EXCEPT !.uncertified = RemoveAt(b.uncertified, k)]
  BY <1>5, <1>12
<1> QED
  BY <1>1, <1>2, <1>3, <1>4, <1>8, <1>0, <1>10, <1>11, <1>12
-----------------------------------------------------------------------------
(***************************************************************************)
(* Runs of a pool, and the bundle a dispatch writes.                       *)
(***************************************************************************)
LEMMA ResultsOfPool ==
  ASSUME NEW pool \in Seq(Names), NEW p, NEW budget, NEW wrong,
         NEW r \in Results(pool, p, budget, wrong)
  PROVE  /\ r \in Seq(Result) /\ DOMAIN r = DOMAIN pool
         /\ \E present \in Paths : \A k \in DOMAIN pool :
              /\ r[k].solver = pool[k]
              /\ r[k].verdict \in Outcomes(pool[k], p, present, budget, wrong)
<1>1. PICK present \in Paths : \E v \in [DOMAIN pool -> SolverResult] :
        /\ \A k \in DOMAIN pool : v[k] \in Outcomes(pool[k], p, present, budget, wrong)
        /\ r = [k \in DOMAIN pool |-> [solver |-> pool[k], verdict |-> v[k]]]
  BY DEF Results
<1>2. PICK v \in [DOMAIN pool -> SolverResult] :
        /\ \A k \in DOMAIN pool : v[k] \in Outcomes(pool[k], p, present, budget, wrong)
        /\ r = [k \in DOMAIN pool |-> [solver |-> pool[k], verdict |-> v[k]]]
  BY <1>1
<1>3. Len(pool) \in Nat /\ DOMAIN pool = 1..Len(pool) /\ \A k \in DOMAIN pool : pool[k] \in Names
  BY LenProperties, ElementOfSeq
<1>4. r \in [1..Len(pool) -> Result]
  BY <1>2, <1>3 DEF Result
<1>5. r \in Seq(Result)
  BY <1>3, <1>4, SeqDef
<1> QED
  BY <1>2, <1>5

LEMMA VotersAreNamed ==
  ASSUME NEW r \in Seq(Result), NEW v
  PROVE  Voters(r, v) \subseteq Names /\ Cardinality(Voters(r, v)) \in Nat
<1>1. \A k \in DOMAIN r : r[k] \in Result
  BY LenProperties, ElementOfSeq
<1>2. Voters(r, v) \subseteq Names
  BY <1>1 DEF Voters, Result
<1>3. IsFiniteSet(Voters(r, v))
  BY <1>2, ReplayAssumption, FS_Subset
<1> QED
  BY <1>2, <1>3, FS_CardinalityType

\* A certificate as from_run makes it, of a run over the pool of b.
Certified(c, b) ==
  /\ c.threshold = b.threshold
  /\ InternallyConsistent(c)
  /\ c.solver_results \in Results(b.solvers, c.smt, b.timeout_seconds, faulty)

SignedOver(signature, b) ==
  signature # Unsigned => \E key \in Keys \ {"none"} : signature = [key |-> key, content |-> Content(b)]

\* What a dispatch writes.
Genuine(b) ==
  /\ IsBundle(b)
  /\ b.format_version = CERT_FORMAT_VERSION /\ b.threshold # 0
  /\ b.total_obligations # 0 /\ ledger_consistent(b)
  /\ \A k \in DOMAIN b.obligations : Certified(b.obligations[k], b)
  /\ SignedOver(b.signature, b) /\ SignedOver(b.ed25519_signature, b)

LEMMA RunsAreCertified ==
  ASSUME NEW pool \in Seq(Names), NEW threshold \in Nat \ {0}, NEW timeout \in Nat \ {0},
         NEW c \in Certificates(pool, threshold, timeout, faulty)
  PROVE  /\ c \in Certificate /\ c.threshold = threshold /\ InternallyConsistent(c)
         /\ c.solver_results \in Results(pool, c.smt, timeout, faulty)
<1>0. PICK p \in Problems : \E r \in Results(pool, p, timeout, faulty) : c = from_run(p, r, threshold)
  BY DEF Certificates
<1>1. PICK r \in Results(pool, p, timeout, faulty) : c = from_run(p, r, threshold)
  BY <1>0
<1>2. r \in Seq(Result)
  BY ResultsOfPool
<1>3. UnsatVotes(r) \in Nat /\ Vote(r, threshold) \in AgreementTag
  BY <1>2, VotersAreNamed DEF UnsatVotes, Vote, AgreementTag
<1>4. c = [smt |-> p, solver_results |-> r, verdict |-> Vote(r, threshold),
           unsat_votes |-> UnsatVotes(r), threshold |-> threshold]
  BY <1>1 DEF from_run
<1>5. c \in Certificate
  BY <1>2, <1>3, <1>4 DEF Certificate
<1>6. InternallyConsistent(c)
  BY <1>4 DEF InternallyConsistent
<1> QED
  BY <1>4, <1>5, <1>6

LEMMA BundlesAreGenuine ==
  ASSUME NEW pool \in Seq(Names), NEW threshold \in Nat \ {0}, NEW timeout \in Nat \ {0},
         NEW hmac \in Keys, NEW ed \in Keys, NEW certified \in Nat, NEW left \in Nat,
         certified + left > 0,
         NEW certs \in [1..certified -> Certificates(pool, threshold, timeout, faulty)]
  PROVE  Genuine(Bundle(certs, [k \in 1..left |-> "uncertified"], pool, threshold, timeout, hmac, ed))
<1> DEFINE unc == [k \in 1..left |-> "uncertified"]
           b == [format_version |-> CERT_FORMAT_VERSION, threshold |-> threshold,
                 timeout_seconds |-> timeout, solvers |-> pool,
                 obligations |-> certs, uncertified |-> unc,
                 total_obligations |-> Len(certs) + Len(unc),
                 signature |-> Unsigned, ed25519_signature |-> Unsigned]
           g == [b EXCEPT !.signature = Sign(b, hmac), !.ed25519_signature = Sign(b, ed)]
<1>1. certs \in Seq(Certificate) /\ Len(certs) = certified
  <2>1. certs \in [1..certified -> Certificate]
    BY RunsAreCertified
  <2>2. certs \in Seq(Certificate)
    BY <2>1, SeqDef
  <2> QED
    BY <2>1, <2>2, LenProperties
<1>2. unc \in Seq({"uncertified"}) /\ Len(unc) = left
  <2>1. unc \in [1..left -> {"uncertified"}]
    OBVIOUS
  <2>2. unc \in Seq({"uncertified"})
    BY <2>1, SeqDef
  <2> QED
    BY <2>1, <2>2, LenProperties
<1> HIDE DEF unc
<1>3. /\ DOMAIN b = Fields /\ b.signature = Unsigned /\ b.ed25519_signature = Unsigned
  BY DEF Fields
<1>4. /\ b.format_version = CERT_FORMAT_VERSION /\ b.threshold = threshold
      /\ b.timeout_seconds = timeout /\ b.solvers = pool /\ b.obligations = certs
      /\ b.uncertified = unc /\ b.total_obligations = certified + left
  BY <1>1, <1>2
<1>5. Content(b) = b /\ Content(g) = b
  <2>1. b = [x \in Fields |-> b[x]]
    BY DEF Fields
  <2> HIDE DEF b
  <2>2. Content(b) = [x \in Fields |-> b[x]]
    BY <1>3 DEF Content, Fields
  <2>3. /\ DOMAIN g = Fields
        /\ \A x \in Fields \ {"signature", "ed25519_signature"} : g[x] = b[x]
    BY <1>3 DEF Fields
  <2> HIDE DEF g
  <2>4. Content(g) = [x \in Fields |-> IF x \in {"signature", "ed25519_signature"}
                                      THEN Unsigned ELSE g[x]]
    BY <2>3 DEF Content, Fields
  <2>5. \A x \in Fields : b[x] = IF x \in {"signature", "ed25519_signature"}
                                 THEN Unsigned ELSE g[x]
    BY <1>3, <2>3
  <2> QED
    BY <2>1, <2>2, <2>4, <2>5
<1> HIDE DEF b
<1>6. /\ DOMAIN g = Fields /\ g.signature = Sign(b, hmac) /\ g.ed25519_signature = Sign(b, ed)
      /\ g.format_version = CERT_FORMAT_VERSION /\ g.threshold = threshold
      /\ g.timeout_seconds = timeout /\ g.solvers = pool /\ g.obligations = certs
      /\ g.uncertified = unc /\ g.total_obligations = certified + left
  BY <1>3, <1>4 DEF Fields
<1> HIDE DEF g
<1>7. IsBundle(g) /\ ledger_consistent(g) /\ g.total_obligations # 0 /\ g.threshold # 0
  BY <1>1, <1>2, <1>6 DEF IsBundle, ledger_consistent, CERT_FORMAT_VERSION
<1>8. \A k \in DOMAIN g.obligations : Certified(g.obligations[k], g)
  BY <1>6, RunsAreCertified DEF Certified
<1>9. SignedOver(g.signature, g) /\ SignedOver(g.ed25519_signature, g)
  BY <1>5, <1>6 DEF SignedOver, Sign
<1>10. Genuine(g)
  BY <1>6, <1>7, <1>8, <1>9 DEF Genuine
<1> QED
  BY <1>10 DEF Bundle, b, g, unc
-----------------------------------------------------------------------------
(***************************************************************************)
(* The inductive invariant.                                                *)
(***************************************************************************)
\* The file: what was written, with the changes made so far.
FileInv ==
  /\ Genuine(produced) /\ IsBundle(bundle)
  /\ bundle.signature \in {produced.signature, Unsigned}
  /\ bundle.ed25519_signature \in {produced.ed25519_signature, Unsigned}
  /\ edits = 0 => bundle = produced
  /\ edits = 1 => bundle \in Edited(produced)

\* The runs so far are of the first certificates, over the recorded pool.
RunsInv ==
  /\ runs \in Seq(Seq(Result)) /\ Len(runs) <= Len(bundle.obligations)
  /\ \A k \in DOMAIN runs :
       runs[k] \in Results(bundle.solvers, bundle.obligations[k].smt, Budget(bundle), faulty)

\* A replay goes on only past the load checks, and exits as it found.
StageInv ==
  \/ pc = "at rest" /\ exit = -1 /\ runs = <<>>
  \/ pc = "replaying" /\ exit = -1 /\ Replayable
  \/ pc = "done" /\ exit = 2 /\ ~ Replayable /\ runs = <<>>
  \/ /\ pc = "done" /\ Replayable /\ Len(runs) = Len(bundle.obligations)
     /\ exit = replay_exit_code(Cardinality(Mismatches), attests_full_verification(bundle))

ReplayInv ==
  /\ env \in [hmac : Keys, ed25519 : Keys, require_signed : BOOLEAN]
  /\ faulty \in SUBSET Names /\ edits \in 0..MaxEdits
  /\ FileInv /\ RunsInv /\ StageInv

LEMMA NoRuns == <<>> \in Seq(Seq(Result)) /\ Len(<<>>) = 0 /\ DOMAIN <<>> = {}
<1>1. <<>> \in Seq(Seq(Result)) /\ Len(<<>>) = 0
  BY EmptySeq
<1>2. DOMAIN <<>> = 1..0
  BY <1>1, LenProperties
<1> QED
  BY <1>1, <1>2

LEMMA ReplayInvInit == Init => ReplayInv
<1> SUFFICES ASSUME Init PROVE ReplayInv
  OBVIOUS
<1>0. MaxEdits \in Nat /\ MaxObligations \in Nat
  BY ReplayAssumption
<1>1. PICK pool \in Pools, threshold \in Thresholds, timeout \in Timeouts, hmac \in Keys,
           ed \in Keys, certified \in 0..MaxObligations :
        \E certs \in [1..certified -> Certificates(pool, threshold, timeout, faulty)],
           left \in 0..(MaxObligations - certified) :
          /\ certified + left > 0
          /\ produced = Bundle(certs, [k \in 1..left |-> "uncertified"], pool,
                               threshold, timeout, hmac, ed)
  BY DEF Init, InitOver
<1>2. PICK certs \in [1..certified -> Certificates(pool, threshold, timeout, faulty)],
           left \in 0..(MaxObligations - certified) :
          /\ certified + left > 0
          /\ produced = Bundle(certs, [k \in 1..left |-> "uncertified"], pool,
                               threshold, timeout, hmac, ed)
  BY <1>1
<1>3. Genuine(produced)
  <2>1. certified \in Nat /\ left \in Nat
    BY <1>0
  <2>2. pool \in Seq(Names) /\ threshold \in Nat \ {0} /\ timeout \in Nat \ {0}
    BY ReplayAssumption
  <2> QED
    BY <1>2, <2>1, <2>2, BundlesAreGenuine
<1>4. bundle = produced /\ edits = 0 /\ pc = "at rest" /\ runs = <<>> /\ exit = -1
  BY DEF Init, InitOver
<1>5. FileInv
  <2>1. IsBundle(produced)
    BY <1>3 DEF Genuine
  <2>2. bundle = produced /\ edits = 0
    BY <1>4
  <2> QED
    BY <1>3, <2>1, <2>2 DEF FileInv
<1>6. RunsInv
  <2>1. Len(bundle.obligations) \in Nat
    BY <1>5, LenProperties DEF FileInv, IsBundle
  <2>2. runs \in Seq(Seq(Result)) /\ Len(runs) = 0 /\ DOMAIN runs = {}
    BY <1>4, NoRuns
  <2> QED
    BY <2>1, <2>2 DEF RunsInv
<1>7. env \in [hmac : Keys, ed25519 : Keys, require_signed : BOOLEAN] /\ faulty \in SUBSET Names
  BY ReplayAssumption DEF Init, InitOver
<1>8. StageInv
  BY <1>4 DEF StageInv
<1>9. edits \in 0..MaxEdits
  <2>1. edits = 0
    BY <1>4
  <2> QED
    BY <1>0, <2>1
<1> QED
  BY <1>5, <1>6, <1>7, <1>8, <1>9 DEF ReplayInv

LEMMA ReplayInvIsInductive == ReplayInv /\ [Next]_vars => ReplayInv'
<1> SUFFICES ASSUME ReplayInv, [Next]_vars PROVE ReplayInv'
  OBVIOUS
<1>0. MaxEdits \in Nat
  BY ReplayAssumption
<1>1. CASE Edit
  <2>1. /\ pc = "at rest" /\ edits' = edits + 1 /\ edits < MaxEdits
        /\ bundle' \in Edited(bundle)
        /\ UNCHANGED <<env, faulty, produced, pc, runs, exit>>
    BY <1>1 DEF Edit, world
  <2>0. edits' \in 1..MaxEdits /\ (edits' = 1 => edits = 0)
    <3>1. edits' = edits + 1 /\ edits < MaxEdits
      BY <1>1 DEF Edit
    <3>2. edits \in 0..MaxEdits
      BY DEF ReplayInv
    <3> QED
      BY <1>0, <3>1, <3>2
  <2>2. runs = <<>> /\ exit = -1
    BY <2>1 DEF ReplayInv, StageInv
  <2>3. IsBundle(bundle')
    BY <2>1, EditedBundle DEF ReplayInv, FileInv
  <2>4. FileInv'
    <3>1. /\ bundle'.signature \in {produced'.signature, Unsigned}
          /\ bundle'.ed25519_signature \in {produced'.ed25519_signature, Unsigned}
      BY <2>1, EditedBundle DEF ReplayInv, FileInv
    <3>2. edits' # 0 /\ (edits' = 1 => edits = 0)
      BY <2>0
    <3>3. edits' = 1 => bundle' \in Edited(produced)
      BY <2>1, <3>2 DEF ReplayInv, FileInv
    <3>4. Genuine(produced)'
      BY <2>1 DEF ReplayInv, FileInv, Genuine, Certified
    <3>5. (edits = 1 => bundle \in Edited(produced))'
      BY <2>1, <3>3
    <3> QED
      BY <2>3, <3>1, <3>2, <3>4, <3>5 DEF FileInv
  <2>5. RunsInv'
    <3>1. Len(bundle'.obligations) \in Nat
      BY <2>3, LenProperties DEF IsBundle
    <3>2. runs' \in Seq(Seq(Result)) /\ Len(runs') = 0 /\ DOMAIN runs' = {}
      BY <2>1, <2>2, NoRuns
    <3> QED
      BY <3>1, <3>2 DEF RunsInv
  <2>6. StageInv'
    BY <2>1, <2>2 DEF StageInv
  <2>7. edits' \in 0..MaxEdits
    BY <2>0
  <2> QED
    BY <2>1, <2>4, <2>5, <2>6, <2>7 DEF ReplayInv
<1>2. CASE Refuse
  <2>1. /\ UNCHANGED <<env, faulty, produced, bundle, edits, runs>>
        /\ pc = "at rest" /\ ~ Replayable /\ exit' = 2 /\ pc' = "done"
    BY <1>2 DEF Refuse, world
  <2>2. ~ Replayable'
    BY <2>1 DEF Replayable, HmacStatus, Ed25519Status
  <2>3. FileInv' /\ RunsInv'
    BY <2>1 DEF ReplayInv, FileInv, RunsInv, Genuine, Certified
  <2> QED
    BY <2>1, <2>2, <2>3 DEF ReplayInv, StageInv
<1>3. CASE Load
  <2>1. /\ UNCHANGED <<env, faulty, produced, bundle, edits, runs, exit>>
        /\ pc = "at rest" /\ Replayable /\ pc' = "replaying"
    BY <1>3 DEF Load, world
  <2>2. Replayable'
    BY <2>1 DEF Replayable, HmacStatus, Ed25519Status
  <2>3. FileInv' /\ RunsInv'
    BY <2>1 DEF ReplayInv, FileInv, RunsInv, Genuine, Certified
  <2> QED
    BY <2>1, <2>2, <2>3 DEF ReplayInv, StageInv
<1>4. CASE ReplayCertificate
  <2>1. /\ UNCHANGED <<env, faulty, produced, bundle, edits, pc, exit>>
        /\ pc = "replaying" /\ Len(runs) < Len(bundle.obligations)
    BY <1>4 DEF ReplayCertificate, world
  <2>2. PICK fresh \in Results(bundle.solvers, bundle.obligations[Len(runs) + 1].smt,
                               Budget(bundle), faulty) : runs' = Append(runs, fresh)
    BY <1>4 DEF ReplayCertificate
  <2>3. fresh \in Seq(Result)
    BY <2>2, ResultsOfPool DEF ReplayInv, FileInv, IsBundle
  <2>4. runs \in Seq(Seq(Result)) /\ Len(bundle.obligations) \in Nat
    BY LenProperties DEF ReplayInv, RunsInv, FileInv, IsBundle
  <2>5. /\ runs' \in Seq(Seq(Result)) /\ Len(runs') = Len(runs) + 1
        /\ \A k \in 1..Len(runs) : runs'[k] = runs[k]
        /\ runs'[Len(runs) + 1] = fresh
    BY <2>2, <2>3, <2>4, AppendProperties
  <2>6. DOMAIN runs' = 1..(Len(runs) + 1) /\ DOMAIN runs = 1..Len(runs) /\ Len(runs) \in Nat
    BY <2>4, <2>5, LenProperties
  <2>7. ASSUME NEW k \in DOMAIN runs'
        PROVE  runs'[k] \in Results(bundle.solvers, bundle.obligations[k].smt,
                                    Budget(bundle), faulty)
    <3>1. CASE k = Len(runs) + 1
      BY <2>2, <2>5, <3>1
    <3>2. CASE k \in DOMAIN runs
      BY <2>5, <2>6, <3>2 DEF ReplayInv, RunsInv
    <3> QED
      BY <2>6, <3>1, <3>2
  <2>8. RunsInv'
    BY <2>1, <2>4, <2>5, <2>6, <2>7 DEF RunsInv
  <2>9. Replayable /\ exit = -1
    BY <2>1 DEF ReplayInv, StageInv
  <2>10. Replayable'
    BY <2>1, <2>9 DEF Replayable, HmacStatus, Ed25519Status
  <2>11. FileInv'
    BY <2>1 DEF ReplayInv, FileInv, Genuine, Certified
  <2> QED
    BY <2>1, <2>8, <2>9, <2>10, <2>11 DEF ReplayInv, StageInv
<1>5. CASE Report
  <2>1. /\ UNCHANGED <<env, faulty, produced, bundle, edits, runs>>
        /\ pc = "replaying" /\ Len(runs) = Len(bundle.obligations) /\ pc' = "done"
        /\ exit' = replay_exit_code(Cardinality(Mismatches), attests_full_verification(bundle))
    BY <1>5 DEF Report, world
  <2>2. Replayable'
    BY <2>1 DEF Replayable, HmacStatus, Ed25519Status, ReplayInv, StageInv
  <2>3. FileInv' /\ RunsInv'
    BY <2>1 DEF ReplayInv, FileInv, RunsInv, Genuine, Certified
  <2>4. Mismatches' = Mismatches
    BY <2>1 DEF Mismatches, Replayed
  <2> QED
    BY <2>1, <2>2, <2>3, <2>4 DEF ReplayInv, StageInv
<1>6. CASE UNCHANGED vars
  <2>1. UNCHANGED <<env, faulty, produced, bundle, edits, pc, runs, exit>>
    BY <1>6 DEF vars
  <2>2. Replayable' = Replayable /\ Mismatches' = Mismatches
    BY <2>1 DEF Replayable, HmacStatus, Ed25519Status, Mismatches, Replayed
  <2>3. FileInv' /\ RunsInv'
    BY <2>1 DEF ReplayInv, FileInv, RunsInv, Genuine, Certified
  <2> QED
    BY <2>1, <2>2, <2>3 DEF ReplayInv, StageInv
<1> QED
  BY <1>1, <1>2, <1>3, <1>4, <1>5, <1>6 DEF Next, Finished

\* Only a file that passed the load checks gets a verdict.
LEMMA VerdictStage ==
  ASSUME StageInv, exit = 0 \/ exit = 1
  PROVE  /\ Replayable /\ Len(runs) = Len(bundle.obligations)
         /\ exit = replay_exit_code(Cardinality(Mismatches), attests_full_verification(bundle))
<1>1. exit # -1 /\ exit # 2
  OBVIOUS
<1> QED
  BY <1>1 DEF StageInv

LEMMA ReplayInvAlways == Spec => []ReplayInv
BY ReplayInvInit, ReplayInvIsInductive, PTL DEF Spec
-----------------------------------------------------------------------------
(***************************************************************************)
(* The theorems.                                                           *)
(***************************************************************************)
\* Type correctness of the replay.
THEOREM ReplayTypeCorrect == Spec => []TypeOK
<1>1. ReplayInv => TypeOK
  <2> SUFFICES ASSUME ReplayInv PROVE TypeOK
    OBVIOUS
  <2>1. pc \in {"at rest", "replaying", "done"} /\ exit \in {-1, 0, 1, 2}
        /\ (exit = -1 <=> pc # "done")
    <3>1. replay_exit_code(Cardinality(Mismatches), attests_full_verification(bundle)) \in {0, 1}
      BY DEF replay_exit_code
    <3>2. CASE pc # "done"
      BY <3>2 DEF ReplayInv, StageInv
    <3>3. CASE pc = "done"
      <4>1. exit \in {0, 1, 2}
        BY <3>1, <3>3 DEF ReplayInv, StageInv
      <4> QED
        BY <3>3, <4>1
    <3> QED
      BY <3>2, <3>3
  <2>2. \A k \in DOMAIN runs : DOMAIN runs[k] = DOMAIN bundle.solvers
    BY ResultsOfPool DEF ReplayInv, RunsInv, FileInv, IsBundle
  <2> QED
    BY <2>1, <2>2 DEF ReplayInv, RunsInv, TypeOK
<1> QED
  BY <1>1, ReplayInvAlways, PTL

\* A signature that verifies covers what was written.
LEMMA ValidIsUntouched ==
  ASSUME FileInv, NEW key \in Keys,
         NEW signature \in {produced.signature, produced.ed25519_signature, Unsigned}
  PROVE  Verify(signature, bundle, key) = "Valid" =>
           Content(bundle) = Content(produced) /\ signature.key = key
<1> SUFFICES ASSUME Verify(signature, bundle, key) = "Valid"
             PROVE  Content(bundle) = Content(produced) /\ signature.key = key
  OBVIOUS
<1>1. signature # Unsigned /\ signature = [key |-> key, content |-> Content(bundle)]
  BY DEF Verify
<1>2. SignedOver(signature, produced)
  BY <1>1 DEF FileInv, Genuine
<1>3. signature.content = Content(produced)
  BY <1>1, <1>2 DEF SignedOver
<1> QED
  BY <1>1, <1>3

\* Under PITBULL_REQUIRE_SIGNED a replay that gets to a verdict is about the
\* content one of the two keys signed, and a signature that fails under the key
\* at hand is never passed over, however often the file was changed.
THEOREM SignedFilesAreUntouched == Spec => []SignedMeansUntouched
<1>1. ReplayInv => SignedMeansUntouched
  <2> SUFFICES ASSUME ReplayInv, exit \in {0, 1} PROVE SignedMeansUntouched
    BY DEF SignedMeansUntouched
  <2>1. signing_policy_ok(env.require_signed, HmacStatus, Ed25519Status)
    <3>1. Replayable
      BY VerdictStage DEF ReplayInv
    <3> QED
      BY <3>1 DEF Replayable
  <2>2. FileInv /\ env.hmac \in Keys /\ env.ed25519 \in Keys
    BY DEF ReplayInv
  <2>3. /\ HmacStatus = "Valid" => /\ Content(bundle) = Content(produced)
                                   /\ bundle.signature.key = env.hmac
        /\ Ed25519Status = "Valid" => /\ Content(bundle) = Content(produced)
                                      /\ bundle.ed25519_signature.key = env.ed25519
    BY <2>2, ValidIsUntouched DEF FileInv, HmacStatus, Ed25519Status
  <2>4. env.require_signed => Content(bundle) = Content(produced)
    BY <2>1, <2>3 DEF signing_policy_ok
  <2>5. env.hmac # "none" /\ bundle.signature # Unsigned => HmacStatus = "Valid"
    BY <2>1 DEF signing_policy_ok, HmacStatus, Verify
  <2>6. env.ed25519 # "none" /\ bundle.ed25519_signature # Unsigned => Ed25519Status = "Valid"
    BY <2>1 DEF signing_policy_ok, Ed25519Status, Verify
  <2> QED
    BY <2>3, <2>4, <2>5, <2>6 DEF SignedMeansUntouched
<1> QED
  BY <1>1, ReplayInvAlways, PTL

\* A discharge by more solvers than are wrong is a proof.
LEMMA VotedIsProved ==
  ASSUME NEW pool \in Seq(Names), NEW p, NEW budget, faulty \in SUBSET Names,
         NEW r \in Results(pool, p, budget, faulty), NEW threshold \in Nat,
         Vote(r, threshold) = "discharged", Cardinality(faulty) < threshold
  PROVE  p.answer = "unsat"
<1>1. PICK present \in Paths :
        /\ r \in Seq(Result) /\ DOMAIN r = DOMAIN pool
        /\ \A k \in DOMAIN pool :
             /\ r[k].solver = pool[k]
             /\ r[k].verdict \in Outcomes(pool[k], p, present, budget, faulty)
  BY ResultsOfPool
<1>2. IsFiniteSet(faulty) /\ Cardinality(faulty) \in Nat
  BY ReplayAssumption, FS_Subset, FS_CardinalityType
<1>3. Cardinality(Voters(r, "unsat")) \in Nat
  BY <1>1, VotersAreNamed
<1>4. Cardinality(Voters(r, "unsat")) >= threshold
  BY <1>2 DEF Vote, AtLeastOne
<1>5. ~ (Voters(r, "unsat") \subseteq faulty)
  <2>1. Voters(r, "unsat") \subseteq faulty => Cardinality(Voters(r, "unsat")) <= Cardinality(faulty)
    BY <1>2, FS_Subset
  <2> QED
    BY <1>2, <1>3, <1>4, <2>1
<1>6. PICK k \in DOMAIN r : r[k].verdict = "unsat" /\ r[k].solver \notin faulty
  BY <1>5 DEF Voters
<1>7. "unsat" \in Outcomes(pool[k], p, present, budget, faulty) /\ pool[k] \notin faulty
  BY <1>1, <1>6
<1> QED
  BY <1>7, ReplayAssumption DEF Outcomes

\* While fewer solvers than the printed threshold are wrong, a clean replay has
\* proved every recorded problem again, whatever happened to the file.
THEOREM CleanReplayIsProof == Spec => []CleanReplayReproves
<1>1. ReplayInv => CleanReplayReproves
  <2> SUFFICES ASSUME ReplayInv, exit = 0, Cardinality(faulty) < bundle.threshold
               PROVE  /\ bundle.obligations # <<>>
                      /\ \A k \in DOMAIN bundle.obligations :
                           bundle.obligations[k].smt.answer = "unsat"
    BY DEF CleanReplayReproves
  <2>1. /\ Replayable /\ Len(runs) = Len(bundle.obligations)
        /\ Cardinality(Mismatches) = 0 /\ attests_full_verification(bundle)
    BY VerdictStage DEF ReplayInv, replay_exit_code
  <2>2. IsBundle(bundle) /\ RunsInv /\ faulty \in SUBSET Names
    BY DEF ReplayInv, FileInv
  <2>3. /\ DOMAIN bundle.obligations = 1..Len(bundle.obligations)
        /\ DOMAIN runs = 1..Len(runs) /\ Len(runs) \in Nat
    BY <2>2, LenProperties DEF IsBundle, RunsInv
  <2>4. bundle.obligations # <<>>
    <3>1. bundle.total_obligations # 0 /\ bundle.uncertified = <<>>
          /\ bundle.total_obligations = Len(bundle.obligations) + Len(bundle.uncertified)
      BY <2>1 DEF attests_full_verification, ledger_consistent
    <3> QED
      BY <3>1, EmptySeq
  <2>5. Mismatches = {}
    <3>1. IsFiniteSet(DOMAIN runs)
      BY <2>3, FS_Interval
    <3>2. IsFiniteSet(Mismatches)
      BY <3>1, FS_Subset DEF Mismatches
    <3> QED
      BY <2>1, <3>2, FS_EmptySet
  <2>6. ASSUME NEW k \in DOMAIN bundle.obligations
        PROVE  bundle.obligations[k].smt.answer = "unsat"
    <3>1. k \in DOMAIN runs
      BY <2>1, <2>3
    <3>2. bundle.obligations[k].verdict = "discharged"
      BY <2>1 DEF attests_full_verification, is_discharged
    <3>3. Vote(runs[k], bundle.obligations[k].threshold) = "discharged"
      BY <2>5, <3>1, <3>2 DEF Mismatches, Replayed
    <3>4. bundle.obligations[k].threshold = bundle.threshold /\ bundle.threshold \in Nat
      BY <2>1, <2>2 DEF Replayable, from_json, IsBundle
    <3>5. /\ runs[k] \in Results(bundle.solvers, bundle.obligations[k].smt, Budget(bundle), faulty)
          /\ bundle.solvers \in Seq(Names)
      BY <2>2, <3>1 DEF RunsInv, IsBundle
    <3> QED
      BY <2>2, <3>3, <3>4, <3>5, VotedIsProved
  <2> QED
    BY <2>4, <2>6
<1> QED
  BY <1>1, ReplayInvAlways, PTL

\* A change to a genuine file that still loads and attests everything: every
\* recorded verdict is derived from the recorded results, so it was there before.
LEMMA OneChangeAttestsNothingNew ==
  ASSUME NEW b, Genuine(b), NEW e \in Edited(b), from_json(e), attests_full_verification(e)
  PROVE  attests_full_verification(b)
<1>1. /\ IsBundle(b) /\ b.total_obligations # 0 /\ ledger_consistent(b)
      /\ \A k \in DOMAIN b.obligations : Certified(b.obligations[k], b)
  BY DEF Genuine
<1>2. /\ e.total_obligations = Len(e.obligations) + Len(e.uncertified)
      /\ e.uncertified = <<>>
      /\ \A k \in DOMAIN e.obligations : e.obligations[k].verdict = "discharged"
  BY DEF attests_full_verification, ledger_consistent, is_discharged
<1>3. b.total_obligations = Len(b.obligations) + Len(b.uncertified)
  BY <1>1 DEF ledger_consistent
<1>4. IsBundle(e)
  BY <1>1, EditedBundle
<1>5. /\ Len(b.obligations) \in Nat /\ Len(b.uncertified) \in Nat
      /\ Len(e.obligations) \in Nat /\ Len(e.uncertified) \in Nat
      /\ DOMAIN b.obligations = 1..Len(b.obligations)
      /\ DOMAIN e.obligations = 1..Len(e.obligations)
  BY <1>1, <1>4, LenProperties DEF IsBundle
<1>6. SUFFICES b.uncertified = <<>> /\ \A k \in DOMAIN b.obligations :
                                        b.obligations[k].verdict = "discharged"
  BY <1>1 DEF attests_full_verification, is_discharged
<1>7. CASE e.obligations = b.obligations /\ e.uncertified = b.uncertified
  BY <1>2, <1>7
<1>8. CASE /\ e.obligations = b.obligations /\ Len(e.uncertified) < Len(b.uncertified)
           /\ e.total_obligations = b.total_obligations
  BY <1>2, <1>3, <1>5, <1>8, LedgerArithmetic
<1>9. CASE /\ Len(e.obligations) < Len(b.obligations) /\ e.uncertified = b.uncertified
           /\ e.total_obligations = b.total_obligations
  BY <1>2, <1>3, <1>5, <1>9, LedgerArithmetic
<1>10. CASE /\ e.uncertified = b.uncertified /\ e.threshold = b.threshold
            /\ Len(e.obligations) = Len(b.obligations)
            /\ \A k \in DOMAIN b.obligations :
                 \/ e.obligations[k] = b.obligations[k]
                 \/ e.obligations[k] \in EditedCertificates(b.obligations[k])
  <2> SUFFICES ASSUME NEW k \in DOMAIN b.obligations
               PROVE  b.obligations[k].verdict = "discharged"
    BY <1>2, <1>10
  <2> DEFINE c == b.obligations[k]
             d == e.obligations[k]
  <2>1. d.verdict = "discharged" /\ InternallyConsistent(d)
    BY <1>2, <1>5, <1>10 DEF from_json
  <2>2. c \in Certificate /\ InternallyConsistent(c)
    BY <1>1, <1>5, ElementOfSeq DEF IsBundle, Certified
  <2>3. d = c \/ d \in EditedCertificates(c)
    BY <1>10
  <2> HIDE DEF c, d
  <2>4. CASE d = c
    BY <2>1, <2>4 DEF c
  <2>5. CASE d.verdict = c.verdict
    BY <2>1, <2>5 DEF c
  <2>6. CASE d.solver_results = c.solver_results /\ d.threshold = c.threshold
    BY <2>1, <2>2, <2>6 DEF InternallyConsistent, c
  <2> QED
    BY <2>2, <2>3, <2>4, <2>5, <2>6, EditedCertificate
<1> QED
  BY <1>1, <1>7, <1>8, <1>9, <1>10, EditedBundle

\* No single change to the file turns the certificate of a dispatch that left an
\* obligation open into one that replays cleanly.
THEOREM PartialReplaysFail == Spec => []PartialNeverPasses
<1>1. ReplayInv => PartialNeverPasses
  <2> SUFFICES ASSUME ReplayInv, exit = 0, edits <= 1
               PROVE  attests_full_verification(produced)
    BY DEF PartialNeverPasses
  <2>1. Replayable /\ attests_full_verification(bundle)
    BY VerdictStage DEF ReplayInv, replay_exit_code
  <2>2. from_json(bundle)
    BY <2>1 DEF Replayable
  <2>3. FileInv
    BY DEF ReplayInv
  <2>4. edits = 0 \/ edits = 1
    BY DEF ReplayInv
  <2>5. CASE edits = 0
    BY <2>1, <2>3, <2>5 DEF FileInv
  <2>6. CASE edits = 1
    BY <2>1, <2>2, <2>3, <2>6, OneChangeAttestsNothingNew DEF FileInv
  <2> QED
    BY <2>4, <2>5, <2>6
<1> QED
  BY <1>1, ReplayInvAlways, PTL

\* Two runs of one pool on one problem within one budget, all solvers honest, in
\* reach and never undecided, have the same results.
LEMMA HonestRunsAgree ==
  ASSUME NEW pool \in Seq(Names), NEW p, NEW budget, Abstentions = {},
         NEW r \in Results(pool, p, budget, {}), NEW s \in Results(pool, p, budget, {}),
         AllInReach(r), AllInReach(s)
  PROVE  r = s
<1> DEFINE Answer == IF p.needs > budget THEN "timeout" ELSE p.answer
<1>1. ASSUME NEW t \in Results(pool, p, budget, {}), AllInReach(t), NEW k \in DOMAIN pool
      PROVE  t[k].solver = pool[k] /\ t[k].verdict = Answer
  <2>1. DOMAIN t = DOMAIN pool
    BY ResultsOfPool
  <2>2. PICK present \in Paths :
          /\ t[k].solver = pool[k]
          /\ t[k].verdict \in Outcomes(pool[k], p, present, budget, {})
    BY ResultsOfPool
  <2>3. t[k].verdict # "not-installed"
    BY <1>1, <2>1 DEF AllInReach
  <2> QED
    BY <2>2, <2>3 DEF Outcomes
<1>2. /\ r \in Seq(Result) /\ DOMAIN r = DOMAIN pool
      /\ s \in Seq(Result) /\ DOMAIN s = DOMAIN pool
  BY ResultsOfPool
<1>3. Len(r) = Len(s) /\ DOMAIN r = 1..Len(r) /\ DOMAIN s = 1..Len(s)
  <2>1. /\ DOMAIN r = 1..Len(r) /\ DOMAIN s = 1..Len(s)
        /\ Len(r) \in Nat /\ Len(s) \in Nat
    BY <1>2, LenProperties
  <2> QED
    BY <1>2, <2>1
<1>4. \A k \in 1..Len(r) : r[k] = s[k]
  <2> SUFFICES ASSUME NEW k \in 1..Len(r) PROVE r[k] = s[k]
    OBVIOUS
  <2>1. r[k] \in Result /\ s[k] \in Result
    BY <1>2, <1>3, ElementOfSeq
  <2>2. r[k].solver = s[k].solver /\ r[k].verdict = s[k].verdict
    BY <1>1, <1>2, <1>3
  <2> QED
    BY <2>1, <2>2 DEF Result
<1> QED
  BY <1>2, <1>3, <1>4, SeqEqual

\* What the wrapper wrote is not found at fault: it loads, and solvers that
\* decide whatever their budget suffices for reproduce every verdict.
THEOREM GenuineFilesReplay ==
  ASSUME Abstentions = {}
  PROVE  Spec => []GenuineReplays
<1>1. ReplayInv => GenuineReplays
  <2> SUFFICES ASSUME ReplayInv, edits = 0 PROVE GenuineReplays
    BY DEF GenuineReplays
  <2>1. bundle = produced /\ Genuine(bundle) /\ RunsInv
    BY DEF ReplayInv, FileInv
  <2>2. from_json(bundle)
    BY <2>1 DEF Genuine, Certified, from_json, CERT_FORMAT_VERSION
  <2>3. ~ (bundle.obligations = <<>> /\ bundle.uncertified = <<>>)
    <3>1. /\ bundle.total_obligations # 0
          /\ bundle.total_obligations = Len(bundle.obligations) + Len(bundle.uncertified)
      BY <2>1 DEF Genuine, ledger_consistent
    <3>2. /\ bundle.obligations = <<>> => Len(bundle.obligations) = 0
          /\ bundle.uncertified = <<>> => Len(bundle.uncertified) = 0
      BY <2>1, EmptyHasNoLength DEF Genuine, IsBundle
    <3> QED
      BY <3>1, <3>2, LedgerArithmetic
  <2>4. exit = 2 => \/ bundle.solvers = <<>>
                    \/ ~ signing_policy_ok(env.require_signed, HmacStatus, Ed25519Status)
    <3>1. exit = 2 => ~ Replayable
      <4>1. replay_exit_code(Cardinality(Mismatches), attests_full_verification(bundle)) # 2
        BY DEF replay_exit_code
      <4>2. exit = 2 => exit # -1
        OBVIOUS
      <4> QED
        BY <4>1, <4>2 DEF ReplayInv, StageInv
    <3> QED
      BY <2>2, <2>3, <3>1 DEF Replayable
  <2>5. ASSUME faulty = {}, produced.timeout_seconds <= ReplayCap,
               \A k \in DOMAIN runs :
                 AllInReach(runs[k]) /\ AllInReach(bundle.obligations[k].solver_results)
        PROVE  Mismatches = {}
    <3> SUFFICES ASSUME NEW k \in DOMAIN runs
                 PROVE  Replayed(k) = bundle.obligations[k].verdict
      BY DEF Mismatches
    <3> DEFINE c == bundle.obligations[k]
    <3>1. Budget(bundle) = bundle.timeout_seconds
      BY <2>1, <2>5, ReplayAssumption DEF Budget, Genuine, IsBundle
    <3>2. k \in DOMAIN bundle.obligations
      <4>1. /\ DOMAIN runs = 1..Len(runs) /\ Len(runs) \in Nat
            /\ DOMAIN bundle.obligations = 1..Len(bundle.obligations)
            /\ Len(bundle.obligations) \in Nat /\ Len(runs) <= Len(bundle.obligations)
        BY <2>1, LenProperties DEF RunsInv, Genuine, IsBundle
      <4> QED
        BY <4>1
    <3>3. Certified(c, bundle) /\ bundle.solvers \in Seq(Names)
      BY <2>1, <3>2 DEF Genuine, IsBundle
    <3>4. /\ runs[k] \in Results(bundle.solvers, c.smt, bundle.timeout_seconds, {})
          /\ c.solver_results \in Results(bundle.solvers, c.smt, bundle.timeout_seconds, {})
      BY <2>1, <2>5, <3>1, <3>3 DEF RunsInv, Certified
    <3>5. AllInReach(runs[k]) /\ AllInReach(c.solver_results)
      BY <2>5
    <3>6. runs[k] = c.solver_results
      BY <3>3, <3>4, <3>5, HonestRunsAgree
    <3> QED
      BY <3>3, <3>6 DEF Replayed, Certified, InternallyConsistent
  <2> QED
    BY <2>2, <2>4, <2>5 DEF GenuineReplays
<1> QED
  BY <1>1, ReplayInvAlways, PTL
=============================================================================
