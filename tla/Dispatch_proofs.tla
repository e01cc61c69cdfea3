--------------------------- MODULE Dispatch_proofs ---------------------------
(***************************************************************************)
(* Proofs about the agreement policy and the obligation dispatcher, for    *)
(* every number of obligations, every set of solvers, every configuration  *)
(* and every behaviour of PATH.                                            *)
(***************************************************************************)
EXTENDS Dispatch, TLAPS, FiniteSetTheorems

(***************************************************************************)
(* The agreement policy.                                                   *)
(***************************************************************************)

\* Among at least t voters, when fewer than t solvers are faulty, one is not:
\* the argument on which `vote` (solver.rs) rests.
LEMMA HonestVoter ==
  ASSUME NEW V, IsFiniteSet(V), NEW F, IsFiniteSet(F),
         Cardinality(F) < Cardinality(V)
  PROVE  \E v \in V : v \notin F
<1>1. SUFFICES ASSUME V \subseteq F PROVE FALSE
  OBVIOUS
<1>2. Cardinality(V) <= Cardinality(F)
  BY <1>1, FS_Subset
<1>3. Cardinality(V) \in Nat /\ Cardinality(F) \in Nat
  BY FS_CardinalityType
<1> QED
  BY <1>2, <1>3

\* The voters of a joined run are finitely many: they are names of the pool.
LEMMA VotersFinite ==
  ASSUME NEW D, NEW results \in [D -> Result], NEW r
  PROVE  IsFiniteSet(Voters(results, r))
<1>1. IsFiniteSet(Names)
  BY DispatchAssumption, FS_AddElement DEF Names
<1>2. Voters(results, r) \subseteq Names
  BY DEF Voters, Result
<1> QED
  BY <1>1, <1>2, FS_Subset

\* A threshold is at least 1 whatever the configuration says.
LEMMA ThresholdPositive ==
  ASSUME cfg \in Configs
  PROVE  /\ threshold \in Nat \ {0}
         /\ threshold >= cfg.solver_agreement
         /\ cfg.solver_agreement \in Nat
<1>1. cfg.solver_agreement \in Nat
  BY DispatchAssumption DEF Config
<1> QED
  BY <1>1 DEF threshold, AtLeastOne

\* `vote` says discharged only on at least max(1, threshold) distinct unsat
\* votes and no sat vote.
LEMMA VoteDischarged ==
  ASSUME NEW D, NEW results \in [D -> Result], NEW t \in Nat,
         Vote(results, t) = "discharged"
  PROVE  /\ Cardinality(Voters(results, "unsat")) >= AtLeastOne(t)
         /\ Voters(results, "unsat") # {}
         /\ Voters(results, "sat") = {}
<1>1. /\ Cardinality(Voters(results, "unsat")) >= AtLeastOne(t)
      /\ Voters(results, "sat") = {} \/ Voters(results, "unsat") = {}
      /\ Voters(results, "sat") = {}
  BY DEF Vote
<1>2. AtLeastOne(t) >= 1
  BY DEF AtLeastOne
<1>3. Voters(results, "unsat") # {}
  <2>1. SUFFICES ASSUME Voters(results, "unsat") = {} PROVE FALSE
    OBVIOUS
  <2>2. Cardinality(Voters(results, "unsat")) = 0
    BY <2>1, FS_EmptySet
  <2> QED
    BY <1>1, <1>2, <2>2 DEF AtLeastOne
<1> QED
  BY <1>1, <1>3

-----------------------------------------------------------------------------
(***************************************************************************)
(* Type correctness.                                                       *)
(***************************************************************************)

\* What is appended to the two ledgers has the ledgers' types.
LEMMA AppendTyped ==
  ASSUME TypeOK, pc \in {"consistency", "main"}, Joined
  PROVE  /\ threads \in [DOMAIN pool -> Result]
         /\ Certificate(current, threads) \in CertType
<1>1. threads \in [DOMAIN pool -> Result]
  BY DEF TypeOK, Joined
<1>2. UnsatVotes(threads) \in Nat
  BY <1>1, VotersFinite, FS_CardinalityType DEF UnsatVotes
<1>3. Vote(threads, threshold) \in AgreementTag
  BY DEF Vote, AgreementTag
<1>4. threads \in UNION {ResultSet(S) : S \in SUBSET Slots}
  BY <1>1 DEF TypeOK, ResultSet
<1>5. threshold \in Nat \ {0}
  BY ThresholdPositive DEF TypeOK
<1>6. current \in 1..NumObligations
  BY DEF TypeOK
<1> QED
  BY <1>1, <1>2, <1>3, <1>4, <1>5, <1>6 DEF Certificate, CertType

\* The part of the type invariant an early exit touches.
LEMMA RefuseTyped ==
  ASSUME TypeOK, current \in 1..NumObligations,
         NEW status \in {"pending", "consistency-refused", "consistency-unconfirmed"},
         Refuse(status)
  PROVE  /\ uncertified' \in Seq(LedgerType)
         /\ undischarged' \in Nat /\ discharged' \in Nat
         /\ certs' = certs
         /\ current' \in 1..(NumObligations + 1)
         /\ pc' = "next" /\ threads' = <<>>
<1>1. [id |-> current, status |-> status] \in LedgerType
  BY DEF LedgerType
<1>2. uncertified' \in Seq(LedgerType)
  BY <1>1 DEF Refuse, TypeOK
<1>3. undischarged' \in Nat /\ discharged' \in Nat /\ certs' = certs
  BY DEF Refuse, TypeOK
<1>4. current' \in 1..(NumObligations + 1)
  BY DispatchAssumption DEF Refuse
<1> QED
  BY <1>2, <1>3, <1>4 DEF Refuse

\* The certificates' type depends on the configuration, which never changes.
LEMMA CertTypeStable ==
  ASSUME cfg' = cfg
  PROVE  CertType' = CertType
<1>1. Slots' = Slots
  BY DEF Slots
<1> QED
  BY <1>1 DEF CertType

\* The dispatcher's state is always well formed.
THEOREM TypeCorrect == Spec => []TypeOK
<1>1. Init => TypeOK
  <2> SUFFICES ASSUME Init PROVE TypeOK
    OBVIOUS
  <2>1. DOMAIN pool \in SUBSET Slots /\ pool \in [DOMAIN pool -> Known]
    BY DEF Init
  <2>2. certs \in Seq(CertType) /\ uncertified \in Seq(LedgerType)
    BY DEF Init
  <2>3. current \in 1..(NumObligations + 1)
    BY DispatchAssumption DEF Init
  <2> QED
    BY <2>1, <2>2, <2>3 DEF Init, TypeOK
<1>2. TypeOK /\ [Next]_vars => TypeOK'
  <2> SUFFICES ASSUME TypeOK, [Next]_vars PROVE TypeOK'
    OBVIOUS
  <2> USE DEF world, counters
  <2>1. CASE BuildPool
    <3>1. PICK matching \in SUBSET cfg.pinned :
            pool' = [j \in Retained(cfg.solvers, matching) |-> cfg.solvers[j]]
      BY <2>1 DEF BuildPool
    <3>2. Retained(cfg.solvers, matching) \subseteq Slots
      BY DEF Retained, KnownOnce, Slots
    <3>3. \A j \in Retained(cfg.solvers, matching) : cfg.solvers[j] \in Known
      BY DEF Retained, KnownOnce
    <3>4. DOMAIN pool' \in SUBSET Slots' /\ pool' \in [DOMAIN pool' -> Known]
      BY <2>1, <3>1, <3>2, <3>3 DEF BuildPool, Slots
    <3> QED
      BY <2>1, <3>4, CertTypeStable DEF BuildPool, TypeOK
  <2>2. CASE Pending
    <3>1. current \in 1..NumObligations
      BY <2>2, DispatchAssumption DEF Pending, TypeOK
    <3> QED
      BY <2>2, <3>1, RefuseTyped, CertTypeStable DEF Pending, TypeOK, Slots
  <2>3. CASE TakeUp
    <3>1. current \in 1..NumObligations
      BY <2>3, DispatchAssumption DEF TakeUp, TypeOK
    <3>2. threads' \in [DOMAIN pool -> Result \cup {Running}]
      BY <2>3 DEF TakeUp, Spawned
    <3> QED
      BY <2>3, <3>1, <3>2, CertTypeStable DEF TakeUp, TypeOK, Slots
  <2>4. CASE ConsistencyRefused
    <3>1. current \in 1..NumObligations
      BY <2>4 DEF ConsistencyRefused, TypeOK
    <3> QED
      BY <2>4, <3>1, RefuseTyped, CertTypeStable DEF ConsistencyRefused, TypeOK, Slots
  <2>5. CASE ConsistencyUnconfirmed
    <3>1. current \in 1..NumObligations
      BY <2>5 DEF ConsistencyUnconfirmed, TypeOK
    <3> QED
      BY <2>5, <3>1, RefuseTyped, CertTypeStable DEF ConsistencyUnconfirmed, TypeOK, Slots
  <2>6. CASE ConsistencyPassed
    <3>1. threads' \in [DOMAIN pool -> Result \cup {Running}]
      BY <2>6 DEF ConsistencyPassed, Spawned
    <3>2. skipped' \in BOOLEAN
      BY <2>6 DEF ConsistencyPassed, AllNotInstalled
    <3> QED
      BY <2>6, <3>1, <3>2, CertTypeStable DEF ConsistencyPassed, TypeOK, Slots
  <2>7. CASE MainUnconfirmed
    <3>1. current \in 1..NumObligations
      BY <2>7 DEF MainUnconfirmed, TypeOK
    <3> QED
      BY <2>7, <3>1, RefuseTyped, CertTypeStable DEF MainUnconfirmed, TypeOK, Slots
  <2>8. CASE Gate
    <3>1. certs' \in Seq(CertType)
      BY <2>8, AppendTyped DEF Gate, TypeOK
    <3>2. discharged' \in Nat /\ undischarged' \in Nat
      BY <2>8 DEF Gate, TypeOK
    <3>3. current' \in 1..(NumObligations + 1)
      BY <2>8, DispatchAssumption DEF Gate, TypeOK
    <3> QED
      BY <2>8, <3>1, <3>2, <3>3, CertTypeStable DEF Gate, TypeOK, Slots
  <2>9. CASE Return
    BY <2>9, CertTypeStable DEF Return, TypeOK, Slots
  <2>10. CASE WriteBundle
    BY <2>10, CertTypeStable DEF WriteBundle, TypeOK, Slots
  <2>11. CASE Solvers
    <3>1. PICK k \in DOMAIN threads : SolverReturns(k)
      BY <2>11 DEF Solvers
    <3>2. threads # <<>>
      BY <3>1
    <3>3. /\ pc \in {"consistency", "main"}
          /\ threads \in [DOMAIN pool -> Result \cup {Running}]
      BY <3>2 DEF TypeOK
    <3>4. pool[k] \in Known
      BY <3>1, <3>3 DEF TypeOK
    <3>5. Outcomes(pool[k]) \subseteq SolverResult
      BY DispatchAssumption DEF Outcomes, Truth, ConsistencyTruth, MainTruth, SolverResult
    <3>6. threads' \in [DOMAIN pool -> Result \cup {Running}]
      BY <3>1, <3>3, <3>4, <3>5 DEF SolverReturns, Result, Names, SolverResult
    <3> QED
      BY <3>1, <3>3, <3>6, CertTypeStable DEF SolverReturns, TypeOK, Slots
  <2>12. CASE PathChange
    <3>1. installed' \in SUBSET Known
      BY <2>12 DEF PathChange, TypeOK
    <3> QED
      BY <2>12, <3>1, CertTypeStable DEF PathChange, TypeOK, Slots
  <2>13. CASE UNCHANGED vars
    BY <2>13, CertTypeStable DEF vars, TypeOK, Slots
  <2> QED
    BY <2>1, <2>2, <2>3, <2>4, <2>5, <2>6, <2>7, <2>8, <2>9, <2>10, <2>11,
       <2>12, <2>13 DEF Next, Dispatcher, Terminated
<1> QED
  BY <1>1, <1>2, PTL DEF Spec

-----------------------------------------------------------------------------
(***************************************************************************)
(* The ledger.                                                             *)
(***************************************************************************)

\* Appending an entry adds its id to the ids, and one to the length.
LEMMA AppendIds ==
  ASSUME NEW S, NEW s \in Seq(S), NEW e \in S
  PROVE  /\ {Append(s, e)[k].id : k \in DOMAIN Append(s, e)}
              = {s[k].id : k \in DOMAIN s} \cup {e.id}
         /\ Len(Append(s, e)) = Len(s) + 1
<1>1. /\ DOMAIN Append(s, e) = DOMAIN s \cup {Len(s) + 1}
      /\ \A k \in DOMAIN s : Append(s, e)[k] = s[k]
      /\ Append(s, e)[Len(s) + 1] = e
      /\ Len(Append(s, e)) = Len(s) + 1
  OBVIOUS
<1> QED
  BY <1>1

\* An early exit files the obligation in hand among the uncertified.
LEMMA RefuseFiles ==
  ASSUME TypeOK, LedgerComplete, current \in 1..NumObligations,
         NEW status \in {"pending", "consistency-refused", "consistency-unconfirmed"},
         Refuse(status)
  PROVE  LedgerComplete'
<1> DEFINE e == [id |-> current, status |-> status]
<1>1. e \in LedgerType
  BY DEF LedgerType
<1>2. uncertified' = Append(uncertified, e) /\ certs' = certs /\ current' = current + 1
  BY DEF Refuse
<1>3. /\ LedgerIds' = LedgerIds \cup {current}
      /\ Len(uncertified') = Len(uncertified) + 1
  <2>1. e.id = current /\ uncertified \in Seq(LedgerType)
    BY DEF TypeOK
  <2> HIDE DEF e
  <2>2. /\ {Append(uncertified, e)[k].id : k \in DOMAIN Append(uncertified, e)}
              = {uncertified[k].id : k \in DOMAIN uncertified} \cup {e.id}
        /\ Len(Append(uncertified, e)) = Len(uncertified) + 1
    BY <1>1, <2>1, AppendIds
  <2> QED
    BY <1>2, <2>1, <2>2 DEF LedgerIds
<1>4. CertIds' = CertIds
  BY <1>2 DEF CertIds
<1>5. 1..(current' - 1) = 1..(current - 1) \cup {current}
  BY <1>2, DispatchAssumption
<1>6. Len(certs) \in Nat /\ Len(uncertified) \in Nat
  BY DEF TypeOK
<1>7. CertIds' \cup LedgerIds' = 1..(current' - 1)
  BY <1>3, <1>4, <1>5 DEF LedgerComplete
<1>8. Len(certs') + Len(uncertified') = current' - 1
  BY <1>2, <1>3, <1>6, DispatchAssumption DEF LedgerComplete
<1> QED
  BY <1>7, <1>8 DEF LedgerComplete

\* Every obligation ends in exactly one entry of the bundle's two lists: what
\* lets a replayer tell full verification from partial coverage.
THEOREM LedgerIsComplete == Spec => []LedgerComplete
<1>1. Init => LedgerComplete
  BY DEF Init, LedgerComplete, CertIds, LedgerIds
<1>2. TypeOK /\ LedgerComplete /\ [Next]_vars => LedgerComplete'
  <2> SUFFICES ASSUME TypeOK, LedgerComplete, [Next]_vars PROVE LedgerComplete'
    OBVIOUS
  <2>1. CASE Pending
    <3>1. current \in 1..NumObligations
      BY <2>1, DispatchAssumption DEF Pending, TypeOK
    <3> QED
      BY <2>1, <3>1, RefuseFiles DEF Pending
  <2>2. CASE ConsistencyRefused
    BY <2>2, RefuseFiles DEF ConsistencyRefused, TypeOK
  <2>3. CASE ConsistencyUnconfirmed
    BY <2>3, RefuseFiles DEF ConsistencyUnconfirmed, TypeOK
  <2>4. CASE MainUnconfirmed
    BY <2>4, RefuseFiles DEF MainUnconfirmed, TypeOK
  <2>5. CASE Gate
    <3> DEFINE c == Certificate(current, threads)
    <3>1. c \in CertType /\ c.id = current /\ current \in 1..NumObligations
      BY <2>5, AppendTyped DEF Gate, Certificate, TypeOK
    <3>2. certs' = Append(certs, c) /\ uncertified' = uncertified /\ current' = current + 1
      BY <2>5 DEF Gate
    <3>3. CertIds' = CertIds \cup {current} /\ Len(certs') = Len(certs) + 1
      <4>1. certs \in Seq(CertType)
        BY DEF TypeOK
      <4> HIDE DEF c
      <4>2. /\ {Append(certs, c)[k].id : k \in DOMAIN Append(certs, c)}
                  = {certs[k].id : k \in DOMAIN certs} \cup {c.id}
            /\ Len(Append(certs, c)) = Len(certs) + 1
        BY <3>1, <4>1, AppendIds
      <4> QED
        BY <3>1, <3>2, <4>2 DEF CertIds
    <3>4. LedgerIds' = LedgerIds
      BY <3>2 DEF LedgerIds
    <3>5. 1..(current' - 1) = 1..(current - 1) \cup {current}
      BY <3>1, <3>2, DispatchAssumption
    <3>6. Len(certs) \in Nat /\ Len(uncertified) \in Nat
      BY DEF TypeOK
    <3>7. CertIds' \cup LedgerIds' = 1..(current' - 1)
      BY <3>3, <3>4, <3>5 DEF LedgerComplete
    <3>8. Len(certs') + Len(uncertified') = current' - 1
      <4> HIDE DEF c
      <4> QED
        BY <3>1, <3>2, <3>3, <3>6, DispatchAssumption DEF LedgerComplete
    <3> QED
      BY <3>7, <3>8 DEF LedgerComplete
  <2>6. CASE UNCHANGED <<current, certs, uncertified>>
    BY <2>6 DEF LedgerComplete, CertIds, LedgerIds
  <2>7. CASE BuildPool \/ TakeUp \/ ConsistencyPassed \/ Return \/ WriteBundle
    BY <2>6, <2>7 DEF BuildPool, TakeUp, ConsistencyPassed, Return, WriteBundle, counters
  <2>8. CASE Solvers \/ PathChange \/ UNCHANGED vars
    BY <2>6, <2>8 DEF Solvers, SolverReturns, PathChange, counters, vars
  <2> QED
    BY <2>1, <2>2, <2>3, <2>4, <2>5, <2>7, <2>8 DEF Next, Dispatcher, Terminated
<1> QED
  BY <1>1, <1>2, TypeCorrect, PTL DEF Spec

-----------------------------------------------------------------------------
(***************************************************************************)
(* Soundness of the gate.                                                  *)
(***************************************************************************)

\* With fewer faulty solvers than votes, a joined run whose verdict r has at
\* least `threshold` voters has r as its truth.
LEMMA EnoughVotesTellTheTruth ==
  ASSUME TypeOK, HonestThreads, Trusted, pc \in {"consistency", "main"}, Joined,
         NEW r \in {"sat", "unsat"},
         Cardinality(Voters(threads, r)) >= threshold
  PROVE  Truth = r
<1>1. threads \in [DOMAIN pool -> Result]
  BY AppendTyped
<1>2. IsFiniteSet(Voters(threads, r))
  BY <1>1, VotersFinite
<1>3. IsFiniteSet(faulty)
  BY DispatchAssumption, FS_Subset DEF TypeOK
<1>4. Cardinality(faulty) < Cardinality(Voters(threads, r))
  <2>1. Cardinality(faulty) \in Nat /\ Cardinality(Voters(threads, r)) \in Nat
    BY <1>2, <1>3, FS_CardinalityType
  <2>2. threshold \in Nat \ {0}
    BY ThresholdPositive DEF TypeOK
  <2> QED
    BY <2>1, <2>2 DEF Trusted
<1>5. PICK v \in Voters(threads, r) : v \notin faulty
  BY <1>2, <1>3, <1>4, HonestVoter
<1>6. PICK k \in DOMAIN threads : threads[k].verdict = r /\ threads[k].solver = v
  BY DEF Voters
<1> QED
  BY <1>5, <1>6 DEF HonestThreads

\* Appending one certificate extends what is true of all of them.
LEMMA AppendAll ==
  ASSUME NEW S, NEW s \in Seq(S), NEW e \in S, NEW k \in DOMAIN Append(s, e)
  PROVE  \/ k \in DOMAIN s /\ Append(s, e)[k] = s[k]
         \/ Append(s, e)[k] = e
OBVIOUS

\* An obligation the gate discharges is proven.
LEMMA GateDischargesOnlyProven ==
  ASSUME TypeOK, GateInv, Trusted, pc = "main", Joined, ~ WorldChanged,
         Vote(threads, threshold) = "discharged"
  PROVE  Proven(obligations[current])
<1> DEFINE o == obligations[current]
<1>1. threads \in [DOMAIN pool -> Result]
  BY AppendTyped
<1>2. threshold \in Nat \ {0}
  BY ThresholdPositive DEF TypeOK
<1>3. /\ Cardinality(Voters(threads, "unsat")) >= threshold
      /\ Voters(threads, "unsat") # {}
  BY <1>1, <1>2, VoteDischarged DEF AtLeastOne
<1>4. PICK k \in DOMAIN threads : threads[k].verdict = "unsat"
  BY <1>3 DEF Voters
<1>5. ~ skipped
  BY <1>4 DEF WorldChanged, AllNotInstalled
<1>6. o.compiles /\ o.hyps # "contradictory"
  BY <1>5 DEF GateInv, MainIsGuarded
<1>7. Truth = "unsat"
  BY <1>3, EnoughVotesTellTheTruth DEF GateInv
<1>8. MainTruth(o) = "unsat"
  BY <1>7 DEF Truth
<1>9. o.safe
  BY <1>6, <1>8 DEF MainTruth
<1> QED
  BY <1>6, <1>9 DEF Proven

\* An early exit files no certificate and leaves no thread behind.
LEMMA RefuseKeepsGateInv ==
  ASSUME TypeOK, GateInv, NEW status, Refuse(status), UNCHANGED world
  PROVE  GateInv'
<1>1. threads' = <<>> /\ pc' = "next" /\ certs' = certs
  BY DEF Refuse
<1>2. HonestThreads' /\ MainIsGuarded'
  BY <1>1 DEF HonestThreads, MainIsGuarded
<1>3. undischarged' # 0
  BY DEF Refuse, TypeOK
<1>4. DischargeSound'
  BY <1>1 DEF GateInv, DischargeSound, Trusted, threshold, world
<1> QED
  BY <1>2, <1>3, <1>4 DEF GateInv, NoFailureSoFar

LEMMA GateInvIsInductive == TypeOK /\ GateInv /\ [Next]_vars => GateInv'
<1> SUFFICES ASSUME TypeOK, GateInv, [Next]_vars PROVE GateInv'
  OBVIOUS
<1>1. CASE Pending
  BY <1>1, RefuseKeepsGateInv DEF Pending
<1>2. CASE ConsistencyRefused
  BY <1>2, RefuseKeepsGateInv DEF ConsistencyRefused
<1>3. CASE ConsistencyUnconfirmed
  BY <1>3, RefuseKeepsGateInv DEF ConsistencyUnconfirmed
<1>4. CASE MainUnconfirmed
  BY <1>4, RefuseKeepsGateInv DEF MainUnconfirmed
<1>5. CASE BuildPool
  <2>1. threads = <<>> /\ threads' = <<>> /\ pc' = "next"
    BY <1>5 DEF BuildPool, TypeOK
  <2>2. HonestThreads' /\ MainIsGuarded'
    BY <2>1 DEF HonestThreads, MainIsGuarded
  <2>3. NoFailureSoFar' /\ DischargeSound'
    BY <1>5 DEF BuildPool, GateInv, NoFailureSoFar, DischargeSound, Trusted,
                threshold, world, counters
  <2> QED
    BY <2>2, <2>3 DEF GateInv
<1>6. CASE TakeUp
  <2>1. threads' = Spawned
    BY <1>6 DEF TakeUp
  <2>2. HonestThreads'
    BY <2>1 DEF HonestThreads, Spawned, Running
  <2>3. obligations' = obligations /\ current' = current
    BY <1>6 DEF TakeUp, world
  <2>4. obligations'[current'].compiles
    BY <1>6, <2>3 DEF TakeUp
  <2>5. pc' = "main" => obligations'[current'].hyps = "none"
    BY <1>6, <2>3 DEF TakeUp
  <2>6. MainIsGuarded'
    BY <2>4, <2>5 DEF MainIsGuarded
  <2>7. NoFailureSoFar' /\ DischargeSound'
    BY <1>6 DEF TakeUp, GateInv, NoFailureSoFar, DischargeSound, Trusted,
                threshold, world, counters
  <2> QED
    BY <2>2, <2>6, <2>7 DEF GateInv
<1>7. CASE ConsistencyPassed
  <2>1. threads' = Spawned
    BY <1>7 DEF ConsistencyPassed
  <2>2. HonestThreads'
    BY <2>1 DEF HonestThreads, Spawned, Running
  <2>3. ASSUME ~ skipped', Trusted' PROVE obligations[current].hyps # "contradictory"
    <3>1. Cardinality(Voters(threads, "sat")) >= threshold
      BY <1>7, <2>3 DEF ConsistencyPassed
    <3>2. Trusted
      BY <1>7, <2>3 DEF ConsistencyPassed, Trusted, threshold, world
    <3>3. Truth = "sat"
      BY <1>7, <3>1, <3>2, EnoughVotesTellTheTruth DEF ConsistencyPassed, GateInv
    <3> QED
      BY <1>7, <3>3 DEF ConsistencyPassed, Truth, ConsistencyTruth
  <2>4. obligations[current].compiles
    BY <1>7 DEF ConsistencyPassed, GateInv, MainIsGuarded
  <2>5. MainIsGuarded'
    BY <1>7, <2>3, <2>4 DEF ConsistencyPassed, MainIsGuarded, world
  <2>6. NoFailureSoFar' /\ DischargeSound'
    BY <1>7 DEF ConsistencyPassed, GateInv, NoFailureSoFar, DischargeSound, Trusted,
                threshold, world, counters
  <2> QED
    BY <2>2, <2>5, <2>6 DEF GateInv
<1>8. CASE Gate
  <2> DEFINE c == Certificate(current, threads)
  <2>1. /\ c \in CertType /\ certs \in Seq(CertType)
        /\ c.id = current
        /\ c.verdict = Vote(threads, threshold)
    BY <1>8, AppendTyped DEF Gate, Certificate, TypeOK
  <2>2. certs' = Append(certs, c)
    BY <1>8 DEF Gate
  <2>3. HonestThreads' /\ MainIsGuarded'
    BY <1>8 DEF Gate, HonestThreads, MainIsGuarded
  <2>4. obligations' = obligations /\ (Trusted' <=> Trusted)
    BY <1>8 DEF Gate, world, Trusted, threshold
  <2>5. Trusted /\ c.verdict = "discharged" => Proven(obligations[c.id])
    BY <1>8, <2>1, GateDischargesOnlyProven DEF Gate
  <2>6. DischargeSound'
    <3> HIDE DEF c
    <3> SUFFICES ASSUME Trusted, NEW k \in DOMAIN certs',
                        certs'[k].verdict = "discharged"
                 PROVE  Proven(obligations[certs'[k].id])
      BY <2>4 DEF DischargeSound
    <3>1. \/ k \in DOMAIN certs /\ certs'[k] = certs[k]
          \/ certs'[k] = c
      BY <2>1, <2>2, AppendAll
    <3> QED
      BY <2>5, <3>1 DEF GateInv, DischargeSound
  <2>7. NoFailureSoFar'
    <3> HIDE DEF c
    <3> SUFFICES ASSUME undischarged' = 0
                 PROVE  /\ uncertified' = <<>>
                        /\ \A k \in DOMAIN certs' : certs'[k].verdict = "discharged"
      BY DEF NoFailureSoFar
    <3>1. undischarged = 0 /\ c.verdict = "discharged" /\ uncertified' = uncertified
      BY <1>8, <2>1 DEF Gate, TypeOK
    <3>2. \A k \in DOMAIN certs' : \/ k \in DOMAIN certs /\ certs'[k] = certs[k]
                                   \/ certs'[k] = c
      BY <2>1, <2>2, AppendAll
    <3> QED
      BY <3>1, <3>2 DEF GateInv, NoFailureSoFar
  <2> QED
    BY <2>3, <2>6, <2>7 DEF GateInv
<1>9. CASE Return \/ WriteBundle
  <2>1. threads = <<>> /\ threads' = <<>> /\ pc' \in {"returned", "done"}
    BY <1>9 DEF Return, WriteBundle, TypeOK
  <2>2. HonestThreads' /\ MainIsGuarded'
    BY <2>1 DEF HonestThreads, MainIsGuarded
  <2>3. NoFailureSoFar' /\ DischargeSound'
    BY <1>9 DEF Return, WriteBundle, GateInv, NoFailureSoFar, DischargeSound, Trusted,
                threshold, world, counters
  <2> QED
    BY <2>2, <2>3 DEF GateInv
<1>10. CASE Solvers
  <2>1. PICK k \in DOMAIN threads : SolverReturns(k)
    BY <1>10 DEF Solvers
  <2>2. /\ pc \in {"consistency", "main"}
        /\ threads \in [DOMAIN pool -> Result \cup {Running}]
        /\ pool[k] \in Known
    BY <2>1 DEF TypeOK
  <2>3. UNCHANGED <<cfg, obligations, faulty, pc, current, skipped, certs,
                    uncertified, undischarged>>
    BY <2>1 DEF SolverReturns, world, counters
  <2>4. Truth' = Truth
    BY <2>3 DEF Truth
  <2>5. HonestThreads'
    <3> SUFFICES ASSUME NEW j \in DOMAIN threads',
                        threads'[j].verdict \in {"sat", "unsat"}
                 PROVE  /\ threads'[j].solver \in Known
                        /\ threads'[j].solver \notin faulty => threads'[j].verdict = Truth
      BY <2>3, <2>4 DEF HonestThreads
    <3>1. CASE j # k
      BY <2>1, <3>1 DEF SolverReturns, GateInv, HonestThreads
    <3>2. CASE j = k
      <4>1. PICK r \in Outcomes(pool[k]) :
              threads'[k] = [solver |-> pool[k], verdict |-> r]
        BY <2>1, <3>2 DEF SolverReturns
      <4>2. pool[k] \notin faulty => r \in {"not-installed", Truth} \cup Abstentions
        BY <4>1 DEF Outcomes
      <4> QED
        BY <2>2, <3>2, <4>1, <4>2, DispatchAssumption
    <3> QED
      BY <3>1, <3>2
  <2>6. MainIsGuarded' /\ NoFailureSoFar' /\ DischargeSound'
    BY <2>3 DEF GateInv, MainIsGuarded, NoFailureSoFar, DischargeSound, Trusted, threshold
  <2> QED
    BY <2>5, <2>6 DEF GateInv
<1>11. CASE PathChange \/ UNCHANGED vars
  <2>1. UNCHANGED <<cfg, obligations, faulty, pc, current, threads, skipped, certs,
                    uncertified, undischarged>>
    BY <1>11 DEF PathChange, vars, world, counters
  <2> QED
    BY <2>1 DEF GateInv, HonestThreads, MainIsGuarded, NoFailureSoFar, DischargeSound,
                Truth, Trusted, threshold
<1> QED
  BY <1>1, <1>2, <1>3, <1>4, <1>5, <1>6, <1>7, <1>8, <1>9, <1>10, <1>11
     DEF Next, Dispatcher, Terminated

LEMMA GateInvAlways == Spec => []GateInv
<1>1. Init => GateInv
  BY DEF Init, GateInv, HonestThreads, MainIsGuarded, NoFailureSoFar, DischargeSound
<1> QED
  BY <1>1, GateInvIsInductive, TypeCorrect, PTL DEF Spec

\* What `discharged` means: with fewer wrong solvers than the threshold, every
\* discharged certificate is about a true property with satisfiable hypotheses.
THEOREM DischargeIsSound == Spec => []DischargeSound
<1>1. GateInv => DischargeSound
  BY DEF GateInv
<1> QED
  BY <1>1, GateInvAlways, PTL

\* The dispatcher returns only behind the last obligation.
ReturnedAtEnd == pc \in {"returned", "done"} => current = NumObligations + 1

LEMMA ReturnsAtEnd == Spec => []ReturnedAtEnd
<1>1. Init => ReturnedAtEnd
  BY DEF Init, ReturnedAtEnd
<1>2. TypeOK /\ ReturnedAtEnd /\ [Next]_vars => ReturnedAtEnd'
  <2> SUFFICES ASSUME TypeOK, ReturnedAtEnd, [Next]_vars PROVE ReturnedAtEnd'
    OBVIOUS
  <2>1. CASE Return
    BY <2>1, DispatchAssumption DEF Return, ReturnedAtEnd, TypeOK
  <2>2. CASE UNCHANGED <<pc, current>>
    BY <2>2 DEF ReturnedAtEnd
  <2>3. CASE WriteBundle
    BY <2>3 DEF WriteBundle, ReturnedAtEnd
  <2>4. CASE pc' \in {"next", "consistency", "main"}
    BY <2>4 DEF ReturnedAtEnd
  <2> QED
    BY <2>1, <2>2, <2>3, <2>4
       DEF Next, Dispatcher, Solvers, SolverReturns, PathChange, Terminated, vars,
           BuildPool, Pending, TakeUp, ConsistencyRefused, ConsistencyUnconfirmed,
           ConsistencyPassed, MainUnconfirmed, Gate, Refuse
<1> QED
  BY <1>1, <1>2, TypeCorrect, PTL DEF Spec

\* What a clean exit means: no undischarged obligation reported, then every
\* obligation of the crate is proven.
THEOREM AcceptanceIsSound == Spec => []AcceptedMeansProven
<1>1. TypeOK /\ GateInv /\ LedgerComplete /\ ReturnedAtEnd => AcceptedMeansProven
  <2> SUFFICES ASSUME TypeOK, GateInv, LedgerComplete, ReturnedAtEnd,
                      pc \in {"returned", "done"}, undischarged = 0, Trusted,
                      NEW o \in 1..NumObligations
               PROVE  Proven(obligations[o])
    BY DEF AcceptedMeansProven
  <2>1. uncertified = <<>>
    BY DEF GateInv, NoFailureSoFar
  <2>2. LedgerIds = {}
    BY <2>1 DEF LedgerIds
  <2>3. o \in CertIds
    BY <2>2, DispatchAssumption DEF LedgerComplete, ReturnedAtEnd
  <2>4. PICK k \in DOMAIN certs : certs[k].id = o
    BY <2>3 DEF CertIds
  <2> QED
    BY <2>4 DEF GateInv, NoFailureSoFar, DischargeSound
<1> QED
  BY <1>1, TypeCorrect, LedgerIsComplete, GateInvAlways, ReturnsAtEnd, PTL

-----------------------------------------------------------------------------
(***************************************************************************)
(* Who stands behind a verdict.                                            *)
(***************************************************************************)

\* A slot runs the configured solver of that slot, or its thread panicked and
\* is no solver's; and every certificate has the backing that IndependentVotes
\* asks for.
SlotsAreConfigured ==
  /\ \A j \in DOMAIN pool : pool[j] = cfg.solvers[j]
  /\ \A k \in DOMAIN threads :
       threads[k].verdict = "unsat" => threads[k].solver = pool[k]
\* IndependentVotes of one certificate, with its bound variables as parameters.
Backers(results) ==
  {n \in Known : \E j \in DOMAIN results : results[j] = [solver |-> n, verdict |-> "unsat"]}
WellBacked(results, config) ==
  /\ Backers(results) # {}
  /\ Cardinality(Backers(results)) >= config.solver_agreement
  /\ Backers(results) \subseteq {config.solvers[j] : j \in DOMAIN config.solvers}
  /\ \A j \in DOMAIN results : results[j].verdict # "sat"

AllBacked ==
  \A k \in DOMAIN certs : certs[k].verdict = "discharged" => WellBacked(certs[k].solver_results, cfg)

VotesInv == SlotsAreConfigured /\ AllBacked

\* The unsat voters of a discharging run are its backers.
LEMMA GateIsWellBacked ==
  ASSUME TypeOK, SlotsAreConfigured, pc = "main", Joined,
         Vote(threads, threshold) = "discharged"
  PROVE  WellBacked(threads, cfg)
<1>1. threads \in [DOMAIN pool -> Result]
  BY AppendTyped
<1>2. /\ threshold \in Nat \ {0}
      /\ cfg.solver_agreement \in Nat
      /\ threshold >= cfg.solver_agreement
  BY ThresholdPositive DEF TypeOK
<1>3. /\ Cardinality(Voters(threads, "unsat")) >= threshold
      /\ Voters(threads, "unsat") # {}
      /\ Voters(threads, "sat") = {}
  BY <1>1, <1>2, VoteDischarged DEF AtLeastOne
<1>4. ASSUME NEW k \in DOMAIN threads, threads[k].verdict = "unsat"
      PROVE  /\ threads[k] = [solver |-> threads[k].solver, verdict |-> "unsat"]
             /\ threads[k].solver \in Known
             /\ k \in DOMAIN cfg.solvers /\ threads[k].solver = cfg.solvers[k]
  <2>1. k \in DOMAIN pool /\ threads[k] \in Result
    BY <1>1
  <2>2. threads[k].solver = pool[k] /\ pool[k] = cfg.solvers[k]
    BY <1>4, <2>1 DEF SlotsAreConfigured
  <2>3. pool[k] \in Known /\ k \in DOMAIN cfg.solvers
    BY <2>1 DEF TypeOK, Slots
  <2> QED
    BY <1>4, <2>1, <2>2, <2>3 DEF Result
<1>5. Voters(threads, "unsat") = Backers(threads)
  BY <1>4 DEF Voters, Backers
<1>6. Backers(threads) \subseteq {cfg.solvers[j] : j \in DOMAIN cfg.solvers}
  BY <1>4, <1>5 DEF Voters
<1>7. Cardinality(Backers(threads)) >= cfg.solver_agreement
  <2>1. Cardinality(Backers(threads)) \in Nat
    BY <1>1, <1>5, VotersFinite, FS_CardinalityType
  <2> QED
    BY <1>2, <1>3, <1>5, <2>1
<1>8. \A j \in DOMAIN threads : threads[j].verdict # "sat"
  BY <1>3 DEF Voters
<1> QED
  BY <1>3, <1>5, <1>6, <1>7, <1>8 DEF WellBacked

\* At least max(1, solver_agreement) different configured solvers stand behind
\* every discharge, and none against it.
THEOREM VotesAreIndependent == Spec => []IndependentVotes
<1>1. Init => VotesInv
  BY DEF Init, VotesInv, SlotsAreConfigured, AllBacked
<1>2. TypeOK /\ VotesInv /\ [Next]_vars => VotesInv'
  <2> SUFFICES ASSUME TypeOK, VotesInv, [Next]_vars PROVE VotesInv'
    OBVIOUS
  <2>1. CASE BuildPool
    <3>1. \A j \in DOMAIN pool' : pool'[j] = cfg'.solvers[j]
      BY <2>1 DEF BuildPool, world
    <3>2. threads' = <<>> /\ certs' = certs /\ cfg' = cfg
      BY <2>1 DEF BuildPool, TypeOK, world, counters
    <3>3. AllBacked'
      BY <3>2 DEF VotesInv, AllBacked
    <3> QED
      BY <3>1, <3>2, <3>3 DEF VotesInv, SlotsAreConfigured
  <2>2. CASE TakeUp \/ ConsistencyPassed
    <3>1. threads' = Spawned /\ UNCHANGED <<cfg, pool, certs>>
      BY <2>2 DEF TakeUp, ConsistencyPassed, world, counters
    <3> QED
      BY <3>1 DEF VotesInv, SlotsAreConfigured, AllBacked, Spawned, Running
  <2>3. CASE \E status : Refuse(status) /\ UNCHANGED <<cfg, pool>>
    BY <2>3 DEF Refuse, VotesInv, SlotsAreConfigured, AllBacked
  <2>4. CASE Gate
    <3> DEFINE c == Certificate(current, threads)
    <3>1. /\ c \in CertType /\ certs \in Seq(CertType)
          /\ c.solver_results = threads
          /\ c.verdict = Vote(threads, threshold)
      BY <2>4, AppendTyped DEF Gate, Certificate, TypeOK
    <3>2. /\ certs' = Append(certs, c) /\ threads' = <<>>
          /\ UNCHANGED <<cfg, pool>>
      BY <2>4 DEF Gate, world
    <3>3. c.verdict = "discharged" => WellBacked(c.solver_results, cfg)
      BY <2>4, <3>1, GateIsWellBacked DEF Gate, VotesInv
    <3>4. \A k \in DOMAIN certs' :
            certs'[k].verdict = "discharged" => WellBacked(certs'[k].solver_results, cfg)
      <4> HIDE DEF c
      <4> TAKE k \in DOMAIN certs'
      <4>1. \/ k \in DOMAIN certs /\ certs'[k] = certs[k]
            \/ certs'[k] = c
        BY <3>1, <3>2, AppendAll
      <4> QED
        BY <3>3, <4>1 DEF VotesInv, AllBacked
    <3>5. AllBacked'
      BY <3>2, <3>4 DEF AllBacked
    <3> QED
      BY <3>2, <3>5 DEF VotesInv, SlotsAreConfigured
  <2>5. CASE Solvers
    <3>1. PICK k \in DOMAIN threads : SolverReturns(k)
      BY <2>5 DEF Solvers
    <3>2. UNCHANGED <<cfg, pool, certs>>
      BY <3>1 DEF SolverReturns, world, counters
    <3>3. \A j \in DOMAIN threads' : threads'[j].verdict = "unsat" => threads'[j].solver = pool[j]
      <4> TAKE j \in DOMAIN threads'
      <4>1. CASE j # k
        BY <3>1, <4>1 DEF SolverReturns, VotesInv, SlotsAreConfigured
      <4>2. CASE j = k
        BY <3>1, <4>2 DEF SolverReturns
      <4> QED
        BY <4>1, <4>2
    <3> QED
      BY <3>2, <3>3 DEF VotesInv, SlotsAreConfigured, AllBacked
  <2>6. CASE UNCHANGED <<cfg, pool, threads, certs>>
    BY <2>6 DEF VotesInv, SlotsAreConfigured, AllBacked
  <2>7. CASE Return \/ WriteBundle \/ PathChange \/ UNCHANGED vars
    BY <2>6, <2>7 DEF Return, WriteBundle, PathChange, world, counters, vars
  <2>8. CASE Pending \/ ConsistencyRefused \/ ConsistencyUnconfirmed \/ MainUnconfirmed
    BY <2>3, <2>8 DEF Pending, ConsistencyRefused, ConsistencyUnconfirmed, MainUnconfirmed, world
  <2> QED
    BY <2>1, <2>2, <2>4, <2>5, <2>7, <2>8 DEF Next, Dispatcher, Terminated
<1>3. VotesInv => IndependentVotes
  BY DEF VotesInv, AllBacked, WellBacked, Backers, IndependentVotes
<1> QED
  BY <1>1, <1>2, <1>3, TypeCorrect, PTL DEF Spec

\* What an honest pool says of an obligation at the gate: it never disagrees
\* with itself, and it refutes only what is false.
LEMMA HonestGate ==
  ASSUME TypeOK, HonestThreads, pc = "main", Joined, faulty = {}
  PROVE  /\ Vote(threads, threshold) # "disagreement"
         /\ Vote(threads, threshold) = "refuted" => ~ obligations[current].safe
<1>1. \A r \in {"sat", "unsat"} : Voters(threads, r) # {} => Truth = r
  BY DEF Voters, HonestThreads
<1>2. Vote(threads, threshold) # "disagreement"
  BY <1>1 DEF Vote
<1>3. Vote(threads, threshold) = "refuted" => Truth = "sat"
  BY <1>1 DEF Vote
<1>4. Truth = "sat" => ~ obligations[current].safe
  BY DEF Truth, MainTruth
<1> QED
  BY <1>2, <1>3, <1>4

\* No false alarm comes from an honest pool.
THEOREM HonestPoolAgrees == Spec => []HonestSolversAgree
<1>1. Init => HonestSolversAgree
  BY DEF Init, HonestSolversAgree
<1>2. TypeOK /\ GateInv /\ HonestSolversAgree /\ [Next]_vars => HonestSolversAgree'
  <2> SUFFICES ASSUME TypeOK, GateInv, HonestSolversAgree, [Next]_vars
               PROVE  HonestSolversAgree'
    OBVIOUS
  <2>1. CASE Gate
    <3> DEFINE c == Certificate(current, threads)
    <3>1. /\ c \in CertType /\ certs \in Seq(CertType)
          /\ c.id = current
          /\ c.verdict = Vote(threads, threshold)
      BY <2>1, AppendTyped DEF Gate, Certificate, TypeOK
    <3>2. certs' = Append(certs, c) /\ obligations' = obligations /\ faulty' = faulty
      BY <2>1 DEF Gate, world
    <3>3. faulty = {} => /\ c.verdict # "disagreement"
                         /\ c.verdict = "refuted" => ~ obligations[c.id].safe
      BY <2>1, <3>1, HonestGate DEF Gate, GateInv
    <3> HIDE DEF c
    <3> SUFFICES ASSUME faulty = {}, NEW k \in DOMAIN certs'
                 PROVE  /\ certs'[k].verdict # "disagreement"
                        /\ certs'[k].verdict = "refuted" => ~ obligations[certs'[k].id].safe
      BY <3>2 DEF HonestSolversAgree
    <3>4. \/ k \in DOMAIN certs /\ certs'[k] = certs[k]
          \/ certs'[k] = c
      BY <3>1, <3>2, AppendAll
    <3> QED
      BY <3>3, <3>4 DEF HonestSolversAgree
  <2>2. CASE UNCHANGED <<obligations, faulty, certs>>
    BY <2>2 DEF HonestSolversAgree
  <2> QED
    BY <2>1, <2>2
       DEF Next, Dispatcher, Solvers, SolverReturns, PathChange, Terminated, vars, world, counters,
           BuildPool, Pending, TakeUp, ConsistencyRefused, ConsistencyUnconfirmed,
           ConsistencyPassed, MainUnconfirmed, Refuse, Return, WriteBundle
<1> QED
  BY <1>1, <1>2, TypeCorrect, GateInvAlways, PTL DEF Spec
-----------------------------------------------------------------------------
(***************************************************************************)
(* The dispatcher implements the safety part of VerificationContract: seen *)
(* through the refinement mapping of Dispatch, each of its steps decides   *)
(* one obligation, concludes, or changes nothing.                          *)
(***************************************************************************)
Ids == 1..NumObligations
Decision == [o \in Ids |-> DecisionOf(o)]
ProvenIds == {o \in Ids : Proven(obligations[o])}

\* Only decided obligations have certificates.
LEMMA CertificatesAreOfThePast ==
  ASSUME TypeOK, LedgerComplete, NEW k \in DOMAIN certs
  PROVE  certs[k].id \in Nat /\ certs[k].id < current
<1>1. certs[k].id \in 1..(current - 1)
  BY DEF LedgerComplete, CertIds
<1> QED
  BY <1>1, DispatchAssumption DEF TypeOK

\* A step that takes the dispatcher from i to i + 1 changes the decision about
\* i only, if it files at most a certificate of i.
LEMMA OneDecision ==
  ASSUME NEW i \in Ids, current = i, current' = i + 1,
         \A o \in Ids : o < i => (DecisionOf(o)' = DecisionOf(o))
  PROVE  /\ Decision[i] = "open"
         /\ Decision' = [Decision EXCEPT ![i] = DecisionOf(i)']
<1>1. DecisionOf(i) = "open"
  BY DEF DecisionOf, Ids
<1>2. \A o \in Ids : o > i => DecisionOf(o) = "open" /\ DecisionOf(o)' = "open"
  BY DEF DecisionOf, Ids
<1>3. \A o \in Ids : o # i => (DecisionOf(o)' = DecisionOf(o))
  <2> TAKE o \in Ids
  <2>1. o < i \/ o = i \/ o > i
    BY DEF Ids
  <2> QED
    BY <1>2, <2>1
<1>4. Decision' = [o \in Ids |-> DecisionOf(o)']
  BY DEF Decision
<1> QED
  BY <1>1, <1>3, <1>4 DEF Decision

\* An early exit decides the obligation in hand: it is refused.
LEMMA RefuseRefuses ==
  ASSUME TypeOK, LedgerComplete, NEW i \in Ids, current = i, NEW status, Refuse(status)
  PROVE  /\ Decision[i] = "open"
         /\ Decision' = [Decision EXCEPT ![i] = "refused"]
<1>1. certs' = certs /\ current' = i + 1
  BY DEF Refuse
<1>2. \A o \in Ids : o < i => (DecisionOf(o)' = DecisionOf(o))
  BY <1>1 DEF DecisionOf, Ids
<1>3. DecisionOf(i)' = "refused"
  <2>1. \A k \in DOMAIN certs : certs[k].id # i
    BY CertificatesAreOfThePast
  <2> QED
    BY <1>1, <2>1 DEF DecisionOf, Ids
<1> QED
  BY <1>1, <1>2, <1>3, OneDecision

\* The gate decides it by the verdict of the certificate.
LEMMA GateDecides ==
  ASSUME TypeOK, LedgerComplete, NEW i \in Ids, current = i, Gate
  PROVE  /\ Decision[i] = "open"
         /\ Decision' = [Decision EXCEPT ![i] =
              IF Vote(threads, threshold) = "discharged" THEN "discharged" ELSE "refused"]
<1> DEFINE c == Certificate(current, threads)
<1>1. /\ c \in CertType /\ certs \in Seq(CertType)
      /\ c.id = i /\ c.verdict = Vote(threads, threshold)
  BY AppendTyped DEF Gate, Certificate, TypeOK
<1>2. certs' = Append(certs, c) /\ current' = i + 1
  BY DEF Gate
<1> HIDE DEF c
<1>3. /\ DOMAIN certs' = DOMAIN certs \cup {Len(certs) + 1}
      /\ \A k \in DOMAIN certs : certs'[k] = certs[k]
      /\ certs'[Len(certs) + 1] = c
  BY <1>1, <1>2
<1>4. \A o \in Ids : o < i => (DecisionOf(o)' = DecisionOf(o))
  BY <1>1, <1>2, <1>3 DEF DecisionOf, Ids
<1>5. \A k \in DOMAIN certs : certs[k].id # i
  BY CertificatesAreOfThePast
<1>6. DecisionOf(i)' = IF c.verdict = "discharged" THEN "discharged" ELSE "refused"
  <2>1. (\E k \in DOMAIN certs' : certs'[k].id = i /\ certs'[k].verdict = "discharged")
          <=> c.verdict = "discharged"
    BY <1>1, <1>3, <1>5
  <2> QED
    BY <1>2, <2>1 DEF DecisionOf, Ids
<1> QED
  BY <1>1, <1>2, <1>4, <1>6, OneDecision
-----------------------------------------------------------------------------
(***************************************************************************)
(* The converse of NoFailureSoFar: a counted failure is one that shows.    *)
(***************************************************************************)
FailureShows == undischarged # 0 => \E o \in Ids : Decision[o] = "refused"

\* Decided obligations stay as they are.
LEMMA RefusedStays ==
  ASSUME NEW i \in Ids, NEW d, Decision[i] = "open", Decision' = [Decision EXCEPT ![i] = d],
         NEW o \in Ids, Decision[o] = "refused"
  PROVE  Decision'[o] = "refused"
BY DEF Decision

\* Steps that leave the ledgers and the position alone leave the decisions alone.
LEMMA DecisionKept ==
  ASSUME UNCHANGED <<current, certs>>
  PROVE  Decision' = Decision
BY DEF Decision, DecisionOf, Ids

LEMMA FailureAlwaysShows == Spec => []FailureShows
<1>1. Init => FailureShows
  BY DEF Init, FailureShows
<1>2. TypeOK /\ LedgerComplete /\ FailureShows /\ [Next]_vars => FailureShows'
  <2> SUFFICES ASSUME TypeOK, LedgerComplete, FailureShows, [Next]_vars PROVE FailureShows'
    OBVIOUS
  <2>1. ASSUME NEW status, Refuse(status), current \in Ids PROVE FailureShows'
    <3>1. PICK i \in Ids : i = current
      BY <2>1
    <3>2. Decision' = [Decision EXCEPT ![i] = "refused"]
      BY <2>1, <3>1, RefuseRefuses
    <3>3. Decision'[i] = "refused"
      BY <3>2 DEF Decision
    <3> QED
      BY <3>3 DEF FailureShows, Ids
  <2>2. CASE Gate
    <3>1. PICK i \in Ids : i = current
      BY <2>2 DEF Gate, TypeOK, Ids
    <3>2. /\ Decision[i] = "open"
          /\ Decision' = [Decision EXCEPT ![i] =
               IF Vote(threads, threshold) = "discharged" THEN "discharged" ELSE "refused"]
      BY <2>2, <3>1, GateDecides
    <3>3. CASE Vote(threads, threshold) = "discharged"
      <4>1. undischarged' = undischarged
        BY <2>2, <3>3 DEF Gate
      <4> QED
        BY <3>2, <4>1, RefusedStays DEF FailureShows, Ids
    <3>4. CASE Vote(threads, threshold) # "discharged"
      <4>1. Decision'[i] = "refused"
        BY <3>2, <3>4 DEF Decision
      <4> QED
        BY <4>1 DEF FailureShows, Ids
    <3> QED
      BY <3>3, <3>4
  <2>3. CASE Pending \/ ConsistencyRefused \/ ConsistencyUnconfirmed \/ MainUnconfirmed
    <3>1. current \in Ids
      BY <2>3, DispatchAssumption DEF Pending, ConsistencyRefused, ConsistencyUnconfirmed,
            MainUnconfirmed, TypeOK, Ids
    <3> QED
      BY <2>1, <2>3, <3>1 DEF Pending, ConsistencyRefused, ConsistencyUnconfirmed, MainUnconfirmed
  <2>4. CASE UNCHANGED <<current, certs, undischarged>>
    BY <2>4, DecisionKept DEF FailureShows, Ids
  <2> QED
    BY <2>2, <2>3, <2>4
       DEF Next, Dispatcher, Solvers, SolverReturns, PathChange, Terminated, vars, counters,
           BuildPool, TakeUp, ConsistencyPassed, Return, WriteBundle
<1> QED
  BY <1>1, <1>2, TypeCorrect, LedgerIsComplete, PTL DEF Spec
-----------------------------------------------------------------------------
(***************************************************************************)
(* The refinement.                                                         *)
(***************************************************************************)
RefinementInv == TypeOK /\ LedgerComplete /\ GateInv /\ ReturnedAtEnd /\ FailureShows

\* The truth and the trust assumption are fixed with the world.
LEMMA WorldFixesContract ==
  ASSUME UNCHANGED world
  PROVE  Trusted' = Trusted /\ ProvenIds' = ProvenIds
BY DEF world, Trusted, threshold, ProvenIds, Ids

\* Before the loop has ended nothing is concluded, whatever was counted.
LEMMA StillRunning ==
  ASSUME pc \notin {"returned", "done"}, pc' \notin {"returned", "done"}
  PROVE  Outcome = "running" /\ Outcome' = "running"
BY DEF Outcome

\* An early exit is a refusal of the contract.
LEMMA RefuseRefines ==
  ASSUME RefinementInv, current \in Ids, NEW status, Refuse(status), UNCHANGED world,
         pc \notin {"returned", "done"}
  PROVE  Contract!ContractNext
<1>1. PICK i \in Ids : i = current
  OBVIOUS
<1>2. Decision[i] = "open" /\ Decision' = [Decision EXCEPT ![i] = "refused"]
  BY <1>1, RefuseRefuses DEF RefinementInv
<1>3. pc' \notin {"returned", "done"}
  BY DEF Refuse
<1>4. Outcome' = Outcome
  BY <1>3, StillRunning
<1>5. Contract!RefuseObligation(i)
  BY <1>2, <1>4, WorldFixesContract DEF Contract!RefuseObligation, Decision, ProvenIds, Ids
<1> QED
  BY <1>5 DEF Contract!ContractNext, Ids

\* The gate is a discharge or a refusal, and it discharges only the proven.
LEMMA GateRefines ==
  ASSUME RefinementInv, Gate
  PROVE  Contract!ContractNext
<1>1. PICK i \in Ids : i = current
  BY DEF Gate, RefinementInv, TypeOK, Ids
<1>2. /\ Decision[i] = "open"
      /\ Decision' = [Decision EXCEPT ![i] =
           IF Vote(threads, threshold) = "discharged" THEN "discharged" ELSE "refused"]
  BY <1>1, GateDecides DEF RefinementInv
<1>3. UNCHANGED world /\ pc = "main" /\ pc' = "next" /\ Joined /\ ~ WorldChanged
  BY DEF Gate
<1>4. Outcome' = Outcome
  BY <1>3, StillRunning
<1>5. CASE Vote(threads, threshold) = "discharged"
  <2>1. Trusted => Proven(obligations[current])
    BY <1>3, <1>5, GateDischargesOnlyProven DEF RefinementInv
  <2>2. Trusted => i \in ProvenIds
    BY <1>1, <2>1 DEF ProvenIds
  <2>3. Decision' = [Decision EXCEPT ![i] = "discharged"]
    BY <1>2, <1>5
  <2>4. Contract!Discharge(i)
    BY <1>2, <1>3, <1>4, <2>2, <2>3, WorldFixesContract
       DEF Contract!Discharge, Decision, ProvenIds, Ids
  <2> QED
    BY <2>4 DEF Contract!ContractNext, Ids
<1>6. CASE Vote(threads, threshold) # "discharged"
  <2>1. Decision' = [Decision EXCEPT ![i] = "refused"]
    BY <1>2, <1>6
  <2>2. Contract!RefuseObligation(i)
    BY <1>2, <1>3, <1>4, <2>1, WorldFixesContract
       DEF Contract!RefuseObligation, Decision, ProvenIds, Ids
  <2> QED
    BY <2>2 DEF Contract!ContractNext, Ids
<1> QED
  BY <1>5, <1>6

\* At the end of the loop every obligation is decided, and none was counted as
\* a failure exactly if all were discharged.
LEMMA AllDecidedAtTheEnd ==
  ASSUME RefinementInv, current = NumObligations + 1
  PROVE  /\ \A o \in Ids : Decision[o] # "open"
         /\ undischarged = 0 <=> \A o \in Ids : Decision[o] = "discharged"
<1>1. \A o \in Ids : Decision[o] # "open"
  BY DispatchAssumption DEF Decision, DecisionOf, Ids
<1>2. ASSUME undischarged = 0, NEW o \in Ids PROVE Decision[o] = "discharged"
  <2>1. uncertified = <<>> /\ \A k \in DOMAIN certs : certs[k].verdict = "discharged"
    BY <1>2 DEF RefinementInv, GateInv, NoFailureSoFar
  <2>2. LedgerIds = {}
    BY <2>1 DEF LedgerIds
  <2>3. o \in CertIds
    BY <2>2, DispatchAssumption DEF RefinementInv, LedgerComplete, Ids
  <2>4. PICK k \in DOMAIN certs : certs[k].id = o
    BY <2>3 DEF CertIds
  <2>5. ~ (o >= current)
    BY DispatchAssumption DEF Ids
  <2> QED
    BY <2>1, <2>4, <2>5 DEF Decision, DecisionOf
<1>3. undischarged # 0 => \E o \in Ids : Decision[o] = "refused"
  BY DEF RefinementInv, FailureShows
<1> QED
  BY <1>1, <1>2, <1>3

\* The return of the loop concludes.
LEMMA ReturnRefines ==
  ASSUME RefinementInv, Return
  PROVE  Contract!ContractNext
<1>1. /\ current = NumObligations + 1 /\ pc = "next" /\ pc' = "returned"
      /\ UNCHANGED <<world, current, certs, undischarged>>
  BY DispatchAssumption DEF Return, RefinementInv, TypeOK, counters
<1>2. Decision' = Decision
  BY <1>1, DecisionKept
<1>3. /\ Outcome = "running"
      /\ Outcome' = IF undischarged = 0 THEN "accepted" ELSE "rejected"
  BY <1>1 DEF Outcome
<1>4. /\ \A o \in Ids : Decision[o] # "open"
      /\ undischarged = 0 <=> \A o \in Ids : Decision[o] = "discharged"
  BY <1>1, AllDecidedAtTheEnd
<1>5. Contract!Conclude
  BY <1>1, <1>2, <1>3, <1>4, WorldFixesContract DEF Contract!Conclude, Decision, ProvenIds, Ids
<1> QED
  BY <1>5 DEF Contract!ContractNext

\* Every other step is invisible to the contract.
LEMMA StutterRefines ==
  ASSUME UNCHANGED <<world, current, certs, undischarged>>,
         \/ UNCHANGED pc
         \/ pc \notin {"returned", "done"} /\ pc' \notin {"returned", "done"}
         \/ pc = "returned" /\ pc' = "done"
  PROVE  UNCHANGED Contract!contractVars
<1>1. Decision' = Decision
  BY DecisionKept
<1>2. Outcome' = Outcome
  BY DEF Outcome
<1> QED
  BY <1>1, <1>2, WorldFixesContract DEF Contract!contractVars, Decision, ProvenIds, Ids

\* The dispatcher keeps the promises of VerificationContract, for every number
\* of obligations, pool, configuration and way the solvers fail: an obligation
\* is decided once and for good, discharged only when proven (if fewer solvers
\* than votes required are wrong), and the crate is accepted exactly when all
\* were discharged.
THEOREM DispatchRefinesContract == Spec => Contract!ContractSafety
<1>1. Init => Contract!ContractInit
  <2> SUFFICES ASSUME Init PROVE Contract!ContractInit
    OBVIOUS
  <2>1. \A o \in Ids : DecisionOf(o) = "open"
    BY DEF Init, DecisionOf, Ids
  <2>2. Outcome = "running"
    BY DEF Init, Outcome
  <2>3. Trusted \in BOOLEAN
    BY DEF Trusted
  <2> QED
    BY <2>1, <2>2, <2>3 DEF Contract!ContractInit, Ids
<1>2. RefinementInv /\ [Next]_vars => [Contract!ContractNext]_(Contract!contractVars)
  <2> SUFFICES ASSUME RefinementInv, [Next]_vars
               PROVE  Contract!ContractNext \/ UNCHANGED Contract!contractVars
    OBVIOUS
  <2>1. CASE Pending \/ ConsistencyRefused \/ ConsistencyUnconfirmed \/ MainUnconfirmed
    <3>1. current \in Ids /\ pc \notin {"returned", "done"} /\ UNCHANGED world
      BY <2>1, DispatchAssumption DEF Pending, ConsistencyRefused, ConsistencyUnconfirmed,
            MainUnconfirmed, RefinementInv, TypeOK, Ids
    <3> QED
      BY <2>1, <3>1, RefuseRefines
         DEF Pending, ConsistencyRefused, ConsistencyUnconfirmed, MainUnconfirmed
  <2>2. CASE Gate
    BY <2>2, GateRefines
  <2>3. CASE Return
    BY <2>3, ReturnRefines
  <2>4. CASE BuildPool \/ TakeUp \/ ConsistencyPassed \/ WriteBundle
    BY <2>4, StutterRefines DEF BuildPool, TakeUp, ConsistencyPassed, WriteBundle, counters
  <2>5. CASE Solvers \/ PathChange \/ UNCHANGED vars
    BY <2>5, StutterRefines DEF Solvers, SolverReturns, PathChange, vars, counters, world
  <2> QED
    BY <2>1, <2>2, <2>3, <2>4, <2>5 DEF Next, Dispatcher, Terminated
<1>3. Spec => []RefinementInv
  BY TypeCorrect, LedgerIsComplete, GateInvAlways, ReturnsAtEnd, FailureAlwaysShows, PTL
     DEF RefinementInv
<1> QED
  BY <1>1, <1>2, <1>3, PTL DEF Spec, Contract!ContractSafety
=============================================================================
