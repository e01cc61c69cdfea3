------------------------ MODULE VerificationContract ------------------------
(***************************************************************************)
(* What Pitbull promises about the obligations of one crate, with nothing  *)
(* said of solvers, pools, threads or thresholds: each obligation is       *)
(* decided once and for good, it may be discharged only when it is proven, *)
(* and the crate is accepted only when every obligation was discharged.    *)
(* `trusted` is the condition under which the promise holds.               *)
(***************************************************************************)
CONSTANT Ids           \* the obligations of the crate

VARIABLES
  trusted,             \* the trust assumption holds in this run
  proven,              \* the obligations that are really, non-vacuously, true
  decision,            \* id |-> "open", "discharged" or "refused"
  outcome              \* "running", "accepted" or "rejected"

contractVars == <<trusted, proven, decision, outcome>>

ContractInit ==
  /\ trusted \in BOOLEAN
  /\ proven \in SUBSET Ids
  /\ decision = [i \in Ids |-> "open"]
  /\ outcome = "running"

Discharge(i) ==
  /\ decision[i] = "open"
  /\ trusted => i \in proven
  /\ decision' = [decision EXCEPT ![i] = "discharged"]
  /\ UNCHANGED <<trusted, proven, outcome>>

RefuseObligation(i) ==
  /\ decision[i] = "open"
  /\ decision' = [decision EXCEPT ![i] = "refused"]
  /\ UNCHANGED <<trusted, proven, outcome>>

Conclude ==
  /\ outcome = "running"
  /\ \A i \in Ids : decision[i] # "open"
  /\ outcome' = IF \A i \in Ids : decision[i] = "discharged"
                THEN "accepted" ELSE "rejected"
  /\ UNCHANGED <<trusted, proven, decision>>

ContractNext ==
  \/ \E i \in Ids : Discharge(i) \/ RefuseObligation(i)
  \/ Conclude

ContractSafety == ContractInit /\ [][ContractNext]_contractVars

ContractSpec == ContractSafety /\ WF_contractVars(ContractNext)
=============================================================================
