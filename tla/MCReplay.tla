------------------------------ MODULE MCReplay ------------------------------
(***************************************************************************)
(* A finite instance of Replay for TLC, in two halves: unsigned bundles of *)
(* up to two obligations and two solvers, whose votes matter, and signed   *)
(* bundles of one, whose keys and timeouts do.                             *)
(***************************************************************************)
EXTENDS Replay

\* A replay may find any of the solvers missing, or none of them.
MCPaths == SUBSET Names
MCPools == {<<"z3", "cvc5">>, <<"z3">>, <<>>}
One == {<<"z3">>}

\* The unsigned half has one change to the file, and problems that every budget
\* is enough for; the signed half has as many changes as MaxEdits.
Signed == env # [hmac |-> "none", ed25519 |-> "none", require_signed |-> FALSE]
Quick == \A k \in DOMAIN bundle.obligations : bundle.obligations[k].smt.needs = 1

\* The producer holds k1 or nothing: k2 is any other key.
MCInit ==
  \/ InitOver(Pools, MaxObligations, Thresholds, {1}, {"none"}, {FALSE}) /\ Quick
  \/ /\ InitOver(One, 1, {1}, Timeouts, Keys, Policies)
     /\ faulty \subseteq {"z3"}
     /\ "k2" \notin {produced.signature.key, produced.ed25519_signature.key}
     /\ Signed \/ Quick

MCEdit == Edit /\ (Signed \/ (edits = 0 /\ Quick'))
MCNext == MCEdit \/ Refuse \/ Load \/ ReplayCertificate \/ Report \/ Finished

MCSpec == MCInit /\ [][MCNext]_vars
=============================================================================
