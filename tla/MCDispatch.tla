----------------------------- MODULE MCDispatch -----------------------------
(***************************************************************************)
(* Finite instances of Dispatch for TLC.                                   *)
(***************************************************************************)
EXTENDS Dispatch

\* The obligations that carry hypotheses - satisfiable ones, safe or not, and
\* contradictory ones - and one without a goal.
MCHypotheses ==
  {o \in Obligation : /\ Genuine(o)
                      /\ IF o.compiles THEN o.hyps # "none"
                                       ELSE o.hyps = "none" /\ ~ o.safe}

\* Lists with a duplicate, with an unknown name, and empty; a pin; thresholds
\* of 0, 1 and 2.  A threshold above the votes there are is met whenever a
\* solver of the pool is not installed.
Section(solvers, pinned, agreement) ==
  [solvers |-> solvers, pinned |-> pinned, solver_agreement |-> agreement]

MCConfigs ==
  {Section(<<"z3", "z3", "cvc5">>, {}, 2), Section(<<"z3", "z4">>, {}, 0),
   Section(<<>>, {}, 0), Section(<<"z3", "cvc5">>, {"cvc5"}, 1)}
=============================================================================
