----------------------------- MODULE MCOperator -----------------------------
(* Operator for TLC: one run of two CurlTests that ask for the same place, *)
(* the first of which stops the run when it fails.  Runs and tests have    *)
(* the same blank status.                                                  *)
EXTENDS Operator

MCStatuses == {"none", "Finished"}
T(order, stop) == [order |-> order, stop |-> stop]
MCSpecs == {[curls |-> <<T(1, TRUE), T(1, FALSE)>>, loads |-> <<>>]}
=============================================================================
