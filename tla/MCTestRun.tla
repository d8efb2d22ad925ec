----------------------------- MODULE MCTestRun -----------------------------
(* TestRun for TLC: a request of a curl and a load test that ask for the   *)
(* same place, the first of which stops the run when it fails.             *)
EXTENDS TestRun

MCStatuses == {"", "Finished"}
T(order, stop) == [order |-> order, stop |-> stop]
MCSpecs == {[curls |-> <<T(1, TRUE)>>, loads |-> <<T(1, FALSE)>>]}
=============================================================================
