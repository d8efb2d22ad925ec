----------------------------- MODULE TestResult -----------------------------
(***************************************************************************)
(* What a user, or a TestRun, may rely on of a test, whichever controller  *)
(* works on it and however often that is restarted: it is asked for, it    *)
(* gets one result, and it may be withdrawn.  A test that was withdrawn    *)
(* can be asked for once more, and starts without a result.                *)
(***************************************************************************)
CONSTANTS
  Keys,     \* names of the tests
  Results,  \* what may come out of a test
  Pending,  \* asked for, no result yet
  Missing   \* nobody asks for it

VARIABLE test  \* how each test stands

Init == test = [k \in Keys |-> Missing]

Asks(k) ==
  /\ test[k] = Missing
  /\ test' = [test EXCEPT ![k] = Pending]

Decides(k, result) ==
  /\ test[k] = Pending
  /\ test' = [test EXCEPT ![k] = result]

Withdraws(k) == test' = [test EXCEPT ![k] = Missing]

Next == \E k \in Keys :
  Asks(k) \/ Withdraws(k) \/ \E result \in Results : Decides(k, result)

Spec == Init /\ [][Next]_test
=============================================================================
