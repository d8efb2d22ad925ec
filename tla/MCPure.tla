------------------------------- MODULE MCPure -------------------------------
(***************************************************************************)
(* The two computations without state, TestPlan and LoadLines, over all    *)
(* small inputs: a behaviour is one of theirs, for a request of at most    *)
(* MaxTests tests of each kind or for a log of at most MaxLines lines.     *)
(***************************************************************************)
EXTENDS TestPlan, LoadLines

CONSTANTS Orders, MaxTests, MaxLines

Lists == BoundedSeq([order: Orders \cup {NotANumber}, stop: {FALSE}], MaxTests)
MCRequests == [curls: Lists, loads: Lists]
NoRequest == [curls |-> <<>>, loads |-> <<>>]

Json  == [sets |-> "json", to |-> <<>>, words |-> <<"{", "{", "}", "{", "}", "}">>]
Brace == [sets |-> "none", to |-> <<>>, words |-> <<"}">>]
MCLines == {Target("50%", "12"), Target("50%", "2"), Target("99.9%", "2"), Code("200", "4"),
            Code("500", "12"), Code("2000", "4"), Total("3"), Rate("qps=8"), Rate("qps=9"),
            Json, Brace}
MCHalves == {<<"1", "12">>, <<"200", "2000">>, <<"Cod", "Code">>, <<"99.", "99.9%">>,
             <<"m", "ms">>, <<"qps=", "qps=8">>, <<"qp", "qps=9">>}
MCOutputs == BoundedSeq(MCLines, MaxLines)

Init ==
  \/ Asked /\ lines = <<>> /\ cut = 0 /\ rest = <<>> /\ taken = Nothing
  \/ Prints /\ request = NoRequest /\ plan = <<>>

Orderly   == Plans /\ UNCHANGED <<lines, cut, rest, taken>>
ReadsThem == Reads /\ UNCHANGED <<request, plan>>
Next == Orderly \/ ReadsThem
Spec == Init /\ [][Next]_<<request, plan, lines, cut, rest, taken>>
=============================================================================
