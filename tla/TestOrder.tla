----------------------------- MODULE TestOrder -----------------------------
(***************************************************************************)
(* In which order a TestRun executes its tests: each is given the slot of  *)
(* its order number, or the next free one, first the curl tests as listed, *)
(* then the load tests; the slots are worked through in increasing order.  *)
(***************************************************************************)
EXTENDS Integers, FiniteSets, SequencesExt

CONSTANT NotANumber   \* an order that Atoi rejects

(* What a TestRun asks for.                                                *)
Listed  == [order: Int \cup {NotANumber}, stop: BOOLEAN]
Request == [curls: Seq(Listed), loads: Seq(Listed)]

(* The tests of a request in the order they are placed.  An order that is  *)
(* not a number counts as 0.                                               *)
Atoi(order) == IF order = NotANumber THEN 0 ELSE order

Ask(kind, list) ==
  [i \in 1..Len(list) |->
     [kind |-> kind, nr |-> i, order |-> list[i].order, stop |-> list[i].stop]]
Tests(request) == Ask("curl", request.curls) \o Ask("load", request.loads)

Taken(placed) == {p.slot : p \in placed}

(* The first slot from the order number on that no earlier test has.       *)
FreeSlot(placed, order) ==
  CHOOSE n \in order..(order + Cardinality(placed)) :
    /\ n \notin Taken(placed)
    /\ order..(n - 1) \subseteq Taken(placed)

InSlot(slot, test) ==
  [slot |-> slot, kind |-> test.kind, nr |-> test.nr, order |-> test.order, stop |-> test.stop]

PlaceOver(placed, test) ==     \* mutant: a later test takes the slot over
  {p \in placed : p.slot # Atoi(test.order)} \cup {InSlot(Atoi(test.order), test)}
Place(placed, test) ==
  placed \cup {InSlot(FreeSlot(placed, Atoi(test.order)), test)}

(* What is placed after the first i tests, and after all of them.          *)
PlacedUpTo(asked) ==
  LET placed[i \in 0..Len(asked)] ==
        IF i = 0 THEN {} ELSE Place(placed[i - 1], asked[i])
  IN placed
Placed(request) == PlacedUpTo(Tests(request))[Len(Tests(request))]

(* The plan of a run: its tests, each with its slot, by increasing slot.   *)
Precedes(p, q) == IF p.kind = q.kind THEN p.nr < q.nr ELSE p.kind = "curl"
Unsorted(placed) == SetToSortSeq(placed, Precedes)   \* mutant: sort.Ints left out
Sorted(placed) ==
  CHOOSE s \in [1..Cardinality(placed) -> placed] :
    \A i, j \in 1..Cardinality(placed) : i < j => s[i].slot < s[j].slot

Plan(request) == Sorted(Placed(request))

-----------------------------------------------------------------------------
(* What a plan has to be.  Every test of the request is in it exactly once.*)
Complete(request, plan) ==
  /\ Len(plan) = Len(Tests(request))
  /\ \A t \in Range(Tests(request)) :
       \E p \in Range(plan) : p.kind = t.kind /\ p.nr = t.nr /\ p.order = t.order

(* Where the orders given are all different, it follows them.              *)
Given(test) == Atoi(test.order)
Obeys(plan) ==
  \/ \E i, j \in DOMAIN plan : i # j /\ Given(plan[i]) = Given(plan[j])
  \/ \A i, j \in DOMAIN plan : i < j => Given(plan[i]) < Given(plan[j])
=============================================================================
