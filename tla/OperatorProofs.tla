--------------------------- MODULE OperatorProofs ---------------------------
(***************************************************************************)
(* What holds of the TestRun controller for any requests and any number of *)
(* runs: no test of a request is lost on the way into the plan, the tests  *)
(* of a run do not overlap, none follows a failure that asks to stop, and  *)
(* a run that reports Finished is over.                                    *)
(*                                                                         *)
(* Then what holds of it together with the CurlTest controller, for any    *)
(* number of tests: the tests under their own controller are what the run  *)
(* controller takes for granted, and so what was proved of it alone holds  *)
(* with them below it.                                                     *)
(***************************************************************************)
EXTENDS Operator, TestPlan, RuntimeProofs, FiniteSetTheorems

(* The plan of a request, for any request.                                 *)
Test    == [kind: {"curl", "load"}, nr: Nat, order: Int \cup {NotANumber}, stop: BOOLEAN]
Slotted == [slot: Int, kind: {"curl", "load"}, nr: Nat, order: Int \cup {NotANumber},
            stop: BOOLEAN]

LEMMA AskTyped ==
  ASSUME NEW kind \in {"curl", "load"}, NEW list \in Seq(Listed)
  PROVE  /\ Ask(kind, list) \in Seq(Test) /\ Len(Ask(kind, list)) = Len(list)
         /\ \A i \in 1..Len(list) : Ask(kind, list)[i].kind = kind /\ Ask(kind, list)[i].nr = i
<1>1. Len(list) \in Nat /\ \A i \in 1..Len(list) : list[i] \in Listed BY LenProperties, ElementOfSeq
<1>2. \A i \in 1..Len(list) :
        [kind |-> kind, nr |-> i, order |-> list[i].order, stop |-> list[i].stop] \in Test
  BY <1>1 DEF Listed, Test
<1>3. Ask(kind, list) \in [1..Len(list) -> Test] BY <1>2 DEF Ask
<1>4. Ask(kind, list) \in Seq(Test) /\ Len(Ask(kind, list)) = Len(list) BY <1>1, <1>3, SeqDef, LenProperties
<1> QED BY <1>1, <1>4 DEF Ask

(* No two tests of a request are of the same kind and number.              *)
LEMMA OneAfterTheOther ==
  ASSUME NEW a \in Seq(Test), \A i \in 1..Len(a) : a[i].kind = "curl" /\ a[i].nr = i,
         NEW b \in Seq(Test), \A i \in 1..Len(b) : b[i].kind = "load" /\ b[i].nr = i,
         NEW c, c = a \o b
  PROVE  /\ c \in Seq(Test)
         /\ \A i, j \in 1..Len(c) : c[i].kind = c[j].kind /\ c[i].nr = c[j].nr => i = j
<1>1. Len(a) \in Nat /\ Len(b) \in Nat BY LenProperties
<1>2. /\ c \in Seq(Test) /\ Len(c) = Len(a) + Len(b)
      /\ \A i \in 1..(Len(a) + Len(b)) : c[i] = IF i <= Len(a) THEN a[i] ELSE b[i - Len(a)]
  BY ConcatProperties
<1>3. ASSUME NEW i \in 1..Len(c)
      PROVE  IF i <= Len(a) THEN c[i].kind = "curl" /\ c[i].nr = i
                            ELSE c[i].kind = "load" /\ c[i].nr = i - Len(a)
  <2>1. i \in Int /\ 1 <= i /\ i <= Len(a) + Len(b) BY <1>1, <1>2
  <2>2. CASE i <= Len(a)
    <3>1. i \in 1..Len(a) /\ i \in 1..(Len(a) + Len(b)) BY <1>1, <2>1, <2>2
    <3>2. c[i] = a[i] BY <1>2, <2>2, <3>1
    <3> QED BY <2>2, <3>1, <3>2
  <2>3. CASE ~(i <= Len(a))
    <3>1. i - Len(a) \in 1..Len(b) /\ i \in 1..(Len(a) + Len(b)) BY <1>1, <2>1, <2>3
    <3>2. c[i] = b[i - Len(a)] BY <1>2, <2>3, <3>1
    <3> QED BY <2>3, <3>1, <3>2
  <2> QED BY <2>2, <2>3
<1>4. ASSUME NEW i \in 1..Len(c), NEW j \in 1..Len(c), c[i].kind = c[j].kind, c[i].nr = c[j].nr
      PROVE  i = j
  <2>1. i \in Int /\ j \in Int BY <1>1, <1>2
  <2>2. i <= Len(a) <=> j <= Len(a) BY <1>3, <1>4
  <2> QED BY <1>1, <1>3, <1>4, <2>1, <2>2
<1> QED BY <1>2, <1>4

LEMMA TestsTyped ==
  ASSUME NEW asked \in Request
  PROVE  /\ Tests(asked) \in Seq(Test) /\ Len(Tests(asked)) \in Nat
         /\ \A i \in 1..Len(Tests(asked)) : Tests(asked)[i] \in Test
         /\ \A i, j \in 1..Len(Tests(asked)) :
              Tests(asked)[i].kind = Tests(asked)[j].kind
              /\ Tests(asked)[i].nr = Tests(asked)[j].nr => i = j
<1>1. asked.curls \in Seq(Listed) /\ asked.loads \in Seq(Listed) BY DEF Request
<1> DEFINE curls == Ask("curl", asked.curls)
           loads == Ask("load", asked.loads)
<1>2. /\ curls \in Seq(Test) /\ \A i \in 1..Len(curls) : curls[i].kind = "curl" /\ curls[i].nr = i
      /\ loads \in Seq(Test) /\ \A i \in 1..Len(loads) : loads[i].kind = "load" /\ loads[i].nr = i
  BY <1>1, AskTyped
<1>3. Tests(asked) = curls \o loads BY DEF Tests
<1> HIDE DEF curls, loads
<1>4. /\ Tests(asked) \in Seq(Test)
      /\ \A i, j \in 1..Len(Tests(asked)) :
           Tests(asked)[i].kind = Tests(asked)[j].kind
           /\ Tests(asked)[i].nr = Tests(asked)[j].nr => i = j
  BY <1>2, <1>3, OneAfterTheOther
<1> QED BY <1>4, LenProperties, ElementOfSeq

(* There is a free slot to be found, and it is the first.                  *)
LEMMA SlotIsFree ==
  ASSUME NEW placed, IsFiniteSet(placed), NEW order \in Int
  PROVE  /\ FreeSlot(placed, order) \in Int
         /\ FreeSlot(placed, order) >= order
         /\ FreeSlot(placed, order) \notin Taken(placed)
         /\ order..(FreeSlot(placed, order) - 1) \subseteq Taken(placed)
<1> DEFINE Free == {d \in Nat : order + d \notin Taken(placed)}
<1>1. Cardinality(placed) \in Nat BY FS_CardinalityType
<1>2. IsFiniteSet(Taken(placed)) /\ Cardinality(Taken(placed)) <= Cardinality(placed)
      /\ Cardinality(Taken(placed)) \in Nat
  <2> DEFINE f == [p \in placed |-> p.slot]
  <2>1. f \in Surjection(placed, Taken(placed)) BY DEF Surjection, Taken
  <2> QED BY <2>1, FS_Surjection, FS_CardinalityType
<1>3. ASSUME NEW d \in Nat, \A e \in 0..(d - 1) : order + e \in Taken(placed)
      PROVE  d <= Cardinality(placed) /\ order..(order + d - 1) \subseteq Taken(placed)
  <2>1. order..(order + d - 1) \subseteq Taken(placed)
    <3> SUFFICES ASSUME NEW n \in order..(order + d - 1) PROVE n \in Taken(placed) OBVIOUS
    <3>1. n - order \in 0..(d - 1) /\ n = order + (n - order) OBVIOUS
    <3> QED BY <1>3, <3>1
  <2>2. Cardinality(order..(order + d - 1)) = d
    <3>1. order + d - 1 \in Int OBVIOUS
    <3>2. Cardinality(order..(order + d - 1))
            = IF order > order + d - 1 THEN 0 ELSE order + d - 1 - order + 1
      BY <3>1, FS_Interval
    <3> QED BY <3>2
  <2>3. Cardinality(order..(order + d - 1)) <= Cardinality(Taken(placed))
    BY <1>2, <2>1, FS_Subset
  <2> QED BY <1>1, <1>2, <2>1, <2>2, <2>3
<1>4. Free # {}
  <2> SUFFICES ASSUME \A e \in Nat : order + e \in Taken(placed) PROVE FALSE OBVIOUS
  <2>1. Cardinality(placed) + 1 \in Nat /\ ~(Cardinality(placed) + 1 <= Cardinality(placed))
    BY <1>1
  <2>2. \A e \in 0..(Cardinality(placed) + 1 - 1) : order + e \in Taken(placed) BY <2>1
  <2> QED BY <1>3, <2>1, <2>2
<1>5. PICK d \in Free : \A e \in Free : d <= e BY <1>4, LeastNat
<1>6. \A e \in 0..(d - 1) : order + e \in Taken(placed) BY <1>5
<1>7. /\ order + d \in order..(order + Cardinality(placed))
      /\ order + d \notin Taken(placed)
      /\ order..(order + d - 1) \subseteq Taken(placed)
  BY <1>1, <1>3, <1>5, <1>6
<1> QED BY <1>1, <1>7 DEF FreeSlot

(* The recursion behind Placed exists, and so follows its equation.        *)
Recursion(listed, n, placed) ==
  placed = [i \in 0..n |-> IF i = 0 THEN {} ELSE Place(placed[i - 1], listed[i])]

LEMMA RecursionExists ==
  ASSUME NEW listed, NEW n \in Nat
  PROVE  \E placed : Recursion(listed, n, placed)
<1> DEFINE Defined == {m \in Nat : \E placed : Recursion(listed, m, placed)}
<1>1. 0 \in Defined
  <2>1. Recursion(listed, 0, [i \in 0..0 |-> {}]) BY DEF Recursion
  <2> QED BY <2>1
<1>2. ASSUME NEW m \in Nat, m \in Defined PROVE m + 1 \in Defined
  <2>1. PICK g : Recursion(listed, m, g) BY <1>2
  <2> DEFINE h == [i \in 0..(m + 1) |-> IF i = m + 1 THEN Place(g[m], listed[m + 1]) ELSE g[i]]
  <2>2. \A i \in 0..m : g[i] = IF i = 0 THEN {} ELSE Place(g[i - 1], listed[i])
    BY <2>1 DEF Recursion
  <2>3. \A i \in 0..m : h[i] = g[i] OBVIOUS
  <2>4. h[m + 1] = Place(h[m], listed[m + 1]) OBVIOUS
  <2>5. h = [i \in 0..(m + 1) |-> h[i]] OBVIOUS
  <2> HIDE DEF h
  <2>6. ASSUME NEW i \in 0..(m + 1)
        PROVE  h[i] = IF i = 0 THEN {} ELSE Place(h[i - 1], listed[i])
    <3>1. CASE i = m + 1 BY <2>4, <3>1
    <3>2. CASE i = 0 BY <2>2, <2>3, <3>2
    <3>3. CASE i # m + 1 /\ i # 0
      <4>1. i \in 0..m /\ i - 1 \in 0..m BY <3>3
      <4> QED BY <2>2, <2>3, <3>3, <4>1
    <3> QED BY <3>1, <3>2, <3>3
  <2>7. Recursion(listed, m + 1, h) BY <2>5, <2>6 DEF Recursion
  <2> QED BY <2>7
<1> HIDE DEF Defined
<1>3. Nat \subseteq Defined BY <1>1, <1>2, NatInduces
<1> QED BY <1>3 DEF Defined

LEMMA PlacedStepwise ==
  ASSUME NEW listed, Len(listed) \in Nat
  PROVE  /\ PlacedUpTo(listed)[0] = {}
         /\ \A i \in 1..Len(listed) :
              PlacedUpTo(listed)[i] = Place(PlacedUpTo(listed)[i - 1], listed[i])
<1>1. PlacedUpTo(listed) = CHOOSE placed : Recursion(listed, Len(listed), placed)
  BY DEF PlacedUpTo, Recursion
<1>2. Recursion(listed, Len(listed), PlacedUpTo(listed)) BY <1>1, RecursionExists
<1>3. ASSUME NEW placed, Recursion(listed, Len(listed), placed)
      PROVE  /\ placed[0] = {}
             /\ \A i \in 1..Len(listed) : placed[i] = Place(placed[i - 1], listed[i])
  <2>1. \A i \in 0..Len(listed) : placed[i] = IF i = 0 THEN {} ELSE Place(placed[i - 1], listed[i])
    BY <1>3 DEF Recursion
  <2> QED BY <2>1
<1> QED BY <1>2, <1>3

(* The first i tests are placed: each of them once, no two in one slot, in *)
(* the slots they ask for where no two ask for the same.                   *)
Placing(listed, i, placed) ==
  /\ placed \subseteq Slotted /\ IsFiniteSet(placed) /\ Cardinality(placed) = i
  /\ \A p, q \in placed : p.slot = q.slot => p = q
  /\ \A p \in placed : \E j \in 1..i : p = InSlot(p.slot, listed[j])
  /\ \A j \in 1..i : \E p \in placed : p = InSlot(p.slot, listed[j])
  /\ (\A j, l \in 1..i : Given(listed[j]) = Given(listed[l]) => j = l)
       => \A p \in placed : p.slot = Given(p)

LEMMA PlacingGoesOn ==
  ASSUME NEW listed, NEW i \in Nat, NEW placed, Placing(listed, i, placed), listed[i + 1] \in Test
  PROVE  Placing(listed, i + 1, Place(placed, listed[i + 1]))
<1> DEFINE test == listed[i + 1]
           free == FreeSlot(placed, Given(test))
           new == InSlot(free, test)
           after == Place(placed, test)
<1>1. Given(test) \in Int BY DEF Test, Given, Atoi
<1>2. /\ free \in Int /\ free >= Given(test) /\ free \notin Taken(placed)
      /\ Given(test)..(free - 1) \subseteq Taken(placed)
  BY <1>1, SlotIsFree DEF Placing
<1>3. after = placed \cup {new} BY DEF Place, Given
<1> HIDE DEF free, after
<1>4. new \in Slotted /\ new.slot = free /\ new = InSlot(new.slot, test) /\ Given(new) = Given(test)
  BY <1>2 DEF InSlot, Slotted, Test, Given
<1>5. new \notin placed BY <1>2, <1>4 DEF Taken
<1> HIDE DEF new, test
<1>6. after \subseteq Slotted /\ IsFiniteSet(after) /\ Cardinality(after) = i + 1
  BY <1>3, <1>4, <1>5, FS_AddElement DEF Placing
<1>7. \A p, q \in after : p.slot = q.slot => p = q
  BY <1>2, <1>3, <1>4 DEF Taken, Placing
<1>8. \A j \in 1..(i + 1) : j \in 1..i \/ j = i + 1 OBVIOUS
<1>9. 1..i \subseteq 1..(i + 1) /\ i + 1 \in 1..(i + 1) OBVIOUS
<1>10. \A p \in after : \E j \in 1..(i + 1) : p = InSlot(p.slot, listed[j])
  <2> SUFFICES ASSUME NEW p \in after PROVE \E j \in 1..(i + 1) : p = InSlot(p.slot, listed[j])
    OBVIOUS
  <2>1. CASE p = new BY <1>4, <1>9, <2>1 DEF test
  <2>2. CASE p \in placed BY <1>9, <2>2 DEF Placing
  <2> QED BY <1>3, <2>1, <2>2
<1>11. \A j \in 1..(i + 1) : \E p \in after : p = InSlot(p.slot, listed[j])
  <2> SUFFICES ASSUME NEW j \in 1..(i + 1) PROVE \E p \in after : p = InSlot(p.slot, listed[j])
    OBVIOUS
  <2>1. CASE j = i + 1 BY <1>3, <1>4, <2>1 DEF test
  <2>2. CASE j \in 1..i BY <1>3, <2>2 DEF Placing
  <2> QED BY <1>8, <2>1, <2>2
<1>12. ASSUME \A j, l \in 1..(i + 1) : Given(listed[j]) = Given(listed[l]) => j = l
       PROVE  \A p \in after : p.slot = Given(p)
  <2>1. \A p \in placed : p.slot = Given(p) BY <1>9, <1>12 DEF Placing
  <2>2. \A j \in 1..i : j # i + 1 OBVIOUS
  <2>3. ASSUME NEW p \in placed PROVE p.slot # Given(test)
    <3>1. PICK j \in 1..i : p = InSlot(p.slot, listed[j]) BY DEF Placing
    <3>2. p.order = listed[j].order BY <3>1 DEF InSlot
    <3>3. Given(p) = Given(listed[j]) BY <3>2 DEF Given
    <3>4. Given(listed[j]) # Given(listed[i + 1]) BY <1>9, <1>12, <2>2
    <3> QED BY <2>1, <3>3, <3>4 DEF test
  <2>4. Given(test) \notin Taken(placed) BY <2>3 DEF Taken
  <2>5. Given(test) \notin Given(test)..(free - 1) BY <1>2, <2>4
  <2>6. free = Given(test) BY <1>1, <1>2, <2>5
  <2> QED BY <1>3, <1>4, <2>1, <2>6
<1> QED BY <1>6, <1>7, <1>10, <1>11, <1>12 DEF Placing, after, test

LEMMA AllPlaced ==
  ASSUME NEW asked \in Request
  PROVE  Placing(Tests(asked), Len(Tests(asked)), Placed(asked))
<1> SUFFICES ASSUME NEW listed, listed = Tests(asked)
             PROVE  Placing(listed, Len(listed), PlacedUpTo(listed)[Len(listed)])
  BY DEF Placed
<1>1. Len(listed) \in Nat /\ \A i \in 1..Len(listed) : listed[i] \in Test BY TestsTyped
<1> DEFINE S == {i \in Nat : i <= Len(listed) => Placing(listed, i, PlacedUpTo(listed)[i])}
<1>2. 0 \in S
  <2>1. PlacedUpTo(listed)[0] = {} BY <1>1, PlacedStepwise
  <2>2. Placing(listed, 0, {}) BY FS_EmptySet DEF Placing
  <2> QED BY <2>1, <2>2
<1>3. ASSUME NEW i \in Nat, i \in S, i + 1 <= Len(listed) PROVE i + 1 \in S
  <2>1. i + 1 \in 1..Len(listed) /\ i <= Len(listed) /\ i + 1 - 1 = i BY <1>1, <1>3
  <2>2. PlacedUpTo(listed)[i + 1] = Place(PlacedUpTo(listed)[i], listed[i + 1])
    BY <1>1, <2>1, PlacedStepwise
  <2>3. Placing(listed, i, PlacedUpTo(listed)[i]) BY <1>3, <2>1
  <2>4. Placing(listed, i + 1, Place(PlacedUpTo(listed)[i], listed[i + 1]))
    BY <1>1, <2>1, <2>3, PlacingGoesOn
  <2> QED BY <2>2, <2>4
<1>4. \A i \in Nat : i \in S => i + 1 \in S BY <1>3
<1> HIDE DEF S
<1>5. Len(listed) \in S BY <1>1, <1>2, <1>4, NatInduces
<1> QED BY <1>1, <1>5 DEF S

(* Slots that differ can be put in order, in one way.                      *)
LEMMA SlotsInOrder ==
  ASSUME NEW placed, placed \subseteq Slotted, IsFiniteSet(placed),
         \A p, q \in placed : p.slot = q.slot => p = q
  PROVE  /\ Sorted(placed) \in [1..Cardinality(placed) -> placed]
         /\ \A i, j \in 1..Cardinality(placed) : i < j => Sorted(placed)[i].slot < Sorted(placed)[j].slot
         /\ \A p \in placed : \E i \in 1..Cardinality(placed) : Sorted(placed)[i] = p
<1> DEFINE n == Cardinality(placed)
           Lower(p) == {q \in placed : q.slot < p.slot}
           rank == [p \in placed |-> Cardinality(Lower(p)) + 1]
           Rising(s) == \A i, j \in 1..n : i < j => s[i].slot < s[j].slot
<1>1. n \in Nat /\ \A p \in placed : p.slot \in Int BY FS_CardinalityType DEF Slotted
<1>2. IsFiniteSet(1..n) /\ Cardinality(1..n) = n
  <2>1. IsFiniteSet(1..n) /\ Cardinality(1..n) = IF 1 > n THEN 0 ELSE n - 1 + 1
    BY <1>1, FS_Interval
  <2> QED BY <1>1, <2>1
<1>3. ASSUME NEW p \in placed
      PROVE  IsFiniteSet(Lower(p)) /\ Cardinality(Lower(p)) \in Nat /\ Cardinality(Lower(p)) + 1 \in 1..n
  <2>1. Lower(p) \subseteq placed /\ p \notin Lower(p) BY <1>1
  <2>2. /\ IsFiniteSet(Lower(p)) /\ Cardinality(Lower(p)) <= n
        /\ Cardinality(placed) = Cardinality(Lower(p)) => placed = Lower(p)
    BY <2>1, FS_Subset
  <2>3. Cardinality(Lower(p)) \in Nat BY <2>2, FS_CardinalityType
  <2>4. Cardinality(Lower(p)) # n BY <2>1, <2>2
  <2> QED BY <1>1, <2>2, <2>3, <2>4
<1>4. ASSUME NEW p \in placed, NEW q \in placed, p.slot < q.slot
      PROVE  rank[p] < rank[q]
  <2>1. Lower(p) \subseteq Lower(q) /\ p \in Lower(q) /\ p \notin Lower(p) BY <1>1, <1>4
  <2>2. /\ Cardinality(Lower(p)) <= Cardinality(Lower(q))
        /\ Cardinality(Lower(p)) # Cardinality(Lower(q))
    BY <1>3, <2>1, FS_Subset
  <2>3. Cardinality(Lower(p)) \in Nat /\ Cardinality(Lower(q)) \in Nat BY <1>3
  <2>4. rank[p] = Cardinality(Lower(p)) + 1 /\ rank[q] = Cardinality(Lower(q)) + 1 OBVIOUS
  <2> HIDE DEF rank, Lower
  <2> QED BY <2>2, <2>3, <2>4
<1>5. rank \in [placed -> 1..n] BY <1>3
<1> HIDE DEF rank, Lower
<1>6. \A p, q \in placed : rank[p] = rank[q] => p = q
  <2> SUFFICES ASSUME NEW p \in placed, NEW q \in placed, rank[p] = rank[q], p # q PROVE FALSE
    OBVIOUS
  <2>1. p.slot < q.slot \/ q.slot < p.slot BY <1>1
  <2>2. rank[p] < rank[q] \/ rank[q] < rank[p] BY <1>4, <2>1
  <2> QED BY <1>5, <2>2
<1>7. rank \in Surjection(placed, 1..n)
  <2>1. rank \in Injection(placed, 1..n) BY <1>5, <1>6 DEF Injection, IsInjective
  <2> QED BY <1>2, <2>1, FS_Injection
<1>8. \E s \in [1..n -> placed] : Rising(s)
  <2> DEFINE s == [i \in 1..n |-> CHOOSE p \in placed : rank[p] = i]
  <2>1. \A i \in 1..n : \E p \in placed : rank[p] = i BY <1>7 DEF Surjection
  <2>2. \A i \in 1..n : s[i] \in placed /\ rank[s[i]] = i BY <2>1
  <2>3. s \in [1..n -> placed] BY <2>2
  <2> HIDE DEF s
  <2>4. ASSUME NEW i \in 1..n, NEW j \in 1..n, i < j PROVE s[i].slot < s[j].slot
    <3>1. s[i].slot \in Int /\ s[j].slot \in Int BY <1>1, <2>2
    <3>2. ~(s[j].slot < s[i].slot) BY <1>4, <2>2, <2>4
    <3>3. s[j].slot # s[i].slot BY <2>2, <2>4
    <3> QED BY <3>1, <3>2, <3>3
  <2> QED BY <2>3, <2>4
<1>9. Sorted(placed) \in [1..n -> placed] /\ Rising(Sorted(placed)) BY <1>8 DEF Sorted
<1>10. Sorted(placed) \in Surjection(1..n, placed)
  <2>1. ASSUME NEW i \in 1..n, NEW j \in 1..n, Sorted(placed)[i] = Sorted(placed)[j] PROVE i = j
    <3>1. Sorted(placed)[i] \in placed BY <1>9
    <3>2. Sorted(placed)[i].slot \in Int BY <1>1, <3>1
    <3>3. ~(i < j) /\ ~(j < i) BY <1>9, <2>1, <3>2
    <3> QED BY <3>3
  <2>2. Sorted(placed) \in Injection(1..n, placed) BY <1>9, <2>1 DEF Injection, IsInjective
  <2> QED BY <1>2, <2>2, FS_Injection
<1> QED BY <1>9, <1>10 DEF Surjection

(* What the proofs use of a plan: it lists what was placed by its slots.   *)
LEMMA PlanTyped ==
  ASSUME NEW asked \in Request
  PROVE  /\ Plan(asked) \in Seq(Slotted) /\ Len(Plan(asked)) = Len(Tests(asked))
         /\ Len(Plan(asked)) \in Nat /\ DOMAIN Plan(asked) = 1..Len(Plan(asked))
         /\ \A i \in 1..Len(Plan(asked)) :
              Plan(asked)[i] \in Slotted /\ Plan(asked)[i] \in Placed(asked)
         /\ \A i, j \in 1..Len(Plan(asked)) : i < j => Plan(asked)[i].slot < Plan(asked)[j].slot
         /\ \A p \in Placed(asked) : \E i \in 1..Len(Plan(asked)) : Plan(asked)[i] = p
<1> DEFINE n == Len(Tests(asked))
<1>1. n \in Nat BY TestsTyped
<1>2. Placing(Tests(asked), n, Placed(asked)) BY AllPlaced
<1>3. /\ Placed(asked) \subseteq Slotted /\ Cardinality(Placed(asked)) = n
      /\ Plan(asked) \in [1..n -> Placed(asked)]
      /\ \A i, j \in 1..n : i < j => Plan(asked)[i].slot < Plan(asked)[j].slot
      /\ \A p \in Placed(asked) : \E i \in 1..n : Plan(asked)[i] = p
  BY <1>2, SlotsInOrder DEF Placing, Plan
<1> HIDE DEF n
<1>4. Plan(asked) \in Seq(Slotted) BY <1>1, <1>3, SeqDef
<1>5. Len(Plan(asked)) = n BY <1>1, <1>3, <1>4, LenProperties
<1> QED BY <1>1, <1>3, <1>4, <1>5 DEF n

LEMMA PlanComplete ==
  ASSUME NEW asked \in Request
  PROVE  Complete(asked, Plan(asked))
<1> DEFINE listed == Tests(asked)
           steps == Plan(asked)
<1>1. /\ listed \in Seq(Test) /\ DOMAIN listed = 1..Len(listed) /\ DOMAIN steps = 1..Len(steps)
      /\ Len(steps) = Len(listed)
      /\ \A p \in Placed(asked) : \E i \in 1..Len(steps) : steps[i] = p
  BY TestsTyped, PlanTyped, LenProperties
<1>2. \A j \in 1..Len(listed) : \E p \in Placed(asked) : p = InSlot(p.slot, listed[j])
  BY AllPlaced DEF Placing
<1> HIDE DEF listed, steps
<1>3. ASSUME NEW t \in Range(listed)
      PROVE  \E p \in Range(steps) : p.kind = t.kind /\ p.nr = t.nr /\ p.order = t.order
  <2>1. PICK j \in 1..Len(listed) : t = listed[j] BY <1>1 DEF Range
  <2>2. PICK p \in Placed(asked) : p = InSlot(p.slot, listed[j]) BY <1>2
  <2>3. p.kind = t.kind /\ p.nr = t.nr /\ p.order = t.order BY <2>1, <2>2 DEF InSlot
  <2>4. p \in Range(steps) BY <1>1 DEF Range
  <2> QED BY <2>3, <2>4
<1> QED BY <1>1, <1>3 DEF Complete, listed, steps

LEMMA PlanObeys ==
  ASSUME NEW asked \in Request
  PROVE  Obeys(Plan(asked))
<1> DEFINE listed == Tests(asked)
           steps == Plan(asked)
<1> SUFFICES ASSUME \A i, j \in DOMAIN steps : Given(steps[i]) = Given(steps[j]) => i = j
             PROVE  \A i, j \in DOMAIN steps : i < j => Given(steps[i]) < Given(steps[j])
  BY DEF Obeys
<1>1. /\ DOMAIN steps = 1..Len(steps)
      /\ \A i \in 1..Len(steps) : steps[i] \in Placed(asked)
      /\ \A i, j \in 1..Len(steps) : i < j => steps[i].slot < steps[j].slot
      /\ \A p \in Placed(asked) : \E i \in 1..Len(steps) : steps[i] = p
  BY PlanTyped
<1>2. \A i, j \in 1..Len(listed) : listed[i].kind = listed[j].kind /\ listed[i].nr = listed[j].nr => i = j
  BY TestsTyped
<1>3. Placing(listed, Len(listed), Placed(asked)) BY AllPlaced
<1> HIDE DEF listed, steps
<1>4. ASSUME NEW j \in 1..Len(listed), NEW l \in 1..Len(listed), Given(listed[j]) = Given(listed[l])
      PROVE  j = l
  <2>1. PICK p \in Placed(asked) : p = InSlot(p.slot, listed[j]) BY <1>3 DEF Placing
  <2>2. PICK q \in Placed(asked) : q = InSlot(q.slot, listed[l]) BY <1>3 DEF Placing
  <2>3. /\ p.kind = listed[j].kind /\ p.nr = listed[j].nr /\ p.order = listed[j].order
        /\ q.kind = listed[l].kind /\ q.nr = listed[l].nr /\ q.order = listed[l].order
    BY <2>1, <2>2 DEF InSlot
  <2>4. Given(p) = Given(q) BY <1>4, <2>3 DEF Given
  <2>5. p = q BY <1>1, <2>4
  <2> QED BY <1>2, <2>3, <2>5
<1>5. \A p \in Placed(asked) : p.slot = Given(p) BY <1>3, <1>4 DEF Placing
<1> QED BY <1>1, <1>5

-----------------------------------------------------------------------------
(* The plan of any request has every test of it once, over orders that     *)
(* collide, are negative or are no numbers.                                *)
PlanMade == request \in Request /\ plan \in {<<>>, Plan(request)}

LEMMA PlanIsMade == PlanSpec => []PlanMade
<1>1. Asked => PlanMade BY RequestsAssumption DEF Asked, PlanMade
<1>2. PlanMade /\ [Plans]_<<request, plan>> => PlanMade' BY DEF Plans, PlanMade
<1> QED BY <1>1, <1>2, PTL DEF PlanSpec

THEOREM NothingIsDropped == PlanSpec => []NothingDropped
<1>1. PlanMade => NothingDropped BY PlanComplete DEF NothingDropped, Planned, PlanMade
<1> QED BY <1>1, PlanIsMade, PTL

(* A plan keeps to the orders of its request if no two of them are one.    *)
THEOREM OrdersAreObeyed == PlanSpec => []DistinctOrdersObeyed
<1>1. PlanMade => DistinctOrdersObeyed BY PlanObeys DEF DistinctOrdersObeyed, Planned, PlanMade
<1> QED BY <1>1, PlanIsMade, PTL
-----------------------------------------------------------------------------
(* The invariant.  The worker has a copy of a run, made while it existed,  *)
(* and waits for a test of its plan.                                       *)
Held ==
  active # NoKey =>
    /\ Instance.live
    /\ worker.at >= 1
    /\ worker.pc = "wait" => worker.at <= Len(Steps)
Typed == TypeOK /\ SpecsGiven /\ Held

(* The case the first properties are about.                                *)
Calm == Without({"edit", "childdelete", "recreate"})

(* A run exists once, and with one request.                                *)
SameRun ==
  \A k \in Keys :
    /\ ~revisions[k][1].live
    /\ \A m, n \in 1..Latest(k) : revisions[k][m].live /\ revisions[k][n].live =>
         revisions[k][m].uid = revisions[k][n].uid /\ revisions[k][m].spec = revisions[k][n].spec

(* Its tests come after it and belong to it, and those that exist go on    *)
(* existing with what they have as long as it does.                        *)
TestsStay ==
  \A n \in Names : \A m \in 1..Len(children[n]) : children[n][m].live =>
    /\ Latest(n[1]) # 1
    /\ Obj(n[1]).live =>
         /\ ChildObj(n).live
         /\ children[n][m].owner = Obj(n[1]).uid
         /\ children[n][m].stop = ChildObj(n).stop
         /\ children[n][m].result # "none" => children[n][m].result = ChildObj(n).result

(* A test is over and the run goes on.                                     *)
Passed(n) == n \in Names => ChildObj(n).live /\ ChildObj(n).result # "none" /\ ~Stops(n)
Before(k, spec, i) == \A j \in 1..(i - 1) : Passed(NameOf(k, PlanOf[spec][j]))

(* A test is not begun before those the plan has before it have passed.    *)
Begun(n, spec) ==
  \E i \in 1..Len(PlanOf[spec]) : n = NameOf(n[1], PlanOf[spec][i]) /\ Before(n[1], spec, i)
InOrder ==
  \A n \in Names : Obj(n[1]).live /\ ChildObj(n).live => Begun(n, Obj(n[1]).spec)

(* The worker has left only tests behind that have passed.                 *)
WorkerInOrder ==
  active # NoKey /\ Obj(active).live => Before(active, Obj(active).spec, worker.at)

Ordered == SameRun /\ TestsStay /\ InOrder /\ WorkerInOrder
RunInv == Typed /\ (Calm => Ordered)

-----------------------------------------------------------------------------
(* Names and types.                                                        *)
LEMMA NamesOfRuns ==
  /\ \A n \in Names : n[1] \in Keys
  /\ \A k, p : NameOf(k, p)[1] = k
BY DEF Names, NameOf

LEMMA PlansOfRuns ==
  ASSUME NEW spec \in Specs
  PROVE  /\ Len(PlanOf[spec]) \in Nat
         /\ \A i \in 1..Len(PlanOf[spec]) :
              /\ PlanOf[spec][i].slot \in Int /\ PlanOf[spec][i].stop \in BOOLEAN
              /\ \A k \in Keys : NameOf(k, PlanOf[spec][i]) \in Names
         /\ \A i, j \in 1..Len(PlanOf[spec]) : i < j => PlanOf[spec][i].slot < PlanOf[spec][j].slot
<1>1. spec \in Request /\ PlanOf[spec] = Plan(spec) BY SpecsAssumption DEF PlanOf
<1>2. \A i \in 1..Len(Plan(spec)) : Plan(spec)[i] \in Placed(spec) BY <1>1, PlanTyped
<1>3. \A i \in 1..Len(Plan(spec)) : \A k \in Keys : NameOf(k, Plan(spec)[i]) \in Names
  BY <1>2 DEF Names
<1> QED BY <1>1, <1>3, PlanTyped DEF Slotted

LEMMA ChildrenTyped ==
  ASSUME Typed, NEW n \in Names
  PROVE  /\ Len(children[n]) \in Nat /\ childSeen[n] \in 1..Len(children[n])
         /\ Len(children[n]) >= 1
         /\ \A m \in 1..Len(children[n]) : children[n][m] \in Child
         /\ ChildObj(n) \in Child /\ CachedChild(n) \in Child
<1>1. children[n] \in Seq(Child) /\ childSeen[n] \in 1..Len(children[n]) BY DEF Typed, TypeOK
<1>2. Len(children[n]) \in Nat /\ children[n] \in [1..Len(children[n]) -> Child]
  BY <1>1, LenProperties
<1> QED BY <1>1, <1>2 DEF ChildObj, CachedChild

(* What storing a revision of a test changes.                              *)
LEMMA ChildAppends ==
  ASSUME Typed, NEW n \in Names, NEW child \in Child, StoreChild(n, child)
  PROVE  /\ children' \in [Names -> Seq(Child)]
         /\ Len(children'[n]) = Len(children[n]) + 1
         /\ children'[n][Len(children[n]) + 1] = child
         /\ ChildObj(n)' = child
         /\ \A m \in 1..Len(children[n]) : children'[n][m] = children[n][m]
         /\ \A x \in Names \ {n} : children'[x] = children[x] /\ ChildObj(x)' = ChildObj(x)
         /\ \A x \in Names : childSeen[x] \in 1..Len(children'[x])
<1>1. /\ children' \in [Names -> Seq(Child)]
      /\ Len(children'[n]) = Len(children[n]) + 1
      /\ children'[n][Len(children[n]) + 1] = child
      /\ \A m \in 1..Len(children[n]) : children'[n][m] = children[n][m]
      /\ \A x \in Names \ {n} : children'[x] = children[x]
  BY AppendToOne DEF Typed, TypeOK, StoreChild
<1>2. \A x \in Names : childSeen[x] \in 1..Len(children[x]) /\ Len(children[x]) \in Nat
  BY ChildrenTyped
<1>3. \A x \in Names : childSeen[x] \in 1..Len(children'[x]) BY <1>1, <1>2
<1> QED BY <1>1, <1>3 DEF ChildObj

(* What the worker knows of the run it works on.                           *)
LEMMA WorkerKnows ==
  ASSUME Typed, active # NoKey
  PROVE  /\ active \in Keys /\ worker.at \in Nat /\ worker.at >= 1
         /\ worker.snap \in 1..Latest(active) /\ Latest(active) \in 1..Latest(active)
         /\ Instance \in Object /\ Instance.live /\ Instance.spec \in Specs
         /\ Steps = PlanOf[Instance.spec] /\ Len(Steps) \in Nat
         /\ worker.at <= Len(Steps) => /\ worker.at \in 1..Len(Steps) /\ Step.stop \in BOOLEAN
                                       /\ Name \in Names /\ Name[1] = active
                                       /\ Name = NameOf(active, PlanOf[Instance.spec][worker.at])
<1>1. /\ active \in Keys /\ RuntimeTypeOK /\ worker.snap \in 1..seen[active]
      /\ worker.at \in Nat /\ worker.at >= 1 /\ Instance.live
  BY DEF Typed, TypeOK, Held, RuntimeTypeOK, Worker
<1>2. /\ seen[active] \in 1..Latest(active) /\ Latest(active) \in Nat /\ Latest(active) >= 1
      /\ \A n \in 1..Latest(active) : revisions[active][n] \in Object
  BY <1>1, ObjectsTyped
<1>3. worker.snap \in 1..Latest(active) /\ Latest(active) \in 1..Latest(active)
  BY <1>1, <1>2
<1>4. Instance \in Object /\ Instance.spec \in Specs
  BY <1>1, <1>2, <1>3 DEF Instance, Typed, SpecsGiven
<1>5. Steps = PlanOf[Instance.spec] /\ Len(Steps) \in Nat BY <1>4, PlansOfRuns DEF Steps
<1>6. ASSUME worker.at <= Len(Steps)
      PROVE  /\ worker.at \in 1..Len(Steps) /\ Step.stop \in BOOLEAN
             /\ Name \in Names /\ Name[1] = active
             /\ Name = NameOf(active, PlanOf[Instance.spec][worker.at])
  <2>1. worker.at \in 1..Len(Steps) BY <1>1, <1>5, <1>6
  <2>2. Step = PlanOf[Instance.spec][worker.at] BY <1>5 DEF Step
  <2>3. Name = NameOf(active, PlanOf[Instance.spec][worker.at]) BY <2>2 DEF Name
  <2> QED BY <1>1, <1>4, <1>5, <2>1, <2>2, <2>3, PlansOfRuns, NamesOfRuns
<1> QED BY <1>1, <1>3, <1>4, <1>5, <1>6

(* Its copy stays what it is, whatever is appended.                        *)
LEMMA HeldStays ==
  ASSUME Typed, UNCHANGED active, worker'.snap = worker.snap,
         \A k \in Keys : \A n \in 1..Latest(k) : revisions'[k][n] = revisions[k][n],
         \/ UNCHANGED worker
         \/ worker'.at >= 1 /\ (worker'.pc = "wait" => worker'.at <= Len(Steps))
  PROVE  Held'
<1> SUFFICES ASSUME active # NoKey PROVE Held' BY DEF Held
<1>1. active \in Keys /\ worker.snap \in 1..Latest(active) /\ Instance.live BY WorkerKnows
<1>2. Instance' = Instance BY <1>1 DEF Instance
<1>3. Steps' = Steps BY <1>2 DEF Steps
<1>4. worker.at >= 1 /\ (worker.pc = "wait" => worker.at <= Len(Steps)) BY DEF Typed, Held
<1> QED BY <1>1, <1>2, <1>3, <1>4 DEF Held

(* A disturbance happened or not, but is never taken back.                 *)
LEMMA CalmBefore == faults \subseteq faults' /\ Calm' => Calm
BY DEF Calm, Without

-----------------------------------------------------------------------------
(* Steps that leave runs and tests alone; the worker stays or gives up.    *)
LEMMA InOrderStays ==
  ASSUME Ordered, UNCHANGED <<revisions, children>>
  PROVE  InOrder'
<1>1. \A n : Passed(n)' <=> Passed(n) BY DEF Passed, Stops, ChildObj
<1>2. \A k, spec, i : Before(k, spec, i)' <=> Before(k, spec, i) BY <1>1 DEF Before
<1>3. \A n, spec : Begun(n, spec)' <=> Begun(n, spec) BY <1>2 DEF Begun
<1>4. \A k : Obj(k)' = Obj(k) BY DEF Obj, Latest
<1>5. \A n : ChildObj(n)' = ChildObj(n) BY DEF ChildObj
<1> QED BY <1>3, <1>4, <1>5 DEF Ordered, InOrder

LEMMA NothingStored ==
  ASSUME Ordered, UNCHANGED <<revisions, children>>,
         UNCHANGED <<active, worker>> \/ active' = NoKey
  PROVE  Ordered'
<1>1. SameRun' /\ TestsStay' /\ InOrder'
  <2>1. SameRun' BY DEF Ordered, SameRun, Latest
  <2>2. TestsStay' BY DEF Ordered, TestsStay, ChildObj, Obj, Latest
  <2>3. InOrder' BY InOrderStays
  <2> QED BY <2>1, <2>2, <2>3
<1>2. WorkerInOrder'
  BY DEF Ordered, WorkerInOrder, Before, Passed, Stops, ChildObj, Obj, Latest
<1> QED BY <1>1, <1>2 DEF Ordered

(* A run is created for the first time, is deleted, or gets a status.      *)
LEMMA RunStored ==
  ASSUME Typed, Ordered, NEW k \in Keys, NEW object \in Object, Store(k, object),
         UNCHANGED children,
         object.live =>
           \/ Latest(k) = 1
           \/ Obj(k).live /\ object.uid = Obj(k).uid /\ object.spec = Obj(k).spec,
         UNCHANGED <<active, worker>> \/ active' = NoKey
  PROVE  Ordered'
<1>1. RuntimeTypeOK /\ Latest(k) \in Nat /\ Latest(k) >= 1
  BY ObjectsTyped DEF Typed, TypeOK
<1>2. /\ Latest(k)' = Latest(k) + 1 /\ Obj(k)' = object
      /\ \A n \in 1..Latest(k) : revisions'[k][n] = revisions[k][n]
      /\ \A j \in Keys \ {k} : revisions'[j] = revisions[j]
  BY <1>1, StoreAppends
<1>3. revisions'[k][Latest(k) + 1] = object BY <1>2 DEF Obj, Latest
<1>4. \A j \in Keys \ {k} : Obj(j)' = Obj(j) /\ Latest(j)' = Latest(j)
  BY <1>2 DEF Obj, Latest
<1>5. \A n \in 1..Latest(k)' : n \in 1..Latest(k) \/ n = Latest(k) + 1 BY <1>1, <1>2
<1>6. Obj(k) = revisions[k][Latest(k)] /\ Latest(k) \in 1..Latest(k) /\ 1 \in 1..Latest(k)
  BY <1>1 DEF Obj
<1>7. SameRun'
  <2>1. \A n \in 1..Latest(k) : object.live /\ revisions[k][n].live =>
           object.uid = revisions[k][n].uid /\ object.spec = revisions[k][n].spec
    <3>1. CASE Latest(k) = 1
      <4>1. \A n \in 1..Latest(k) : n = 1 BY <3>1
      <4> QED BY <4>1 DEF Ordered, SameRun
    <3>2. CASE Latest(k) # 1 BY <1>6, <3>2 DEF Ordered, SameRun
    <3> QED BY <3>1, <3>2
  <2>2. \A j \in Keys \ {k} : \A n : revisions'[j][n] = revisions[j][n] BY <1>2
  <2>3. ~revisions'[k][1].live BY <1>2, <1>6 DEF Ordered, SameRun
  <2>4. \A m, n \in 1..Latest(k)' : revisions'[k][m].live /\ revisions'[k][n].live =>
          revisions'[k][m].uid = revisions'[k][n].uid /\ revisions'[k][m].spec = revisions'[k][n].spec
    <3> SUFFICES ASSUME NEW m \in 1..Latest(k)', NEW n \in 1..Latest(k)',
                        revisions'[k][m].live, revisions'[k][n].live
                 PROVE  /\ revisions'[k][m].uid = revisions'[k][n].uid
                        /\ revisions'[k][m].spec = revisions'[k][n].spec
      OBVIOUS
    <3>1. CASE m \in 1..Latest(k) /\ n \in 1..Latest(k)
      BY <1>2, <3>1 DEF Ordered, SameRun
    <3>2. CASE m \in 1..Latest(k) /\ n = Latest(k) + 1 BY <1>2, <1>3, <2>1, <3>2
    <3>3. CASE m = Latest(k) + 1 /\ n \in 1..Latest(k) BY <1>2, <1>3, <2>1, <3>3
    <3>4. CASE m = Latest(k) + 1 /\ n = Latest(k) + 1 BY <3>4
    <3> QED BY <1>5, <3>1, <3>2, <3>3, <3>4
  <2> QED BY <1>4, <2>2, <2>3, <2>4 DEF Ordered, SameRun
(* The run of a test is the one it had, or there are no tests yet.         *)
<1>8. \A n \in Names : /\ children'[n] = children[n] /\ ChildObj(n)' = ChildObj(n)
                       /\ n[1] \in Keys
  BY NamesOfRuns DEF ChildObj
<1>9. \A n \in Names : Obj(n[1])'.live /\ ChildObj(n).live =>
         Obj(n[1]).live /\ Obj(n[1])'.uid = Obj(n[1]).uid /\ Obj(n[1])'.spec = Obj(n[1]).spec
  <2> SUFFICES ASSUME NEW n \in Names, Obj(n[1])'.live, ChildObj(n).live
               PROVE  Obj(n[1]).live /\ Obj(n[1])'.uid = Obj(n[1]).uid
                      /\ Obj(n[1])'.spec = Obj(n[1]).spec
    OBVIOUS
  <2>1. Len(children[n]) \in 1..Len(children[n]) BY ChildrenTyped
  <2>2. Latest(n[1]) # 1 BY <2>1 DEF ChildObj, Ordered, TestsStay
  <2>3. CASE n[1] = k BY <1>2, <2>2, <2>3
  <2>4. CASE n[1] # k BY <1>4, <1>8, <2>4
  <2> QED BY <2>3, <2>4
<1>10. TestsStay'
  <2> SUFFICES ASSUME NEW n \in Names, NEW m \in 1..Len(children[n]), children[n][m].live
               PROVE  /\ Latest(n[1])' # 1
                      /\ Obj(n[1])'.live =>
                           /\ ChildObj(n).live
                           /\ children[n][m].owner = Obj(n[1])'.uid
                           /\ children[n][m].stop = ChildObj(n).stop
                           /\ children[n][m].result # "none" => children[n][m].result = ChildObj(n).result
    BY <1>8 DEF TestsStay
  <2>1. /\ Latest(n[1]) # 1
        /\ Obj(n[1]).live =>
             /\ ChildObj(n).live
             /\ children[n][m].owner = Obj(n[1]).uid
             /\ children[n][m].stop = ChildObj(n).stop
             /\ children[n][m].result # "none" => children[n][m].result = ChildObj(n).result
    BY DEF Ordered, TestsStay
  <2>2. CASE n[1] = k
    <3>1. Latest(k)' # 1 BY <1>1, <1>2
    <3>2. ASSUME object.live
          PROVE  Obj(k).live /\ object.uid = Obj(k).uid
      BY <2>1, <2>2, <3>2
    <3> QED BY <1>2, <2>1, <2>2, <3>1, <3>2
  <2>3. CASE n[1] # k BY <1>4, <1>8, <2>1, <2>3
  <2> QED BY <2>2, <2>3
<1>11. \A n : Passed(n)' <=> Passed(n) BY <1>8 DEF Passed, Stops
<1>12. \A j, spec, i : Before(j, spec, i)' <=> Before(j, spec, i) BY <1>11 DEF Before
<1>13. InOrder'
  <2> SUFFICES ASSUME NEW n \in Names, Obj(n[1])'.live, ChildObj(n).live
               PROVE  Begun(n, Obj(n[1]).spec)'
    BY <1>8 DEF InOrder
  <2>1. Begun(n, Obj(n[1]).spec) /\ Obj(n[1])'.spec = Obj(n[1]).spec
    BY <1>9 DEF Ordered, InOrder
  <2>2. PICK i \in 1..Len(PlanOf[Obj(n[1]).spec]) :
          n = NameOf(n[1], PlanOf[Obj(n[1]).spec][i]) /\ Before(n[1], Obj(n[1]).spec, i)
    BY <2>1 DEF Begun
  <2>3. Before(n[1], Obj(n[1]).spec, i)' BY <1>11, <2>1, <2>2 DEF Before
  <2> QED BY <2>1, <2>2, <2>3 DEF Begun
<1>14. WorkerInOrder'
  <2> SUFFICES ASSUME active' # NoKey PROVE WorkerInOrder' BY DEF WorkerInOrder
  <2>1. /\ UNCHANGED <<active, worker>> /\ active \in Keys /\ worker.snap \in 1..Latest(active)
        /\ Instance.live
    BY WorkerKnows
  <2>2. Obj(active)'.live => Obj(active).live /\ Obj(active)'.spec = Obj(active).spec
    <3>1. CASE active = k
      <4>1. Latest(k) # 1
        <5>1. CASE Latest(k) = 1
          <6>1. worker.snap = 1 BY <2>1, <3>1, <5>1
          <6> QED BY <2>1, <3>1, <6>1 DEF Instance, Ordered, SameRun
        <5> QED BY <5>1
      <4> QED BY <1>2, <3>1, <4>1
    <3>2. CASE active # k BY <1>4, <2>1, <3>2
    <3> QED BY <3>1, <3>2
  <2> QED BY <1>12, <2>1, <2>2 DEF Ordered, WorkerInOrder
<1> QED BY <1>7, <1>10, <1>13, <1>14 DEF Ordered

(* A test of a run that exists gets its result; one that is removed has no *)
(* run any more.                                                           *)
LEMMA TestStored ==
  ASSUME Typed, Ordered, NEW n \in Names, NEW child \in Child, StoreChild(n, child),
         UNCHANGED <<revisions, active, worker>>,
         ChildObj(n).live, child.owner = ChildObj(n).owner, child.stop = ChildObj(n).stop,
         Obj(n[1]).live => child.live /\ ChildObj(n).result = "none"
  PROVE  Ordered'
<1>1. /\ Len(children'[n]) = Len(children[n]) + 1
      /\ children'[n][Len(children[n]) + 1] = child
      /\ ChildObj(n)' = child
      /\ \A m \in 1..Len(children[n]) : children'[n][m] = children[n][m]
      /\ \A x \in Names \ {n} : children'[x] = children[x] /\ ChildObj(x)' = ChildObj(x)
  BY ChildAppends
<1>2. Len(children[n]) \in Nat /\ Len(children[n]) \in 1..Len(children[n])
  <2>1. Len(children[n]) \in Nat /\ Len(children[n]) >= 1 BY ChildrenTyped
  <2> QED BY <2>1
<1>3. \A k \in Keys : Obj(k)' = Obj(k) /\ Latest(k)' = Latest(k) BY DEF Obj, Latest
<1>4. n[1] \in Keys /\ \A x \in Names : x[1] \in Keys BY NamesOfRuns
<1>5. Latest(n[1]) # 1 /\ (Obj(n[1]).live => ChildObj(n).owner = Obj(n[1]).uid)
  <2>1. \A m \in 1..Len(children[n]) : children[n][m].live =>
          Latest(n[1]) # 1 /\ (Obj(n[1]).live => children[n][m].owner = Obj(n[1]).uid)
    BY DEF Ordered, TestsStay
  <2>2. children[n][Len(children[n])].live BY DEF ChildObj
  <2> QED BY <1>2, <2>1, <2>2 DEF ChildObj
<1>6. SameRun' BY DEF Ordered, SameRun, Latest
<1>7. TestsStay'
  <2> SUFFICES ASSUME NEW x \in Names, NEW m \in 1..Len(children'[x]), children'[x][m].live
               PROVE  /\ Latest(x[1]) # 1
                      /\ Obj(x[1]).live =>
                           /\ ChildObj(x)'.live
                           /\ children'[x][m].owner = Obj(x[1]).uid
                           /\ children'[x][m].stop = ChildObj(x)'.stop
                           /\ children'[x][m].result # "none" => children'[x][m].result = ChildObj(x)'.result
    BY <1>3, <1>4 DEF TestsStay
  <2>1. CASE x # n BY <1>1, <2>1 DEF Ordered, TestsStay
  <2>2. CASE x = n /\ m \in 1..Len(children[n])
    BY <1>1, <2>2 DEF Ordered, TestsStay
  <2>3. CASE x = n /\ m = Len(children[n]) + 1 BY <1>1, <1>5, <2>3
  <2>4. x # n \/ m \in 1..Len(children[n]) \/ m = Len(children[n]) + 1 BY <1>1, <1>2
  <2> QED BY <2>1, <2>2, <2>3, <2>4
<1>8. \A x \in Names : Obj(x[1]).live /\ ChildObj(x).result # "none" => ChildObj(x)' = ChildObj(x)
  BY <1>1
<1>9. \A k, p : Obj(k).live /\ Passed(NameOf(k, p)) => Passed(NameOf(k, p))'
  BY <1>8, NamesOfRuns DEF Passed, Stops
<1>11. InOrder'
  <2> SUFFICES ASSUME NEW x \in Names, Obj(x[1]).live, ChildObj(x)'.live
               PROVE  Begun(x, Obj(x[1]).spec)'
    BY <1>3, <1>4 DEF InOrder
  <2>1. ChildObj(x).live BY <1>1
  <2>2. Begun(x, Obj(x[1]).spec) BY <2>1 DEF Ordered, InOrder
  <2>3. PICK i \in 1..Len(PlanOf[Obj(x[1]).spec]) :
          x = NameOf(x[1], PlanOf[Obj(x[1]).spec][i]) /\ Before(x[1], Obj(x[1]).spec, i)
    BY <2>2 DEF Begun
  <2>4. Obj(x[1])' = Obj(x[1]) BY <1>3, <1>4
  <2>5. Before(x[1], Obj(x[1]).spec, i)' BY <1>9, <2>3, <2>4 DEF Before
  <2> QED BY <2>3, <2>4, <2>5 DEF Begun
<1>12. WorkerInOrder'
  <2> SUFFICES ASSUME active # NoKey PROVE WorkerInOrder' BY DEF WorkerInOrder
  <2>1. active \in Keys BY WorkerKnows
  <2>2. Obj(active)' = Obj(active) BY <1>3, <2>1
  <2>3. Obj(active).live => Before(active, Obj(active).spec, worker.at)'
    <3> SUFFICES ASSUME Obj(active).live PROVE Before(active, Obj(active).spec, worker.at)' OBVIOUS
    <3>1. Before(active, Obj(active).spec, worker.at) BY DEF Ordered, WorkerInOrder
    <3> QED BY <1>9, <2>2, <3>1 DEF Before
  <2> QED BY <2>2, <2>3 DEF WorkerInOrder
<1> QED BY <1>6, <1>7, <1>11, <1>12 DEF Ordered

(* The worker starts the test at its place of the plan.                    *)
LEMMA TestLaunched ==
  ASSUME Typed, Ordered, active # NoKey, worker.at <= Len(Steps),
         NEW child \in Child, NEW n \in Names, n = Name,
         StoreChild(n, child), UNCHANGED <<revisions, active>>, worker'.at = worker.at,
         worker'.snap = worker.snap,
         ~ChildObj(n).live, child.live, child.owner = Instance.uid, child.result = "none"
  PROVE  Ordered'
<1>1. /\ Len(children'[n]) = Len(children[n]) + 1
      /\ children'[n][Len(children[n]) + 1] = child
      /\ ChildObj(n)' = child
      /\ \A m \in 1..Len(children[n]) : children'[n][m] = children[n][m]
      /\ \A x \in Names \ {n} : children'[x] = children[x] /\ ChildObj(x)' = ChildObj(x)
  BY ChildAppends
<1>2. Len(children[n]) \in Nat BY ChildrenTyped
<1>3. \A k \in Keys : Obj(k)' = Obj(k) /\ Latest(k)' = Latest(k) BY DEF Obj, Latest
<1>4. n[1] = active /\ active \in Keys /\ \A x \in Names : x[1] \in Keys
  BY WorkerKnows, NamesOfRuns
<1>5. /\ worker.snap \in 1..Latest(active) /\ Latest(active) \in 1..Latest(active)
      /\ worker.at \in 1..Len(Steps) /\ Steps = PlanOf[Instance.spec] /\ Instance.live
      /\ n = NameOf(active, PlanOf[Instance.spec][worker.at])
  BY WorkerKnows
<1>6. Obj(active).live => Before(active, Obj(active).spec, worker.at)
  BY DEF Ordered, WorkerInOrder
<1>7. /\ Latest(active) # 1
      /\ Obj(active).live => child.owner = Obj(active).uid /\ Obj(active).spec = Instance.spec
  <2>1. Latest(active) # 1
    <3> SUFFICES ASSUME Latest(active) = 1 PROVE FALSE OBVIOUS
    <3>1. worker.snap = 1 BY <1>5
    <3> QED BY <1>4, <1>5, <3>1 DEF Instance, Ordered, SameRun
  <2>2. Obj(active).live => Instance.uid = Obj(active).uid /\ Obj(active).spec = Instance.spec
    <3>1. \A i, j \in 1..Latest(active) :
            revisions[active][i].live /\ revisions[active][j].live =>
              /\ revisions[active][i].uid = revisions[active][j].uid
              /\ revisions[active][i].spec = revisions[active][j].spec
      BY <1>4 DEF Ordered, SameRun
    <3>2. /\ Obj(active) = revisions[active][Latest(active)]
          /\ Instance = revisions[active][worker.snap]
      BY DEF Obj, Latest, Instance
    <3>3. worker.snap \in 1..Latest(active) /\ Latest(active) \in 1..Latest(active) BY <1>5
    <3>4. revisions[active][worker.snap].live BY <1>5, <3>2
    <3>5. revisions[active][Latest(active)].live =>
            /\ revisions[active][worker.snap].uid = revisions[active][Latest(active)].uid
            /\ revisions[active][worker.snap].spec = revisions[active][Latest(active)].spec
      BY <3>1, <3>3, <3>4, Zenon
    <3> QED BY <3>2, <3>5
  <2> QED BY <2>1, <2>2
<1>8. SameRun' BY DEF Ordered, SameRun, Latest
<1>9. TestsStay'
  <2> SUFFICES ASSUME NEW x \in Names, NEW m \in 1..Len(children'[x]), children'[x][m].live
               PROVE  /\ Latest(x[1]) # 1
                      /\ Obj(x[1]).live =>
                           /\ ChildObj(x)'.live
                           /\ children'[x][m].owner = Obj(x[1]).uid
                           /\ children'[x][m].stop = ChildObj(x)'.stop
                           /\ children'[x][m].result # "none" => children'[x][m].result = ChildObj(x)'.result
    BY <1>3, <1>4 DEF TestsStay
  <2>1. CASE x # n BY <1>1, <2>1 DEF Ordered, TestsStay
  <2>2. CASE x = n /\ m \in 1..Len(children[n])
    BY <1>1, <2>2 DEF Ordered, TestsStay
  <2>3. CASE x = n /\ m = Len(children[n]) + 1 BY <1>1, <1>4, <1>7, <2>3
  <2>4. x # n \/ m \in 1..Len(children[n]) \/ m = Len(children[n]) + 1 BY <1>1, <1>2
  <2> QED BY <2>1, <2>2, <2>3, <2>4
<1>10. \A x \in Names : ChildObj(x).live => ChildObj(x)' = ChildObj(x) BY <1>1
<1>11. \A x : Passed(x) => Passed(x)' BY <1>10 DEF Passed, Stops
<1>12. InOrder'
  <2> SUFFICES ASSUME NEW x \in Names, Obj(x[1]).live, ChildObj(x)'.live
               PROVE  Begun(x, Obj(x[1]).spec)'
    BY <1>3, <1>4 DEF InOrder
  <2>1. Obj(x[1])' = Obj(x[1]) BY <1>3, <1>4
  <2>2. \E i \in 1..Len(PlanOf[Obj(x[1]).spec]) :
          x = NameOf(x[1], PlanOf[Obj(x[1]).spec][i]) /\ Before(x[1], Obj(x[1]).spec, i)
    <3>1. CASE x # n BY <1>1, <3>1 DEF Ordered, InOrder, Begun
    <3>2. CASE x = n BY <1>4, <1>5, <1>6, <1>7, <3>2
    <3> QED BY <3>1, <3>2
  <2>3. PICK i \in 1..Len(PlanOf[Obj(x[1]).spec]) :
          x = NameOf(x[1], PlanOf[Obj(x[1]).spec][i]) /\ Before(x[1], Obj(x[1]).spec, i)
    BY <2>2
  <2>4. Before(x[1], Obj(x[1]).spec, i)' BY <1>11, <2>1, <2>3 DEF Before
  <2> QED BY <2>1, <2>3, <2>4 DEF Begun
<1>13. WorkerInOrder'
  <2>1. Obj(active)' = Obj(active) BY <1>3, <1>4
  <2>2. Obj(active).live => Before(active, Obj(active).spec, worker.at)'
    BY <1>6, <1>11, <2>1 DEF Before
  <2> QED BY <2>1, <2>2 DEF WorkerInOrder
<1> QED BY <1>8, <1>9, <1>12, <1>13 DEF Ordered

-----------------------------------------------------------------------------
(* The steps of the worker that store nothing.                             *)
LEMMA WorkerMoves ==
  ASSUME Typed, Ordered, UNCHANGED <<revisions, active, children>>,
         worker'.snap = worker.snap, worker'.at = worker.at
  PROVE  Ordered'
<1>1. SameRun' BY DEF Ordered, SameRun, Latest
<1>2. TestsStay' BY DEF Ordered, TestsStay, ChildObj, Obj, Latest
<1>3. InOrder' BY InOrderStays
<1>4. WorkerInOrder'
  BY DEF Ordered, WorkerInOrder, Before, Passed, Stops, ChildObj, Obj, Latest
<1> QED BY <1>1, <1>2, <1>3, <1>4 DEF Ordered

LEMMA BeginRunsOrdered ==
  ASSUME Typed, Ordered, NEW k \in Keys, BeginRuns(k)
  PROVE  Ordered'
<1>1. /\ UNCHANGED <<revisions, children>> /\ active' = k
      /\ worker'.at = 1
  BY DEF BeginRuns, QueueGet, childVars
<1>2. SameRun' BY <1>1 DEF Ordered, SameRun, Latest
<1>3. TestsStay' BY <1>1 DEF Ordered, TestsStay, ChildObj, Obj, Latest
<1>4. InOrder' BY <1>1, InOrderStays
<1>5. Before(active, Obj(active).spec, worker.at)'
  <2>1. \A j \in 1..(worker'.at - 1) : FALSE BY <1>1
  <2> QED BY <2>1 DEF Before
<1> QED BY <1>2, <1>3, <1>4, <1>5 DEF Ordered, WorkerInOrder

(* The test has its result, and will keep it.                              *)
LEMMA WaitedForPassed ==
  ASSUME Typed, Ordered, active # NoKey, CachedChild(Name).live,
         CachedChild(Name).result # "none", Obj(active).live,
         ~(CachedChild(Name).result = "Failure" /\ CachedChild(Name).stop)
  PROVE  Passed(Name)
<1> SUFFICES ASSUME NEW n \in Names, n = Name
             PROVE  ChildObj(n).live /\ ChildObj(n).result # "none" /\ ~Stops(n)
  BY DEF Passed
<1>1. n[1] = active BY NamesOfRuns DEF Name
<1>2. childSeen[n] \in 1..Len(children[n]) BY ChildrenTyped
<1>3. /\ children[n][childSeen[n]].live /\ children[n][childSeen[n]].result # "none"
      /\ ~(children[n][childSeen[n]].result = "Failure" /\ children[n][childSeen[n]].stop)
  BY DEF CachedChild
<1> QED BY <1>1, <1>2, <1>3 DEF Ordered, TestsStay, Stops

LEMMA WaitEndsOrdered ==
  ASSUME Typed, Ordered, WaitEnds
  PROVE  Ordered'
<1>1. active # NoKey /\ worker \in Worker BY DEF Typed, TypeOK, WaitEnds
<1>2. UNCHANGED <<revisions, active, children>> BY DEF WaitEnds, runtimeVars, childVars
<1>3. CASE GoTo("finish")
  <2>1. worker'.snap = worker.snap /\ worker'.at = worker.at BY <1>1, <1>3 DEF GoTo, Worker
  <2> QED BY <1>2, <2>1, WorkerMoves
<1>4. CASE /\ Advance
           /\ ~(CachedChild(Name).result = "Failure" /\ CachedChild(Name).stop)
  <2>1. worker'.snap = worker.snap /\ worker'.at = worker.at + 1
    BY <1>1, <1>4 DEF Advance, Worker
  <2>2. SameRun' BY <1>2 DEF Ordered, SameRun, Latest
  <2>3. TestsStay' BY <1>2 DEF Ordered, TestsStay, ChildObj, Obj, Latest
  <2>4. InOrder' BY <1>2, InOrderStays
  <2>5. Instance' = Instance /\ Obj(active)' = Obj(active)
    BY <1>2, <2>1 DEF Instance, Obj, Latest
  <2>6. Obj(active).live => Before(active, Obj(active).spec, worker.at)'
    <3> SUFFICES ASSUME Obj(active).live, NEW j \in 1..(worker'.at - 1)
                 PROVE  Passed(NameOf(active, PlanOf[Obj(active).spec][j]))
      BY <1>2, <2>5 DEF Before, Passed, Stops, ChildObj
    <3>1. Instance.live /\ Before(active, Obj(active).spec, worker.at)
      BY <1>1, WorkerKnows DEF Ordered, WorkerInOrder
    <3>2. worker.at \in Nat /\ worker.at >= 1 BY <1>1, WorkerKnows
    <3>3. CASE j \in 1..(worker.at - 1) BY <3>1, <3>3 DEF Before
    <3>4. CASE j = worker.at
      <4>1. Instance.spec = Obj(active).spec
        BY <1>1, <3>1, WorkerKnows DEF Instance, Obj, Ordered, SameRun
      <4>2. Name = NameOf(active, PlanOf[Obj(active).spec][j])
        BY <3>4, <4>1 DEF Name, Step, Steps
      <4>3. Passed(Name) BY <1>1, <1>4, WaitedForPassed DEF WaitEnds
      <4> QED BY <4>2, <4>3
    <3> QED BY <2>1, <3>2, <3>3, <3>4
  <2>7. WorkerInOrder' BY <2>5, <2>6 DEF WorkerInOrder
  <2> QED BY <2>2, <2>3, <2>4, <2>7 DEF Ordered
<1> QED BY <1>3, <1>4 DEF WaitEnds

-----------------------------------------------------------------------------
(* Every step keeps the invariant.                                         *)
LEMMA InitRuns == Init => RunInv
<1> SUFFICES ASSUME Init PROVE RunInv OBVIOUS
<1>1. RuntimeTypeOK /\ active = NoKey BY InitTyped DEF Init, RuntimeInit
<1>2. NoChild \in Child BY DEF NoChild, Child, Results
<1>3. <<NoChild>> \in Seq(Child) /\ Len(<<NoChild>>) = 1 /\ <<NoChild>>[1] = NoChild BY <1>2
<1>4. Typed BY <1>1, <1>3, InitSpecs DEF Init, Typed, TypeOK, Held, Worker, Idle
<1>5. SameRun BY DEF Init, RuntimeInit, SameRun, Latest, Absent
<1>6. TestsStay /\ InOrder
  BY <1>3 DEF Init, TestsStay, InOrder, ChildObj, NoChild
<1> QED BY <1>1, <1>4, <1>5, <1>6 DEF RunInv, Ordered, WorkerInOrder

LEMMA UserKeeps ==
  ASSUME RunInv, NEW k \in Keys, User(k), UNCHANGED <<childVars, worker>>
  PROVE  RunInv'
<1>1. RuntimeTypeOK /\ Typed BY DEF RunInv, Typed, TypeOK
<1>2. RuntimeTypeOK' /\ UNCHANGED <<seen, active>> BY <1>1, UserTyped
<1>3. Typed'
  <2>1. SpecsGiven' BY <1>1, UserSpecs DEF Typed
  <2>2. \A j \in Keys : \A n \in 1..Latest(j) : revisions'[j][n] = revisions[j][n]
    BY <1>1, UserTyped
  <2>3. Held' BY <1>1, <1>2, <2>2, HeldStays
  <2> QED BY <1>1, <1>2, <2>1, <2>3 DEF Typed, TypeOK, childVars
<1>4. Latest(k) \in Nat /\ Obj(k) \in Object BY <1>1, ObjectsTyped
<1>5. ASSUME Calm' PROVE Ordered'
  <2>1. faults \subseteq faults'
    BY DEF User, UserCreates, UserEdits, UserDeletes, Disturb
  <2>2. Ordered BY <1>5, <2>1, CalmBefore DEF RunInv
  <2>3. ASSUME NEW spec \in Specs, UserCreates(k, spec) PROVE Ordered'
    <3>1. Latest(k) = 1 BY <1>5, <2>3 DEF UserCreates, Disturb, Calm, Without
    <3>2. [live |-> TRUE, uid |-> Latest(k) + 1, spec |-> spec, status |-> Blank] \in Object
      BY <1>4, StatusAssumption DEF Object
    <3> QED BY <1>1, <1>2, <2>2, <2>3, <3>1, <3>2, RunStored DEF UserCreates, childVars
  <2>4. ASSUME NEW spec \in Specs, UserEdits(k, spec) PROVE FALSE
    BY <1>5, <2>4 DEF UserEdits, Disturb, Calm, Without
  <2>5. CASE UserDeletes(k)
    <3>1. [Obj(k) EXCEPT !.live = FALSE] \in Object /\ ~[Obj(k) EXCEPT !.live = FALSE].live
      BY <1>4 DEF Object
    <3> QED BY <1>1, <1>2, <2>2, <2>5, <3>1, RunStored DEF UserDeletes, childVars
  <2> QED BY <2>3, <2>4, <2>5 DEF User
<1> QED BY <1>3, <1>5 DEF RunInv

LEMMA InformerKeeps ==
  ASSUME RunInv, NEW k \in Keys, Informer(k), UNCHANGED <<childVars, worker>>
  PROVE  RunInv'
<1>1. RuntimeTypeOK /\ Typed BY DEF RunInv, Typed, TypeOK
<1>2. /\ RuntimeTypeOK' /\ UNCHANGED <<revisions, active>>
      /\ \A j \in Keys : seen[j] <= seen'[j]
  BY <1>1, InformerTyped
<1>3. Typed'
  <2>1. ASSUME active # NoKey PROVE worker.snap \in 1..seen'[active]
    <3>1. active \in Keys /\ worker.snap \in 1..seen[active] /\ seen[active] \in Nat
          /\ seen'[active] \in Nat
      BY <1>1, <1>2, <2>1 DEF Typed, TypeOK, RuntimeTypeOK
    <3> QED BY <1>2, <3>1
  <2>2. Held' /\ SpecsGiven' BY <1>1, <1>2, HeldStays DEF Typed, SpecsGiven, Latest
  <2> QED BY <1>1, <1>2, <2>1, <2>2 DEF Typed, TypeOK, childVars
<1>4. faults \subseteq faults'
  BY DEF Informer, InformerReceives, HandlerEnqueues, Resync, ResyncLags, Disturb
<1>5. ASSUME Calm' PROVE Ordered'
  BY <1>2, <1>4, <1>5, CalmBefore, NothingStored DEF RunInv, childVars
<1> QED BY <1>3, <1>5 DEF RunInv

LEMMA CrashKeeps ==
  ASSUME RunInv, Crash
  PROVE  RunInv'
<1>1. RuntimeTypeOK /\ Typed BY DEF RunInv, Typed, TypeOK
<1>2. faults' \subseteq Faults /\ faults \subseteq faults'
  BY <1>1, DisturbCounts DEF Crash, RuntimeTypeOK, Disturb
<1>3. RuntimeTypeOK' /\ active' = NoKey BY <1>1, <1>2, RestartTyped DEF Crash
<1>4. Typed'
  <2>1. \A n \in Names : Len(children[n]) \in Nat /\ Len(children[n]) \in 1..Len(children[n])
    <3>1. \A n \in Names : Len(children[n]) \in Nat /\ Len(children[n]) >= 1
      BY <1>1, ChildrenTyped
    <3> QED BY <3>1
  <2>2. Held' BY <1>3 DEF Held
  <2>3. SpecsGiven' BY <1>1 DEF Typed, SpecsGiven, Crash, RuntimeRestarts, Latest
  <2> QED BY <1>1, <1>3, <2>1, <2>2, <2>3 DEF Typed, TypeOK, Crash, Idle, Worker
<1>5. ASSUME Calm' PROVE Ordered'
  BY <1>2, <1>3, <1>5, CalmBefore, NothingStored DEF RunInv, Crash, RuntimeRestarts
<1> QED BY <1>4, <1>5 DEF RunInv

LEMMA BeginKeeps ==
  ASSUME RunInv, NEW k \in Keys, Begin(k)
  PROVE  RunInv'
<1>1. RuntimeTypeOK /\ Typed BY DEF RunInv, Typed, TypeOK
<1>2. CASE BeginSkips(k)
  <2>1. Typed'
    <3>1. Held' BY <1>2 DEF BeginSkips, Held
    <3> QED BY <1>1, <1>2, <3>1
        DEF BeginSkips, Typed, TypeOK, RuntimeTypeOK, SpecsGiven, Latest, childVars
  <2>2. Calm' => Ordered'
    BY <1>2, CalmBefore, NothingStored DEF BeginSkips, RunInv, childVars
  <2> QED BY <2>1, <2>2 DEF RunInv
<1>3. CASE BeginRuns(k)
  <2>1. RuntimeTypeOK' /\ active' = k /\ UNCHANGED <<seen, childVars>> /\ k # NoKey
    BY <1>1, <1>3, KeysAssumption DEF BeginRuns, QueueGet, RuntimeTypeOK
  <2>2. seen[k] \in Nat /\ seen[k] \in 1..seen[k]
    <3>1. seen[k] \in 1..Latest(k) /\ Latest(k) \in Nat BY <1>1, ObjectsTyped
    <3> QED BY <3>1
  <2>3. Typed'
    <3>1. Held' BY <1>3, <2>1 DEF BeginRuns, Held, Instance, Cached
    <3>2. SpecsGiven' BY <1>1, <1>3 DEF BeginRuns, Typed, SpecsGiven, Latest
    <3> QED BY <1>1, <1>3, <2>1, <2>2, <3>1, <3>2 DEF BeginRuns, Typed, TypeOK, Worker, childVars
  <2>4. faults \subseteq faults' BY <1>3 DEF BeginRuns
  <2>5. ASSUME Calm' PROVE Ordered'
    BY <1>1, <1>3, <2>4, <2>5, CalmBefore, BeginRunsOrdered DEF RunInv
  <2> QED BY <2>3, <2>5 DEF RunInv
<1> QED BY <1>2, <1>3 DEF Begin

LEMMA ChildrenKeep ==
  ASSUME RunInv, NEW n \in Names, Children(n)
  PROVE  RunInv'
<1>1. RuntimeTypeOK /\ Typed BY DEF RunInv, Typed, TypeOK
<1>2. ChildObj(n) \in Child /\ n[1] \in Keys BY <1>1, ChildrenTyped, NamesOfRuns
<1>3. /\ UNCHANGED <<revisions, seen, notify, queue, active, worker>> /\ faults' \subseteq Faults
      /\ faults \subseteq faults'
  BY <1>1 DEF Children, ChildDeleted, Disturb, runtimeVars, RuntimeTypeOK
<1>4. RuntimeTypeOK' BY <1>1, <1>3 DEF RuntimeTypeOK
<1>5. Held' /\ SpecsGiven' BY <1>1, <1>3, HeldStays DEF Typed, SpecsGiven, Latest
<1>6. ASSUME NEW child \in Child, StoreChild(n, child), UNCHANGED childSeen PROVE Typed'
  BY <1>1, <1>3, <1>4, <1>5, <1>6, ChildAppends DEF Typed, TypeOK
<1>7. ASSUME NEW result \in {"Success", "Failure"}, ChildDecided(n, result) PROVE RunInv'
  <2> DEFINE child == [ChildObj(n) EXCEPT !.result = result]
  <2>1. /\ child \in Child /\ child.owner = ChildObj(n).owner /\ child.live = ChildObj(n).live
        /\ child.stop = ChildObj(n).stop
    BY <1>2 DEF Child, Results
  <2>2. /\ StoreChild(n, child) /\ UNCHANGED childSeen
        /\ ChildObj(n).live /\ ChildObj(n).result = "none"
    BY <1>7 DEF ChildDecided
  <2> HIDE DEF child
  <2>3. Calm' => Ordered' BY <1>1, <1>3, <2>1, <2>2, CalmBefore, TestStored DEF RunInv
  <2> QED BY <1>6, <2>1, <2>2, <2>3 DEF RunInv
<1>8. CASE ChildSeen(n) /\ UNCHANGED <<runtimeVars, worker>>
  <2>1. Typed'
    <3>1. /\ childSeen' = [childSeen EXCEPT ![n] = @ + 1] /\ UNCHANGED children
          /\ childSeen[n] < Len(children[n])
      BY <1>8 DEF ChildSeen
    <3>2. childSeen[n] \in 1..Len(children[n]) /\ Len(children[n]) \in Nat
          /\ childSeen \in [Names -> Nat]
      BY <1>1, ChildrenTyped DEF Typed, TypeOK
    <3>3. childSeen' \in [Names -> Nat] BY <3>1, <3>2
    <3>4. childSeen'[n] \in 1..Len(children[n]) BY <3>1, <3>2
    <3>5. \A x \in Names : childSeen'[x] \in 1..Len(children[x])
      BY <1>1, <3>1, <3>2, <3>4 DEF Typed, TypeOK
    <3> QED BY <1>1, <1>3, <1>4, <1>5, <3>1, <3>3, <3>5 DEF Typed, TypeOK
  <2>2. Calm' => Ordered' BY <1>3, <1>8, CalmBefore, NothingStored DEF RunInv, ChildSeen
  <2> QED BY <2>1, <2>2 DEF RunInv
<1>9. CASE ChildCollected(n)
  <2> DEFINE child == [ChildObj(n) EXCEPT !.live = FALSE]
  <2>1. child \in Child /\ child.owner = ChildObj(n).owner /\ child.stop = ChildObj(n).stop
    BY <1>2 DEF Child
  <2>2. StoreChild(n, child) /\ UNCHANGED childSeen /\ ChildObj(n).live
        /\ ~(Obj(n[1]).live /\ Obj(n[1]).uid = ChildObj(n).owner)
    BY <1>9 DEF ChildCollected
  <2> HIDE DEF child
  <2>3. ASSUME Calm' PROVE Ordered'
    <3>1. Ordered BY <1>3, <2>3, CalmBefore DEF RunInv
    <3>2. Len(children[n]) \in 1..Len(children[n])
      <4>1. Len(children[n]) \in Nat /\ Len(children[n]) >= 1 BY <1>1, ChildrenTyped
      <4> QED BY <4>1
    <3>3. ~Obj(n[1]).live
      BY <2>2, <3>1, <3>2 DEF Ordered, TestsStay, ChildObj
    <3> QED BY <1>1, <1>3, <2>1, <2>2, <3>1, <3>3, TestStored
  <2> QED BY <1>6, <2>1, <2>2, <2>3 DEF RunInv
<1>10. CASE ChildDeleted(n)
  <2> DEFINE child == [ChildObj(n) EXCEPT !.live = FALSE]
  <2>1. child \in Child BY <1>2 DEF Child
  <2>2. ~Calm' BY <1>10 DEF ChildDeleted, Disturb, Calm, Without
  <2> QED BY <1>6, <1>10, <2>1, <2>2 DEF ChildDeleted, RunInv
<1> QED BY <1>7, <1>8, <1>9, <1>10 DEF Children

LEMMA LaunchKeeps ==
  ASSUME RunInv, active # NoKey, worker.at <= Len(Steps),
         worker' = [worker EXCEPT !.pc = worker'.pc],
         worker'.pc \in {"wait", "finish"}, ~ChildObj(Name).live,
         StoreChild(Name, newTestCR(Instance.uid, Step.stop)),
         UNCHANGED <<revisions, seen, notify, queue, active, childSeen>>,
         faults \subseteq faults', faults' \subseteq Faults
  PROVE  RunInv'
<1>1. RuntimeTypeOK /\ Typed /\ worker \in Worker BY DEF RunInv, Typed, TypeOK
<1>2. RuntimeTypeOK' BY <1>1 DEF RuntimeTypeOK
<1>3. worker' \in Worker /\ worker'.snap = worker.snap /\ worker'.at = worker.at
      /\ worker'.pc # "idle"
  BY <1>1 DEF Worker
<1>4. Instance \in Object /\ Step.stop \in BOOLEAN /\ worker.at >= 1 /\ Name \in Names
  BY <1>1, WorkerKnows
<1> DEFINE child == newTestCR(Instance.uid, Step.stop)
<1>5. child \in Child /\ child.live /\ child.owner = Instance.uid /\ child.result = "none"
  BY <1>4 DEF newTestCR, Child, Results, Object
<1>6. StoreChild(Name, child) OBVIOUS
<1> HIDE DEF child
<1>7. Held' BY <1>1, <1>3, <1>4, HeldStays
<1>8. SpecsGiven' BY <1>1, UnchangedSpecs DEF Typed
<1> SUFFICES ASSUME NEW n \in Names, n = Name PROVE RunInv' BY <1>4
<1>9. Typed'
  BY <1>1, <1>2, <1>3, <1>5, <1>6, <1>7, <1>8, ChildAppends DEF Typed, TypeOK
<1>10. Calm' => Ordered'
  BY <1>1, <1>3, <1>5, <1>6, CalmBefore, TestLaunched DEF RunInv
<1> QED BY <1>9, <1>10 DEF RunInv

(* A step that only moves the worker on, and counts a disturbance maybe.   *)
LEMMA MoveKeeps ==
  ASSUME RunInv, active # NoKey, worker' = [worker EXCEPT !.pc = worker'.pc],
         worker'.pc \in {"wait", "finish"}, worker'.pc = "wait" => worker.at <= Len(Steps),
         UNCHANGED <<revisions, seen, notify, queue, active, childVars>>,
         faults \subseteq faults', faults' \subseteq Faults
  PROVE  RunInv'
<1>1. RuntimeTypeOK /\ Typed /\ worker \in Worker BY DEF RunInv, Typed, TypeOK
<1>2. RuntimeTypeOK' BY <1>1 DEF RuntimeTypeOK
<1>3. worker' \in Worker /\ worker'.snap = worker.snap /\ worker'.at = worker.at
      /\ worker'.pc # "idle"
  BY <1>1 DEF Worker
<1>4. worker.at >= 1 BY <1>1, WorkerKnows
<1>5. Held' /\ SpecsGiven' BY <1>1, <1>3, <1>4, HeldStays, UnchangedSpecs DEF Typed
<1>6. Typed' BY <1>1, <1>2, <1>3, <1>5 DEF Typed, TypeOK, childVars
<1>7. Calm' => Ordered' BY <1>1, <1>3, CalmBefore, WorkerMoves DEF RunInv, childVars
<1> QED BY <1>6, <1>7 DEF RunInv

LEMMA ProceedKeeps ==
  ASSUME RunInv, Proceed
  PROVE  RunInv'
<1>1. RuntimeTypeOK /\ Typed /\ worker \in Worker /\ faults \subseteq Faults
  BY DEF RunInv, Typed, TypeOK, RuntimeTypeOK
<1>2. active # NoKey
  BY <1>1 DEF Typed, TypeOK, Proceed, PlanDone, LaunchFinds, LaunchCreates, LaunchFails, WaitEnds, updateStatus
<1>3. \A pc : GoTo(pc) => worker' = [worker EXCEPT !.pc = worker'.pc] /\ worker'.pc = pc
  BY <1>1 DEF GoTo, Worker
<1>4. CASE PlanDone
  <2>1. GoTo("finish") /\ UNCHANGED <<runtimeVars, childVars>> BY <1>4 DEF PlanDone
  <2>2. worker' = [worker EXCEPT !.pc = worker'.pc] /\ worker'.pc = "finish" BY <1>3, <2>1
  <2> QED BY <1>1, <1>2, <2>1, <2>2, MoveKeeps DEF runtimeVars
<1>9. CASE LaunchFinds
  <2>1. GoTo("wait") /\ UNCHANGED <<runtimeVars, childVars>> /\ worker.at <= Len(Steps)
    BY <1>9 DEF LaunchFinds
  <2>2. worker' = [worker EXCEPT !.pc = worker'.pc] /\ worker'.pc = "wait" BY <1>3, <2>1
  <2> QED BY <1>1, <1>2, <2>1, <2>2, MoveKeeps DEF runtimeVars
<1>5. CASE LaunchCreates
  <2>1. /\ GoTo("wait") /\ UNCHANGED <<runtimeVars, childSeen>> /\ worker.at <= Len(Steps)
        /\ ~ChildObj(Name).live /\ StoreChild(Name, newTestCR(Instance.uid, Step.stop))
    BY <1>5 DEF LaunchCreates
  <2>2. worker' = [worker EXCEPT !.pc = worker'.pc] /\ worker'.pc = "wait" BY <1>3, <2>1
  <2> QED BY <1>1, <1>2, <2>1, <2>2, LaunchKeeps DEF runtimeVars
<1>6. CASE LaunchFails
  <2>1. faults \subseteq faults' /\ faults' \subseteq Faults
    BY <1>1, <1>6, DisturbCounts DEF LaunchFails, Disturb
  <2>2. worker' = [worker EXCEPT !.pc = worker'.pc] /\ worker'.pc = "finish"
    BY <1>3, <1>6 DEF LaunchFails
  <2>3. UNCHANGED <<revisions, seen, notify, queue, active, childSeen>> /\ worker.at <= Len(Steps)
    BY <1>6 DEF LaunchFails
  <2>4. CASE UNCHANGED children
    BY <1>2, <2>1, <2>2, <2>3, <2>4, MoveKeeps DEF childVars
  <2>5. CASE ~ChildObj(Name).live /\ StoreChild(Name, newTestCR(Instance.uid, Step.stop))
    BY <1>2, <2>1, <2>2, <2>3, <2>5, LaunchKeeps
  <2> QED BY <1>6, <2>4, <2>5 DEF LaunchFails
<1>7. CASE WaitEnds
  <2>1. /\ worker' \in Worker /\ worker'.pc \in {"launch", "finish"}
        /\ worker'.snap = worker.snap /\ worker'.at >= 1
    <3>1. worker.at \in Nat /\ worker.at >= 1 BY <1>1, <1>2, WorkerKnows
    <3>2. CASE GoTo("finish")
      <4>1. worker' = [worker EXCEPT !.pc = "finish"] BY <3>2 DEF GoTo
      <4>2. worker' \in Worker /\ worker'.pc = "finish" BY <1>1, <4>1 DEF Worker
      <4>3. worker'.snap = worker.snap /\ worker'.at = worker.at BY <1>1, <4>1 DEF Worker
      <4> QED BY <3>1, <4>2, <4>3
    <3>3. CASE Advance
      <4>1. worker' = [worker EXCEPT !.pc = "launch", !.at = worker.at + 1] BY <3>3 DEF Advance
      <4>2. worker.at + 1 \in Nat /\ worker.at + 1 >= 1 BY <3>1
      <4>3. worker' \in Worker /\ worker'.pc = "launch" BY <1>1, <4>1, <4>2 DEF Worker
      <4>4. worker'.snap = worker.snap /\ worker'.at = worker.at + 1 BY <1>1, <4>1 DEF Worker
      <4> QED BY <4>2, <4>3, <4>4
    <3> QED BY <1>7, <3>2, <3>3 DEF WaitEnds
  <2>2. UNCHANGED <<runtimeVars, childVars>> BY <1>7 DEF WaitEnds
  <2>3. Typed'
    <3>1. UNCHANGED <<revisions, seen, notify, queue, active, faults, children, childSeen>>
      BY <2>2 DEF runtimeVars, childVars
    <3>2. RuntimeTypeOK' BY <1>1, <3>1 DEF RuntimeTypeOK
    <3>3. Held' /\ SpecsGiven' BY <1>1, <2>1, <3>1, HeldStays, UnchangedSpecs DEF Typed
    <3> QED BY <1>1, <1>2, <2>1, <3>1, <3>2, <3>3 DEF Typed, TypeOK
  <2>4. faults \subseteq faults' BY <2>2 DEF runtimeVars
  <2>5. Calm' => Ordered' BY <1>1, <1>7, <2>4, CalmBefore, WaitEndsOrdered DEF RunInv
  <2> QED BY <2>3, <2>5 DEF RunInv
<1>8. CASE updateStatus
  <2> SUFFICES ASSUME NEW k \in Keys, k = active, NEW snap \in 1..Latest(k), snap = worker.snap
               PROVE  RunInv'
    BY <1>1, <1>2, WorkerKnows
  <2>1. /\ WriteStatus(k, snap, "Finished") /\ active' = NoKey /\ worker' = Idle
        /\ UNCHANGED <<queue, seen, notify, childVars>>
    BY <1>8 DEF updateStatus, Done
  <2>2. RuntimeTypeOK'
    <3>1. queue' \subseteq Keys /\ active' \in Keys \cup {NoKey} BY <1>1, <2>1 DEF RuntimeTypeOK
    <3>2. "Finished" \in Statuses BY FinishedAssumption
    <3> QED BY <1>1, <2>1, <3>1, <3>2, WriteStatusTyped
  <2>3. Typed'
    <3>1. SpecsGiven' BY <1>1, <2>1, FinishedAssumption, WriteStatusSpecs DEF Typed
    <3>2. Held' BY <2>1 DEF Held
    <3> QED BY <1>1, <2>1, <2>2, <3>1, <3>2 DEF Typed, TypeOK, Idle, Worker, childVars
  <2>4. ASSUME Calm' PROVE Ordered'
    <3>1. faults \subseteq faults' BY <2>1 DEF WriteStatus, Disturb
    <3>2. Ordered BY <2>4, <3>1, CalmBefore DEF RunInv
    <3>3. CASE UNCHANGED revisions BY <2>1, <3>2, <3>3, NothingStored DEF childVars
    <3>4. CASE snap = Latest(k) /\ Store(k, [revisions[k][snap] EXCEPT !.status = "Finished"])
      <4> DEFINE object == [Obj(k) EXCEPT !.status = "Finished"]
      <4>1. Obj(k) \in Object BY <1>1, ObjectsTyped
      <4>2. object \in Object /\ object.live = Obj(k).live /\ object.uid = Obj(k).uid
            /\ object.spec = Obj(k).spec
        BY <4>1, FinishedAssumption DEF Object
      <4>3. Store(k, object) BY <3>4 DEF Obj
      <4> HIDE DEF object
      <4> QED BY <1>1, <2>1, <3>2, <4>2, <4>3, RunStored DEF childVars
    <3> QED BY <2>1, <3>3, <3>4 DEF WriteStatus
  <2> QED BY <2>3, <2>4 DEF RunInv
<1> QED BY <1>4, <1>9, <1>5, <1>6, <1>7, <1>8 DEF Proceed

LEMMA NextKeeps ==
  ASSUME RunInv, [Next]_vars
  PROVE  RunInv'
<1>1. CASE UNCHANGED vars
  <2>1. UNCHANGED <<revisions, seen, notify, queue, active, faults, children, childSeen, worker>>
    BY <1>1 DEF vars, runtimeVars, childVars
  <2>2. Typed'
    <3>1. Held' /\ SpecsGiven' BY <2>1, HeldStays, UnchangedSpecs DEF RunInv, Typed
    <3> QED BY <2>1, <3>1 DEF RunInv, Typed, TypeOK, RuntimeTypeOK
  <2>3. Calm' => Ordered' BY <2>1, CalmBefore, NothingStored DEF RunInv
  <2> QED BY <2>2, <2>3 DEF RunInv
<1>2. CASE Next
  BY <1>2, ProceedKeeps, CrashKeeps, BeginKeeps, UserKeeps, InformerKeeps, ChildrenKeep DEF Next
<1> QED BY <1>1, <1>2

LEMMA Invariance == Spec => []RunInv
<1> QED BY InitRuns, NextKeeps, PTL DEF Spec

-----------------------------------------------------------------------------
(* In order means one at a time: of two tests without a result one has the *)
(* earlier place, and should have ended.                                   *)
LEMMA OrderedIsSerial == Ordered /\ Typed =>
  \A k \in Keys : Obj(k).live =>
    \A m, n \in {n \in ChildrenOf(k) : ChildObj(n).result = "none"} : m = n
<1> SUFFICES ASSUME Ordered, Typed, NEW k \in Keys, Obj(k).live,
                    NEW m \in ChildrenOf(k), ChildObj(m).result = "none",
                    NEW n \in ChildrenOf(k), ChildObj(n).result = "none"
             PROVE  m = n
  OBVIOUS
<1>1. /\ m \in Names /\ m[1] = k /\ ChildObj(m).live
      /\ n \in Names /\ n[1] = k /\ ChildObj(n).live
  BY DEF ChildrenOf
<1>2. PICK i \in 1..Len(PlanOf[Obj(k).spec]) :
        m = NameOf(k, PlanOf[Obj(k).spec][i]) /\ Before(k, Obj(k).spec, i)
  BY <1>1 DEF Ordered, InOrder, Begun
<1>3. PICK j \in 1..Len(PlanOf[Obj(k).spec]) :
        n = NameOf(k, PlanOf[Obj(k).spec][j]) /\ Before(k, Obj(k).spec, j)
  BY <1>1 DEF Ordered, InOrder, Begun
<1>4. ~Passed(m) /\ ~Passed(n) BY <1>1 DEF Passed
<1>5. CASE i < j
  <2>1. i \in 1..(j - 1) BY <1>2, <1>3, <1>5
  <2> QED BY <1>2, <1>3, <1>4, <2>1 DEF Before
<1>6. CASE j < i
  <2>1. j \in 1..(i - 1) BY <1>2, <1>3, <1>6
  <2> QED BY <1>2, <1>3, <1>4, <2>1 DEF Before
<1>7. CASE i = j BY <1>2, <1>3, <1>7
<1> QED BY <1>5, <1>6, <1>7

(* And no test comes after one that stops the run, which has not passed.   *)
LEMMA OrderedIsStopped == Ordered /\ Typed =>
  \A k \in Keys : Obj(k).live =>
    \A m, n \in ChildrenOf(k) : Stops(m) => n[2] <= m[2]
<1> SUFFICES ASSUME Ordered, Typed, NEW k \in Keys, Obj(k).live,
                    NEW m \in ChildrenOf(k), Stops(m), NEW n \in ChildrenOf(k)
             PROVE  n[2] <= m[2]
  OBVIOUS
<1>1. /\ m \in Names /\ m[1] = k /\ ChildObj(m).live
      /\ n \in Names /\ n[1] = k /\ ChildObj(n).live
  BY DEF ChildrenOf
<1>2. Obj(k).spec \in Specs
  <2>1. Latest(k) \in Nat /\ Latest(k) >= 1 BY ObjectsTyped DEF Typed, TypeOK
  <2>2. Latest(k) \in 1..Latest(k) BY <2>1
  <2> QED BY <2>2 DEF Obj, Typed, SpecsGiven
<1> DEFINE steps == PlanOf[Obj(k).spec]
<1>3. /\ Len(steps) \in Nat /\ \A i \in 1..Len(steps) : steps[i].slot \in Int
      /\ \A i, j \in 1..Len(steps) : i < j => steps[i].slot < steps[j].slot
  BY <1>2, PlansOfRuns
<1>4. PICK i \in 1..Len(steps) : m = NameOf(k, steps[i]) /\ Before(k, Obj(k).spec, i)
  BY <1>1 DEF Ordered, InOrder, Begun
<1>5. PICK j \in 1..Len(steps) : n = NameOf(k, steps[j]) /\ Before(k, Obj(k).spec, j)
  BY <1>1 DEF Ordered, InOrder, Begun
<1>6. m[2] = steps[i].slot /\ n[2] = steps[j].slot BY <1>4, <1>5 DEF NameOf
<1>7. ~Passed(m) BY <1>1 DEF Passed
<1>8. ~(i < j)
  <2> SUFFICES ASSUME i < j PROVE FALSE OBVIOUS
  <2>1. i \in 1..(j - 1) BY <1>3
  <2>2. Passed(NameOf(k, PlanOf[Obj(k).spec][i])) BY <1>5, <2>1 DEF Before
  <2> QED BY <1>4, <1>7, <2>2
<1> HIDE DEF steps
<1>9. CASE i = j BY <1>3, <1>6, <1>9
<1>10. CASE j < i BY <1>3, <1>6, <1>10
<1> QED BY <1>3, <1>8, <1>9, <1>10

LEMMA AtMostOne ==
  ASSUME NEW S, \A x, y \in S : x = y
  PROVE  Cardinality(S) <= 1
<1>1. CASE S = {} BY <1>1, FS_EmptySet
<1>2. ASSUME NEW x \in S PROVE Cardinality(S) <= 1
  <2>1. S = {x} OBVIOUS
  <2>2. Cardinality({x}) = 1 BY FS_Singleton
  <2> QED BY <2>1, <2>2
<1> QED BY <1>1, <1>2

(* Runs, tests, caches and the worker's copy are what they should be,      *)
(* whatever the user does to the run and to its tests.                     *)
THEOREM TypeCorrect == Spec => []TypeOK
<1>1. RunInv => TypeOK BY DEF RunInv, Typed
<1> QED BY <1>1, Invariance, PTL

(* Over all interleavings of any number of runs with their tests, over     *)
(* restarts and refused writes, no two tests of a run are under way at     *)
(* once.                                                                   *)
THEOREM TestsAreSerial == Spec => []OneAtATime
<1>1. RunInv => OneAtATime
  BY OrderedIsSerial, AtMostOne DEF RunInv, OneAtATime, Calm
<1> QED BY <1>1, Invariance, PTL

(* Over the same steps, a failure that asks to stop is the end: no test    *)
(* with a higher number is there, or ever comes.                           *)
THEOREM FailureStops == Spec => []StopIsObeyed
<1>1. RunInv => StopIsObeyed BY OrderedIsStopped DEF RunInv, StopIsObeyed, Calm
<1> QED BY <1>1, Invariance, PTL

-----------------------------------------------------------------------------
(* A second invariant, for a run that is reported Finished.  It speaks of  *)
(* what was stored, not of what is there: edits and deletions take nothing *)
(* away from it.                                                           *)
Undisturbed == Without({"createfails", "recreate"})

(* A test that exists belongs to the one run of its name.                  *)
Owned ==
  \A n \in Names : \A m \in 1..Len(children[n]) :
    children[n][m].live => BelongsTo(n[1], children[n][m].owner)

(* A test whose creation is not in the cache yet is the one waited for, and*)
(* the cache shows nothing of the kind: no test is taken for missing that  *)
(* is there.                                                               *)
Created(n, m) == ~children[n][m].live /\ children[n][m + 1].live
Awaited ==
  \A n \in Names : \A m \in childSeen[n]..(Len(children[n]) - 1) : Created(n, m) =>
    /\ worker.pc = "wait" /\ n = Name
    /\ \A j \in childSeen[n]..m : ~children[n][j].live

(* The worker has a result of every test it left behind, and does not give *)
(* up early.                                                               *)
WorkerGot ==
  active # NoKey =>
    /\ \A i \in 1..Len(Steps) : i < worker.at => Got(NameOf(active, Steps[i]), Instance.uid) # {}
    /\ worker.pc = "finish" => Over(active, Instance)

(* What it reported is so, and was about a run that existed.               *)
Written ==
  \A k \in Keys : \A n \in 2..Latest(k) :
    revisions[k][n].status = "Finished" /\ revisions[k][n - 1].status = Blank
      => revisions[k][n].live /\ Over(k, revisions[k][n])

Reported == OneIncarnation /\ Owned /\ Awaited /\ WorkerGot /\ Written

(* No step takes back what was stored.                                     *)
RunsGrow ==
  \A k \in Keys : \A m \in 1..Latest(k) :
    m \in 1..Latest(k)' /\ revisions'[k][m] = revisions[k][m]
TestsGrow ==
  \A n \in Names : \A m \in DOMAIN children[n] :
    m \in DOMAIN children'[n] /\ children'[n][m] = children[n][m]

LEMMA StoreGrows ==
  ASSUME Typed, NEW k \in Keys, NEW object \in Object, Store(k, object)
  PROVE  RunsGrow
<1>1. /\ RuntimeTypeOK /\ Latest(k)' = Latest(k) + 1
      /\ \A j \in Keys \ {k} : revisions'[j] = revisions[j]
      /\ \A j \in Keys : \A n \in 1..Latest(j) : revisions'[j][n] = revisions[j][n]
  BY StoreAppends DEF Typed, TypeOK
<1>2. \A j \in Keys : Latest(j) \in Nat BY <1>1, ObjectsTyped
<1>3. \A j \in Keys \ {k} : Latest(j)' = Latest(j) BY <1>1 DEF Latest
<1>4. \A j \in Keys : \A m \in 1..Latest(j) : m \in 1..Latest(j)' BY <1>1, <1>2, <1>3
<1> QED BY <1>1, <1>4 DEF RunsGrow

LEMMA StoreChildGrows ==
  ASSUME Typed, NEW n \in Names, NEW child \in Child, StoreChild(n, child)
  PROVE  TestsGrow
<1>1. /\ children' \in [Names -> Seq(Child)] /\ children \in [Names -> Seq(Child)]
      /\ Len(children'[n]) = Len(children[n]) + 1
      /\ \A m \in 1..Len(children[n]) : children'[n][m] = children[n][m]
      /\ \A x \in Names \ {n} : children'[x] = children[x]
  BY ChildAppends DEF Typed, TypeOK
<1>2. DOMAIN children[n] = 1..Len(children[n]) /\ DOMAIN children'[n] = 1..Len(children'[n])
      /\ Len(children[n]) \in Nat
  BY <1>1, LenProperties
<1>3. \A m \in DOMAIN children[n] : m \in DOMAIN children'[n] /\ children'[n][m] = children[n][m]
  BY <1>1, <1>2
<1> QED BY <1>1, <1>3 DEF TestsGrow

LEMMA UnchangedGrows ==
  /\ UNCHANGED revisions => RunsGrow
  /\ UNCHANGED children => TestsGrow
BY DEF RunsGrow, TestsGrow, Latest

-----------------------------------------------------------------------------
(* Results are kept, and with them the end of a run.                       *)
LEMMA GotGrows ==
  ASSUME TestsGrow, NEW n \in Names, NEW uid
  PROVE  Got(n, uid) \subseteq Got(n, uid)'
<1>1. \A r \in Range(children[n]) : r \in Range(children'[n])
  <2> SUFFICES ASSUME NEW m \in DOMAIN children[n] PROVE children[n][m] \in Range(children'[n])
    BY DEF Range
  <2>1. m \in DOMAIN children'[n] /\ children'[n][m] = children[n][m] BY DEF TestsGrow
  <2> QED BY <2>1 DEF Range
<1> QED BY <1>1 DEF Got

LEMMA OverGrows ==
  ASSUME TestsGrow, NEW k \in Keys, NEW revision, revision.spec \in Specs, Over(k, revision)
  PROVE  Over(k, revision)'
<1> DEFINE steps == PlanOf[revision.spec]
           Reports(i) == Got(NameOf(k, steps[i]), revision.uid)
<1>1. Len(steps) \in Nat /\ \A i \in 1..Len(steps) : NameOf(k, steps[i]) \in Names
  BY PlansOfRuns
<1>2. \A i \in 1..Len(steps) : Reports(i) \subseteq Reports(i)'
  <2> SUFFICES ASSUME NEW i \in 1..Len(steps) PROVE Reports(i) \subseteq Reports(i)' OBVIOUS
  <2>1. NameOf(k, steps[i]) \in Names BY <1>1
  <2> QED BY <2>1, GotGrows
<1>3. \/ \A i \in 1..Len(steps) : Reports(i) # {}
      \/ \E s \in 1..Len(steps) :
           /\ \A i \in 1..s : Reports(i) # {}
           /\ \E r \in Reports(s) : r.result = "Failure" /\ r.stop
  BY DEF Over
<1>4. \A s \in 1..Len(steps) : \A i \in 1..s : i \in 1..Len(steps) BY <1>1
<1> SUFFICES \/ \A i \in 1..Len(steps) : Reports(i)' # {}
             \/ \E s \in 1..Len(steps) :
                  /\ \A i \in 1..s : Reports(i)' # {}
                  /\ \E r \in Reports(s)' : r.result = "Failure" /\ r.stop
  BY DEF Over
<1> HIDE DEF steps, Reports
<1> QED BY <1>2, <1>3, <1>4

-----------------------------------------------------------------------------
(* Whom a test and a run belong to.                                        *)
LEMMA StoredBelongs ==
  ASSUME Typed, OneIncarnation, Owned, NEW k \in Keys, NEW object \in Object, Store(k, object),
         UNCHANGED children,
         object.live => Latest(k) = 1 \/ (Obj(k).live /\ object.uid = Obj(k).uid)
  PROVE  OneIncarnation' /\ Owned'
<1>1. RuntimeTypeOK BY DEF Typed, TypeOK
<1>2. /\ OneIncarnation'
      /\ \A j \in Keys : \A uid : BelongsTo(j, uid) => BelongsTo(j, uid)'
  BY <1>1, StoredIncarnation
<1>3. Owned'
  <2> SUFFICES ASSUME NEW n \in Names, NEW m \in 1..Len(children[n]), children[n][m].live,
                      NEW uid, uid = children[n][m].owner
               PROVE  BelongsTo(n[1], uid)'
    BY DEF Owned
  <2>1. n[1] \in Keys /\ BelongsTo(n[1], uid) BY NamesOfRuns DEF Owned
  <2> QED BY <1>2, <2>1
<1> QED BY <1>2, <1>3

LEMMA ChildBelongs ==
  ASSUME Typed, Owned, NEW n \in Names, NEW child \in Child, StoreChild(n, child),
         UNCHANGED revisions, child.live => BelongsTo(n[1], child.owner)
  PROVE  Owned'
<1>1. /\ Len(children'[n]) = Len(children[n]) + 1
      /\ children'[n][Len(children[n]) + 1] = child
      /\ \A m \in 1..Len(children[n]) : children'[n][m] = children[n][m]
      /\ \A x \in Names \ {n} : children'[x] = children[x]
  BY ChildAppends
<1>2. Len(children[n]) \in Nat BY ChildrenTyped
<1>3. \A k, uid : BelongsTo(k, uid)' <=> BelongsTo(k, uid) BY DEF BelongsTo, Latest
<1> SUFFICES ASSUME NEW x \in Names, NEW m \in 1..Len(children'[x]), children'[x][m].live
             PROVE  BelongsTo(x[1], children'[x][m].owner)
  BY <1>3 DEF Owned
<1>4. CASE x # n BY <1>1, <1>4 DEF Owned
<1>5. CASE x = n /\ m \in 1..Len(children[n]) BY <1>1, <1>5 DEF Owned
<1>6. CASE x = n /\ m = Len(children[n]) + 1 BY <1>1, <1>6
<1>7. x # n \/ m \in 1..Len(children[n]) \/ m = Len(children[n]) + 1 BY <1>1, <1>2
<1> QED BY <1>4, <1>5, <1>6, <1>7

LEMMA BelongingStays ==
  /\ OneIncarnation /\ UNCHANGED revisions => OneIncarnation'
  /\ Owned /\ UNCHANGED <<revisions, children>> => Owned'
BY DEF OneIncarnation, Owned, BelongsTo, Latest

(* The run of the worker is the only one, and the test it looks at is its. *)
LEMMA WorkerOwns ==
  ASSUME Typed, OneIncarnation, Owned, active # NoKey
  PROVE  /\ BelongsTo(active, Instance.uid)
         /\ worker.at <= Len(Steps) /\ CachedChild(Name).live =>
              CachedChild(Name).owner = Instance.uid
<1>1. /\ active \in Keys /\ worker.snap \in 1..Latest(active) /\ Instance.live
      /\ worker.at <= Len(Steps) => Name \in Names /\ Name[1] = active
  BY WorkerKnows
<1>2. BelongsTo(active, Instance.uid) BY <1>1 DEF OneIncarnation, Instance
<1>3. ASSUME NEW n \in Names, n[1] = active, CachedChild(n).live
      PROVE  CachedChild(n).owner = Instance.uid
  <2>1. childSeen[n] \in 1..Len(children[n]) BY ChildrenTyped
  <2>2. BelongsTo(active, CachedChild(n).owner) BY <1>3, <2>1 DEF Owned, CachedChild
  <2> QED BY <1>1, <2>2 DEF BelongsTo, Instance
<1> QED BY <1>1, <1>2, <1>3

-----------------------------------------------------------------------------
(* What the cache of the tests may lag behind.                             *)
LEMMA NoneCreated ==
  ASSUME Typed, Awaited, worker.pc # "wait", NEW n \in Names, ~CachedChild(n).live
  PROVE  \A j \in childSeen[n]..Len(children[n]) : ~children[n][j].live
<1> DEFINE T == {j \in childSeen[n]..Len(children[n]) : children[n][j].live}
<1> SUFFICES ASSUME T # {} PROVE FALSE OBVIOUS
<1>1. childSeen[n] \in Nat /\ childSeen[n] >= 1 /\ Len(children[n]) \in Nat
      /\ ~children[n][childSeen[n]].live
  BY ChildrenTyped DEF CachedChild
<1>2. T \in SUBSET Nat BY <1>1
<1>3. PICK j \in T : \A m \in T : j <= m BY <1>2, LeastNat
<1>4. /\ j \in childSeen[n]..Len(children[n]) /\ children[n][j].live /\ j # childSeen[n]
  BY <1>1, <1>3
<1>5. j - 1 \in childSeen[n]..(Len(children[n]) - 1) /\ j - 1 + 1 = j /\ ~(j <= j - 1)
      /\ j - 1 \in childSeen[n]..Len(children[n])
  BY <1>1, <1>4
<1>6. ~children[n][j - 1].live BY <1>3, <1>5
<1>7. Created(n, j - 1) BY <1>4, <1>5, <1>6 DEF Created
<1> QED BY <1>5, <1>7 DEF Awaited

LEMMA AwaitedStays ==
  ASSUME Typed, Awaited, RunsGrow, UNCHANGED <<children, childSeen>>,
         UNCHANGED <<active, worker>> \/ worker.pc # "wait"
  PROVE  Awaited'
<1>1. CASE worker.pc # "wait" BY <1>1 DEF Awaited, Created
<1>2. CASE worker.pc = "wait" /\ UNCHANGED <<active, worker>>
  <2>1. active \in Keys /\ worker.snap \in 1..Latest(active)
    BY <1>2, WorkerKnows DEF Typed, TypeOK
  <2>2. Instance' = Instance BY <1>2, <2>1 DEF Instance, RunsGrow
  <2>3. Name' = Name BY <1>2, <2>2 DEF Name, Step, Steps
  <2> QED BY <1>2, <2>3 DEF Awaited, Created
<1> QED BY <1>1, <1>2

-----------------------------------------------------------------------------
(* What was reported stays so.                                             *)
LEMMA WorkerGotStays ==
  ASSUME Typed, WorkerGot, RunsGrow, TestsGrow, UNCHANGED active,
         worker'.snap = worker.snap, worker'.at = worker.at,
         worker'.pc = "finish" => active = NoKey \/ Over(active, Instance)
  PROVE  WorkerGot'
<1> SUFFICES ASSUME active # NoKey PROVE WorkerGot' BY DEF WorkerGot
<1>1. /\ active \in Keys /\ worker.snap \in 1..Latest(active) /\ Instance.spec \in Specs
      /\ Steps = PlanOf[Instance.spec]
  BY WorkerKnows
<1>2. Instance' = Instance /\ Steps' = Steps BY <1>1 DEF Instance, Steps, RunsGrow
<1>3. Over(active, Instance) => Over(active, Instance)' BY <1>1, <1>2, OverGrows
<1>4. \A i \in 1..Len(Steps) : i < worker.at =>
        Got(NameOf(active, Steps[i]), Instance.uid)' # {}
  <2> SUFFICES ASSUME NEW i \in 1..Len(Steps), i < worker.at
               PROVE  Got(NameOf(active, Steps[i]), Instance.uid)' # {}
    OBVIOUS
  <2>1. NameOf(active, Steps[i]) \in Names BY <1>1, PlansOfRuns
  <2>2. Got(NameOf(active, Steps[i]), Instance.uid) # {} BY DEF WorkerGot
  <2> QED BY <1>2, <2>1, <2>2, GotGrows
<1> QED BY <1>2, <1>3, <1>4 DEF WorkerGot

LEMMA WrittenStays ==
  ASSUME Typed, Written, TestsGrow,
         \/ UNCHANGED revisions
         \/ \E k \in Keys : \E object \in Object :
              /\ Store(k, object)
              /\ object.status = "Finished" /\ Obj(k).status = Blank =>
                   object.live /\ Over(k, object)'
  PROVE  Written'
<1>1. \A k \in Keys : /\ Latest(k) \in Nat /\ Latest(k) >= 1
                      /\ \A n \in 2..Latest(k) : n \in 1..Latest(k) /\ n - 1 \in 1..Latest(k)
  <2>1. \A k \in Keys : Latest(k) \in Nat /\ Latest(k) >= 1
    BY ObjectsTyped DEF Typed, TypeOK
  <2> QED BY <2>1
<1>2. \A k \in Keys : \A n \in 2..Latest(k) :
        revisions[k][n].status = "Finished" /\ revisions[k][n - 1].status = Blank
          => \A revision : revision = revisions[k][n] => revision.live /\ Over(k, revision)'
  <2> SUFFICES ASSUME NEW k \in Keys, NEW n \in 2..Latest(k),
                      revisions[k][n].status = "Finished", revisions[k][n - 1].status = Blank,
                      NEW revision, revision = revisions[k][n]
               PROVE  revision.live /\ Over(k, revision)'
    OBVIOUS
  <2>1. revision.live /\ Over(k, revision) BY DEF Written
  <2>2. revision.spec \in Specs BY <1>1, <2>1 DEF Typed, SpecsGiven
  <2> QED BY <2>1, <2>2, OverGrows
<1>3. CASE UNCHANGED revisions BY <1>2, <1>3 DEF Written, Latest
<1>4. ASSUME NEW k \in Keys, NEW object \in Object, Store(k, object),
             object.status = "Finished" /\ Obj(k).status = Blank =>
               object.live /\ Over(k, object)'
      PROVE  Written'
  <2>1. /\ Latest(k)' = Latest(k) + 1 /\ Obj(k)' = object
        /\ \A n \in 1..Latest(k) : revisions'[k][n] = revisions[k][n]
        /\ \A j \in Keys \ {k} : revisions'[j] = revisions[j]
    BY <1>4, StoreAppends DEF Typed, TypeOK
  <2>2. revisions'[k][Latest(k) + 1] = object /\ revisions[k][Latest(k)] = Obj(k)
    BY <2>1 DEF Obj, Latest
  <2> SUFFICES ASSUME NEW j \in Keys, NEW n \in 2..Latest(j)',
                      revisions'[j][n].status = "Finished", revisions'[j][n - 1].status = Blank,
                      NEW revision, revision = revisions'[j][n]
               PROVE  revision.live /\ Over(j, revision)'
    BY DEF Written
  <2>3. CASE j # k
    <3>1. revisions'[j] = revisions[j] /\ Latest(j)' = Latest(j) BY <2>1, <2>3 DEF Latest
    <3> QED BY <1>2, <3>1
  <2>4. CASE j = k /\ n \in 2..Latest(k)
    <3>1. revisions'[k][n] = revisions[k][n] /\ revisions'[k][n - 1] = revisions[k][n - 1]
      BY <1>1, <2>1, <2>4
    <3> QED BY <1>2, <2>4, <3>1
  <2>5. CASE j = k /\ n = Latest(k) + 1
    <3>1. n - 1 = Latest(k) /\ Latest(k) \in 1..Latest(k) BY <1>1, <2>5
    <3>2. revisions'[k][n - 1] = Obj(k) BY <2>1, <2>2, <3>1
    <3> QED BY <1>4, <2>2, <2>5, <3>2
  <2>6. j # k \/ n \in 2..Latest(k) \/ n = Latest(k) + 1 BY <1>1, <2>1
  <2> QED BY <2>3, <2>4, <2>5, <2>6
<1> QED BY <1>3, <1>4

-----------------------------------------------------------------------------
(* Every step keeps the second invariant.                                  *)
LEMMA InitReported == Init => Reported
<1> SUFFICES ASSUME Init PROVE Reported OBVIOUS
<1>1. OneIncarnation
  BY DEF Init, RuntimeInit, OneIncarnation, Latest, Absent
<1>2. Owned /\ Awaited /\ Written
  BY DEF Init, RuntimeInit, Owned, Awaited, Written, Latest, NoChild
<1>3. WorkerGot BY DEF Init, RuntimeInit, WorkerGot
<1> QED BY <1>1, <1>2, <1>3 DEF Reported

LEMMA QuietReports ==
  ASSUME Typed, Reported, UNCHANGED <<revisions, children, childSeen>>,
         UNCHANGED <<active, worker>> \/ (worker.pc # "wait" /\ WorkerGot')
  PROVE  Reported'
<1>1. RunsGrow /\ TestsGrow BY UnchangedGrows
<1>2. OneIncarnation' /\ Owned' BY BelongingStays DEF Reported
<1>3. Awaited' BY <1>1, AwaitedStays DEF Reported
<1>4. WorkerGot' BY <1>1, WorkerGotStays DEF Reported, WorkerGot
<1>5. Written' BY <1>1, WrittenStays DEF Reported
<1> QED BY <1>2, <1>3, <1>4, <1>5 DEF Reported

LEMMA UnchangedOver ==
  ASSUME UNCHANGED children, NEW k, NEW revision
  PROVE  Over(k, revision)' <=> Over(k, revision)
BY DEF Over, Got

(* A revision of a run is stored that is no report, or a true one.         *)
LEMMA StoredReports ==
  ASSUME Typed, Reported, NEW k \in Keys, NEW object \in Object, Store(k, object),
         UNCHANGED <<children, childSeen>>, UNCHANGED <<active, worker>> \/
           (active' = NoKey /\ worker.pc # "wait"),
         object.live => Latest(k) = 1 \/ (Obj(k).live /\ object.uid = Obj(k).uid),
         object.status = "Finished" /\ Obj(k).status = Blank => object.live /\ Over(k, object)
  PROVE  Reported'
<1>1. RunsGrow /\ TestsGrow BY StoreGrows, UnchangedGrows
<1>2. OneIncarnation' /\ Owned' BY StoredBelongs DEF Reported
<1>3. Awaited' BY <1>1, AwaitedStays DEF Reported
<1>4. WorkerGot'
  <2>1. CASE active' = NoKey BY <2>1 DEF WorkerGot
  <2>2. CASE UNCHANGED <<active, worker>>
    BY <1>1, <2>2, WorkerGotStays DEF Reported, WorkerGot
  <2> QED BY <2>1, <2>2
<1>5. Over(k, object) => Over(k, object)' BY UnchangedOver
<1>6. Written' BY <1>1, <1>5, WrittenStays DEF Reported
<1> QED BY <1>2, <1>3, <1>4, <1>6 DEF Reported

LEMMA UserReports ==
  ASSUME Typed, Reported, Undisturbed', NEW k \in Keys, User(k), UNCHANGED <<childVars, worker>>
  PROVE  Reported'
<1>1. RuntimeTypeOK /\ Latest(k) \in Nat /\ Obj(k) \in Object
  BY ObjectsTyped DEF Typed, TypeOK
<1>2. UNCHANGED active BY <1>1, UserTyped
<1>3. \E object \in Object :
        /\ Store(k, object)
        /\ object.live => Latest(k) = 1 \/ (Obj(k).live /\ object.uid = Obj(k).uid)
        /\ object.status \in {Blank, Obj(k).status}
  <2>1. "recreate" \notin faults' BY DEF Undisturbed, Without
  <2> QED BY <1>1, <2>1, UserStoresOwn
<1> QED BY <1>2, <1>3, StoredReports, FinishedAssumption DEF childVars

LEMMA CrashReports ==
  ASSUME Typed, Reported, Crash
  PROVE  Reported'
<1>1. UNCHANGED <<revisions, children>> /\ active' = NoKey
      /\ childSeen' = [n \in Names |-> Len(children[n])]
  BY DEF Crash, RuntimeRestarts
<1>2. TestsGrow BY <1>1, UnchangedGrows
<1>3. OneIncarnation' /\ Owned' BY <1>1, BelongingStays DEF Reported
<1>4. Awaited'
  <2>1. \A n \in Names : Len(children[n]) \in Nat BY ChildrenTyped
  <2>2. \A n \in Names : childSeen'[n]..(Len(children'[n]) - 1) = {} BY <1>1, <2>1
  <2> QED BY <2>2 DEF Awaited
<1>5. WorkerGot' BY <1>1 DEF WorkerGot
<1>6. Written' BY <1>1, <1>2, WrittenStays DEF Reported
<1> QED BY <1>3, <1>4, <1>5, <1>6 DEF Reported

LEMMA BeginReports ==
  ASSUME Typed, Reported, NEW k \in Keys, Begin(k)
  PROVE  Reported'
<1>1. CASE BeginSkips(k) BY <1>1, QuietReports DEF BeginSkips, childVars
<1>2. CASE BeginRuns(k)
  <2>1. /\ UNCHANGED <<revisions, children, childSeen>> /\ active = NoKey
        /\ worker'.at = 1 /\ worker'.pc = "launch" /\ worker.pc = "idle"
    BY <1>2 DEF BeginRuns, QueueGet, childVars, Typed, TypeOK
  <2>2. \A i \in 1..Len(Steps') : ~(i < worker'.at) BY <2>1
  <2>3. WorkerGot' BY <2>1, <2>2 DEF WorkerGot
  <2> QED BY <2>1, <2>3, QuietReports
<1> QED BY <1>1, <1>2 DEF Begin

(* A revision of a test is stored, of the same run, and no new test unless *)
(* it is waited for.                                                       *)
LEMMA ChildStoredReports ==
  ASSUME Typed, Reported, NEW n \in Names, NEW child \in Child, StoreChild(n, child),
         UNCHANGED <<revisions, childSeen, active>>,
         child.live => BelongsTo(n[1], child.owner),
         worker'.snap = worker.snap, worker'.at = worker.at,
         \/ UNCHANGED worker /\ (child.live => ChildObj(n).live)
         \/ /\ active # NoKey /\ worker.pc # "wait" /\ worker'.pc = "wait"
            /\ n = Name /\ ~CachedChild(n).live
  PROVE  Reported'
<1>1. RunsGrow /\ TestsGrow BY StoreChildGrows, UnchangedGrows
<1>2. OneIncarnation' /\ Owned' BY ChildBelongs, BelongingStays DEF Reported
<1>3. /\ Len(children'[n]) = Len(children[n]) + 1
      /\ children'[n][Len(children[n]) + 1] = child
      /\ \A m \in 1..Len(children[n]) : children'[n][m] = children[n][m]
      /\ \A x \in Names \ {n} : children'[x] = children[x]
  BY ChildAppends
<1>4. /\ \A x \in Names : Len(children[x]) \in Nat /\ childSeen[x] \in Nat /\ childSeen[x] >= 1
                          /\ childSeen[x] <= Len(children[x])
      /\ ChildObj(n) = children[n][Len(children[n])]
  <2>1. \A x \in Names : Len(children[x]) \in Nat /\ childSeen[x] \in 1..Len(children[x])
    BY ChildrenTyped
  <2> QED BY <2>1 DEF ChildObj
<1>5. active # NoKey => Name' = Name
  <2> SUFFICES ASSUME active # NoKey PROVE Name' = Name OBVIOUS
  <2>1. Instance' = Instance BY DEF Instance
  <2> QED BY <2>1 DEF Name, Step, Steps
<1>6. worker.pc = "wait" => active # NoKey BY DEF Typed, TypeOK
<1>7. \A x \in Names : \A m \in childSeen[x]..(Len(children[x]) - 1) :
        Created(x, m)' => Created(x, m)
  <2> SUFFICES ASSUME NEW x \in Names, NEW m \in childSeen[x]..(Len(children[x]) - 1)
               PROVE  Created(x, m)' => Created(x, m)
    OBVIOUS
  <2>1. m \in 1..Len(children[x]) /\ m + 1 \in 1..Len(children[x]) BY <1>4
  <2> QED BY <1>3, <2>1 DEF Created
<1>8. \A x \in Names : \A m \in childSeen[x]..(Len(children'[x]) - 1) :
        \/ m \in childSeen[x]..(Len(children[x]) - 1)
        \/ x = n /\ m = Len(children[n])
  BY <1>3, <1>4
<1>9. \A x \in Names : \A m \in childSeen[x]..Len(children[x]) :
        children'[x][m] = children[x][m]
  <2> SUFFICES ASSUME NEW x \in Names, NEW m \in childSeen[x]..Len(children[x])
               PROVE  children'[x][m] = children[x][m]
    OBVIOUS
  <2>1. m \in 1..Len(children[x]) BY <1>4
  <2> QED BY <1>3, <2>1
<1>10. Awaited'
  <2> SUFFICES ASSUME NEW x \in Names, NEW m \in childSeen[x]..(Len(children'[x]) - 1),
                      Created(x, m)'
               PROVE  /\ worker'.pc = "wait" /\ x = Name'
                      /\ \A j \in childSeen[x]..m : ~children'[x][j].live
    BY DEF Awaited
  <2>1. CASE m \in childSeen[x]..(Len(children[x]) - 1)
    <3>1. /\ worker.pc = "wait" /\ x = Name
          /\ \A j \in childSeen[x]..m : ~children[x][j].live
      BY <1>7, <2>1 DEF Reported, Awaited
    <3>2. UNCHANGED worker /\ x = Name' BY <1>5, <1>6, <3>1
    <3>3. \A j \in childSeen[x]..m : j \in childSeen[x]..Len(children[x]) BY <1>4, <2>1
    <3> QED BY <1>9, <3>1, <3>2, <3>3
  <2>2. CASE x = n /\ m = Len(children[n])
    <3>1. m \in 1..Len(children[n]) /\ m \in childSeen[n]..Len(children[n]) BY <1>4, <2>2
    <3>2. ~ChildObj(n).live /\ child.live BY <1>3, <1>4, <2>2, <3>1 DEF Created
    <3>3. /\ active # NoKey /\ worker.pc # "wait" /\ worker'.pc = "wait"
          /\ n = Name /\ ~CachedChild(n).live
      BY <3>2
    <3>4. \A j \in childSeen[n]..Len(children[n]) : ~children[n][j].live
      BY <3>3, NoneCreated DEF Reported
    <3> QED BY <1>5, <1>9, <2>2, <3>3, <3>4
  <2> QED BY <1>8, <2>1, <2>2
<1>11. WorkerGot' BY <1>1, WorkerGotStays DEF Reported, WorkerGot
<1>12. Written' BY <1>1, WrittenStays DEF Reported
<1> QED BY <1>2, <1>10, <1>11, <1>12 DEF Reported

LEMMA ChildrenReport ==
  ASSUME Typed, Reported, NEW n \in Names, Children(n)
  PROVE  Reported'
<1>1. ChildObj(n) \in Child BY ChildrenTyped
<1>2. UNCHANGED <<revisions, active, worker>> BY DEF Children, runtimeVars
<1>3. ChildObj(n).live => BelongsTo(n[1], ChildObj(n).owner)
  <2>1. Len(children[n]) \in 1..Len(children[n])
    <3>1. Len(children[n]) \in Nat /\ Len(children[n]) >= 1 BY ChildrenTyped
    <3> QED BY <3>1
  <2> QED BY <2>1 DEF ChildObj, Reported, Owned
<1>4. ASSUME NEW result \in {"Success", "Failure"}, ChildDecided(n, result) PROVE Reported'
  <2> DEFINE child == [ChildObj(n) EXCEPT !.result = result]
  <2>1. child \in Child /\ child.owner = ChildObj(n).owner /\ child.live = ChildObj(n).live
    BY <1>1 DEF Child, Results
  <2>2. StoreChild(n, child) /\ UNCHANGED childSeen BY <1>4 DEF ChildDecided
  <2> HIDE DEF child
  <2> QED BY <1>2, <1>3, <2>1, <2>2, ChildStoredReports
<1>5. CASE ChildCollected(n) \/ ChildDeleted(n)
  <2> DEFINE child == [ChildObj(n) EXCEPT !.live = FALSE]
  <2>1. child \in Child /\ ~child.live BY <1>1 DEF Child
  <2>2. StoreChild(n, child) /\ UNCHANGED childSeen BY <1>5 DEF ChildCollected, ChildDeleted
  <2> HIDE DEF child
  <2> QED BY <1>2, <2>1, <2>2, ChildStoredReports
<1>6. CASE ChildSeen(n)
  <2>1. /\ childSeen[n] < Len(children[n]) /\ UNCHANGED children
        /\ childSeen' = [childSeen EXCEPT ![n] = childSeen[n] + 1]
    BY <1>6 DEF ChildSeen
  <2>2. RunsGrow /\ TestsGrow BY <1>2, <2>1, UnchangedGrows
  <2>3. OneIncarnation' /\ Owned' BY <1>2, <2>1, BelongingStays DEF Reported
  <2>4. \A x \in Names : /\ childSeen[x] \in Nat /\ childSeen'[x] \in Nat
                         /\ childSeen[x] <= childSeen'[x] /\ Len(children[x]) \in Nat
    <3>1. \A x \in Names : childSeen[x] \in 1..Len(children[x]) /\ Len(children[x]) \in Nat
      BY ChildrenTyped
    <3>2. childSeen \in [Names -> Nat] BY DEF Typed, TypeOK
    <3> QED BY <2>1, <3>1, <3>2
  <2>5. worker.pc = "wait" => Name' = Name
    <3>1. Instance' = Instance BY <1>2 DEF Instance
    <3> QED BY <1>2, <3>1 DEF Name, Step, Steps
  <2>6. Awaited'
    <3> SUFFICES ASSUME NEW x \in Names, NEW m \in childSeen'[x]..(Len(children[x]) - 1),
                        Created(x, m)
                 PROVE  /\ worker.pc = "wait" /\ x = Name'
                        /\ \A j \in childSeen'[x]..m : ~children[x][j].live
      BY <1>2, <2>1 DEF Awaited, Created
    <3>1. m \in childSeen[x]..(Len(children[x]) - 1) BY <2>4
    <3>2. \A j \in childSeen'[x]..m : j \in childSeen[x]..m BY <2>4
    <3> QED BY <2>5, <3>1, <3>2 DEF Reported, Awaited
  <2>7. WorkerGot' BY <1>2, <2>2, WorkerGotStays DEF Reported, WorkerGot
  <2>8. Written' BY <1>2, <2>2, WrittenStays DEF Reported
  <2> QED BY <2>3, <2>6, <2>7, <2>8 DEF Reported
<1> QED BY <1>4, <1>5, <1>6 DEF Children

LEMMA ProceedReports ==
  ASSUME Typed, Reported, Undisturbed', Proceed
  PROVE  Reported'
<1>1. active # NoKey /\ worker \in Worker
  BY DEF Typed, TypeOK, Proceed, PlanDone, LaunchFinds, LaunchCreates, LaunchFails,
         WaitEnds, updateStatus
<1>2. \A pc : GoTo(pc) => worker'.snap = worker.snap /\ worker'.at = worker.at /\ worker'.pc = pc
  BY <1>1 DEF GoTo, Worker
<1>3. /\ active \in Keys /\ worker.at \in Nat /\ worker.at >= 1
      /\ worker.snap \in 1..Latest(active)
      /\ Instance \in Object /\ Instance.live /\ Instance.spec \in Specs
      /\ Steps = PlanOf[Instance.spec] /\ Len(Steps) \in Nat
  BY <1>1, WorkerKnows
<1>4. worker.at <= Len(Steps) => /\ worker.at \in 1..Len(Steps) /\ Step.stop \in BOOLEAN
                                 /\ Name \in Names /\ Name[1] = active
                                 /\ Name = NameOf(active, Steps[worker.at])
  BY <1>1, <1>3, WorkerKnows
<1>5. /\ BelongsTo(active, Instance.uid)
      /\ worker.at <= Len(Steps) /\ CachedChild(Name).live => CachedChild(Name).owner = Instance.uid
  BY <1>1, WorkerOwns DEF Reported
<1>6. \A i \in 1..Len(Steps) : i < worker.at => Got(NameOf(active, Steps[i]), Instance.uid) # {}
  BY <1>1 DEF Reported, WorkerGot
<1>7. CASE PlanDone
  <2>1. /\ UNCHANGED <<revisions, children, childSeen, active>> /\ worker.pc = "launch"
        /\ worker.at > Len(Steps) /\ worker'.snap = worker.snap /\ worker'.at = worker.at
    BY <1>2, <1>7 DEF PlanDone, runtimeVars, childVars
  <2>2. RunsGrow /\ TestsGrow BY <2>1, UnchangedGrows
  <2>3. \A i \in 1..Len(Steps) : i < worker.at BY <1>3, <2>1
  <2>4. Over(active, Instance) BY <1>3, <1>6, <2>3 DEF Over
  <2>5. WorkerGot' BY <2>1, <2>2, <2>4, WorkerGotStays DEF Reported
  <2> QED BY <2>1, <2>5, QuietReports
<1>8. CASE LaunchFinds
  <2>1. /\ UNCHANGED <<revisions, children, childSeen, active>> /\ worker.pc = "launch"
        /\ worker'.pc = "wait" /\ worker'.snap = worker.snap /\ worker'.at = worker.at
    BY <1>2, <1>8 DEF LaunchFinds, runtimeVars, childVars
  <2>2. RunsGrow /\ TestsGrow BY <2>1, UnchangedGrows
  <2>3. WorkerGot' BY <2>1, <2>2, WorkerGotStays DEF Reported
  <2> QED BY <2>1, <2>3, QuietReports
<1>9. CASE LaunchCreates
  <2>1. /\ UNCHANGED <<revisions, childSeen, active>> /\ worker.pc = "launch"
        /\ worker'.pc = "wait" /\ worker'.snap = worker.snap /\ worker'.at = worker.at
        /\ worker.at <= Len(Steps) /\ ~CachedChild(Name).live
        /\ StoreChild(Name, newTestCR(Instance.uid, Step.stop))
    BY <1>2, <1>9 DEF LaunchCreates, runtimeVars
  <2> DEFINE child == newTestCR(Instance.uid, Step.stop)
  <2>2. child \in Child /\ child.owner = Instance.uid
    BY <1>3, <1>4, <2>1 DEF newTestCR, Child, Results, Object
  <2>3. StoreChild(Name, child) BY <2>1
  <2> HIDE DEF child
  <2> QED BY <1>1, <1>4, <1>5, <2>1, <2>2, <2>3, ChildStoredReports
(* A test that cannot be created would be there, and not in the cache.     *)
<1>10. CASE LaunchFails
  <2>1. worker.pc = "launch" /\ worker.at <= Len(Steps) /\ ~CachedChild(Name).live
    BY <1>10 DEF LaunchFails
  <2>2. ChildObj(Name).live
    BY <1>10 DEF LaunchFails, Disturb, Undisturbed, Without
  <2>3. Name \in Names BY <1>4, <2>1
  <2>4. \A j \in childSeen[Name]..Len(children[Name]) : ~children[Name][j].live
    BY <2>1, <2>3, NoneCreated DEF Reported
  <2>5. Len(children[Name]) \in childSeen[Name]..Len(children[Name])
    <3>1. Len(children[Name]) \in Nat /\ childSeen[Name] \in 1..Len(children[Name])
      BY <2>3, ChildrenTyped
    <3> QED BY <3>1
  <2> QED BY <2>2, <2>4, <2>5 DEF ChildObj
<1>11. CASE WaitEnds
  <2>1. /\ UNCHANGED <<revisions, children, childSeen, active>> /\ worker.pc = "wait"
        /\ CachedChild(Name).live /\ CachedChild(Name).result # "none"
    BY <1>11 DEF WaitEnds, runtimeVars, childVars
  <2>2. RunsGrow /\ TestsGrow BY <2>1, UnchangedGrows
  <2>3. worker.at <= Len(Steps) BY <1>1, <2>1 DEF Typed, Held
  <2>4. CachedChild(Name) \in Got(Name, Instance.uid)
    <3>1. Name \in Names BY <1>4, <2>3
    <3>2. childSeen[Name] \in 1..Len(children[Name]) /\ DOMAIN children[Name] = 1..Len(children[Name])
      BY <3>1, ChildrenTyped, LenProperties DEF Typed, TypeOK
    <3>3. CachedChild(Name) \in Range(children[Name]) BY <3>2 DEF Range, CachedChild
    <3> QED BY <1>5, <2>1, <2>3, <3>3 DEF Got
  <2>5. \A i \in 1..worker.at : Got(NameOf(active, Steps[i]), Instance.uid) # {}
    <3> SUFFICES ASSUME NEW i \in 1..worker.at
                 PROVE  Got(NameOf(active, Steps[i]), Instance.uid) # {}
      OBVIOUS
    <3>1. CASE i = worker.at BY <1>4, <2>3, <2>4, <3>1
    <3>2. CASE i < worker.at
      <4>1. i \in 1..Len(Steps) BY <1>3, <2>3, <3>2
      <4> QED BY <1>6, <3>2, <4>1
    <3> QED BY <1>3, <3>1, <3>2
  <2>6. OneIncarnation' /\ Owned' BY <2>1, BelongingStays DEF Reported
  <2>7. Awaited'
    <3>1. \A n \in Names : \A m \in childSeen[n]..(Len(children[n]) - 1) : ~Created(n, m)
      <4> SUFFICES ASSUME NEW n \in Names, NEW m \in childSeen[n]..(Len(children[n]) - 1),
                          Created(n, m)
                   PROVE  FALSE
        OBVIOUS
      <4>1. n = Name /\ \A j \in childSeen[n]..m : ~children[n][j].live
        BY DEF Reported, Awaited
      <4>2. childSeen[n] \in childSeen[n]..m
        <5>1. childSeen[n] \in 1..Len(children[n]) /\ Len(children[n]) \in Nat BY ChildrenTyped
        <5> QED BY <5>1
      <4> QED BY <2>1, <4>1, <4>2 DEF CachedChild
    <3> QED BY <2>1, <3>1 DEF Awaited, Created
  <2>8. Written' BY <2>1, <2>2, WrittenStays DEF Reported
  <2>9. WorkerGot'
    <3>1. CASE /\ GoTo("finish")
               /\ CachedChild(Name).result = "Failure" /\ CachedChild(Name).stop
      <4>1. worker'.snap = worker.snap /\ worker'.at = worker.at BY <1>2, <3>1
      <4>2. Over(active, Instance)
        <5>1. worker.at \in 1..Len(Steps) /\ Name = NameOf(active, Steps[worker.at])
          BY <1>4, <2>3
        <5> QED BY <1>3, <2>4, <2>5, <3>1, <5>1 DEF Over
      <4> QED BY <2>1, <2>2, <4>1, <4>2, WorkerGotStays DEF Reported
    <3>2. CASE Advance
      <4>1. /\ worker'.snap = worker.snap /\ worker'.at = worker.at + 1
            /\ worker'.pc = "launch"
        BY <1>1, <3>2 DEF Advance, Worker
      <4>2. Instance' = Instance /\ Steps' = Steps BY <2>1, <4>1 DEF Instance, Steps
      <4>3. \A i \in 1..Len(Steps) : i < worker'.at => i \in 1..worker.at BY <1>3, <4>1
      <4>4. \A i \in 1..Len(Steps) : i < worker'.at =>
              Got(NameOf(active, Steps[i]), Instance.uid) # {}
        BY <2>5, <4>3
      <4> QED BY <2>1, <4>1, <4>2, <4>4 DEF WorkerGot, Got
    <3> QED BY <1>11, <3>1, <3>2 DEF WaitEnds
  <2> QED BY <2>6, <2>7, <2>8, <2>9 DEF Reported
<1>12. CASE updateStatus
  <2>1. /\ worker.pc = "finish" /\ WriteStatus(active, worker.snap, "Finished")
        /\ active' = NoKey /\ UNCHANGED <<children, childSeen>>
    BY <1>12 DEF updateStatus, Done, childVars
  <2>2. Over(active, Instance) BY <1>1, <2>1 DEF Reported, WorkerGot
  <2>3. WorkerGot' BY <2>1 DEF WorkerGot
  <2>4. CASE UNCHANGED revisions BY <2>1, <2>3, <2>4, QuietReports
  <2>5. CASE /\ worker.snap = Latest(active)
             /\ Store(active, [revisions[active][worker.snap] EXCEPT !.status = "Finished"])
    <3> DEFINE object == [Instance EXCEPT !.status = "Finished"]
    <3>1. /\ object \in Object /\ object.live /\ object.uid = Instance.uid
          /\ object.spec = Instance.spec
      BY <1>3, FinishedAssumption DEF Object
    <3>2. Store(active, object) /\ Instance = Obj(active) BY <2>5 DEF Instance, Obj
    <3> HIDE DEF object
    <3>3. Over(active, object) BY <2>2, <3>1 DEF Over
    <3> QED BY <1>3, <2>1, <3>1, <3>2, <3>3, StoredReports
  <2> QED BY <2>1, <2>4, <2>5 DEF WriteStatus
<1> QED BY <1>7, <1>8, <1>9, <1>10, <1>11, <1>12 DEF Proceed

(* Both invariants together.                                               *)
LEMMA UndisturbedBefore == faults \subseteq faults' /\ Undisturbed' => Undisturbed
BY DEF Undisturbed, Without

LEMMA FaultsStay ==
  ASSUME [Next]_vars
  PROVE  faults \subseteq faults'
<1>1. CASE UNCHANGED vars BY <1>1 DEF vars, runtimeVars
<1>2. CASE Proceed
  BY <1>2 DEF Proceed, PlanDone, LaunchFinds, LaunchCreates, LaunchFails, WaitEnds,
              updateStatus, WriteStatus, Disturb, runtimeVars
<1>3. CASE Crash BY <1>3 DEF Crash, Disturb
<1>4. ASSUME NEW k \in Keys, Begin(k) PROVE faults \subseteq faults'
  BY <1>4 DEF Begin, BeginSkips, BeginRuns
<1>5. ASSUME NEW k \in Keys, User(k) \/ Informer(k) PROVE faults \subseteq faults'
  BY <1>5 DEF User, UserCreates, UserEdits, UserDeletes, Informer, InformerReceives,
              HandlerEnqueues, Resync, ResyncLags, Disturb
<1>6. ASSUME NEW n \in Names, Children(n) PROVE faults \subseteq faults'
  BY <1>6 DEF Children, ChildDeleted, Disturb, runtimeVars
<1> QED BY <1>1, <1>2, <1>3, <1>4, <1>5, <1>6 DEF Next

LEMMA NextReports ==
  ASSUME Typed, Reported, Undisturbed', [Next]_vars
  PROVE  Reported'
<1>1. CASE UNCHANGED vars
  BY <1>1, QuietReports DEF vars, runtimeVars, childVars
<1>2. ASSUME NEW k \in Keys, Informer(k), UNCHANGED <<childVars, worker>> PROVE Reported'
  <2>1. UNCHANGED <<revisions, active>> BY <1>2, InformerTyped DEF Typed, TypeOK
  <2> QED BY <1>2, <2>1, QuietReports DEF childVars
<1> QED BY <1>1, <1>2, UserReports, CrashReports, BeginReports, ChildrenReport, ProceedReports
    DEF Next

(* Without failed creations and second runs of a name, whatever else is    *)
(* done to runs and tests, a run reports Finished only when its plan is    *)
(* worked through or a failure has stopped it.                             *)
THEOREM FinishedIsOver == Spec => []OverUnlessRefused
<1> DEFINE Inv == RunInv /\ (Undisturbed => Reported)
<1>1. Init => Inv BY InitRuns, InitReported
<1>2. Inv /\ [Next]_vars => Inv'
  BY NextKeeps, FaultsStay, UndisturbedBefore, NextReports DEF RunInv
<1>3. Inv => OverUnlessRefused
  BY DEF OverUnlessRefused, FinishedMeansOver, Undisturbed, Reported, Written
<1> QED BY <1>1, <1>2, <1>3, PTL DEF Spec

-----------------------------------------------------------------------------
(* The two controllers together.                                           *)

(* The tests, as their controller stores them, and as the runs see them.   *)
Wants   == [owner: Nat, stop: BOOLEAN]
TestObject == [live: BOOLEAN, uid: Nat, spec: Wants \cup {NoSpec}, status: Results]
Viewed ==
  /\ tests \in [Names -> Seq(TestObject)]
  /\ children = Views

(* The worker of the tests holds a copy without a result, until it has one *)
(* to write.                                                               *)
TestHeld ==
  /\ testWorker \in C!Worker
  /\ testWorker.pc # "idle" =>
       /\ testWorker.pc \in {"poll", "status"}
       /\ testActive \in Names
       /\ testWorker.snap \in 1..Len(tests[testActive])
       /\ tests[testActive][testWorker.snap].live
       /\ tests[testActive][testWorker.snap].status = "none"
  /\ testWorker.pc = "status" => testWorker.verdict \in {"Success", "Failure"}

SeenInv == RunInv /\ Viewed /\ TestHeld

-----------------------------------------------------------------------------
(* What a run sees.                                                        *)
LEMMA ViewTyped ==
  ASSUME NEW test \in TestObject
  PROVE  /\ View(test) \in Child
         /\ View(test).live = test.live /\ View(test).result = test.status
BY DEF View, Child, TestObject, Wants

LEMMA ViewFollows ==
  ASSUME NEW test \in TestObject, NEW result \in Results, NEW live \in BOOLEAN
  PROVE  /\ [test EXCEPT !.status = result] \in TestObject
         /\ View([test EXCEPT !.status = result]) = [View(test) EXCEPT !.result = result]
         /\ [test EXCEPT !.live = live] \in TestObject
         /\ View([test EXCEPT !.live = live]) = [View(test) EXCEPT !.live = live]
<1> DEFINE decided == [test EXCEPT !.status = result]
           lives   == [test EXCEPT !.live = live]
<1>1. /\ decided \in TestObject /\ decided.live = test.live /\ decided.spec = test.spec
      /\ decided.status = result
      /\ lives \in TestObject /\ lives.live = live /\ lives.spec = test.spec
      /\ lives.status = test.status
  BY DEF TestObject
<1> HIDE DEF decided, lives
<1>2. View(decided) = [View(test) EXCEPT !.result = result] BY <1>1 DEF View
<1>3. View(lives) = [View(test) EXCEPT !.live = live] BY <1>1 DEF View
<1> QED BY <1>1, <1>2, <1>3 DEF decided, lives

LEMMA TestsSeen ==
  ASSUME SeenInv, NEW n \in Names
  PROVE  /\ tests[n] \in Seq(TestObject) /\ children[n] \in Seq(Child)
         /\ Len(tests[n]) \in Nat /\ Len(tests[n]) >= 1
         /\ Len(children[n]) = Len(tests[n])
         /\ childSeen[n] \in 1..Len(tests[n])
         /\ \A m \in 1..Len(tests[n]) : /\ tests[n][m] \in TestObject
                                        /\ children[n][m] = View(tests[n][m])
         /\ C!Obj(n) = tests[n][Len(tests[n])] /\ C!Obj(n) \in TestObject
         /\ C!Latest(n) = Len(tests[n])
         /\ ChildObj(n) = View(C!Obj(n))
<1>1. tests[n] \in Seq(TestObject) BY DEF SeenInv, Viewed
<1>2. Len(tests[n]) \in Nat /\ \A m \in 1..Len(tests[n]) : tests[n][m] \in TestObject
  BY <1>1, LenProperties, ElementOfSeq
<1>3. children[n] = [m \in 1..Len(tests[n]) |-> View(tests[n][m])]
  BY DEF SeenInv, Viewed, Views
<1>4. Typed BY DEF SeenInv, RunInv
<1>5. children[n] \in Seq(Child) BY <1>4 DEF Typed, TypeOK
<1>6. Len(children[n]) = Len(tests[n]) BY <1>2, <1>3, <1>5, LenProperties
<1>7. Len(children[n]) >= 1 /\ childSeen[n] \in 1..Len(children[n]) BY <1>4, ChildrenTyped
<1>8. C!Obj(n) = tests[n][Len(tests[n])] /\ C!Latest(n) = Len(tests[n])
  BY DEF C!Obj, C!Latest
<1>9. Len(tests[n]) \in 1..Len(tests[n]) BY <1>2, <1>6, <1>7
<1> QED BY <1>1, <1>2, <1>3, <1>5, <1>6, <1>7, <1>8, <1>9 DEF ChildObj

(* A revision stored is a revision seen.                                   *)
LEMMA RevisionStored ==
  ASSUME SeenInv, NEW n \in Names, NEW test \in TestObject, C!Store(n, test)
  PROVE  /\ tests' \in [Names -> Seq(TestObject)]
         /\ Len(tests'[n]) = Len(tests[n]) + 1
         /\ tests'[n][Len(tests[n]) + 1] = test
         /\ \A m \in 1..Len(tests[n]) : tests'[n][m] = tests[n][m]
         /\ \A x \in Names \ {n} : tests'[x] = tests[x]
         /\ Views' = [children EXCEPT ![n] = Append(@, View(test))]
<1>1. /\ tests' \in [Names -> Seq(TestObject)]
      /\ Len(tests'[n]) = Len(tests[n]) + 1
      /\ tests'[n][Len(tests[n]) + 1] = test
      /\ \A m \in 1..Len(tests[n]) : tests'[n][m] = tests[n][m]
      /\ \A x \in Names \ {n} : tests'[x] = tests[x]
  BY AppendToOne DEF SeenInv, Viewed, C!Store
<1> DEFINE seen1 == [i \in 1..Len(tests'[n]) |-> View(tests'[n][i])]
           seen2 == Append(children[n], View(test))
<1>2. /\ children[n] \in Seq(Child) /\ Len(children[n]) = Len(tests[n]) /\ Len(tests[n]) \in Nat
      /\ \A m \in 1..Len(tests[n]) : children[n][m] = View(tests[n][m])
  BY TestsSeen
<1>3. /\ seen2 \in Seq(Child) /\ Len(seen2) = Len(tests[n]) + 1
      /\ \A i \in 1..Len(tests[n]) : seen2[i] = children[n][i]
      /\ seen2[Len(tests[n]) + 1] = View(test)
  BY <1>2, ViewTyped, AppendProperties
<1>4. seen2 = [i \in 1..(Len(tests[n]) + 1) |-> seen2[i]] BY <1>3, LenProperties
<1> HIDE DEF seen2
<1>5. \A i \in 1..(Len(tests[n]) + 1) : seen2[i] = View(tests'[n][i])
  <2> SUFFICES ASSUME NEW i \in 1..(Len(tests[n]) + 1) PROVE seen2[i] = View(tests'[n][i])
    OBVIOUS
  <2>1. CASE i = Len(tests[n]) + 1 BY <1>1, <1>3, <2>1
  <2>2. CASE i # Len(tests[n]) + 1
    <3>1. i \in 1..Len(tests[n]) BY <1>2, <2>2
    <3> QED BY <1>1, <1>2, <1>3, <3>1
  <2> QED BY <2>1, <2>2
<1>6. seen1 = seen2 BY <1>1, <1>4, <1>5
<1>7. Views'[n] = seen2 BY <1>6 DEF Views
<1>8. \A x \in Names \ {n} : Views'[x] = children[x]
  BY <1>1 DEF Views, SeenInv, Viewed
<1>9. children \in [Names -> Seq(Child)] BY DEF SeenInv, RunInv, Typed, TypeOK
<1>10. Views' = [x \in Names |-> Views'[x]] BY DEF Views
<1> HIDE DEF seen1
<1>11. [children EXCEPT ![n] = Append(@, View(test))]
         = [x \in Names |-> IF x = n THEN seen2 ELSE children[x]]
  BY <1>9 DEF seen2
<1>12. Views' = [x \in Names |-> IF x = n THEN seen2 ELSE children[x]]
  BY <1>7, <1>8, <1>10
<1> QED BY <1>1, <1>11, <1>12

LEMMA TestsLeft == UNCHANGED tests => Views' = Views
BY DEF Views

-----------------------------------------------------------------------------
(* What the worker of the tests holds outlives what is stored.             *)
LEMMA HeldOn ==
  ASSUME SeenInv, UNCHANGED <<testWorker, testActive>>,
         \A n \in Names : /\ Len(tests'[n]) \in Nat /\ Len(tests'[n]) >= Len(tests[n])
                          /\ \A m \in 1..Len(tests[n]) : tests'[n][m] = tests[n][m]
  PROVE  TestHeld'
<1> SUFFICES ASSUME testWorker.pc # "idle"
             PROVE  /\ testWorker.snap \in 1..Len(tests'[testActive])
                    /\ tests'[testActive][testWorker.snap] = tests[testActive][testWorker.snap]
  BY DEF TestHeld, SeenInv, C!Worker
<1>1. testActive \in Names /\ testWorker.snap \in 1..Len(tests[testActive])
  BY DEF TestHeld, SeenInv
<1>2. Len(tests[testActive]) \in Nat BY <1>1, TestsSeen
<1> QED BY <1>1, <1>2

LEMMA IdleHeld ==
  ASSUME testWorker' = C!Idle
  PROVE  TestHeld'
<1>1. C!Idle \in C!Worker BY DEF C!Idle, C!Worker
<1> QED BY <1>1 DEF TestHeld, C!Idle

(* The tests stay: what the runs see of them does too.                     *)
LEMMA NothingSeen ==
  ASSUME SeenInv, UNCHANGED tests, children' = Views'
  PROVE  UNCHANGED children /\ Viewed'
BY TestsLeft DEF SeenInv, Viewed

(* The run controller: what it creates is a test.                          *)
LEMMA RunWorksSeen ==
  ASSUME SeenInv, RunWorks
  PROVE  Next /\ Viewed' /\ TestHeld'
<1>1. Next BY DEF RunWorks, Next
<1>2. Typed BY DEF SeenInv, RunInv
<1>3. UNCHANGED <<testWorker, testActive, childSeen>>
  BY DEF RunWorks, testRest, Proceed, PlanDone, LaunchFinds, LaunchCreates, LaunchFails,
         WaitEnds, updateStatus, childVars
<1>4. CASE children' = children
  <2>1. UNCHANGED tests BY <1>4 DEF RunWorks
  <2>2. Viewed' BY <1>4, <2>1, TestsLeft DEF SeenInv, Viewed
  <2>3. TestHeld' BY <1>3, <2>1, TestsSeen, HeldOn
  <2> QED BY <1>1, <2>2, <2>3
<1>5. CASE children' # children
  <2> DEFINE test == newCurlTestCR(Name, Instance, Step)
  <2>1. C!Store(Name, test) BY <1>5 DEF RunWorks
  <2>2. /\ worker.pc = "launch" /\ worker.at <= Len(Steps)
        /\ StoreChild(Name, newTestCR(Instance.uid, Step.stop))
    BY <1>5 DEF RunWorks, Proceed, PlanDone, LaunchFinds, LaunchCreates, LaunchFails,
                WaitEnds, updateStatus, childVars
  <2>3. active # NoKey BY <1>2, <2>2 DEF Typed, TypeOK
  <2>4. Name \in Names /\ Instance.uid \in Nat /\ Step.stop \in BOOLEAN
    BY <1>2, <2>2, <2>3, WorkerKnows DEF Object
  <2>5. C!Latest(Name) \in Nat BY <2>4, TestsSeen
  <2>6. test \in TestObject
    <3>1. [owner |-> Instance.uid, stop |-> Step.stop] \in Wants BY <2>4 DEF Wants
    <3> QED BY <2>5, <3>1 DEF newCurlTestCR, TestObject, Results
  <2>7. View(test) = newTestCR(Instance.uid, Step.stop)
    <3>1. [owner |-> Instance.uid, stop |-> Step.stop] # NoSpec
      BY <2>4, NoSpecAssumption
    <3>2. /\ test.spec = [owner |-> Instance.uid, stop |-> Step.stop]
          /\ test.live /\ test.status = "none"
      BY DEF newCurlTestCR
    <3> QED BY <2>4, <3>1, <3>2 DEF View, newTestCR, newCurlTestCR
  <2> HIDE DEF test
  <2>8. /\ tests' \in [Names -> Seq(TestObject)]
        /\ Len(tests'[Name]) = Len(tests[Name]) + 1
        /\ \A m \in 1..Len(tests[Name]) : tests'[Name][m] = tests[Name][m]
        /\ \A x \in Names \ {Name} : tests'[x] = tests[x]
        /\ Views' = [children EXCEPT ![Name] = Append(@, View(test))]
    BY <2>1, <2>4, <2>6, RevisionStored
  <2>9. Viewed' BY <2>2, <2>7, <2>8 DEF Viewed, StoreChild
  <2>10. ASSUME NEW n \in Names
         PROVE  /\ Len(tests'[n]) \in Nat /\ Len(tests'[n]) >= Len(tests[n])
                /\ \A m \in 1..Len(tests[n]) : tests'[n][m] = tests[n][m]
    BY <2>8, TestsSeen
  <2>11. TestHeld' BY <1>3, <2>10, HeldOn
  <2> QED BY <1>1, <2>9, <2>11
<1> QED BY <1>4, <1>5

(* The test controller: a result it writes is one the run has no result of *)
(* before, and of a test that still exists.                                *)
LEMMA ResultSeen ==
  ASSUME SeenInv, C!Finishes, UNCHANGED <<runtimeVars, worker>>, children' = Views'
  PROVE  [Next]_vars /\ Viewed' /\ TestHeld'
<1> DEFINE n == testActive
<1>1. /\ n \in Names /\ testWorker.snap \in 1..Len(tests[n])
      /\ tests[n][testWorker.snap].live /\ tests[n][testWorker.snap].status = "none"
      /\ testWorker.verdict \in {"Success", "Failure"}
  BY DEF SeenInv, TestHeld, C!Finishes, C!updateStatus
<1>2. /\ childSeen' = childSeen /\ TestHeld'
      /\ C!WriteStatus(n, testWorker.snap, testWorker.verdict)
  BY IdleHeld DEF C!Finishes, C!updateStatus
<1>3. CASE UNCHANGED tests
  BY <1>2, <1>3, NothingSeen DEF vars, childVars
<1>4. CASE tests' # tests
  <2> DEFINE test == [C!Obj(n) EXCEPT !.status = testWorker.verdict]
  <2>1. testWorker.snap = C!Latest(n) /\ C!Store(n, test)
    BY <1>2, <1>4 DEF C!WriteStatus, C!Obj
  <2>2. /\ C!Obj(n) \in TestObject /\ C!Obj(n).live /\ C!Obj(n).status = "none"
        /\ ChildObj(n) = View(C!Obj(n))
    BY <1>1, <2>1, TestsSeen DEF C!Obj
  <2>3. /\ test \in TestObject
        /\ View(test) = [View(C!Obj(n)) EXCEPT !.result = testWorker.verdict]
    BY <1>1, <2>2, ViewFollows DEF Results
  <2> HIDE DEF test
  <2>4. /\ tests' \in [Names -> Seq(TestObject)]
        /\ Views' = [children EXCEPT ![n] = Append(@, View(test))]
    BY <1>1, <2>1, <2>3, RevisionStored
  <2>5. ChildDecided(n, testWorker.verdict)
    <3>1. ChildObj(n).live /\ ChildObj(n).result = "none" BY <2>2, ViewTyped
    <3>2. StoreChild(n, [ChildObj(n) EXCEPT !.result = testWorker.verdict])
      BY <2>2, <2>3, <2>4 DEF StoreChild
    <3> QED BY <1>2, <3>1, <3>2 DEF ChildDecided
  <2>6. Next BY <1>1, <2>5 DEF Next, Children
  <2> QED BY <1>2, <2>4, <2>6 DEF Viewed
<1> QED BY <1>3, <1>4

LEMMA TestWorksSeen ==
  ASSUME SeenInv, TestWorks
  PROVE  [Next]_vars /\ Viewed' /\ TestHeld'
<1>1. UNCHANGED <<runtimeVars, worker>> /\ children' = Views' BY DEF TestWorks, TestStep
<1>2. CASE C!Finishes BY <1>1, <1>2, ResultSeen
<1>3. CASE \/ C!PollMissing \/ C!PollFailed \/ C!PollUnfinished \/ C!PollLogsFail
           \/ C!ReadsLogs
  <2>1. UNCHANGED <<tests, childSeen>>
    BY <1>3 DEF C!PollMissing, C!PollFailed, C!PollUnfinished, C!PollLogsFail, C!ReadsLogs,
                C!PollReadsLogs, C!runtimeVars
  <2>2. TestHeld'
    <3>1. testWorker \in C!Worker BY DEF SeenInv, TestHeld
    <3>2. CASE C!PollUnfinished \/ C!PollLogsFail
      BY <3>2, IdleHeld DEF C!PollUnfinished, C!PollLogsFail
    <3>3. CASE C!PollMissing \/ C!PollFailed \/ C!ReadsLogs
      <4>1. /\ testWorker.pc = "poll" /\ testActive' = testActive
            /\ \/ \E verdict \in {"Success", "Failure"} : C!Decide(verdict)
               \/ testWorker' = [testWorker EXCEPT !.sec = C!SleepAfter(@)]
        BY <3>3 DEF C!PollMissing, C!PollFailed, C!ReadsLogs, C!PollReadsLogs, C!CanRead,
                    C!Polls, C!runtimeVars, C!writeConditionsFromLogs
      <4>2. ASSUME NEW verdict \in {"Success", "Failure"}, C!Decide(verdict)
            PROVE  /\ testWorker' \in C!Worker /\ testWorker'.snap = testWorker.snap
                   /\ testWorker'.pc = "status" /\ testWorker'.verdict \in {"Success", "Failure"}
        BY <3>1, <4>2 DEF C!Decide, C!Worker
      <4>3. ASSUME testWorker' = [testWorker EXCEPT !.sec = C!SleepAfter(@)]
            PROVE  /\ testWorker' \in C!Worker /\ testWorker'.snap = testWorker.snap
                   /\ testWorker'.pc = testWorker.pc
        <5>1. C!SleepAfter(testWorker.sec) \in {10, 30, 60, 200}
          BY <3>1 DEF C!SleepAfter, C!Worker
        <5> QED BY <3>1, <4>3, <5>1 DEF C!Worker
      <4> QED BY <2>1, <4>1, <4>2, <4>3 DEF SeenInv, TestHeld
    <3> QED BY <1>3, <3>2, <3>3
  <2> QED BY <1>1, <2>1, <2>2, NothingSeen DEF vars, childVars
<1> QED BY <1>2, <1>3 DEF TestWorks, TestStep

LEMMA TestBeginsSeen ==
  ASSUME SeenInv, NEW n \in Names, TestBegins(n)
  PROVE  [Next]_vars /\ Viewed' /\ TestHeld'
<1>1. /\ C!Begin(n) /\ UNCHANGED <<runtimeVars, worker, tests, childSeen>>
      /\ children' = Views'
  BY DEF TestBegins, TestStep, C!Begin, C!BeginSkips, C!BeginFindsJob, C!BeginCreatesJob,
         C!BeginFails
<1>2. CASE C!StartPolling(n) /\ C!Cached(n).live /\ C!Cached(n).status = "none" /\ testActive' = n
  <2>1. /\ childSeen[n] \in 1..Len(tests[n]) /\ Len(tests[n]) \in Nat BY TestsSeen
  <2>2. /\ testWorker' = [C!Idle EXCEPT !.pc = "poll", !.snap = childSeen[n]]
        /\ childSeen[n] \in Nat
    BY <1>2, <2>1 DEF C!StartPolling
  <2>3. /\ testWorker' \in C!Worker /\ testWorker'.pc = "poll"
        /\ testWorker'.snap = childSeen[n]
    BY <2>2 DEF C!Idle, C!Worker
  <2>4. TestHeld' BY <1>1, <1>2, <2>1, <2>3 DEF TestHeld, C!Cached
  <2> QED BY <1>1, <2>4, NothingSeen DEF vars, childVars
<1>3. CASE UNCHANGED <<testActive, testWorker>>
  BY <1>1, <1>3, NothingSeen DEF SeenInv, TestHeld, vars, childVars
<1> QED BY <1>1, <1>2, <1>3
        DEF C!Begin, C!BeginSkips, C!BeginFindsJob, C!BeginCreatesJob, C!BeginFails, C!QueueGet

LEMMA TestInformerSeen ==
  ASSUME SeenInv, NEW n \in Names, TestInformer(n, TestWatch(n))
  PROVE  [Next]_vars /\ Viewed' /\ TestHeld'
<1>1. /\ UNCHANGED <<runtimeVars, worker, tests, testActive, testWorker>> /\ children' = Views'
      /\ TestWatch(n)
  BY DEF TestInformer, TestStep, TestWatch, C!InformerReceives, C!HandlerEnqueues
<1>2. Viewed' /\ TestHeld' /\ UNCHANGED children
  BY <1>1, NothingSeen DEF SeenInv, TestHeld
<1>3. CASE C!InformerReceives(n)
  <2>1. ChildSeen(n)
    BY <1>2, <1>3, TestsSeen DEF C!InformerReceives, ChildSeen
  <2> QED BY <1>1, <1>2, <2>1 DEF Next, Children
<1>4. CASE C!HandlerEnqueues(n)
  BY <1>1, <1>2, <1>4 DEF C!HandlerEnqueues, vars, childVars
<1> QED BY <1>1, <1>3, <1>4 DEF TestWatch

LEMMA ClusterSeen ==
  ASSUME SeenInv, NEW n \in Names, TestStep(C!Cluster(n))
  PROVE  [Next]_vars /\ Viewed' /\ TestHeld'
<1>1. /\ UNCHANGED <<runtimeVars, worker, tests, childSeen, testActive, testWorker>>
      /\ children' = Views'
  BY DEF TestStep, C!Cluster, C!runtimeVars
<1> QED BY <1>1, NothingSeen DEF SeenInv, TestHeld, vars, childVars

LEMMA CollectedSeen ==
  ASSUME SeenInv, NEW n \in Names, TestCollected(n)
  PROVE  [Next]_vars /\ Viewed' /\ TestHeld'
<1> DEFINE test == [C!Obj(n) EXCEPT !.live = FALSE]
<1>1. /\ ChildCollected(n) /\ C!Store(n, test)
      /\ UNCHANGED <<runtimeVars, worker, testActive, testWorker>>
  BY DEF TestCollected, testRest
<1>2. /\ test \in TestObject /\ View(test) = [ChildObj(n) EXCEPT !.live = FALSE]
  BY TestsSeen, ViewFollows DEF Results
<1> HIDE DEF test
<1>3. /\ tests' \in [Names -> Seq(TestObject)]
      /\ Len(tests'[n]) = Len(tests[n]) + 1
      /\ \A m \in 1..Len(tests[n]) : tests'[n][m] = tests[n][m]
      /\ \A x \in Names \ {n} : tests'[x] = tests[x]
      /\ Views' = [children EXCEPT ![n] = Append(@, View(test))]
  BY <1>1, <1>2, RevisionStored
<1>4. Viewed' BY <1>1, <1>2, <1>3 DEF Viewed, ChildCollected, StoreChild
<1>5. ASSUME NEW x \in Names
      PROVE  /\ Len(tests'[x]) \in Nat /\ Len(tests'[x]) >= Len(tests[x])
             /\ \A m \in 1..Len(tests[x]) : tests'[x][m] = tests[x][m]
  <2>1. Len(tests[x]) \in Nat BY TestsSeen
  <2>2. CASE x = n BY <1>3, <2>1, <2>2
  <2>3. CASE x # n BY <1>3, <2>1, <2>3
  <2> QED BY <2>2, <2>3
<1>6. TestHeld' BY <1>1, <1>5, HeldOn
<1>7. Next BY <1>1 DEF Next, Children
<1> QED BY <1>4, <1>6, <1>7

LEMMA DiesSeen ==
  ASSUME SeenInv, Dies
  PROVE  [Next]_vars /\ Viewed' /\ TestHeld'
<1>1. /\ Crash /\ UNCHANGED <<tests, children>> /\ testWorker' = C!Idle
  BY DEF Dies, Crash, C!Crash, C!PollPanics, C!Restart, C!RuntimeRestarts
<1>2. Viewed' BY <1>1, TestsLeft DEF SeenInv, Viewed
<1> QED BY <1>1, <1>2, IdleHeld DEF Next

(* Every step of the two together is one of the run controller with tests  *)
(* that change as it expects, or none.                                     *)
LEMMA StepsSeen ==
  ASSUME SeenInv, [OperatorNext]_allVars
  PROVE  [Next]_vars /\ SeenInv'
<1>1. [Next]_vars /\ Viewed' /\ TestHeld'
  <2>1. CASE UNCHANGED allVars
    <3>1. UNCHANGED <<vars, children, tests, testActive, testWorker>>
      BY <2>1 DEF allVars, vars, childVars, testRest
    <3> QED BY <3>1, TestsLeft DEF SeenInv, Viewed, TestHeld
  <2>2. ASSUME NEW k \in Keys, RunBegins(k) \/ RunChanges(User(k) \/ Watch(k))
        PROVE  [Next]_vars /\ Viewed' /\ TestHeld'
    <3>1. /\ UNCHANGED <<tests, testActive, testWorker, childVars>>
          /\ \/ Begin(k)
             \/ (User(k) \/ Informer(k)) /\ UNCHANGED <<childVars, worker>>
      BY <2>2 DEF RunBegins, RunChanges, Watch, Informer, Begin, BeginSkips, BeginRuns, testRest
    <3>2. Viewed' /\ TestHeld'
      BY <3>1, TestsLeft DEF SeenInv, Viewed, TestHeld, childVars
    <3> QED BY <3>1, <3>2 DEF Next
  <2>3. CASE RunWorks BY <2>3, RunWorksSeen
  <2> QED BY <2>1, <2>2, <2>3, TestWorksSeen, DiesSeen, TestBeginsSeen, CollectedSeen,
             TestInformerSeen, ClusterSeen DEF OperatorNext
<1> QED BY <1>1, NextKeeps DEF SeenInv

LEMMA InitSeen == OperatorInit => SeenInv
<1> SUFFICES ASSUME OperatorInit PROVE SeenInv OBVIOUS
<1>1. Init /\ C!Init BY DEF OperatorInit
<1>2. /\ tests = [n \in Names |-> <<C!Absent>>] /\ testWorker = C!Idle
  BY <1>1 DEF C!Init, C!TestInit, C!RuntimeInit
<1>3. C!Absent \in TestObject /\ View(C!Absent) = NoChild
  BY DEF C!Absent, TestObject, Results, View, NoChild
<1>4. Viewed
  <2>1. tests \in [Names -> Seq(TestObject)] BY <1>2, <1>3
  <2>2. ASSUME NEW n \in Names
        PROVE  [i \in 1..Len(tests[n]) |-> View(tests[n][i])] = <<NoChild>>
    <3>1. tests[n] = <<C!Absent>> BY <1>2
    <3>2. Len(tests[n]) = 1 /\ \A i \in 1..1 : View(tests[n][i]) = NoChild BY <1>3, <3>1
    <3> QED BY <3>2
  <2>3. children = [n \in Names |-> <<NoChild>>] BY <1>1 DEF Init
  <2> QED BY <2>1, <2>2, <2>3 DEF Viewed, Views
<1>5. TestHeld
  <2>1. C!Idle \in C!Worker BY DEF C!Idle, C!Worker
  <2> QED BY <1>2, <2>1 DEF TestHeld, C!Idle
<1> QED BY <1>1, <1>4, <1>5, InitRuns DEF SeenInv

(* RunSeesTests: the two controllers over the same CurlTests, with their   *)
(* Jobs, pods and caches and one process that dies as a whole, implement   *)
(* the TestRun controller that takes its tests for granted.                *)
THEOREM TestsAreAsTaken == OperatorSpec => RunSeesTests
<1>1. OperatorInit => Init /\ SeenInv BY InitSeen DEF OperatorInit
<1>2. SeenInv /\ [OperatorNext]_allVars => [Next]_vars /\ SeenInv' BY StepsSeen
<1> QED BY <1>1, <1>2, PTL DEF OperatorSpec, RunSeesTests, Spec

-----------------------------------------------------------------------------
(* The load that tests put on their targets.  A Job that exists was        *)
(* launched for a test that existed; a result is there, or about to be     *)
(* written, only after a Job has ended: the timeout of the wait for a      *)
(* missing Job is never reached.                                           *)
Ended(n) == \E j \in 1..Len(jobs[n]) : jobs[n][j].live /\ ~C!Running(jobs[n][j])

JobObject == [live: BOOLEAN, id: Nat, owner: Nat, spec: Wants \cup {NoSpec},
              succeeded: 0..1, failed: 0..1, complete: BOOLEAN, log: C!AnyLog]
JobsTyped ==
  /\ jobs \in [Names -> Seq(JobObject)]
  /\ jobSeen \in [Names -> Nat]
  /\ \A n \in Names : jobSeen[n] \in 1..Len(jobs[n])
Launched ==
  \A n \in Names : \A j \in 1..Len(jobs[n]) : jobs[n][j].live =>
    \E m \in 1..Len(tests[n]) : tests[n][m].live
ResultsCome ==
  \A n \in Names : \A m \in 1..Len(tests[n]) : tests[n][m].status # "none" => Ended(n)
WorkerWaits ==
  /\ testWorker.sec \in {10, 30}
  /\ testWorker.pc = "status" => Ended(testActive)

(* As long as the run exists, its tests and their Jobs stay, each test with*)
(* the Jobs it owns, and a Job that has ended is not followed by another.  *)
Stays(n) ==
  /\ \A m \in 1..Len(tests[n]) : tests[n][m].live => tests[n][m].uid = C!Obj(n).uid
  /\ \A j \in 1..Len(jobs[n]) : jobs[n][j].live =>
       /\ C!JobObj(n).live /\ jobs[n][j].owner = C!Obj(n).uid
       /\ C!Running(C!JobObj(n)) => C!Running(jobs[n][j])
JobsStay == \A n \in Names : Obj(n[1]).live => Stays(n)

LoadInv == JobsTyped /\ Launched /\ ResultsCome /\ WorkerWaits
OperatorInv == SeenInv /\ LoadInv /\ (Untouched => JobsStay)

-----------------------------------------------------------------------------
LEMMA JobsOfTests ==
  ASSUME JobsTyped, NEW n \in Names
  PROVE  /\ Len(jobs[n]) \in Nat /\ Len(jobs[n]) \in 1..Len(jobs[n])
         /\ jobSeen[n] \in 1..Len(jobs[n])
         /\ \A j \in 1..Len(jobs[n]) : jobs[n][j] \in JobObject
         /\ C!JobObj(n) = jobs[n][Len(jobs[n])] /\ C!JobObj(n) \in JobObject
         /\ C!CachedJob(n) = jobs[n][jobSeen[n]] /\ C!CachedJob(n) \in JobObject
<1>1. jobs[n] \in Seq(JobObject) /\ jobSeen[n] \in 1..Len(jobs[n]) BY DEF JobsTyped
<1>2. Len(jobs[n]) \in Nat /\ \A j \in 1..Len(jobs[n]) : jobs[n][j] \in JobObject
  BY <1>1, LenProperties, ElementOfSeq
<1>3. Len(jobs[n]) \in 1..Len(jobs[n]) BY <1>1, <1>2
<1> QED BY <1>1, <1>2, <1>3 DEF C!JobObj, C!CachedJob

LEMMA JobAppends ==
  ASSUME JobsTyped, NEW n \in Names, NEW job \in JobObject, C!StoreJob(n, job)
  PROVE  /\ jobs' \in [Names -> Seq(JobObject)]
         /\ Len(jobs'[n]) = Len(jobs[n]) + 1
         /\ jobs'[n][Len(jobs[n]) + 1] = job
         /\ C!JobObj(n)' = job
         /\ \A j \in 1..Len(jobs[n]) : jobs'[n][j] = jobs[n][j]
         /\ \A x \in Names \ {n} : jobs'[x] = jobs[x]
         /\ \A x \in Names : /\ Len(jobs'[x]) \in Nat /\ Len(jobs'[x]) >= Len(jobs[x])
                             /\ \A j \in 1..Len(jobs[x]) : jobs'[x][j] = jobs[x][j]
<1>1. /\ jobs' \in [Names -> Seq(JobObject)]
      /\ Len(jobs'[n]) = Len(jobs[n]) + 1
      /\ jobs'[n][Len(jobs[n]) + 1] = job
      /\ \A j \in 1..Len(jobs[n]) : jobs'[n][j] = jobs[n][j]
      /\ \A x \in Names \ {n} : jobs'[x] = jobs[x]
  BY AppendToOne DEF JobsTyped, C!StoreJob
<1>2. C!JobObj(n)' = job BY <1>1 DEF C!JobObj
<1>3. \A x \in Names : Len(jobs[x]) \in Nat BY JobsOfTests
<1>4. ASSUME NEW x \in Names
      PROVE  /\ Len(jobs'[x]) \in Nat /\ Len(jobs'[x]) >= Len(jobs[x])
             /\ \A j \in 1..Len(jobs[x]) : jobs'[x][j] = jobs[x][j]
  <2>1. CASE x = n BY <1>1, <1>3, <2>1
  <2>2. CASE x # n BY <1>1, <1>3, <2>2
  <2> QED BY <2>1, <2>2
<1> QED BY <1>1, <1>2, <1>4

(* A Job that has ended has ended for good.                                *)
LEMMA EndedStays ==
  ASSUME \A n \in Names : /\ Len(jobs'[n]) \in Nat /\ Len(jobs'[n]) >= Len(jobs[n])
                          /\ \A j \in 1..Len(jobs[n]) : jobs'[n][j] = jobs[n][j],
         \A n \in Names : Len(jobs[n]) \in Nat
  PROVE  \A n \in Names : Ended(n) => Ended(n)'
<1> SUFFICES ASSUME NEW n \in Names, NEW j \in 1..Len(jobs[n]),
                    jobs[n][j].live, ~C!Running(jobs[n][j])
             PROVE  Ended(n)'
  BY DEF Ended
<1>1. j \in 1..Len(jobs'[n]) /\ jobs'[n][j] = jobs[n][j] OBVIOUS
<1> QED BY <1>1 DEF Ended, C!Running

(* How a Job comes, ends and goes.                                         *)
JobLaunched(n, job) ==
  /\ ~C!JobObj(n).live /\ C!Cached(n).live
  /\ job.live /\ job.owner = C!Cached(n).uid /\ C!Running(job)
JobEnds(n, job) ==
  /\ C!JobObj(n).live
  /\ job.live /\ job.owner = C!JobObj(n).owner /\ ~C!Running(job)
JobGoes(n, job) ==
  /\ ~job.live
  /\ C!Obj(n).live => C!Obj(n).uid # C!JobObj(n).owner \/ "jobdelete" \in testFaults'
JobMoves(n) ==
  \E job \in JobObject : /\ C!StoreJob(n, job)
                         /\ JobLaunched(n, job) \/ JobEnds(n, job) \/ JobGoes(n, job)

LEMMA JobChanged ==
  ASSUME NEW job \in JobObject, NEW log \in C!AnyLog
  PROVE  LET late    == [job EXCEPT !.succeeded = 1, !.log = log]
             success == [job EXCEPT !.succeeded = 1, !.complete = TRUE, !.log = log]
             failure == [job EXCEPT !.failed = C!BackoffLimit + 1]
             done    == [job EXCEPT !.complete = TRUE]
             gone    == [job EXCEPT !.live = FALSE]
         IN /\ success \in JobObject /\ success.live = job.live /\ success.owner = job.owner
            /\ success.succeeded = 1
            /\ late \in JobObject /\ late.live = job.live /\ late.owner = job.owner
            /\ late.succeeded = 1
            /\ failure \in JobObject /\ failure.live = job.live /\ failure.owner = job.owner
            /\ failure.failed = 1
            /\ done \in JobObject /\ done.live = job.live /\ done.owner = job.owner
            /\ done.succeeded = job.succeeded
            /\ gone \in JobObject /\ ~gone.live
<1>1. C!BackoffLimit + 1 = 1 BY DEF C!BackoffLimit
<1> DEFINE more == [job EXCEPT !.succeeded = 1]
           full == [more EXCEPT !.complete = TRUE]
<1>2. more \in JobObject /\ more.live = job.live /\ more.owner = job.owner /\ more.succeeded = 1
  BY DEF JobObject
<1> HIDE DEF more
<1>3. full \in JobObject /\ full.live = job.live /\ full.owner = job.owner /\ full.succeeded = 1
  BY <1>2 DEF JobObject
<1> HIDE DEF full
<1>4. ASSUME NEW old \in JobObject
      PROVE  /\ [old EXCEPT !.log = log] \in JobObject
             /\ [old EXCEPT !.log = log].live = old.live
             /\ [old EXCEPT !.log = log].owner = old.owner
             /\ [old EXCEPT !.log = log].succeeded = old.succeeded
  BY DEF JobObject
<1>5. /\ [full EXCEPT !.log = log] = [job EXCEPT !.succeeded = 1, !.complete = TRUE, !.log = log]
      /\ [more EXCEPT !.log = log] = [job EXCEPT !.succeeded = 1, !.log = log]
  BY DEF full, more
<1> DEFINE failure == [job EXCEPT !.failed = 1]
           done    == [job EXCEPT !.complete = TRUE]
           gone    == [job EXCEPT !.live = FALSE]
<1>6. /\ failure \in JobObject /\ failure.live = job.live /\ failure.owner = job.owner
      /\ failure.failed = 1
  BY DEF JobObject
<1>7. /\ done \in JobObject /\ done.live = job.live /\ done.owner = job.owner
      /\ done.succeeded = job.succeeded
  BY DEF JobObject
<1>8. gone \in JobObject /\ ~gone.live BY DEF JobObject
<1> QED BY <1>1, <1>2, <1>3, <1>4, <1>5, <1>6, <1>7, <1>8

LEMMA ClusterMoves ==
  ASSUME JobsTyped, NEW n \in Names, C!Cluster(n)
  PROVE  /\ UNCHANGED <<tests, childSeen, testActive, testWorker>>
         /\ UNCHANGED jobs \/ JobMoves(n)
         /\ jobSeen' = jobSeen \/ (jobSeen[n] < Len(jobs[n])
                                   /\ jobSeen' = [jobSeen EXCEPT ![n] = @ + 1] /\ UNCHANGED jobs)
<1> DEFINE old == C!JobObj(n)
<1>1. old \in JobObject BY JobsOfTests
<1>2. UNCHANGED <<tests, childSeen, testActive, testWorker>>
  BY DEF C!Cluster, C!runtimeVars
<1>3. jobSeen' = jobSeen \/ (jobSeen[n] < Len(jobs[n])
                             /\ jobSeen' = [jobSeen EXCEPT ![n] = @ + 1] /\ UNCHANGED jobs)
  BY DEF C!Cluster, C!PodStarts, C!JobSucceeds, C!JobFails, C!JobCompletes, C!JobSeen, C!PodSeen,
         C!GarbageCollected, C!PodCollected, C!JobRemoved, C!JobDeleted, C!PodLost,
         C!JobSucceedsEarly
<1>4. CASE \/ C!PodStarts(n) \/ C!JobSeen(n) \/ C!PodSeen(n) \/ C!PodLost(n)
           \/ C!PodCollected(n)
  BY <1>2, <1>3, <1>4 DEF C!PodStarts, C!JobSeen, C!PodSeen, C!PodLost, C!PodCollected
<1>5. ASSUME NEW log \in {{}, Orders}, C!JobSucceeds(n, log) \/ C!JobSucceedsEarly(n, log)
      PROVE  JobMoves(n)
  <2>1. log \in C!AnyLog BY DEF C!AnyLog
  <2>2. old.live BY <1>5 DEF C!JobSucceeds, C!JobSucceedsEarly, C!Running
  <2>3. PICK job \in JobObject : /\ C!StoreJob(n, job) /\ job.live = old.live
                                 /\ job.owner = old.owner /\ job.succeeded = 1
    BY <1>1, <1>5, <2>1, JobChanged DEF C!JobSucceeds, C!JobSucceedsEarly
  <2>4. JobEnds(n, job) BY <2>2, <2>3 DEF JobEnds, C!Running
  <2> QED BY <2>3, <2>4 DEF JobMoves
<1>6. ASSUME C!JobFails(n) PROVE JobMoves(n)
  <2>1. old.live BY <1>6 DEF C!JobFails, C!Running
  <2>2. PICK log \in C!AnyLog : TRUE BY DEF C!AnyLog
  <2>3. PICK job \in JobObject : /\ C!StoreJob(n, job) /\ job.live = old.live
                                 /\ job.owner = old.owner /\ job.failed = 1
    BY <1>1, <1>6, <2>2, JobChanged DEF C!JobFails
  <2>4. JobEnds(n, job) BY <2>1, <2>3 DEF JobEnds, C!Running
  <2> QED BY <2>3, <2>4 DEF JobMoves
<1>7. ASSUME C!JobCompletes(n) PROVE JobMoves(n)
  <2>1. old.live /\ old.succeeded = 1 BY <1>7 DEF C!JobCompletes
  <2>2. PICK log \in C!AnyLog : TRUE BY DEF C!AnyLog
  <2>3. PICK job \in JobObject : /\ C!StoreJob(n, job) /\ job.live = old.live
                                 /\ job.owner = old.owner /\ job.succeeded = old.succeeded
    BY <1>1, <1>7, <2>2, JobChanged DEF C!JobCompletes
  <2>4. JobEnds(n, job) BY <2>1, <2>3 DEF JobEnds, C!Running
  <2> QED BY <2>3, <2>4 DEF JobMoves
<1>8. ASSUME C!JobRemoved(n),
             \/ ~(C!Obj(n).live /\ C!Obj(n).uid = C!JobObj(n).owner)
             \/ "jobdelete" \in testFaults'
      PROVE  JobMoves(n)
  <2>1. PICK log \in C!AnyLog : TRUE BY DEF C!AnyLog
  <2>2. PICK job \in JobObject : C!StoreJob(n, job) /\ ~job.live
    BY <1>1, <1>8, <2>1, JobChanged DEF C!JobRemoved
  <2> QED BY <1>8, <2>2 DEF JobMoves, JobGoes
<1>9. CASE C!GarbageCollected(n) BY <1>2, <1>3, <1>8, <1>9 DEF C!GarbageCollected
<1>10. CASE C!JobDeleted(n) BY <1>2, <1>3, <1>8, <1>10 DEF C!JobDeleted, C!Disturb
<1> QED BY <1>2, <1>3, <1>4, <1>5, <1>6, <1>7, <1>9, <1>10 DEF C!Cluster

LEMMA BeginMoves ==
  ASSUME JobsTyped, SeenInv, NEW n \in Names, C!Begin(n)
  PROVE  /\ UNCHANGED <<tests, childSeen, jobSeen>>
         /\ UNCHANGED jobs \/ JobMoves(n)
         /\ \/ UNCHANGED <<testActive, testWorker>>
            \/ testWorker'.sec = 10 /\ testWorker'.pc = "poll"
<1> DEFINE job == C!newJobForCR(n, C!Cached(n))
<1>1. job \in JobObject /\ job.live /\ job.owner = C!Cached(n).uid /\ C!Running(job)
  <2>1. Len(jobs[n]) \in Nat BY JobsOfTests
  <2>2. C!Cached(n) \in TestObject BY TestsSeen DEF C!Cached
  <2> QED BY <2>1, <2>2 DEF C!newJobForCR, JobObject, C!AnyLog, C!Running, TestObject
<1>2. UNCHANGED <<tests, childSeen, jobSeen>>
  BY DEF C!Begin, C!BeginSkips, C!BeginFindsJob, C!BeginCreatesJob, C!BeginFails, C!jobVars
<1>3. UNCHANGED jobs \/ (C!StoreJob(n, job) /\ ~C!JobObj(n).live /\ C!Cached(n).live)
  BY DEF C!Begin, C!BeginSkips, C!BeginFindsJob, C!BeginCreatesJob, C!BeginFails, C!jobVars
<1> HIDE DEF job
<1>4. UNCHANGED jobs \/ JobMoves(n) BY <1>1, <1>3 DEF JobMoves, JobLaunched
<1>5. UNCHANGED <<testActive, testWorker>> \/ C!StartPolling(n)
  BY DEF C!Begin, C!BeginSkips, C!BeginFindsJob, C!BeginCreatesJob, C!BeginFails
<1>6. C!StartPolling(n) => testWorker'.sec = 10 /\ testWorker'.pc = "poll"
  BY DEF C!StartPolling, C!Idle
<1> QED BY <1>2, <1>4, <1>5, <1>6

(* How a test comes, goes on and goes: with a result only if a Job ended.  *)
TestMade(n, test) == ~C!Obj(n).live /\ test.status = "none"
TestGoesOn(n, test) ==
  /\ test.uid = C!Obj(n).uid
  /\ test.live => C!Obj(n).live
  /\ test.status = C!Obj(n).status \/ Ended(n)
TestMoves(n) ==
  \E test \in TestObject : C!Store(n, test) /\ (TestMade(n, test) \/ TestGoesOn(n, test))

Moves ==
  \/ UNCHANGED <<tests, jobs>>
  \/ UNCHANGED jobs /\ \E n \in Names : TestMoves(n)
  \/ UNCHANGED tests /\ \E n \in Names : JobMoves(n)
JobsSeen ==
  \/ jobSeen' = jobSeen
  \/ /\ UNCHANGED jobs
     /\ \/ \E n \in Names : jobSeen[n] < Len(jobs[n]) /\ jobSeen' = [jobSeen EXCEPT ![n] = @ + 1]
        \/ jobSeen' = [n \in Names |-> Len(jobs[n])]
Waits ==
  /\ testWorker'.sec \in {10, 30}
  /\ testWorker'.pc = "status" => testActive' = testActive /\ testActive \in Names
                                  /\ Ended(testActive)

LEMMA WaitsOn ==
  ASSUME SeenInv, LoadInv, UNCHANGED <<testActive, testWorker>>
  PROVE  Waits
BY DEF SeenInv, TestHeld, LoadInv, WorkerWaits, Waits

LEMMA RunWorksMoves ==
  ASSUME SeenInv, LoadInv, RunWorks
  PROVE  Moves /\ JobsSeen /\ Waits
<1>1. UNCHANGED <<jobs, jobSeen, testActive, testWorker>> BY DEF RunWorks, testRest
<1>2. CASE UNCHANGED tests BY <1>1, <1>2, WaitsOn DEF Moves, JobsSeen
<1>3. CASE tests' # tests
  <2> DEFINE test == newCurlTestCR(Name, Instance, Step)
  <2>1. C!Store(Name, test) /\ children' # children BY <1>3 DEF RunWorks
  <2>2. /\ worker.pc = "launch" /\ worker.at <= Len(Steps) /\ ~ChildObj(Name).live
    BY <2>1 DEF RunWorks, Proceed, PlanDone, LaunchFinds, LaunchCreates, LaunchFails,
                WaitEnds, updateStatus, childVars
  <2>3. Typed BY DEF SeenInv, RunInv
  <2>4. active # NoKey BY <2>2, <2>3 DEF Typed, TypeOK
  <2>5. Name \in Names /\ Instance.uid \in Nat /\ Step.stop \in BOOLEAN
    BY <2>2, <2>3, <2>4, WorkerKnows DEF Object
  <2>6. C!Latest(Name) \in Nat /\ C!Obj(Name) \in TestObject /\ ChildObj(Name) = View(C!Obj(Name))
    BY <2>5, TestsSeen
  <2>7. test \in TestObject /\ test.status = "none"
    <3>1. [owner |-> Instance.uid, stop |-> Step.stop] \in Wants BY <2>5 DEF Wants
    <3> QED BY <2>6, <3>1 DEF newCurlTestCR, TestObject, Results
  <2> HIDE DEF test
  <2>8. ~C!Obj(Name).live BY <2>2, <2>6, ViewTyped
  <2>9. TestMoves(Name) BY <2>1, <2>7, <2>8 DEF TestMoves, TestMade
  <2> QED BY <1>1, <2>5, <2>9, WaitsOn DEF Moves, JobsSeen
<1> QED BY <1>2, <1>3

LEMMA TestWorksMoves ==
  ASSUME SeenInv, LoadInv, TestWorks
  PROVE  Moves /\ JobsSeen /\ Waits
<1>1. CASE C!Finishes
  <2> DEFINE n == testActive
  <2>1. /\ n \in Names /\ Ended(n) /\ testWorker.verdict \in {"Success", "Failure"}
        /\ testWorker.sec \in {10, 30}
    BY <1>1 DEF SeenInv, LoadInv, WorkerWaits, TestHeld, C!Finishes, C!updateStatus
  <2>2. /\ UNCHANGED <<jobs, jobSeen>> /\ testWorker' = C!Idle
        /\ C!WriteStatus(n, testWorker.snap, testWorker.verdict)
    BY <1>1 DEF C!Finishes, C!updateStatus, C!jobVars
  <2>3. Waits BY <2>2 DEF Waits, C!Idle
  <2>4. CASE UNCHANGED tests BY <2>2, <2>3, <2>4 DEF Moves, JobsSeen
  <2>5. CASE tests' # tests
    <3> DEFINE test == [C!Obj(n) EXCEPT !.status = testWorker.verdict]
    <3>1. C!Store(n, test) BY <2>2, <2>5 DEF C!WriteStatus, C!Obj
    <3>2. C!Obj(n) \in TestObject BY <2>1, TestsSeen
    <3>3. test \in TestObject /\ test.uid = C!Obj(n).uid /\ test.live = C!Obj(n).live
      BY <2>1, <3>2 DEF TestObject, Results
    <3> HIDE DEF test
    <3>4. TestMoves(n) BY <2>1, <3>1, <3>3 DEF TestMoves, TestGoesOn
    <3> QED BY <2>1, <2>2, <2>3, <3>4 DEF Moves, JobsSeen
  <2> QED BY <2>4, <2>5
<1>2. CASE \/ C!PollMissing \/ C!PollFailed \/ C!PollUnfinished \/ C!PollLogsFail
           \/ C!ReadsLogs
  <2>1. UNCHANGED <<tests, jobs, jobSeen>>
    BY <1>2 DEF C!PollMissing, C!PollFailed, C!PollUnfinished, C!PollLogsFail, C!ReadsLogs,
                C!PollReadsLogs, C!runtimeVars, C!jobVars
  <2>2. CASE C!PollUnfinished \/ C!PollLogsFail
    <3>1. testWorker' = C!Idle BY <2>2 DEF C!PollUnfinished, C!PollLogsFail
    <3> QED BY <2>1, <3>1 DEF Moves, JobsSeen, Waits, C!Idle
  <2>3. CASE C!PollMissing \/ C!PollFailed \/ C!ReadsLogs
    <3>1. /\ testWorker \in C!Worker /\ testWorker.sec \in {10, 30} /\ testWorker.pc = "poll"
          /\ testActive \in Names /\ testActive' = testActive
      BY <2>3 DEF SeenInv, LoadInv, TestHeld, WorkerWaits, C!PollMissing, C!PollFailed,
                  C!ReadsLogs, C!PollReadsLogs, C!CanRead, C!Polls, C!runtimeVars
    <3>2. CASE C!PollMissing
      <4>1. testWorker' = [testWorker EXCEPT !.sec = C!SleepAfter(@)]
        BY <3>1, <3>2 DEF C!PollMissing
      <4>2. C!SleepAfter(testWorker.sec) = 30 BY <3>1 DEF C!SleepAfter
      <4>3. testWorker'.sec = 30 /\ testWorker'.pc = "poll"
        BY <3>1, <4>1, <4>2 DEF C!Worker
      <4> QED BY <2>1, <4>3 DEF Moves, JobsSeen, Waits
    <3>3. CASE C!PollFailed \/ C!ReadsLogs
      <4>1. /\ C!CachedJob(testActive).live /\ ~C!Running(C!CachedJob(testActive))
            /\ \E verdict : C!Decide(verdict)
        BY <3>3 DEF C!PollFailed, C!ReadsLogs, C!PollReadsLogs, C!CanRead, C!Succeeded,
                    C!Running, C!BackoffLimit
      <4>2. Ended(testActive)
        BY <3>1, <4>1, JobsOfTests DEF Ended, LoadInv
      <4>3. testWorker'.sec = testWorker.sec BY <3>1, <4>1 DEF C!Decide, C!Worker
      <4> QED BY <2>1, <3>1, <4>2, <4>3 DEF Moves, JobsSeen, Waits
    <3> QED BY <2>3, <3>2, <3>3
  <2> QED BY <1>2, <2>2, <2>3
<1> QED BY <1>1, <1>2 DEF TestWorks, TestStep

LEMMA StepsMove ==
  ASSUME SeenInv, LoadInv, [OperatorNext]_allVars
  PROVE  Moves /\ JobsSeen /\ Waits
<1>1. CASE UNCHANGED <<tests, jobs, jobSeen, testActive, testWorker>>
  BY <1>1, WaitsOn DEF Moves, JobsSeen
<1>2. CASE UNCHANGED allVars BY <1>1, <1>2 DEF allVars, testRest
<1>3. ASSUME NEW k \in Keys, RunBegins(k) \/ RunChanges(User(k) \/ Watch(k))
      PROVE  Moves /\ JobsSeen /\ Waits
  BY <1>1, <1>3 DEF RunBegins, RunChanges, testRest
<1>4. ASSUME NEW n \in Names, TestBegins(n) PROVE Moves /\ JobsSeen /\ Waits
  <2>1. /\ UNCHANGED <<tests, jobSeen>>
        /\ UNCHANGED jobs \/ JobMoves(n)
        /\ \/ UNCHANGED <<testActive, testWorker>>
           \/ testWorker'.sec = 10 /\ testWorker'.pc = "poll"
    BY <1>4, BeginMoves DEF TestBegins, TestStep, LoadInv
  <2> QED BY <2>1, WaitsOn DEF Moves, JobsSeen, Waits
<1>5. ASSUME NEW n \in Names, TestStep(C!Cluster(n)) PROVE Moves /\ JobsSeen /\ Waits
  <2>1. C!Cluster(n) /\ JobsTyped BY <1>5 DEF TestStep, LoadInv
  <2>2. /\ UNCHANGED <<tests, testActive, testWorker>>
        /\ UNCHANGED jobs \/ JobMoves(n)
        /\ jobSeen' = jobSeen \/ (jobSeen[n] < Len(jobs[n])
                                  /\ jobSeen' = [jobSeen EXCEPT ![n] = @ + 1] /\ UNCHANGED jobs)
    BY <2>1, ClusterMoves
  <2> QED BY <2>2, WaitsOn DEF Moves, JobsSeen
<1>6. ASSUME NEW n \in Names, TestInformer(n, TestWatch(n)) PROVE Moves /\ JobsSeen /\ Waits
  BY <1>1, <1>6 DEF TestInformer, TestStep, TestWatch, C!InformerReceives, C!HandlerEnqueues
<1>7. ASSUME NEW n \in Names, TestCollected(n) PROVE Moves /\ JobsSeen /\ Waits
  <2> DEFINE test == [C!Obj(n) EXCEPT !.live = FALSE]
  <2>1. /\ C!Store(n, test) /\ UNCHANGED <<jobs, jobSeen, testActive, testWorker>>
    BY <1>7 DEF TestCollected, testRest
  <2>2. C!Obj(n) \in TestObject BY TestsSeen
  <2>3. /\ test \in TestObject /\ test.uid = C!Obj(n).uid /\ ~test.live
        /\ test.status = C!Obj(n).status
    BY <2>2 DEF TestObject
  <2> HIDE DEF test
  <2>4. TestMoves(n) BY <2>1, <2>3 DEF TestMoves, TestGoesOn
  <2> QED BY <2>1, <2>4, WaitsOn DEF Moves, JobsSeen
<1>8. CASE Dies
  <2>1. /\ UNCHANGED <<tests, jobs>> /\ testWorker' = C!Idle
        /\ jobSeen' = [n \in Names |-> Len(jobs[n])]
    BY <1>8 DEF Dies, Crash, C!Crash, C!PollPanics, C!Restart, C!RuntimeRestarts
  <2> QED BY <2>1 DEF Moves, JobsSeen, Waits, C!Idle
<1> QED BY <1>2, <1>3, <1>4, <1>5, <1>6, <1>7, <1>8, RunWorksMoves, TestWorksMoves DEF OperatorNext

(* A run that is not made again begins to exist once, and without tests.   *)
LEMMA RunsBegin ==
  ASSUME SeenInv, [OperatorNext]_allVars, "recreate" \notin faults', NEW k \in Keys
  PROVE  /\ Obj(k)'.live => Obj(k).live \/ (Latest(k) = 1 /\ UNCHANGED <<tests, jobs>>)
         /\ Obj(k)' # Obj(k) => UNCHANGED <<tests, jobs>>
<1>1. RuntimeTypeOK /\ Typed BY DEF SeenInv, RunInv, Typed, TypeOK
<1>2. CASE UNCHANGED revisions BY <1>2 DEF Obj, Latest
<1>3. ASSUME NEW j \in Keys, RunChanges(User(j) \/ Watch(j))
      PROVE  /\ Obj(k)'.live => Obj(k).live \/ (Latest(k) = 1 /\ UNCHANGED <<tests, jobs>>)
             /\ UNCHANGED <<tests, jobs>>
  <2>1. UNCHANGED <<tests, jobs>> BY <1>3 DEF RunChanges, testRest
  <2>2. CASE User(j)
    <3>1. PICK object \in Object :
            /\ Store(j, object)
            /\ object.live => Latest(j) = 1 \/ (Obj(j).live /\ object.uid = Obj(j).uid)
      BY <1>1, <2>2, UserStoresOwn
    <3>2. Obj(j)' = object /\ \A i \in Keys \ {j} : revisions'[i] = revisions[i]
      BY <1>1, <3>1, StoreAppends
    <3>3. CASE k = j BY <2>1, <3>1, <3>2, <3>3
    <3>4. CASE k # j
      <4>1. Obj(k)' = Obj(k) BY <3>2, <3>4 DEF Obj, Latest
      <4> QED BY <2>1, <4>1
    <3> QED BY <3>3, <3>4
  <2>3. CASE Watch(j)
    <3>1. UNCHANGED revisions BY <2>3 DEF Watch, InformerReceives, HandlerEnqueues
    <3> QED BY <1>2, <2>1, <3>1 DEF Obj, Latest
  <2> QED BY <1>3, <2>2, <2>3 DEF RunChanges
<1>4. CASE RunWorks
  <2>1. CASE updateStatus
    <3>1. /\ WriteStatus(active, worker.snap, "Finished") /\ worker.pc = "finish"
          /\ children' = children
      BY <2>1 DEF updateStatus, childVars
    <3>2. UNCHANGED <<tests, jobs>> BY <1>4, <3>1 DEF RunWorks, testRest
    <3>3. CASE revisions' # revisions
      <4>1. active \in Keys /\ Obj(active) \in Object
        <5>1. active # NoKey BY <1>1, <3>1 DEF Typed, TypeOK
        <5> QED BY <1>1, <5>1, WorkerKnows, ObjectsTyped
      <4>2. PICK j \in Keys : j = active BY <4>1
      <4> DEFINE object == [Obj(j) EXCEPT !.status = "Finished"]
      <4>3. Store(j, object) BY <3>1, <3>3, <4>2 DEF WriteStatus, Obj
      <4>4. object \in Object /\ object.live = Obj(j).live
        BY <4>1, <4>2, FinishedAssumption DEF Object
      <4> HIDE DEF object
      <4>5. Obj(j)' = object /\ \A i \in Keys \ {j} : revisions'[i] = revisions[i]
        BY <1>1, <4>3, <4>4, StoreAppends
      <4>6. CASE k = j
        <5>1. Obj(k)' = object /\ object.live = Obj(k).live BY <4>4, <4>5, <4>6
        <5> QED BY <3>2, <5>1
      <4>7. CASE k # j
        <5>1. Obj(k)' = Obj(k) BY <4>5, <4>7 DEF Obj, Latest
        <5> QED BY <3>2, <5>1
      <4> QED BY <4>6, <4>7
    <3> QED BY <1>2, <3>3
  <2>2. CASE ~updateStatus
    BY <1>2, <1>4, <2>2 DEF RunWorks, Proceed, PlanDone, LaunchFinds, LaunchCreates, LaunchFails,
                             WaitEnds, runtimeVars
  <2> QED BY <2>1, <2>2
<1>5. CASE UNCHANGED allVars \/ TestWorks \/ Dies \/ (\E j \in Keys : RunBegins(j))
  BY <1>2, <1>5 DEF allVars, vars, runtimeVars, TestWorks, TestStep, Dies, Crash, RuntimeRestarts,
                    RunBegins, Begin, BeginSkips, BeginRuns
<1>6. ASSUME NEW n \in Names,
             \/ TestBegins(n) \/ TestCollected(n)
             \/ TestInformer(n, TestWatch(n)) \/ TestStep(C!Cluster(n))
      PROVE  UNCHANGED revisions
  BY <1>6 DEF TestBegins, TestCollected, TestInformer, TestStep, runtimeVars
<1> QED BY <1>2, <1>3, <1>4, <1>5, <1>6 DEF OperatorNext

-----------------------------------------------------------------------------
(* Every step keeps what is known of the load.                             *)
LEMMA TestAppends ==
  ASSUME SeenInv, NEW n \in Names, NEW test \in TestObject, C!Store(n, test)
  PROVE  /\ Len(tests'[n]) = Len(tests[n]) + 1 /\ tests'[n][Len(tests[n]) + 1] = test
         /\ C!Obj(n)' = test
         /\ \A x \in Names \ {n} : tests'[x] = tests[x]
         /\ \A x \in Names : /\ Len(tests[x]) \in Nat
                             /\ Len(tests'[x]) \in Nat /\ Len(tests'[x]) >= Len(tests[x])
                             /\ \A m \in 1..Len(tests[x]) : tests'[x][m] = tests[x][m]
<1>1. /\ Len(tests'[n]) = Len(tests[n]) + 1 /\ tests'[n][Len(tests[n]) + 1] = test
      /\ \A m \in 1..Len(tests[n]) : tests'[n][m] = tests[n][m]
      /\ \A x \in Names \ {n} : tests'[x] = tests[x]
  BY RevisionStored
<1>2. C!Obj(n)' = test BY <1>1 DEF C!Obj, C!Latest
<1>3. \A x \in Names : Len(tests[x]) \in Nat BY TestsSeen
<1>4. ASSUME NEW x \in Names
      PROVE  /\ Len(tests'[x]) \in Nat /\ Len(tests'[x]) >= Len(tests[x])
             /\ \A m \in 1..Len(tests[x]) : tests'[x][m] = tests[x][m]
  <2>1. CASE x = n BY <1>1, <1>3, <2>1
  <2>2. CASE x # n BY <1>1, <1>3, <2>2
  <2> QED BY <2>1, <2>2
<1> QED BY <1>1, <1>2, <1>3, <1>4

(* What grows, whatever moves.                                             *)
LEMMA LogsGrow ==
  ASSUME SeenInv, JobsTyped, Moves
  PROVE  \A n \in Names :
           /\ Len(tests[n]) \in Nat /\ Len(jobs[n]) \in Nat
           /\ Len(tests'[n]) \in Nat /\ Len(tests'[n]) >= Len(tests[n])
           /\ \A m \in 1..Len(tests[n]) : tests'[n][m] = tests[n][m]
           /\ Len(jobs'[n]) \in Nat /\ Len(jobs'[n]) >= Len(jobs[n])
           /\ \A j \in 1..Len(jobs[n]) : jobs'[n][j] = jobs[n][j]
<1>1. \A n \in Names : Len(tests[n]) \in Nat /\ Len(jobs[n]) \in Nat BY TestsSeen, JobsOfTests
<1>2. \/ UNCHANGED tests
      \/ \E n \in Names : \E test \in TestObject : C!Store(n, test)
  BY DEF Moves, TestMoves
<1>3. \/ UNCHANGED jobs
      \/ \E n \in Names : \E job \in JobObject : C!StoreJob(n, job)
  BY DEF Moves, JobMoves
<1>4. \A n \in Names :
        /\ Len(tests'[n]) \in Nat /\ Len(tests'[n]) >= Len(tests[n])
        /\ \A m \in 1..Len(tests[n]) : tests'[n][m] = tests[n][m]
  BY <1>1, <1>2, TestAppends
<1>5. \A n \in Names :
        /\ Len(jobs'[n]) \in Nat /\ Len(jobs'[n]) >= Len(jobs[n])
        /\ \A j \in 1..Len(jobs[n]) : jobs'[n][j] = jobs[n][j]
  BY <1>1, <1>3, JobAppends
<1> QED BY <1>1, <1>4, <1>5

LEMMA JobsTypedOn ==
  ASSUME SeenInv, JobsTyped, Moves, JobsSeen
  PROVE  JobsTyped'
<1>1. \A n \in Names : /\ Len(jobs[n]) \in Nat /\ Len(jobs[n]) >= 1
                       /\ Len(jobs'[n]) \in Nat /\ Len(jobs'[n]) >= Len(jobs[n])
                       /\ jobSeen[n] \in 1..Len(jobs[n])
  BY LogsGrow, JobsOfTests
<1>2. jobs' \in [Names -> Seq(JobObject)]
  <2>1. \/ UNCHANGED jobs
        \/ \E n \in Names : \E job \in JobObject : C!StoreJob(n, job)
    BY DEF Moves, JobMoves
  <2> QED BY <2>1, JobAppends DEF JobsTyped
<1>3. jobSeen' \in [Names -> Nat] /\ \A n \in Names : jobSeen'[n] \in 1..Len(jobs'[n])
  <2>1. CASE jobSeen' = jobSeen BY <1>1, <2>1 DEF JobsTyped
  <2>2. ASSUME UNCHANGED jobs, NEW n \in Names, jobSeen[n] < Len(jobs[n]),
               jobSeen' = [jobSeen EXCEPT ![n] = @ + 1]
        PROVE  jobSeen' \in [Names -> Nat] /\ \A x \in Names : jobSeen'[x] \in 1..Len(jobs'[x])
    BY <1>1, <2>2 DEF JobsTyped
  <2>3. CASE UNCHANGED jobs /\ jobSeen' = [n \in Names |-> Len(jobs[n])]
    BY <1>1, <2>3
  <2> QED BY <2>1, <2>2, <2>3 DEF JobsSeen
<1> QED BY <1>2, <1>3 DEF JobsTyped

LEMMA LaunchedOn ==
  ASSUME SeenInv, LoadInv, Moves
  PROVE  Launched'
<1>0. \A n \in Names : (\E m \in 1..Len(tests[n]) : tests[n][m].live) =>
                         \E m \in 1..Len(tests'[n]) : tests'[n][m].live
  <2> SUFFICES ASSUME NEW n \in Names, NEW m \in 1..Len(tests[n]), tests[n][m].live
               PROVE  m \in 1..Len(tests'[n]) /\ tests'[n][m].live
    OBVIOUS
  <2> QED BY LogsGrow DEF LoadInv
<1> SUFFICES ASSUME NEW n \in Names, NEW j \in 1..Len(jobs'[n]), jobs'[n][j].live
             PROVE  \E m \in 1..Len(tests[n]) : tests[n][m].live
  BY <1>0 DEF Launched
<1>1. JobsTyped /\ Launched BY DEF LoadInv
<1>2. CASE UNCHANGED jobs BY <1>1, <1>2 DEF Launched
<1>3. ASSUME NEW x \in Names, NEW job \in JobObject, C!StoreJob(x, job),
             JobLaunched(x, job) \/ JobEnds(x, job) \/ JobGoes(x, job)
      PROVE  \E m \in 1..Len(tests[n]) : tests[n][m].live
  <2>1. /\ Len(jobs'[x]) = Len(jobs[x]) + 1 /\ jobs'[x][Len(jobs[x]) + 1] = job
        /\ \A i \in 1..Len(jobs[x]) : jobs'[x][i] = jobs[x][i]
        /\ \A y \in Names \ {x} : jobs'[y] = jobs[y]
    BY <1>1, <1>3, JobAppends
  <2>2. CASE n # x BY <1>1, <2>1, <2>2 DEF Launched
  <2>3. CASE n = x /\ j \in 1..Len(jobs[n]) BY <1>1, <2>1, <2>3 DEF Launched
  <2>4. CASE n = x /\ j = Len(jobs[n]) + 1
    <3>1. job.live BY <2>1, <2>4
    <3>2. CASE JobLaunched(x, job)
      <4>1. C!Cached(n) = tests[n][childSeen[n]] /\ C!Cached(n).live
        BY <2>4, <3>2 DEF JobLaunched, C!Cached
      <4> QED BY <4>1, TestsSeen
    <3>3. CASE JobEnds(x, job)
      <4>1. jobs[n][Len(jobs[n])].live /\ Len(jobs[n]) \in 1..Len(jobs[n])
        BY <1>1, <2>4, <3>3, JobsOfTests DEF JobEnds
      <4> QED BY <1>1, <4>1 DEF Launched
    <3> QED BY <1>3, <3>1, <3>2, <3>3 DEF JobGoes
  <2>5. j \in 1..Len(jobs[x]) \/ j = Len(jobs[x]) + 1 \/ n # x
    <3>1. Len(jobs[x]) \in Nat BY <1>1, JobsOfTests
    <3> QED BY <2>1, <3>1
  <2> QED BY <2>2, <2>3, <2>4, <2>5
<1> QED BY <1>2, <1>3 DEF Moves, JobMoves

LEMMA ResultsComeOn ==
  ASSUME SeenInv, LoadInv, Moves
  PROVE  ResultsCome'
<1>1. \A n \in Names : Ended(n) => Ended(n)' BY LogsGrow, EndedStays DEF LoadInv
<1> SUFFICES ASSUME NEW n \in Names, NEW m \in 1..Len(tests'[n]), tests'[n][m].status # "none"
             PROVE  Ended(n)
  BY <1>1 DEF ResultsCome
<1>2. ResultsCome BY DEF LoadInv
<1>3. CASE UNCHANGED tests BY <1>2, <1>3 DEF ResultsCome
<1>4. ASSUME NEW x \in Names, NEW test \in TestObject, C!Store(x, test),
             TestMade(x, test) \/ TestGoesOn(x, test)
      PROVE  Ended(n)
  <2>1. /\ Len(tests'[x]) = Len(tests[x]) + 1 /\ tests'[x][Len(tests[x]) + 1] = test
        /\ \A y \in Names \ {x} : tests'[y] = tests[y]
        /\ \A y \in Names : /\ Len(tests[y]) \in Nat
                            /\ \A i \in 1..Len(tests[y]) : tests'[y][i] = tests[y][i]
    BY <1>4, TestAppends
  <2>2. CASE n # x BY <1>2, <2>1, <2>2 DEF ResultsCome
  <2>3. CASE m \in 1..Len(tests[n]) BY <1>2, <2>1, <2>3 DEF ResultsCome
  <2>4. CASE n = x /\ m = Len(tests[n]) + 1
    <3>1. test.status # "none" BY <2>1, <2>4
    <3>2. TestGoesOn(n, test) BY <1>4, <2>4, <3>1 DEF TestMade
    <3>3. CASE test.status = C!Obj(n).status
      <4>1. /\ Len(tests[n]) \in 1..Len(tests[n])
            /\ tests[n][Len(tests[n])].status # "none"
        BY <3>1, <3>3, TestsSeen
      <4> QED BY <1>2, <4>1 DEF ResultsCome
    <3> QED BY <3>2, <3>3 DEF TestGoesOn
  <2>5. m \in 1..Len(tests[n]) \/ (n = x /\ m = Len(tests[n]) + 1) \/ n # x BY <2>1
  <2> QED BY <2>2, <2>3, <2>4, <2>5
<1> QED BY <1>3, <1>4 DEF Moves, TestMoves

LEMMA LoadOn ==
  ASSUME SeenInv, LoadInv, Moves, JobsSeen, Waits
  PROVE  LoadInv'
<1>1. JobsTyped' BY JobsTypedOn DEF LoadInv
<1>2. Launched' /\ ResultsCome' BY LaunchedOn, ResultsComeOn
<1>3. \A n \in Names : Ended(n) => Ended(n)' BY LogsGrow, EndedStays DEF LoadInv
<1>4. WorkerWaits'
  <2> SUFFICES ASSUME testWorker'.pc = "status", NEW n, n = testActive'
               PROVE  Ended(n)'
    BY DEF Waits, WorkerWaits
  <2>1. n \in Names /\ Ended(n) BY DEF Waits
  <2> QED BY <1>3, <2>1
<1> QED BY <1>1, <1>2, <1>4 DEF LoadInv

(* Disturbances are not forgotten.                                         *)
LEMMA UntouchedBefore ==
  ASSUME SeenInv, [OperatorNext]_allVars, Untouched'
  PROVE  Untouched /\ Calm /\ Calm'
<1>1. faults \subseteq faults' BY StepsSeen, FaultsStay
<1>2. testFaults \subseteq testFaults'
  <2>1. CASE UNCHANGED testFaults BY <2>1
  <2>2. CASE RunWorks \/ UNCHANGED allVars BY <2>1, <2>2 DEF RunWorks, testRest, allVars
  <2>3. CASE TestWorks
    BY <2>3 DEF TestWorks, TestStep, C!PollMissing, C!PollFailed, C!PollUnfinished,
                C!PollLogsFail, C!ReadsLogs, C!PollReadsLogs, C!Finishes, C!updateStatus,
                C!WriteStatus, C!Disturb, C!runtimeVars
  <2>4. CASE Dies BY <2>4 DEF Dies, C!Crash, C!PollPanics, C!Disturb
  <2>5. ASSUME NEW k \in Keys, RunBegins(k) \/ RunChanges(User(k) \/ Watch(k))
        PROVE  testFaults \subseteq testFaults'
    BY <2>1, <2>5 DEF RunBegins, RunChanges, testRest
  <2>6. ASSUME NEW n \in Names, TestBegins(n) \/ TestCollected(n)
        PROVE  testFaults \subseteq testFaults'
    BY <2>6 DEF TestBegins, TestStep, TestCollected, testRest, C!Begin, C!BeginSkips,
                C!BeginFindsJob, C!BeginCreatesJob, C!BeginFails, C!Disturb
  <2>7. ASSUME NEW n \in Names, TestInformer(n, TestWatch(n)) \/ TestStep(C!Cluster(n))
        PROVE  testFaults \subseteq testFaults'
    BY <2>7 DEF TestInformer, TestStep, TestWatch, C!InformerReceives, C!HandlerEnqueues,
                C!Cluster, C!JobDeleted, C!PodLost, C!JobSucceedsEarly, C!Disturb, C!runtimeVars
  <2> QED BY <2>2, <2>3, <2>4, <2>5, <2>6, <2>7 DEF OperatorNext
<1> QED BY <1>1, <1>2 DEF Untouched, Calm, Without

(* What there is of a test while its run exists.                           *)
LEMMA TestsOfRun ==
  ASSUME SeenInv, Launched, Ordered, NEW n \in Names,
         (\E m \in 1..Len(tests[n]) : tests[n][m].live) \/
         (\E j \in 1..Len(jobs[n]) : jobs[n][j].live)
  PROVE  Latest(n[1]) # 1 /\ (Obj(n[1]).live => C!Obj(n).live)
<1>1. PICK m \in 1..Len(tests[n]) : tests[n][m].live BY DEF Launched
<1>2. /\ m \in 1..Len(children[n]) /\ tests[n][m] \in TestObject
      /\ children[n][m] = View(tests[n][m])
      /\ C!Obj(n) \in TestObject /\ ChildObj(n) = View(C!Obj(n))
  BY TestsSeen
<1>3. children[n][m].live BY <1>1, <1>2, ViewTyped
<1>4. Latest(n[1]) # 1 /\ (Obj(n[1]).live => ChildObj(n).live)
  BY <1>2, <1>3 DEF Ordered, TestsStay
<1> QED BY <1>2, <1>4, ViewTyped

LEMMA TestMovedStays ==
  ASSUME SeenInv, LoadInv, Ordered, NEW n \in Names, Obj(n[1]).live, Stays(n), UNCHANGED jobs,
         TestMoves(n)
  PROVE  Stays(n)'
<1>1. PICK test \in TestObject : /\ C!Store(n, test)
                                 /\ TestMade(n, test) \/ TestGoesOn(n, test)
  BY DEF TestMoves
<1>2. /\ Len(tests'[n]) = Len(tests[n]) + 1 /\ tests'[n][Len(tests[n]) + 1] = test
      /\ C!Obj(n)' = test /\ Len(tests[n]) \in Nat
      /\ \A m \in 1..Len(tests[n]) : tests'[n][m] = tests[n][m]
  BY <1>1, TestAppends
<1>3. \A m \in 1..Len(tests'[n]) : m \in 1..Len(tests[n]) \/ m = Len(tests[n]) + 1 BY <1>2
<1>4. UNCHANGED C!JobObj(n) BY DEF C!JobObj
<1>5. CASE TestMade(n, test)
  <2>1. /\ \A m \in 1..Len(tests[n]) : ~tests[n][m].live
        /\ \A j \in 1..Len(jobs[n]) : ~jobs[n][j].live
    BY <1>5, TestsOfRun DEF TestMade, LoadInv
  <2> QED BY <1>2, <1>3, <2>1 DEF Stays
<1>6. CASE TestGoesOn(n, test)
  <2>1. \A m \in 1..Len(tests'[n]) : tests'[n][m].live => tests'[n][m].uid = C!Obj(n)'.uid
    BY <1>2, <1>3, <1>6 DEF Stays, TestGoesOn
  <2>2. C!Obj(n)'.uid = C!Obj(n).uid BY <1>2, <1>6 DEF TestGoesOn
  <2> QED BY <1>4, <2>1, <2>2 DEF Stays, C!Running
<1> QED BY <1>1, <1>5, <1>6

LEMMA JobMovedStays ==
  ASSUME SeenInv, LoadInv, Ordered, NEW n \in Names, Obj(n[1]).live, Stays(n), UNCHANGED tests,
         "jobdelete" \notin testFaults', JobMoves(n)
  PROVE  Stays(n)'
<1>1. PICK job \in JobObject : /\ C!StoreJob(n, job)
                               /\ JobLaunched(n, job) \/ JobEnds(n, job) \/ JobGoes(n, job)
  BY DEF JobMoves
<1>2. /\ Len(jobs'[n]) = Len(jobs[n]) + 1 /\ jobs'[n][Len(jobs[n]) + 1] = job
      /\ C!JobObj(n)' = job /\ Len(jobs[n]) \in Nat
      /\ \A j \in 1..Len(jobs[n]) : jobs'[n][j] = jobs[n][j]
      /\ C!JobObj(n) = jobs[n][Len(jobs[n])] /\ Len(jobs[n]) \in 1..Len(jobs[n])
  BY <1>1, JobAppends, JobsOfTests DEF LoadInv
<1>3. \A j \in 1..Len(jobs'[n]) : j \in 1..Len(jobs[n]) \/ j = Len(jobs[n]) + 1 BY <1>2
<1>4. UNCHANGED C!Obj(n) BY DEF C!Obj, C!Latest
<1>5. \A m \in 1..Len(tests'[n]) : tests'[n][m].live => tests'[n][m].uid = C!Obj(n)'.uid
  BY <1>4 DEF Stays
<1>6. CASE JobLaunched(n, job)
  <2>1. \A j \in 1..Len(jobs[n]) : ~jobs[n][j].live BY <1>6 DEF Stays, JobLaunched
  <2>2. C!Cached(n) = tests[n][childSeen[n]] /\ childSeen[n] \in 1..Len(tests[n])
    BY TestsSeen DEF C!Cached
  <2>3. job.live /\ job.owner = C!Obj(n).uid BY <1>6, <2>2 DEF JobLaunched, Stays
  <2>4. \A j \in 1..Len(jobs'[n]) : jobs'[n][j].live => jobs'[n][j] = job
    BY <1>2, <1>3, <2>1
  <2> QED BY <1>2, <1>4, <1>5, <2>3, <2>4 DEF Stays, C!Running
<1>7. CASE JobEnds(n, job)
  <2>1. job.live /\ job.owner = C!Obj(n).uid /\ ~C!Running(job)
    BY <1>2, <1>7 DEF JobEnds, Stays
  <2>2. \A j \in 1..Len(jobs'[n]) : jobs'[n][j].live => jobs'[n][j].owner = C!Obj(n).uid
    BY <1>2, <1>3, <2>1 DEF Stays
  <2>3. ~C!Running(C!JobObj(n))' BY <1>2, <2>1 DEF C!Running
  <2> QED BY <1>2, <1>4, <1>5, <2>1, <2>2, <2>3 DEF Stays
<1>8. CASE JobGoes(n, job)
  <2>1. \A j \in 1..Len(jobs[n]) : ~jobs[n][j].live
    <3> SUFFICES ASSUME NEW j \in 1..Len(jobs[n]), jobs[n][j].live PROVE FALSE OBVIOUS
    <3>1. C!JobObj(n).live /\ C!JobObj(n).owner = C!Obj(n).uid BY <1>2 DEF Stays
    <3>2. C!Obj(n).live BY TestsOfRun DEF LoadInv
    <3> QED BY <1>8, <3>1, <3>2 DEF JobGoes
  <2>2. \A j \in 1..Len(jobs'[n]) : ~jobs'[n][j].live BY <1>2, <1>3, <1>8, <2>1 DEF JobGoes
  <2> QED BY <1>5, <2>2 DEF Stays
<1> QED BY <1>1, <1>6, <1>7, <1>8

LEMMA JobsStayOn ==
  ASSUME SeenInv, LoadInv, Ordered, JobsStay, [OperatorNext]_allVars, Untouched'
  PROVE  JobsStay'
<1> SUFFICES ASSUME NEW n \in Names, Obj(n[1])'.live PROVE Stays(n)'
  BY DEF JobsStay
<1> DEFINE k == n[1]
<1>1. k \in Keys BY NamesOfRuns
<1>2. "recreate" \notin faults' /\ "jobdelete" \notin testFaults' BY DEF Untouched, Without
<1>3. Moves BY StepsMove
<1>4. ASSUME UNCHANGED <<tests, jobs>>, Stays(n) PROVE Stays(n)'
  BY <1>4 DEF Stays, C!Obj, C!Latest, C!JobObj, C!Running
<1>5. CASE ~Obj(k).live
  <2>1. Latest(k) = 1 /\ UNCHANGED <<tests, jobs>> BY <1>1, <1>2, <1>5, RunsBegin
  <2>2. /\ \A m \in 1..Len(tests[n]) : ~tests[n][m].live
        /\ \A j \in 1..Len(jobs[n]) : ~jobs[n][j].live
    BY <2>1, TestsOfRun DEF LoadInv
  <2> QED BY <1>4, <2>1, <2>2 DEF Stays
<1>6. CASE Obj(k).live
  <2>1. Stays(n) BY <1>6 DEF JobsStay
  <2>2. ASSUME UNCHANGED jobs, NEW x \in Names, TestMoves(x) PROVE Stays(n)'
    <3>1. CASE x = n BY <1>6, <2>1, <2>2, <3>1, TestMovedStays
    <3>2. CASE x # n
      <4>1. tests'[n] = tests[n] BY <2>2, <3>2, TestAppends DEF TestMoves
      <4> QED BY <2>1, <2>2, <4>1 DEF Stays, C!Obj, C!Latest, C!JobObj, C!Running
    <3> QED BY <3>1, <3>2
  <2>3. ASSUME UNCHANGED tests, NEW x \in Names, JobMoves(x) PROVE Stays(n)'
    <3>1. CASE x = n BY <1>2, <1>6, <2>1, <2>3, <3>1, JobMovedStays
    <3>2. CASE x # n
      <4>1. jobs'[n] = jobs[n] BY <2>3, <3>2, JobAppends DEF JobMoves, LoadInv
      <4> QED BY <2>1, <2>3, <4>1 DEF Stays, C!Obj, C!Latest, C!JobObj, C!Running
    <3> QED BY <3>1, <3>2
  <2> QED BY <1>3, <1>4, <2>1, <2>2, <2>3 DEF Moves
<1> QED BY <1>5, <1>6

LEMMA OperatorKeeps ==
  ASSUME OperatorInv, [OperatorNext]_allVars
  PROVE  OperatorInv'
<1>1. SeenInv' BY StepsSeen DEF OperatorInv
<1>2. LoadInv' BY StepsMove, LoadOn DEF OperatorInv
<1>3. Untouched' => JobsStay'
  <2> SUFFICES ASSUME Untouched' PROVE JobsStay' OBVIOUS
  <2>1. Untouched /\ Calm BY UntouchedBefore DEF OperatorInv
  <2>2. Ordered BY <2>1 DEF OperatorInv, SeenInv, RunInv
  <2> QED BY <2>1, <2>2, JobsStayOn DEF OperatorInv
<1> QED BY <1>1, <1>2, <1>3 DEF OperatorInv

LEMMA OperatorStarts == OperatorInit => OperatorInv
<1> SUFFICES ASSUME OperatorInit PROVE OperatorInv OBVIOUS
<1>1. /\ tests = [n \in Names |-> <<C!Absent>>] /\ testWorker = C!Idle
      /\ jobs = [n \in Names |-> <<C!NoJob>>] /\ jobSeen = [n \in Names |-> 1]
  BY DEF OperatorInit, C!Init, C!TestInit, C!RuntimeInit
<1>2. C!NoJob \in JobObject /\ ~C!NoJob.live BY DEF C!NoJob, JobObject, C!AnyLog
<1>3. ~C!Absent.live /\ C!Absent.status = "none" BY DEF C!Absent
<1>4. JobsTyped
  <2>1. jobs \in [Names -> Seq(JobObject)] BY <1>1, <1>2
  <2>2. \A n \in Names : jobSeen[n] \in 1..Len(jobs[n]) BY <1>1
  <2> QED BY <1>1, <2>1, <2>2 DEF JobsTyped
<1>5. /\ \A n \in Names : \A j \in 1..Len(jobs[n]) : ~jobs[n][j].live
      /\ \A n \in Names : \A m \in 1..Len(tests[n]) :
           ~tests[n][m].live /\ tests[n][m].status = "none"
  BY <1>1, <1>2, <1>3
<1>6. WorkerWaits BY <1>1 DEF WorkerWaits, C!Idle
<1> QED BY <1>4, <1>5, <1>6, InitSeen
        DEF OperatorInv, LoadInv, Launched, ResultsCome, JobsStay, Stays

LEMMA OperatorInvariance == OperatorSpec => []OperatorInv
<1> QED BY OperatorStarts, OperatorKeeps, PTL DEF OperatorSpec

(* A Job that runs is one of a test of the run that has no result.         *)
LEMMA RunningUndecided ==
  ASSUME OperatorInv, Untouched, NEW k \in Keys, Obj(k).live, NEW n \in RunningJobs(k)
  PROVE  n \in ChildrenOf(k) /\ ChildObj(n).live /\ ChildObj(n).result = "none"
<1>1. /\ SeenInv /\ LoadInv /\ JobsStay /\ Ordered
  BY DEF OperatorInv, SeenInv, RunInv, Calm, Untouched
<1>2. /\ n \in Names /\ n[1] = k /\ C!JobObj(n).live /\ C!Running(C!JobObj(n))
  BY DEF RunningJobs, C!Running
<1>3. Stays(n) BY <1>1, <1>2 DEF JobsStay
<1>4. jobs[n][Len(jobs[n])].live /\ Len(jobs[n]) \in 1..Len(jobs[n])
  BY <1>1, <1>2, JobsOfTests DEF LoadInv
<1>5. /\ C!Obj(n).live /\ C!Obj(n) \in TestObject /\ ChildObj(n) = View(C!Obj(n))
      /\ C!Obj(n) = tests[n][Len(tests[n])] /\ Len(tests[n]) \in 1..Len(tests[n])
      /\ ChildObj(n) = children[n][Len(children[n])] /\ Len(children[n]) = Len(tests[n])
  BY <1>1, <1>2, <1>4, TestsOfRun, TestsSeen DEF LoadInv, ChildObj
<1>6. ChildObj(n).live BY <1>5, ViewTyped
<1>7. ChildObj(n).owner = Obj(k).uid
  BY <1>1, <1>2, <1>5, <1>6 DEF Ordered, TestsStay
<1>8. C!Obj(n).status = "none"
  <2> SUFFICES ASSUME C!Obj(n).status # "none" PROVE FALSE OBVIOUS
  <2>1. Ended(n) BY <1>1, <1>2, <1>5 DEF LoadInv, ResultsCome
  <2> QED BY <1>2, <1>3, <2>1 DEF Ended, Stays
<1>9. ChildObj(n).result = "none" BY <1>5, <1>8, ViewTyped
<1> QED BY <1>2, <1>6, <1>7, <1>9 DEF ChildrenOf

(* LoadIsSerial: over all interleavings of the two controllers, the Jobs   *)
(* and the caches, over restarts, panics, failed calls and lost pods, a run*)
(* never has two Jobs running, as long as nobody edits it or makes it anew,*)
(* or deletes a Job by hand.                                               *)
THEOREM LoadComesInTurn == OperatorSpec => []LoadIsSerial
<1>1. OperatorInv => LoadIsSerial
  <2> SUFFICES ASSUME OperatorInv, Untouched, NEW k \in Keys, Obj(k).live
               PROVE  Cardinality(RunningJobs(k)) <= 1
    BY DEF LoadIsSerial
  <2>1. Ordered /\ Typed BY DEF OperatorInv, SeenInv, RunInv, Calm, Untouched
  <2>2. \A m, n \in RunningJobs(k) : m = n BY <2>1, RunningUndecided, OrderedIsSerial
  <2> QED BY <2>2, AtMostOne
<1> QED BY <1>1, OperatorInvariance, PTL

-----------------------------------------------------------------------------
(* A run that is reported Finished.  It was without a report before, and a *)
(* test that has a result had it while it existed.                         *)
StatusesKnown ==
  \A k \in Keys : /\ revisions[k][1].status = Blank
                  /\ \A m \in 1..Latest(k) : revisions[k][m].status \in {Blank, "Finished"}
ResultsLived ==
  \A n \in Names : \A m \in 1..Len(children[n]) : children[n][m].result # "none" =>
    \E i \in 1..Len(children[n]) : /\ children[n][i].live
                                   /\ children[n][i].result = children[n][m].result
                                   /\ children[n][i].stop = children[n][m].stop
FinishInv ==
  OperatorInv /\ ResultsLived /\ (Undisturbed => Reported /\ StatusesKnown)

LEMMA StatusesOn ==
  ASSUME Typed, StatusesKnown, [Next]_vars, "recreate" \notin faults'
  PROVE  StatusesKnown'
<1>1. RuntimeTypeOK BY DEF Typed, TypeOK
<1>2. CASE UNCHANGED revisions BY <1>2 DEF StatusesKnown, Latest
<1>3. ASSUME NEW j \in Keys, NEW object \in Object, Store(j, object),
             object.status \in {Blank, "Finished", Obj(j).status}
      PROVE  StatusesKnown'
  <2>1. /\ Latest(j) \in Nat /\ Latest(j) >= 1 /\ Latest(j)' = Latest(j) + 1
        /\ Obj(j)' = object
        /\ \A n \in 1..Latest(j) : revisions'[j][n] = revisions[j][n]
        /\ \A i \in Keys \ {j} : revisions'[i] = revisions[i]
    BY <1>1, <1>3, StoreAppends, ObjectsTyped
  <2>2. revisions'[j][Latest(j) + 1] = object BY <2>1 DEF Obj, Latest
  <2>3. object.status \in {Blank, "Finished"}
    <3>1. Obj(j) = revisions[j][Latest(j)] /\ Latest(j) \in 1..Latest(j) BY <2>1 DEF Obj
    <3> QED BY <1>3, <3>1 DEF StatusesKnown
  <2> SUFFICES ASSUME NEW k \in Keys
               PROVE  /\ revisions'[k][1].status = Blank
                      /\ \A m \in 1..Latest(k)' : revisions'[k][m].status \in {Blank, "Finished"}
    BY DEF StatusesKnown
  <2>4. CASE k = j
    <3>1. 1 \in 1..Latest(j) /\ \A m \in 1..Latest(j)' : m \in 1..Latest(j) \/ m = Latest(j) + 1
      BY <2>1
    <3> QED BY <2>1, <2>2, <2>3, <2>4, <3>1 DEF StatusesKnown
  <2>5. CASE k # j BY <2>1, <2>5 DEF StatusesKnown, Latest
  <2> QED BY <2>4, <2>5
<1>4. ASSUME NEW k \in Keys, User(k) PROVE StatusesKnown'
  <2>1. PICK object \in Object :
          Store(k, object) /\ object.status \in {Blank, Obj(k).status}
    BY <1>1, <1>4, UserStoresOwn
  <2> QED BY <1>3, <2>1
<1>5. CASE updateStatus /\ revisions' # revisions
  <2>1. worker.pc = "finish" /\ WriteStatus(active, worker.snap, "Finished")
    BY <1>5 DEF updateStatus
  <2>2. active # NoKey BY <2>1 DEF Typed, TypeOK
  <2>3. PICK j \in Keys : j = active BY <2>2, WorkerKnows
  <2> DEFINE object == [Obj(j) EXCEPT !.status = "Finished"]
  <2>4. Store(j, object) BY <1>5, <2>1, <2>3 DEF WriteStatus, Obj
  <2>5. object \in Object /\ object.status = "Finished"
    <3>1. Obj(j) \in Object BY <1>1, ObjectsTyped
    <3> QED BY <3>1, FinishedAssumption DEF Object
  <2> HIDE DEF object
  <2> QED BY <1>3, <2>4, <2>5
<1>6. CASE UNCHANGED vars \/ Crash \/ (\E k \in Keys : Begin(k)) \/ (\E n \in Names : Children(n))
  BY <1>2, <1>6 DEF vars, runtimeVars, Crash, RuntimeRestarts, Begin, BeginSkips, BeginRuns, Children
<1>7. CASE PlanDone \/ LaunchFinds \/ LaunchCreates \/ LaunchFails \/ WaitEnds
  BY <1>2, <1>7 DEF PlanDone, LaunchFinds, LaunchCreates, LaunchFails, WaitEnds, runtimeVars
<1>8. ASSUME NEW k \in Keys, Informer(k) PROVE UNCHANGED revisions BY <1>1, <1>8, InformerTyped
<1> QED BY <1>2, <1>4, <1>5, <1>6, <1>7, <1>8 DEF Next, Proceed

LEMMA ResultsLivedOn ==
  ASSUME Typed, ResultsLived, [Next]_vars
  PROVE  ResultsLived'
<1>1. CASE UNCHANGED children BY <1>1 DEF ResultsLived
<1>2. ASSUME NEW n \in Names, NEW child \in Child, StoreChild(n, child),
             \/ child.live \/ child.result = "none"
             \/ ChildObj(n).live /\ child.result = ChildObj(n).result
                /\ child.stop = ChildObj(n).stop
      PROVE  ResultsLived'
  <2>1. /\ Len(children[n]) \in Nat /\ Len(children[n]) \in 1..Len(children[n])
        /\ ChildObj(n) = children[n][Len(children[n])]
    <3>1. Len(children[n]) \in Nat /\ Len(children[n]) >= 1 BY ChildrenTyped
    <3> QED BY <3>1 DEF ChildObj
  <2>2. /\ Len(children'[n]) = Len(children[n]) + 1
        /\ children'[n][Len(children[n]) + 1] = child
        /\ \A m \in 1..Len(children[n]) : children'[n][m] = children[n][m]
        /\ \A x \in Names \ {n} : children'[x] = children[x]
    BY <1>2, ChildAppends
  <2> SUFFICES ASSUME NEW x \in Names, NEW m \in 1..Len(children'[x]),
                      children'[x][m].result # "none"
               PROVE  \E i \in 1..Len(children'[x]) :
                        /\ children'[x][i].live
                        /\ children'[x][i].result = children'[x][m].result
                        /\ children'[x][i].stop = children'[x][m].stop
    BY DEF ResultsLived
  <2>3. CASE x # n
    <3>1. children'[x] = children[x] BY <2>2, <2>3
    <3> QED BY <3>1 DEF ResultsLived
  <2>4. CASE x = n /\ m \in 1..Len(children[n])
    <3>1. PICK i \in 1..Len(children[n]) : /\ children[n][i].live
                                           /\ children[n][i].result = children[n][m].result
                                           /\ children[n][i].stop = children[n][m].stop
      BY <2>2, <2>4 DEF ResultsLived
    <3>2. i \in 1..Len(children'[n]) BY <2>1, <2>2
    <3> QED BY <2>2, <2>4, <3>1, <3>2
  <2>5. CASE x = n /\ m = Len(children[n]) + 1
    <3>1. CASE child.live BY <2>2, <2>5, <3>1
    <3>2. CASE ChildObj(n).live /\ child.result = ChildObj(n).result
               /\ child.stop = ChildObj(n).stop
      <4>1. Len(children[n]) \in 1..Len(children'[n]) BY <2>1, <2>2
      <4> QED BY <2>1, <2>2, <2>5, <3>2, <4>1
    <3> QED BY <1>2, <2>2, <2>5, <3>1, <3>2
  <2>6. m \in 1..Len(children[x]) \/ m = Len(children[n]) + 1 \/ x # n BY <2>1, <2>2
  <2> QED BY <2>3, <2>4, <2>5, <2>6
<1>3. ASSUME NEW n \in Names, Children(n) PROVE ResultsLived'
  <2>1. ChildObj(n) \in Child BY ChildrenTyped
  <2>2. ASSUME NEW result \in {"Success", "Failure"}, ChildDecided(n, result)
        PROVE  ResultsLived'
    <3>1. /\ [ChildObj(n) EXCEPT !.result = result] \in Child
          /\ [ChildObj(n) EXCEPT !.result = result].live
      BY <2>1, <2>2 DEF ChildDecided, Child, Results
    <3> QED BY <1>2, <2>2, <3>1 DEF ChildDecided
  <2>3. CASE ChildCollected(n) \/ ChildDeleted(n)
    <3> DEFINE gone == [ChildObj(n) EXCEPT !.live = FALSE]
    <3>1. /\ gone \in Child /\ gone.result = ChildObj(n).result /\ gone.stop = ChildObj(n).stop
      BY <2>1 DEF Child
    <3>2. ChildObj(n).live /\ StoreChild(n, gone)
      BY <2>3 DEF ChildCollected, ChildDeleted
    <3> HIDE DEF gone
    <3> QED BY <1>2, <3>1, <3>2
  <2>4. CASE ChildSeen(n) BY <1>1, <2>4 DEF ChildSeen
  <2> QED BY <1>3, <2>2, <2>3, <2>4 DEF Children
<1>4. CASE Proceed
  <2>1. CASE UNCHANGED children BY <1>1, <2>1
  <2>2. CASE children' # children
    <3>1. /\ worker.pc = "launch" /\ worker.at <= Len(Steps)
          /\ StoreChild(Name, newTestCR(Instance.uid, Step.stop))
      BY <1>4, <2>2 DEF Proceed, PlanDone, LaunchFinds, LaunchCreates, LaunchFails, WaitEnds,
                        updateStatus, childVars
    <3>2. active # NoKey BY <3>1 DEF Typed, TypeOK
    <3>3. Name \in Names /\ Instance.uid \in Nat /\ Step.stop \in BOOLEAN
      BY <3>1, <3>2, WorkerKnows DEF Object
    <3>4. /\ newTestCR(Instance.uid, Step.stop) \in Child
          /\ newTestCR(Instance.uid, Step.stop).live
      BY <3>3 DEF newTestCR, Child, Results
    <3> QED BY <1>2, <3>1, <3>3, <3>4
  <2> QED BY <2>1, <2>2
<1>5. CASE UNCHANGED vars \/ Crash BY <1>1, <1>5 DEF vars, childVars, Crash
<1>6. ASSUME NEW k \in Keys, Begin(k) \/ UNCHANGED childVars PROVE UNCHANGED children
  BY <1>6 DEF Begin, BeginSkips, BeginRuns, childVars
<1> QED BY <1>1, <1>3, <1>4, <1>5, <1>6 DEF Next

LEMMA FinishKeeps ==
  ASSUME FinishInv, [OperatorNext]_allVars
  PROVE  FinishInv'
<1>1. OperatorInv' BY OperatorKeeps DEF FinishInv
<1>2. [Next]_vars /\ Typed BY StepsSeen DEF FinishInv, OperatorInv, SeenInv, RunInv
<1>3. ResultsLived' BY <1>2, ResultsLivedOn DEF FinishInv
<1>4. ASSUME Undisturbed' PROVE Reported' /\ StatusesKnown'
  <2>1. Undisturbed BY <1>2, <1>4, FaultsStay, UndisturbedBefore
  <2>2. Reported /\ StatusesKnown BY <2>1 DEF FinishInv
  <2>3. "recreate" \notin faults' BY <1>4 DEF Undisturbed, Without
  <2> QED BY <1>2, <1>4, <2>2, <2>3, NextReports, StatusesOn
<1> QED BY <1>1, <1>3, <1>4 DEF FinishInv

LEMMA FinishStarts == OperatorInit => FinishInv
<1> SUFFICES ASSUME OperatorInit PROVE FinishInv OBVIOUS
<1>1. Init BY DEF OperatorInit
<1>2. ResultsLived BY <1>1 DEF Init, ResultsLived, NoChild
<1>3. StatusesKnown BY <1>1 DEF Init, RuntimeInit, StatusesKnown, Latest, Absent
<1> QED BY <1>1, <1>2, <1>3, OperatorStarts, InitReported DEF FinishInv

(* The report was written once, and is true of the run that exists.        *)
LEMMA FinishedOver ==
  ASSUME Typed, SameRun, Written, StatusesKnown, NEW k \in Keys,
         Obj(k).live, Obj(k).status = "Finished"
  PROVE  \E revision : /\ Over(k, revision)
                       /\ revision.spec = Obj(k).spec /\ revision.uid = Obj(k).uid
<1> DEFINE Reports == {n \in 1..Latest(k) : revisions[k][n].status = "Finished"}
<1>1. Latest(k) \in Nat /\ Latest(k) >= 1 BY ObjectsTyped DEF Typed, TypeOK
<1>2. Latest(k) \in 1..Latest(k) /\ Obj(k) = revisions[k][Latest(k)] BY <1>1 DEF Obj
<1>3. PICK n \in Reports : \A m \in Reports : n <= m
  <2>1. Reports \in SUBSET Nat /\ Reports # {} BY <1>1, <1>2
  <2> HIDE DEF Reports
  <2> QED BY <2>1, LeastNat
<1>4. n \in 2..Latest(k) /\ n \in 1..Latest(k) /\ revisions[k][n].status = "Finished"
  <2>1. n # 1 BY <1>3, FinishedAssumption DEF StatusesKnown
  <2> QED BY <1>1, <1>3, <2>1
<1>5. revisions[k][n - 1].status = Blank
  <2>1. n - 1 \in 1..Latest(k) /\ n \in Nat BY <1>1, <1>4
  <2>2. ~(n <= n - 1) BY <2>1
  <2>3. revisions[k][n - 1].status # "Finished" BY <1>3, <2>1, <2>2
  <2> QED BY <2>1, <2>3 DEF StatusesKnown
<1>6. revisions[k][n].live /\ Over(k, revisions[k][n]) BY <1>4, <1>5 DEF Written
<1>7. revisions[k][n].spec = Obj(k).spec /\ revisions[k][n].uid = Obj(k).uid
  BY <1>2, <1>4, <1>6 DEF SameRun
<1> QED BY <1>6, <1>7

(* Where a test has a result, its Job has ended; where the result was a    *)
(* failure that asks to stop, the test stands as such.                     *)
LEMMA GotEnded ==
  ASSUME SeenInv, LoadInv, NEW n \in Names, NEW uid, Got(n, uid) # {}
  PROVE  Ended(n)
<1>1. PICK r \in Range(children[n]) : r.result # "none" BY DEF Got
<1>2. PICK m \in DOMAIN children[n] : r = children[n][m] BY DEF Range
<1>3. m \in 1..Len(tests[n]) /\ children[n][m] = View(tests[n][m]) /\ tests[n][m] \in TestObject
  <2>1. DOMAIN children[n] = 1..Len(tests[n])
    <3>1. children[n] \in Seq(Child) /\ Len(children[n]) = Len(tests[n]) BY TestsSeen
    <3> QED BY <3>1, LenProperties
  <2> QED BY <2>1, TestsSeen
<1>4. tests[n][m].status # "none" BY <1>1, <1>2, <1>3, ViewTyped
<1> QED BY <1>3, <1>4 DEF LoadInv, ResultsCome

LEMMA GotStops ==
  ASSUME SeenInv, Ordered, ResultsLived, NEW n \in Names, Obj(n[1]).live,
         NEW uid, NEW r \in Got(n, uid), r.result = "Failure", r.stop
  PROVE  Stops(n)
<1>1. PICK m \in DOMAIN children[n] : r = children[n][m] BY DEF Got, Range
<1>2. m \in 1..Len(children[n])
  <2>1. children[n] \in Seq(Child) BY TestsSeen
  <2> QED BY <2>1, LenProperties
<1>3. children[n][m].result = "Failure" /\ children[n][m].result # "none" /\ children[n][m].stop
  BY <1>1
<1>4. PICK i \in 1..Len(children[n]) : /\ children[n][i].live
                                       /\ children[n][i].result = children[n][m].result
                                       /\ children[n][i].stop = children[n][m].stop
  BY <1>2, <1>3 DEF ResultsLived
<1>5. /\ children[n][i].stop = ChildObj(n).stop
      /\ children[n][i].result = ChildObj(n).result
  BY <1>3, <1>4 DEF Ordered, TestsStay
<1> QED BY <1>3, <1>4, <1>5 DEF Stops

(* FinishedIsQuiet: and over the same steps, unless a Create failed, no Job*)
(* of a run that reports Finished is running: every test of its plan has a *)
(* result and the Job behind it has ended, up to the one that stopped it.  *)
THEOREM FinishedRunsAreQuiet == OperatorSpec => []FinishedIsQuiet
<1>1. FinishInv => FinishedIsQuiet
  <2> SUFFICES ASSUME FinishInv, Untouched, Without({"createfails"}), NEW k \in Keys,
                      Obj(k).live, Obj(k).status = "Finished", NEW n \in RunningJobs(k)
               PROVE  FALSE
    BY DEF FinishedIsQuiet
  <2>1. /\ OperatorInv /\ SeenInv /\ LoadInv /\ JobsStay /\ Ordered /\ Typed
        /\ ResultsLived /\ Reported /\ StatusesKnown
    BY DEF FinishInv, OperatorInv, SeenInv, RunInv, Calm, Untouched, Undisturbed, Without
  <2>2. PICK revision : /\ Over(k, revision)
                        /\ revision.spec = Obj(k).spec /\ revision.uid = Obj(k).uid
    BY <2>1, FinishedOver DEF Ordered, Reported
  <2>3. n \in ChildrenOf(k) /\ ChildObj(n).live /\ ChildObj(n).result = "none"
    BY <2>1, RunningUndecided
  <2>4. n \in Names /\ n[1] = k BY DEF RunningJobs
  <2> DEFINE steps == PlanOf[Obj(k).spec]
             Reports(i) == Got(NameOf(k, steps[i]), revision.uid)
  <2>5. PICK i \in 1..Len(steps) : n = NameOf(k, steps[i]) /\ Before(k, Obj(k).spec, i)
    BY <2>1, <2>3, <2>4 DEF Ordered, InOrder, Begun
  <2>6. Obj(k).spec \in Specs
    <3>1. Latest(k) \in Nat /\ Latest(k) >= 1 BY <2>1, ObjectsTyped DEF Typed, TypeOK
    <3>2. Latest(k) \in 1..Latest(k) BY <3>1
    <3> QED BY <2>1, <3>2 DEF Obj, Typed, SpecsGiven
  <2>7. /\ Len(steps) \in Nat
        /\ \A j \in 1..Len(steps) : NameOf(k, steps[j]) \in Names /\ NameOf(k, steps[j])[1] = k
    BY <2>6, PlansOfRuns, NamesOfRuns
  <2>8. Reports(i) = {}
    <3> SUFFICES ASSUME Reports(i) # {} PROVE FALSE OBVIOUS
    <3>1. Ended(n) BY <2>1, <2>4, <2>5, GotEnded
    <3>2. Stays(n) /\ C!Running(C!JobObj(n)) BY <2>1, <2>4 DEF JobsStay, RunningJobs
    <3> QED BY <3>1, <3>2 DEF Ended, Stays
  <2>9. PICK s \in 1..Len(steps) :
          /\ \A j \in 1..s : Reports(j) # {}
          /\ \E r \in Reports(s) : r.result = "Failure" /\ r.stop
    <3>1. \/ \A j \in 1..Len(steps) : Reports(j) # {}
          \/ \E s \in 1..Len(steps) :
               /\ \A j \in 1..s : Reports(j) # {}
               /\ \E r \in Reports(s) : r.result = "Failure" /\ r.stop
      BY <2>2 DEF Over
    <3> QED BY <2>5, <2>8, <3>1
  <2>10. s \in 1..(i - 1)
    <3>1. s \in Int /\ i \in Int /\ 1 <= s /\ 1 <= i BY <2>7
    <3>2. ~(i \in 1..s) BY <2>8, <2>9
    <3> QED BY <3>1, <3>2
  <2>11. Passed(NameOf(k, steps[s])) BY <2>5, <2>10 DEF Before
  <2>12. Stops(NameOf(k, steps[s])) BY <2>1, <2>7, <2>9, GotStops
  <2> QED BY <2>7, <2>11, <2>12 DEF Passed
<1> QED BY <1>1, FinishStarts, FinishKeeps, PTL DEF OperatorSpec

(* What is proved of runs over tests that come to a result by themselves   *)
(* holds of runs over the real ones.                                       *)
THEOREM RunsStayLawful ==
  OperatorSpec => [](TypeOK /\ OneAtATime /\ StopIsObeyed /\ OverUnlessRefused)
BY TestsAreAsTaken, TypeCorrect, TestsAreSerial, FailureStops, FinishedIsOver, PTL
   DEF RunSeesTests
=============================================================================
