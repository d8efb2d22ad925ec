---------------------------- MODULE LeaderProofs ----------------------------
(***************************************************************************)
(* What holds of leader election for any number of pods: the types, and    *)
(* that one operator works at a time.                                      *)
(***************************************************************************)
EXTENDS Leader, TLAPS

(* Who is past the election holds the lock, and its pod still has a record;*)
(* it is kept by the order in which pods are taken down: the process ends, *)
(* the record goes, the lock is collected.                                 *)
Lawful == Without({"apifails", "forced"})
HoldsLock(p) == lock = p /\ pods[p] \in {"running", "terminating"}
LockInv ==
  \A p \in Pods : /\ process[p] # "down" => pods[p] \in {"running", "terminating"}
                  /\ p \in AtWork => HoldsLock(p)

LEMMA InitTypes == Init => TypeOK /\ LockInv
<1> SUFFICES ASSUME Init PROVE TypeOK /\ LockInv OBVIOUS
<1> QED BY DEF Init, TypeOK, LockInv, Templates, AtWork

LEMMA NextTypes ==
  ASSUME TypeOK, [Next]_vars
  PROVE  TypeOK'
<1> USE DEF TypeOK, Goes
<1>1. CASE Updates BY <1>1 DEF Updates, Disturb, Templates
<1>2. CASE RollsOver BY <1>2 DEF RollsOver, Templates
<1>3. CASE LockCollected BY <1>3 DEF LockCollected
<1>4. ASSUME NEW p \in Pods, Creates(p) PROVE TypeOK' BY <1>4 DEF Creates
<1>5. ASSUME NEW p \in Pods, ScalesDown(p) PROVE TypeOK' BY <1>5 DEF ScalesDown
<1>6. ASSUME NEW p \in Pods, Deleted(p) PROVE TypeOK' BY <1>6 DEF Deleted, Disturb
<1>7. ASSUME NEW p \in Pods, Forced(p) PROVE TypeOK' BY <1>7 DEF Forced, Disturb
<1>8. ASSUME NEW p \in Pods, Starts(p) PROVE TypeOK' BY <1>8 DEF Starts
<1>9. ASSUME NEW p \in Pods, Crashes(p) PROVE TypeOK' BY <1>9 DEF Crashes, Exits, Disturb
<1>10. ASSUME NEW p \in Pods, Terminates(p) PROVE TypeOK' BY <1>10 DEF Terminates, Exits
<1>11. ASSUME NEW p \in Pods, Removed(p) PROVE TypeOK' BY <1>11 DEF Removed
<1>12. ASSUME NEW p \in Pods, myOwnerRef(p) PROVE TypeOK' BY <1>12 DEF myOwnerRef
<1>13. ASSUME NEW p \in Pods, Looks(p) PROVE TypeOK' BY <1>13 DEF Looks
<1>14. ASSUME NEW p \in Pods, CreatesLock(p) PROVE TypeOK' BY <1>14 DEF CreatesLock
<1>15. ASSUME NEW p \in Pods, BecomeFails(p) PROVE TypeOK'
  BY <1>15 DEF BecomeFails, Disturb
<1>16. ASSUME NEW p \in Pods, Works(p) PROVE TypeOK' BY <1>16 DEF Works
<1>17. CASE UNCHANGED vars BY <1>17 DEF vars
<1> QED BY <1>1, <1>2, <1>3, <1>4, <1>5, <1>6, <1>7, <1>8, <1>9, <1>10, <1>11, <1>12,
           <1>13, <1>14, <1>15, <1>16, <1>17 DEF Next, Main

(* Every variable keeps to its type, and only a container that works has   *)
(* the file of the readiness probe.                                        *)
THEOREM TypeCorrect == Spec => []TypeOK
BY InitTypes, NextTypes, PTL DEF Spec

-----------------------------------------------------------------------------
LEMMA FaultsAccumulate ==
  ASSUME [Next]_vars
  PROVE  faults \subseteq faults'
BY DEF Next, Main, vars, Updates, RollsOver, LockCollected, Creates, ScalesDown, Deleted,
       Forced, Starts, Crashes, Terminates, Removed, myOwnerRef, Looks, CreatesLock,
       BecomeFails, Works, Disturb

LEMMA NextLock ==
  ASSUME TypeOK, LockInv, Lawful', [Next]_vars
  PROVE  LockInv'
<1> USE DEF TypeOK, LockInv, HoldsLock, AtWork, Goes
<1>1. CASE Updates BY <1>1 DEF Updates
<1>2. CASE RollsOver BY <1>2 DEF RollsOver
<1>3. CASE LockCollected BY <1>3 DEF LockCollected
<1>4. ASSUME NEW p \in Pods, Creates(p) PROVE LockInv' BY <1>4 DEF Creates
<1>5. ASSUME NEW p \in Pods, ScalesDown(p) PROVE LockInv' BY <1>5 DEF ScalesDown
<1>6. ASSUME NEW p \in Pods, Deleted(p) PROVE LockInv' BY <1>6 DEF Deleted
<1>7. \A p \in Pods : ~Forced(p) BY DEF Forced, Disturb, Lawful, Without
<1>8. ASSUME NEW p \in Pods, Starts(p) PROVE LockInv' BY <1>8 DEF Starts
<1>9. ASSUME NEW p \in Pods, Crashes(p) PROVE LockInv' BY <1>9 DEF Crashes, Exits
<1>10. ASSUME NEW p \in Pods, Terminates(p) PROVE LockInv' BY <1>10 DEF Terminates, Exits
<1>11. ASSUME NEW p \in Pods, Removed(p) PROVE LockInv' BY <1>11 DEF Removed
<1>12. ASSUME NEW p \in Pods, myOwnerRef(p) PROVE LockInv' BY <1>12 DEF myOwnerRef
<1>13. ASSUME NEW p \in Pods, Looks(p) PROVE LockInv' BY <1>13 DEF Looks
<1>14. ASSUME NEW p \in Pods, CreatesLock(p) PROVE LockInv'
  <2>1. \A q \in Pods : q # NoPod BY BoundsAssumption DEF Pods, NoPod
  <2> QED BY <1>14, <2>1 DEF CreatesLock
<1>15. \A p \in Pods : ~BecomeFails(p)
  <2> SUFFICES ASSUME NEW p \in Pods, BecomeFails(p) PROVE FALSE OBVIOUS
  <2>1. pods[p] # "gone" BY DEF BecomeFails
  <2> QED BY <2>1 DEF BecomeFails, Disturb, Lawful, Without
<1>16. ASSUME NEW p \in Pods, Works(p) PROVE LockInv' BY <1>16 DEF Works
<1>17. CASE UNCHANGED vars BY <1>17 DEF vars
<1> QED BY <1>1, <1>2, <1>3, <1>4, <1>5, <1>6, <1>7, <1>8, <1>9, <1>10, <1>11, <1>12,
           <1>13, <1>14, <1>15, <1>16, <1>17 DEF Next, Main

(* As long as asking for the lock does not fail and no pod is deleted by   *)
(* force, two operators never work side by side, however many pods there   *)
(* are, and however they are restarted, deleted or updated.                *)
THEOREM OneLeads == Spec => []OneOperator
<1> DEFINE Kept == TypeOK /\ (Lawful => LockInv)
<1>1. Init => Kept BY InitTypes
<1>2. Kept /\ [Next]_vars => Kept'
  <2> SUFFICES ASSUME Kept, [Next]_vars PROVE Kept' OBVIOUS
  <2>1. Lawful' => Lawful BY FaultsAccumulate DEF Lawful, Without
  <2> QED BY <2>1, NextTypes, NextLock
<1>3. Kept => OneOperator BY DEF OneOperator, Lawful, LockInv, HoldsLock, AtWork
<1> QED BY <1>1, <1>2, <1>3, PTL DEF Spec

(* An update never gives up the template of a working operator: the pod    *)
(* that is ready is the one that works.                                    *)
THEOREM UpdatesSpareTheLeader == Spec => UpdateSparesLeader
<1> DEFINE Kept == TypeOK /\ (Lawful => LockInv)
           Spared == Without({"apifails", "forced"}) =>
             \A p \in Pods : process[p] = "work" /\ pods[p] = "running" /\ template[p] \in wanted
                               => template[p] \in wanted'
<1>1. Init => Kept BY InitTypes
<1>2. Kept /\ [Next]_vars => Kept'
  <2> SUFFICES ASSUME Kept, [Next]_vars PROVE Kept' OBVIOUS
  <2>1. Lawful' => Lawful BY FaultsAccumulate DEF Lawful, Without
  <2> QED BY <2>1, NextTypes, NextLock
<1>3. Kept /\ [Next]_vars => [Spared]_vars
  <2> SUFFICES ASSUME Kept, [Next]_vars, Lawful,
                      NEW p \in Pods, process[p] = "work", template[p] \in wanted
               PROVE  template[p] \in wanted'
    BY DEF Lawful
  <2>1. CASE Updates BY <2>1 DEF Updates, TypeOK
  <2>2. CASE RollsOver
    <3>1. PICK q \in ready : template[q] = "second" BY <2>2 DEF RollsOver
    <3>2. q \in Pods /\ process[q] = "work" BY <3>1 DEF TypeOK
    <3>3. q = p BY <3>2 DEF LockInv, HoldsLock, AtWork
    <3> QED BY <2>2, <3>1, <3>3 DEF RollsOver
  <2>3. CASE UNCHANGED wanted BY <2>3
  <2> QED BY <2>1, <2>2, <2>3
      DEF Next, Main, vars, LockCollected, Creates, ScalesDown, Deleted, Forced, Starts,
          Crashes, Terminates, Removed, myOwnerRef, Looks, CreatesLock, BecomeFails, Works
<1> QED BY <1>1, <1>2, <1>3, PTL DEF Spec, UpdateSparesLeader
=============================================================================
