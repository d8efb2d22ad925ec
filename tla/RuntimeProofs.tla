--------------------------- MODULE RuntimeProofs ---------------------------
(***************************************************************************)
(* Lemmas about what all controllers stand on, for any number of custom    *)
(* resources: how the log of revisions grows, and that each step of the    *)
(* runtime keeps its types.                                                *)
(***************************************************************************)
EXTENDS Runtime, SequenceTheorems, WellFoundedInduction, TLAPS

(* Induction over the numbers, as facts about sets of them.                *)
LEMMA LeastNat ==
  ASSUME NEW T \in SUBSET Nat, T # {}
  PROVE  \E n \in T : \A m \in T : n <= m
<1>1. PICK n \in T : \A m \in T : ~(<<m, n>> \in OpToRel(<, Nat))
  BY NatLessThanWellFounded, WFMin
<1>2. \A m \in T : m \in Nat /\ (<<m, n>> \in OpToRel(<, Nat) <=> m < n)
  BY DEF OpToRel
<1>3. \A m \in T : m \in Nat /\ ~(m < n) BY <1>1, <1>2, Zenon
<1> QED BY <1>3

LEMMA NatInduces ==
  ASSUME NEW S, 0 \in S, \A n \in Nat : n \in S => n + 1 \in S
  PROVE  Nat \subseteq S
<1> SUFFICES ASSUME Nat \ S # {} PROVE FALSE OBVIOUS
<1>1. PICK n \in Nat \ S : \A m \in Nat \ S : n <= m BY LeastNat
<1>2. n # 0 /\ n - 1 \in Nat BY <1>1
<1>3. n - 1 \in S BY <1>1, <1>2
<1>4. n - 1 + 1 \in S BY <1>2, <1>3
<1> QED BY <1>1, <1>4

-----------------------------------------------------------------------------
(* Appending to one log leaves the others, and all earlier entries, alone. *)
LEMMA AppendToOne ==
  ASSUME NEW S, NEW D, NEW logs \in [D -> Seq(S)], NEW k \in D, NEW e \in S,
         NEW after, after = [logs EXCEPT ![k] = Append(@, e)]
  PROVE  /\ after \in [D -> Seq(S)]
         /\ Len(after[k]) = Len(logs[k]) + 1
         /\ after[k][Len(logs[k]) + 1] = e
         /\ \A n \in 1..Len(logs[k]) : after[k][n] = logs[k][n]
         /\ \A j \in D \ {k} : after[j] = logs[j]
<1>1. logs[k] \in Seq(S) OBVIOUS
<1>2. after[k] = Append(logs[k], e) OBVIOUS
<1>3. /\ Append(logs[k], e) \in Seq(S)
      /\ Len(Append(logs[k], e)) = Len(logs[k]) + 1
      /\ \A i \in 1..Len(logs[k]) : Append(logs[k], e)[i] = logs[k][i]
      /\ Append(logs[k], e)[Len(logs[k]) + 1] = e
  BY <1>1, AppendProperties
<1>4. after \in [D -> Seq(S)] /\ \A j \in D \ {k} : after[j] = logs[j]
  BY <1>3
<1> QED BY <1>2, <1>3, <1>4

(* The latest and the cached revision of a resource are objects.           *)
LEMMA ObjectsTyped ==
  ASSUME RuntimeTypeOK, NEW k \in Keys
  PROVE  /\ Latest(k) \in Nat /\ seen[k] \in 1..Latest(k) /\ Latest(k) >= 1
         /\ \A n \in 1..Latest(k) : revisions[k][n] \in Object
         /\ Obj(k) \in Object /\ Cached(k) \in Object
<1>1. revisions[k] \in Seq(Object) BY DEF RuntimeTypeOK
<1>2. Latest(k) \in Nat /\ revisions[k] \in [1..Latest(k) -> Object]
  BY <1>1, LenProperties DEF Latest
<1>3. seen[k] \in 1..Latest(k) BY DEF RuntimeTypeOK, Latest
<1> QED BY <1>2, <1>3 DEF Obj, Cached

(* What storing a revision changes.                                        *)
LEMMA StoreAppends ==
  ASSUME RuntimeTypeOK, NEW k \in Keys, NEW object \in Object, Store(k, object)
  PROVE  /\ revisions' \in [Keys -> Seq(Object)]
         /\ Latest(k)' = Latest(k) + 1
         /\ Obj(k)' = object
         /\ \A n \in 1..Latest(k) : revisions'[k][n] = revisions[k][n]
         /\ \A j \in Keys \ {k} : revisions'[j] = revisions[j]
         /\ \A j \in Keys : Latest(j)' >= Latest(j)
         /\ \A j \in Keys : \A n \in 1..Latest(j) : revisions'[j][n] = revisions[j][n]
<1>1. revisions \in [Keys -> Seq(Object)] BY DEF RuntimeTypeOK
<1>2. /\ revisions' \in [Keys -> Seq(Object)]
      /\ Len(revisions'[k]) = Len(revisions[k]) + 1
      /\ revisions'[k][Len(revisions[k]) + 1] = object
      /\ \A n \in 1..Len(revisions[k]) : revisions'[k][n] = revisions[k][n]
      /\ \A j \in Keys \ {k} : revisions'[j] = revisions[j]
  BY <1>1, AppendToOne DEF Store
<1>3. \A j \in Keys : Len(revisions[j]) \in Nat BY <1>1, LenProperties
<1>4. Latest(k)' = Latest(k) + 1 /\ Obj(k)' = object
  BY <1>2 DEF Latest, Obj
<1>5. \A j \in Keys : Latest(j)' >= Latest(j)
  BY <1>2, <1>3 DEF Latest
<1> QED BY <1>2, <1>4, <1>5 DEF Latest

LEMMA DisturbCounts ==
  ASSUME RuntimeTypeOK, NEW fault, Disturb(fault)
  PROVE  faults' \subseteq Faults
BY FaultAssumption DEF RuntimeTypeOK, Disturb

-----------------------------------------------------------------------------
(* The steps of the runtime keep its types.                                *)
LEMMA StoreTyped ==
  ASSUME RuntimeTypeOK, NEW k \in Keys, NEW object \in Object, Store(k, object),
         UNCHANGED seen, notify' \subseteq Keys, queue' \subseteq Keys,
         active' \in Keys \cup {NoKey}, faults' \subseteq Faults
  PROVE  RuntimeTypeOK'
<1>1. /\ revisions' \in [Keys -> Seq(Object)]
      /\ \A j \in Keys : Latest(j)' >= Latest(j)
  BY StoreAppends
<1>2. \A j \in Keys : Latest(j)' \in Nat BY <1>1, LenProperties DEF Latest
<1>3. \A j \in Keys : seen[j] \in 1..Latest(j) /\ Latest(j) \in Nat BY ObjectsTyped
<1>4. \A j \in Keys : seen[j] \in 1..Latest(j)' BY <1>1, <1>2, <1>3
<1> QED BY <1>1, <1>4 DEF RuntimeTypeOK, Latest

LEMMA UserStores ==
  ASSUME RuntimeTypeOK, NEW k \in Keys, User(k)
  PROVE  \E object \in Object : Store(k, object)
<1>1. Latest(k) \in Nat /\ Obj(k) \in Object BY ObjectsTyped
<1>2. ASSUME NEW spec \in Specs, UserCreates(k, spec)
      PROVE  \E object \in Object : Store(k, object)
  <2>1. [live |-> TRUE, uid |-> Latest(k) + 1, spec |-> spec, status |-> Blank] \in Object
    BY <1>1, StatusAssumption DEF Object
  <2> QED BY <1>2, <2>1 DEF UserCreates
<1>3. ASSUME NEW spec \in Specs, UserEdits(k, spec)
      PROVE  \E object \in Object : Store(k, object)
  <2>1. [Obj(k) EXCEPT !.spec = spec] \in Object BY <1>1 DEF Object
  <2> QED BY <1>3, <2>1 DEF UserEdits
<1>4. CASE UserDeletes(k)
  <2>1. [Obj(k) EXCEPT !.live = FALSE] \in Object BY <1>1 DEF Object
  <2> QED BY <1>4, <2>1 DEF UserDeletes
<1> QED BY <1>2, <1>3, <1>4 DEF User

LEMMA UserTyped ==
  ASSUME RuntimeTypeOK, NEW k \in Keys, User(k)
  PROVE  /\ RuntimeTypeOK' /\ UNCHANGED <<seen, notify, queue, active>>
         /\ \A j \in Keys : Cached(j)' = Cached(j)
         /\ \A j \in Keys : \A n \in 1..Latest(j) : revisions'[j][n] = revisions[j][n]
<1>1. UNCHANGED <<seen, notify, queue, active>> /\ faults' \subseteq Faults
  BY DisturbCounts DEF User, UserCreates, UserEdits, UserDeletes, RuntimeTypeOK
<1>2. PICK object \in Object : Store(k, object) BY UserStores
<1>3. notify' \subseteq Keys /\ queue' \subseteq Keys /\ active' \in Keys \cup {NoKey}
  BY <1>1 DEF RuntimeTypeOK
<1>4. \A j \in Keys : \A n \in 1..Latest(j) : revisions'[j][n] = revisions[j][n]
  BY <1>2, StoreAppends
<1>5. \A j \in Keys : Cached(j)' = Cached(j)
  <2>1. \A j \in Keys : seen[j] \in 1..Latest(j) BY ObjectsTyped
  <2> QED BY <1>1, <1>4, <2>1 DEF Cached
<1> QED BY <1>1, <1>2, <1>3, <1>4, <1>5, StoreTyped

LEMMA InformerTyped ==
  ASSUME RuntimeTypeOK, NEW k \in Keys, Informer(k)
  PROVE  /\ RuntimeTypeOK' /\ UNCHANGED <<revisions, active>>
         /\ \A j \in Keys : seen[j] <= seen'[j]
<1>1. \A j \in Keys : seen[j] \in 1..Latest(j) /\ Latest(j) \in Nat BY ObjectsTyped
<1>2. CASE InformerReceives(k)
  BY <1>1, <1>2 DEF InformerReceives, RuntimeTypeOK, Latest
<1>3. CASE UNCHANGED seen
  <2>1. \A j \in Keys : seen[j] <= seen'[j] BY <1>1, <1>3
  <2>2. faults' \subseteq Faults
    BY DisturbCounts
    DEF Informer, InformerReceives, HandlerEnqueues, Resync, ResyncLags, RuntimeTypeOK
  <2> QED BY <1>3, <2>1, <2>2
      DEF Informer, InformerReceives, HandlerEnqueues, Resync, ResyncLags, RuntimeTypeOK
<1> QED BY <1>2, <1>3 DEF Informer, HandlerEnqueues, Resync, ResyncLags

LEMMA WriteStatusTyped ==
  ASSUME RuntimeTypeOK, NEW k \in Keys, NEW snap \in 1..Latest(k), NEW status \in Statuses,
         WriteStatus(k, snap, status), UNCHANGED <<seen, notify>>, queue' \subseteq Keys,
         active' \in Keys \cup {NoKey}
  PROVE  RuntimeTypeOK'
<1>1. revisions[k][snap] \in Object BY ObjectsTyped
<1>2. [revisions[k][snap] EXCEPT !.status = status] \in Object BY <1>1 DEF Object
<1>3. faults' \subseteq Faults BY DisturbCounts DEF WriteStatus, RuntimeTypeOK
<1>4. notify' \subseteq Keys BY DEF RuntimeTypeOK
<1>5. CASE UNCHANGED revisions BY <1>3, <1>4, <1>5 DEF RuntimeTypeOK
<1> QED BY <1>2, <1>3, <1>4, <1>5, StoreTyped DEF WriteStatus

LEMMA RestartTyped ==
  ASSUME RuntimeTypeOK, RuntimeRestarts, faults' \subseteq Faults
  PROVE  RuntimeTypeOK' /\ active' = NoKey
<1>1. \A j \in Keys : Latest(j) \in Nat /\ Latest(j) >= 1 BY ObjectsTyped
<1>2. \A j \in Keys : Latest(j) \in 1..Latest(j) BY <1>1
<1> QED BY <1>1, <1>2 DEF RuntimeRestarts, RuntimeTypeOK, Latest

LEMMA InitTyped == RuntimeInit => RuntimeTypeOK
<1> SUFFICES ASSUME RuntimeInit PROVE RuntimeTypeOK OBVIOUS
<1>1. Absent \in Object BY StatusAssumption DEF Absent, Object
<1>2. <<Absent>> \in Seq(Object) /\ Len(<<Absent>>) = 1 BY <1>1
<1> QED BY <1>2 DEF RuntimeInit, RuntimeTypeOK

-----------------------------------------------------------------------------
(* A resource that exists has what the user asked for.                     *)
SpecsGiven ==
  \A k \in Keys : \A n \in 1..Latest(k) : revisions[k][n].live => revisions[k][n].spec \in Specs

LEMMA InitSpecs == RuntimeInit => SpecsGiven
BY DEF RuntimeInit, SpecsGiven, Latest, Absent

LEMMA StoreSpecs ==
  ASSUME RuntimeTypeOK, SpecsGiven, NEW k \in Keys, NEW object \in Object, Store(k, object),
         object.live => object.spec \in Specs
  PROVE  SpecsGiven'
<1>1. /\ Latest(k)' = Latest(k) + 1 /\ Obj(k)' = object /\ Latest(k) \in Nat
      /\ \A n \in 1..Latest(k) : revisions'[k][n] = revisions[k][n]
      /\ \A j \in Keys \ {k} : revisions'[j] = revisions[j]
  BY StoreAppends, ObjectsTyped
<1>2. \A n \in 1..Latest(k)' : n \in 1..Latest(k) \/ n = Latest(k) + 1 BY <1>1
<1>3. revisions'[k][Latest(k) + 1] = object BY <1>1 DEF Obj, Latest
<1> QED BY <1>1, <1>2, <1>3 DEF SpecsGiven, Latest

LEMMA UserSpecs ==
  ASSUME RuntimeTypeOK, SpecsGiven, NEW k \in Keys, User(k)
  PROVE  SpecsGiven'
<1>1. Latest(k) \in Nat /\ Obj(k) \in Object BY ObjectsTyped
<1>2. ASSUME NEW spec \in Specs, UserCreates(k, spec) PROVE SpecsGiven'
  <2>1. [live |-> TRUE, uid |-> Latest(k) + 1, spec |-> spec, status |-> Blank] \in Object
    BY <1>1, StatusAssumption DEF Object
  <2> QED BY <1>2, <2>1, StoreSpecs DEF UserCreates
<1>3. ASSUME NEW spec \in Specs, UserEdits(k, spec) PROVE SpecsGiven'
  <2>1. /\ [Obj(k) EXCEPT !.spec = spec] \in Object
        /\ [Obj(k) EXCEPT !.spec = spec].spec = spec
    BY <1>1 DEF Object
  <2> QED BY <1>3, <2>1, StoreSpecs DEF UserEdits
<1>4. CASE UserDeletes(k)
  <2>1. [Obj(k) EXCEPT !.live = FALSE] \in Object /\ ~[Obj(k) EXCEPT !.live = FALSE].live
    BY <1>1 DEF Object
  <2> QED BY <1>4, <2>1, StoreSpecs DEF UserDeletes
<1> QED BY <1>2, <1>3, <1>4 DEF User

LEMMA WriteStatusSpecs ==
  ASSUME RuntimeTypeOK, SpecsGiven, NEW k \in Keys, NEW snap \in 1..Latest(k),
         NEW status \in Statuses, WriteStatus(k, snap, status)
  PROVE  SpecsGiven'
<1>1. revisions[k][snap] \in Object BY ObjectsTyped
<1> DEFINE object == [revisions[k][snap] EXCEPT !.status = status]
<1>2. /\ object \in Object /\ object.live = revisions[k][snap].live
      /\ object.spec = revisions[k][snap].spec
  BY <1>1 DEF Object
<1>3. CASE UNCHANGED revisions BY <1>3 DEF SpecsGiven, Latest
<1>4. object.live => object.spec \in Specs BY <1>2 DEF SpecsGiven
<1> HIDE DEF object
<1>5. CASE Store(k, object) BY <1>2, <1>4, <1>5, StoreSpecs
<1> QED BY <1>3, <1>5 DEF WriteStatus, object

LEMMA UnchangedSpecs == SpecsGiven /\ UNCHANGED revisions => SpecsGiven'
BY DEF SpecsGiven, Latest

-----------------------------------------------------------------------------
(* Without re-creations the resources of one name that ever existed are    *)
(* one resource: whoever carries its uid belongs to it.                    *)
BelongsTo(k, uid) ==
  /\ Latest(k) # 1
  /\ \A r \in 1..Latest(k) : revisions[k][r].live => revisions[k][r].uid = uid
OneIncarnation ==
  \A k \in Keys : \A m \in 1..Latest(k) :
    revisions[k][m].live => BelongsTo(k, revisions[k][m].uid)

LEMMA InitIncarnation == RuntimeInit => OneIncarnation
BY DEF RuntimeInit, OneIncarnation, Latest, Absent

LEMMA UnchangedIncarnation ==
  ASSUME UNCHANGED revisions
  PROVE  /\ OneIncarnation => OneIncarnation'
         /\ \A j, uid : BelongsTo(j, uid)' <=> BelongsTo(j, uid)
BY DEF OneIncarnation, BelongsTo, Latest

LEMMA StoredIncarnation ==
  ASSUME RuntimeTypeOK, OneIncarnation, NEW k \in Keys, NEW object \in Object, Store(k, object),
         object.live => Latest(k) = 1 \/ (Obj(k).live /\ object.uid = Obj(k).uid)
  PROVE  /\ OneIncarnation'
         /\ \A j \in Keys : \A uid : BelongsTo(j, uid) => BelongsTo(j, uid)'
<1>1. /\ Latest(k) \in Nat /\ Latest(k) >= 1 /\ Latest(k)' = Latest(k) + 1
      /\ Obj(k)' = object
      /\ \A n \in 1..Latest(k) : revisions'[k][n] = revisions[k][n]
      /\ \A j \in Keys \ {k} : revisions'[j] = revisions[j]
  BY StoreAppends, ObjectsTyped
<1>2. revisions'[k][Latest(k) + 1] = object BY <1>1 DEF Obj, Latest
<1>3. \A n \in 1..Latest(k)' : n \in 1..Latest(k) \/ n = Latest(k) + 1 BY <1>1
<1>4. Latest(k) \in 1..Latest(k) /\ Obj(k) = revisions[k][Latest(k)] BY <1>1 DEF Obj
<1>5. \A j \in Keys \ {k} : Latest(j)' = Latest(j) BY <1>1 DEF Latest
<1>6. ASSUME NEW j \in Keys, NEW uid, BelongsTo(j, uid) PROVE BelongsTo(j, uid)'
  <2>1. CASE j # k BY <1>1, <1>5, <1>6, <2>1 DEF BelongsTo
  <2>2. CASE j = k
    <3>1. object.live => object.uid = uid BY <1>4, <1>6, <2>2 DEF BelongsTo
    <3>2. Latest(k)' # 1 BY <1>1
    <3> QED BY <1>1, <1>2, <1>3, <1>6, <2>2, <3>1, <3>2 DEF BelongsTo
  <2> QED BY <2>1, <2>2
<1>7. object.live => BelongsTo(k, object.uid)'
  <2> SUFFICES ASSUME object.live, NEW uid, uid = object.uid PROVE BelongsTo(k, uid)' OBVIOUS
  <2>1. CASE Latest(k) = 1
    <3>1. ~revisions[k][1].live BY <1>4, <2>1 DEF OneIncarnation, BelongsTo
    <3>2. \A r \in 1..Latest(k)' : revisions'[k][r].live => r = 2
      BY <1>1, <1>3, <2>1, <3>1
    <3>3. Latest(k)' # 1 BY <1>1
    <3> QED BY <1>2, <2>1, <3>2, <3>3 DEF BelongsTo
  <2>2. CASE Obj(k).live /\ object.uid = Obj(k).uid
    BY <1>4, <1>6, <2>2 DEF OneIncarnation
  <2> QED BY <2>1, <2>2
<1>8. OneIncarnation'
  <2> SUFFICES ASSUME NEW j \in Keys, NEW m \in 1..Latest(j)', revisions'[j][m].live,
                      NEW uid, uid = revisions'[j][m].uid
               PROVE  BelongsTo(j, uid)'
    BY DEF OneIncarnation
  <2>1. CASE j # k BY <1>1, <1>5, <1>6, <2>1 DEF OneIncarnation
  <2>2. CASE j = k /\ m \in 1..Latest(k) BY <1>1, <1>6, <2>2 DEF OneIncarnation
  <2>3. CASE j = k /\ m = Latest(k) + 1 BY <1>2, <1>7, <2>3
  <2> QED BY <1>3, <2>1, <2>2, <2>3
<1> QED BY <1>6, <1>8

(* Without edits either, they all ask for the same.                        *)
Unedited ==
  \A k \in Keys : \A m, n \in 1..Latest(k) :
    revisions[k][m].live /\ revisions[k][n].live => revisions[k][m].spec = revisions[k][n].spec

LEMMA InitUnedited == RuntimeInit => Unedited
BY DEF RuntimeInit, Unedited, Latest, Absent

LEMMA StoredUnedited ==
  ASSUME RuntimeTypeOK, OneIncarnation, Unedited, NEW k \in Keys, NEW object \in Object,
         Store(k, object),
         object.live => Latest(k) = 1 \/ (Obj(k).live /\ object.spec = Obj(k).spec)
  PROVE  Unedited'
<1>1. /\ Latest(k) \in Nat /\ Latest(k) >= 1 /\ Latest(k)' = Latest(k) + 1
      /\ Obj(k)' = object
      /\ \A n \in 1..Latest(k) : revisions'[k][n] = revisions[k][n]
      /\ \A j \in Keys \ {k} : revisions'[j] = revisions[j]
  BY StoreAppends, ObjectsTyped
<1>2. revisions'[k][Latest(k) + 1] = object BY <1>1 DEF Obj, Latest
<1>3. \A n \in 1..Latest(k)' : n \in 1..Latest(k) \/ n = Latest(k) + 1 BY <1>1
<1>4. Latest(k) \in 1..Latest(k) /\ Obj(k) = revisions[k][Latest(k)] BY <1>1 DEF Obj
<1>5. Latest(k) = 1 => \A n \in 1..Latest(k) : ~revisions[k][n].live
  BY DEF OneIncarnation, BelongsTo
<1>6. \A n \in 1..Latest(k) :
        revisions[k][n].live /\ object.live => revisions[k][n].spec = object.spec
  BY <1>4, <1>5 DEF Unedited
<1>7. \A m, n \in 1..Latest(k)' :
        revisions'[k][m].live /\ revisions'[k][n].live
          => revisions'[k][m].spec = revisions'[k][n].spec
  BY <1>1, <1>2, <1>3, <1>6 DEF Unedited
<1> QED BY <1>1, <1>7 DEF Unedited, Latest

(* What the user stores keeps the status, or is a fresh resource.          *)
LEMMA UserStoresOwn ==
  ASSUME RuntimeTypeOK, NEW k \in Keys, User(k), "recreate" \notin faults'
  PROVE  \E object \in Object :
           /\ Store(k, object)
           /\ object.live => Latest(k) = 1 \/ (Obj(k).live /\ object.uid = Obj(k).uid)
           /\ object.status \in {Blank, Obj(k).status}
           /\ "edit" \in faults' \/ Latest(k) = 1 \/ object.spec = Obj(k).spec
<1>1. Latest(k) \in Nat /\ Obj(k) \in Object BY ObjectsTyped
<1>2. ASSUME NEW spec \in Specs, UserCreates(k, spec)
      PROVE  Store(k, [live |-> TRUE, uid |-> Latest(k) + 1, spec |-> spec, status |-> Blank])
             /\ Latest(k) = 1
  BY <1>2 DEF UserCreates, Disturb
<1>3. \A spec \in Specs :
        [live |-> TRUE, uid |-> Latest(k) + 1, spec |-> spec, status |-> Blank] \in Object
  BY <1>1, StatusAssumption DEF Object
<1>4. ASSUME NEW spec \in Specs, UserEdits(k, spec)
      PROVE  Store(k, [Obj(k) EXCEPT !.spec = spec]) /\ Obj(k).live /\ "edit" \in faults'
  BY <1>4 DEF UserEdits, Disturb
<1>5. \A spec \in Specs : LET object == [Obj(k) EXCEPT !.spec = spec]
                          IN object \in Object /\ object.uid = Obj(k).uid
                             /\ object.status = Obj(k).status
  BY <1>1 DEF Object
<1>6. CASE UserDeletes(k)
  <2>1. Store(k, [Obj(k) EXCEPT !.live = FALSE]) BY <1>6 DEF UserDeletes
  <2>2. LET object == [Obj(k) EXCEPT !.live = FALSE]
        IN object \in Object /\ ~object.live /\ object.status = Obj(k).status
           /\ object.spec = Obj(k).spec
    BY <1>1 DEF Object
  <2> QED BY <2>1, <2>2
<1>7. CASE \E spec \in Specs : UserCreates(k, spec) BY <1>2, <1>3, <1>7
<1>8. CASE \E spec \in Specs : UserEdits(k, spec) BY <1>4, <1>5, <1>8
<1> QED BY <1>6, <1>7, <1>8 DEF User
=============================================================================
