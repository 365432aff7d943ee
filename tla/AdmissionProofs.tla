--------------------------- MODULE AdmissionProofs ---------------------------
(***************************************************************************)
(* Proofs about the limits of request_filter.rs for any number of          *)
(* requests, management calls, slots and keys.                             *)
(***************************************************************************)
EXTENDS Admission, FiniteSetTheorems, TLAPS

RequestRecord == [pc : Stages, arc : Slots \cup {NoSlot}, permit : BOOLEAN,
                  user : UserSlots \cup {NoSlot}]
ManagerRecord == [pc : {"idle", "insert", "sync", "drop"}, key : KeyRecord \cup {NoKey}]
SlotRecord == [key : KeyRecord \cup {NoKey}, inflight : Nat]

\* Where a request has a user id slot, and where it cannot have a permit.
WithUser == {"ucas", "utotal", "serve", "end", "usub", "usubtotal", "ucheck", "uremove"}
BeforePermit == {"new", "key", "get", "cas", "refused", "permit"}

Shape(q) ==
    /\ q.user # NoSlot => q.pc \in WithUser
    /\ q.pc \in WithUser \ {"serve", "end"} => q.user # NoSlot
    /\ q.pc \in BeforePermit => ~q.permit
    /\ q.pc = "cas" => q.arc # NoSlot
    /\ q.pc \in {"new", "key", "get"} => q.arc = NoSlot

ShapeOK == \A r \in Requests : Shape(req[r])

\* HoldsSlot and HoldsUser, and the tier's total, of a request's record.
HasSlot(q) == q.arc # NoSlot /\ q.pc # "cas"
HasUser(q) == q.user # NoSlot /\ q.pc \notin {"ucas", "usubtotal", "ucheck", "uremove"}
HasCount(q) == q.user # NoSlot /\ q.pc \notin {"ucas", "utotal", "ucheck", "uremove"}

\* The sets that the counters count.
SlotHolders(s) == {r \in Requests : HoldsSlot(r) /\ req[r].arc = s}
UserHolders(u) == {r \in Requests : HoldsUser(r) /\ req[r].user = u}
Counted == {r \in Requests : HasCount(req[r])}
Permitted == {r \in Requests : req[r].permit}
KeyHolders(id) == {r \in Requests : HoldsSlot(r) /\ slot[req[r].arc].key.id = id}

\* The parts of NothingLost.
SlotsCover == \A s \in Slots : slot[s].inflight >= Cardinality(SlotHolders(s))
UsersExact ==
    \A u \in UserSlots : (u = userMap \/ \E r \in Requests : req[r].user = u)
        => userSlot[u] = Cardinality(UserHolders(u))
TotalExact == total = Cardinality(Counted)
PermitsExact == sem = Permits - Cardinality(Permitted)

\* The slot of a user id that the map holds is some request's.
MapHeld == userMap # NoSlot => \E r \in Requests : req[r].user = userMap

\* Ids are given out in order.
IdsGiven ==
    /\ key.id <= created
    /\ \A s \in Slots : slot[s].key.id <= created
    /\ \A m \in Managers : mgr[m].key.id <= created
    /\ \A m \in Managers : mgr[m].pc = "sync" => mgr[m].key # NoKey

\* One management call at a time, and what it knows of the key.
OneCall ==
    calm => /\ \A m, n \in Managers : mgr[m].pc # "idle" /\ mgr[n].pc # "idle" => m = n
            /\ \A m \in Managers : /\ mgr[m].pc = "sync" => key = mgr[m].key
                                   /\ mgr[m].pc = "drop" => key = NoKey

\* The map's slot is the key's.
Synced == /\ key # NoKey /\ current # NoSlot
          /\ slot[current].key.id = key.id /\ slot[current].key.name = key.name

\* A request between the look-up and the exchange works on the map's slot.
ReadersSynced ==
    calm => \A r \in Requests : /\ req[r].pc \in {"get", "cas"} => Synced
                                /\ req[r].pc = "cas" => req[r].arc = current

\* A key without a slot in the map is held by nobody, and the counter of the
\* map's slot covers everybody who holds a slot of that key.
KeyCovered ==
    calm => /\ key # NoKey => \/ current # NoSlot /\ slot[current].key.id = key.id
                              \/ KeyHolders(key.id) = {}
            /\ current # NoSlot =>
                  slot[current].inflight >= Cardinality(KeyHolders(slot[current].key.id))

AdmissionInv ==
    /\ AdmissionTypeOK /\ ShapeOK /\ MapHeld
    /\ SlotsCover /\ UsersExact /\ TotalExact /\ PermitsExact
    /\ IdsGiven /\ OneCall /\ ReadersSynced /\ KeyCovered /\ KeyLimit

-----------------------------------------------------------------------------
(* Types, and what is counted.                                             *)

LEMMA TypesOfAdmission ==
    AdmissionTypeOK <=>
        /\ key \in KeyRecord \cup {NoKey}
        /\ created \in 0..MaxKeys
        /\ current \in Slots \cup {NoSlot}
        /\ slot \in [Slots -> SlotRecord]
        /\ sem \in 0..Permits
        /\ active \in Int
        /\ userMap \in UserSlots \cup {NoSlot}
        /\ userSlot \in [UserSlots -> Nat]
        /\ total \in Nat
        /\ req \in [Requests -> RequestRecord]
        /\ mgr \in [Managers -> ManagerRecord]
        /\ calm \in BOOLEAN
  BY DEF AdmissionTypeOK, SlotRecord, RequestRecord, ManagerRecord

LEMMA KeyFacts ==
    /\ NoKey.id = 0 /\ NoKey \notin KeyRecord
    /\ \A k \in KeyRecord \cup {NoKey} : k.id \in 0..MaxKeys
    /\ \A k \in KeyRecord \cup {NoKey} : (k # NoKey <=> k.id # 0) /\ (k # NoKey <=> k \in KeyRecord)
    /\ \A k \in KeyRecord : k.id \in 1..MaxKeys /\ k.name \in Names /\ k.max \in Limits
    /\ MaxKeys \in Nat
  <1>1. NoKey.id = 0 /\ MaxKeys \in Nat
    BY AdmissionAssumption DEF NoKey
  <1>2. \A k \in KeyRecord : k.id \in 1..MaxKeys /\ k.name \in Names /\ k.max \in Limits
    BY DEF KeyRecord
  <1>3. \A k \in KeyRecord : k.id # 0 /\ k.id \in 0..MaxKeys
    BY <1>1, <1>2
  <1>4. NoKey \notin KeyRecord
    BY <1>1, <1>3
  <1>5. 0 \in 0..MaxKeys
    BY <1>1
  <1> QED BY <1>1, <1>2, <1>3, <1>4, <1>5

LEMMA FreshTyped ==
    /\ \A p \in Stages, u \in UserSlots \cup {NoSlot} :
          /\ [Fresh EXCEPT !.pc = p, !.user = u] \in RequestRecord
          /\ [Fresh EXCEPT !.pc = p, !.user = u].pc = p
          /\ [Fresh EXCEPT !.pc = p, !.user = u].user = u
          /\ [Fresh EXCEPT !.pc = p, !.user = u].arc = NoSlot
          /\ [Fresh EXCEPT !.pc = p, !.user = u].permit = FALSE
    /\ Fresh \in RequestRecord /\ Fresh.pc = "new" /\ Fresh.arc = NoSlot
    /\ Fresh.permit = FALSE /\ Fresh.user = NoSlot
  BY DEF Fresh, RequestRecord, Stages

LEMMA CountFacts ==
    ASSUME NEW S, S \subseteq Requests
    PROVE  IsFiniteSet(S) /\ Cardinality(S) \in Nat
  <1>1. IsFiniteSet(S)
    BY FS_Subset, AdmissionAssumption
  <1> QED BY <1>1, FS_CardinalityType

LEMMA OneMore ==
    ASSUME NEW S, S \subseteq Requests, NEW r \in Requests, r \notin S
    PROVE  Cardinality(S \cup {r}) = Cardinality(S) + 1
  BY CountFacts, FS_AddElement

LEMMA OneLess ==
    ASSUME NEW S, S \subseteq Requests, NEW r \in S
    PROVE  Cardinality(S \ {r}) = Cardinality(S) - 1 /\ Cardinality(S) > 0
  <1>1. IsFiniteSet(S) /\ Cardinality(S) \in Nat /\ Cardinality(S \ {r}) \in Nat
    BY CountFacts
  <1>2. Cardinality(S \ {r}) = Cardinality(S) - 1
    BY <1>1, FS_RemoveElement
  <1> QED BY <1>1, <1>2

LEMMA SetsOfRequests ==
    /\ \A s : SlotHolders(s) \subseteq Requests /\ SlotHolders(s)' \subseteq Requests
    /\ \A u : UserHolders(u) \subseteq Requests /\ UserHolders(u)' \subseteq Requests
    /\ Counted \subseteq Requests /\ Counted' \subseteq Requests
    /\ Permitted \subseteq Requests /\ Permitted' \subseteq Requests
    /\ \A i : KeyHolders(i) \subseteq Requests /\ KeyHolders(i)' \subseteq Requests
  BY DEF SlotHolders, UserHolders, Counted, Permitted, KeyHolders

\* A request takes a step: whom the counters count now.
LEMMA Moved ==
    ASSUME req \in [Requests -> RequestRecord], NEW r \in Requests, NEW q \in RequestRecord,
           req' = [req EXCEPT ![r] = q]
    PROVE  /\ req' \in [Requests -> RequestRecord] /\ req'[r] = q
           /\ \A p \in Requests : p # r => req'[p] = req[p]
  OBVIOUS

LEMMA SetsMoved ==
    ASSUME req \in [Requests -> RequestRecord], NEW r \in Requests, NEW q \in RequestRecord,
           req' = [req EXCEPT ![r] = q]
    PROVE  /\ \A s \in Slots :
                 SlotHolders(s)' = (SlotHolders(s) \ {r}) \cup {p \in {r} : HasSlot(q) /\ q.arc = s}
           /\ \A u \in UserSlots :
                 UserHolders(u)' = (UserHolders(u) \ {r}) \cup {p \in {r} : HasUser(q) /\ q.user = u}
           /\ Counted' = (Counted \ {r}) \cup {p \in {r} : HasCount(q)}
           /\ Permitted' = (Permitted \ {r}) \cup {p \in {r} : q.permit}
  <1>1. req'[r] = q /\ \A p \in Requests : p # r => req'[p] = req[p]
    OBVIOUS
  <1>2. ASSUME NEW s \in Slots
        PROVE  SlotHolders(s)' = (SlotHolders(s) \ {r}) \cup {p \in {r} : HasSlot(q) /\ q.arc = s}
    BY <1>1 DEF SlotHolders, HoldsSlot, HasSlot
  <1>3. ASSUME NEW u \in UserSlots
        PROVE  UserHolders(u)' = (UserHolders(u) \ {r}) \cup {p \in {r} : HasUser(q) /\ q.user = u}
    BY <1>1 DEF UserHolders, HoldsUser, HasUser
  <1>4. Counted' = (Counted \ {r}) \cup {p \in {r} : HasCount(q)}
    BY <1>1 DEF Counted, HasCount
  <1>5. Permitted' = (Permitted \ {r}) \cup {p \in {r} : q.permit}
    BY <1>1 DEF Permitted
  <1> QED BY <1>2, <1>3, <1>4, <1>5

-----------------------------------------------------------------------------
(* What a step of a request leaves alone.                                  *)

LEMMA ShapeKept ==
    ASSUME AdmissionInv, NEW r \in Requests, NEW q \in RequestRecord,
           req' = [req EXCEPT ![r] = q], Shape(q)
    PROVE  ShapeOK'
  BY Moved, TypesOfAdmission DEF AdmissionInv, ShapeOK

LEMMA ClientKept ==
    ASSUME AdmissionInv, NEW r \in Requests, NEW q \in RequestRecord,
           req' = [req EXCEPT ![r] = q], UNCHANGED <<clientVars, mgmtVars>>,
           HasSlot(q) <=> HasSlot(req[r]), HasSlot(q) => q.arc = req[r].arc,
           q.pc \in {"get", "cas"} => req[r].pc \in {"get", "cas"}, q.pc = "cas" => q.arc = current
    PROVE  SlotsCover' /\ IdsGiven' /\ OneCall' /\ ReadersSynced' /\ KeyCovered' /\ KeyLimit'
  <1>1. /\ req'[r] = q /\ \A p \in Requests : p # r => req'[p] = req[p]
        /\ UNCHANGED <<key, created, current, slot, mgr, calm>>
    BY Moved, TypesOfAdmission DEF AdmissionInv, clientVars, mgmtVars
  <1>2. \A s \in Slots : SlotHolders(s)' = SlotHolders(s)
    BY <1>1 DEF SlotHolders, HoldsSlot, HasSlot
  <1>3. \A i : KeyHolders(i)' = KeyHolders(i)
    BY <1>1 DEF KeyHolders, HoldsSlot, HasSlot
  <1>4. SlotsCover'
    BY <1>1, <1>2 DEF AdmissionInv, SlotsCover
  <1>5. IdsGiven' /\ OneCall'
    BY <1>1 DEF AdmissionInv, IdsGiven, OneCall
  <1>6. ReadersSynced'
    BY <1>1 DEF AdmissionInv, ReadersSynced, Synced
  <1>7. KeyCovered'
    BY <1>1, <1>3 DEF AdmissionInv, KeyCovered
  <1>8. KeyLimit'
    <2>1. KeyLimit <=> (calm /\ 0 \notin Limits =>
              \A i \in 1..MaxKeys : Cardinality(KeyHolders(i)) <= MaxLimit)
      BY DEF KeyLimit, KeyHolders
    <2>2. KeyLimit' <=> (calm' /\ 0 \notin Limits =>
              \A i \in 1..MaxKeys : Cardinality(KeyHolders(i)') <= MaxLimit)
      BY DEF KeyLimit, KeyHolders
    <2> QED BY <1>1, <1>3, <2>1, <2>2 DEF AdmissionInv
  <1> QED BY <1>4, <1>5, <1>6, <1>7, <1>8

LEMMA UserKept ==
    ASSUME AdmissionInv, NEW r \in Requests, NEW q \in RequestRecord,
           req' = [req EXCEPT ![r] = q], UNCHANGED userVars, q.user = req[r].user,
           HasUser(q) <=> HasUser(req[r]), HasCount(q) <=> HasCount(req[r])
    PROVE  UsersExact' /\ TotalExact' /\ MapHeld'
  <1>1. /\ req'[r] = q /\ \A p \in Requests : p # r => req'[p] = req[p]
        /\ UNCHANGED <<userMap, userSlot, total>>
    BY Moved, TypesOfAdmission DEF AdmissionInv, userVars
  <1>2. \A p \in Requests : req'[p].user = req[p].user
    BY <1>1
  <1>3. \A u \in UserSlots : UserHolders(u)' = UserHolders(u)
    BY <1>1 DEF UserHolders, HoldsUser, HasUser
  <1>4. Counted' = Counted
    BY <1>1 DEF Counted
  <1>5. UsersExact'
    BY <1>1, <1>2, <1>3 DEF AdmissionInv, UsersExact
  <1>6. TotalExact'
    BY <1>1, <1>4 DEF AdmissionInv, TotalExact
  <1>7. MapHeld'
    BY <1>1, <1>2 DEF AdmissionInv, MapHeld
  <1> QED BY <1>5, <1>6, <1>7

LEMMA PermitKept ==
    ASSUME AdmissionInv, NEW r \in Requests, NEW q \in RequestRecord,
           req' = [req EXCEPT ![r] = q], UNCHANGED sem, q.permit = req[r].permit
    PROVE  PermitsExact'
  <1>1. /\ req'[r] = q /\ \A p \in Requests : p # r => req'[p] = req[p]
    BY Moved, TypesOfAdmission DEF AdmissionInv
  <1>2. \A p \in Requests : req'[p].permit = req[p].permit
    BY <1>1
  <1>3. Permitted' = Permitted
    BY <1>2 DEF Permitted
  <1> QED BY <1>3 DEF AdmissionInv, PermitsExact

\* A step that moves a request on and changes nothing else.
LEMMA OnlyMoves ==
    ASSUME AdmissionInv, NEW r \in Requests, NEW stage \in Stages, To(r, stage),
           UNCHANGED <<clientVars, sem, active, userVars, mgmtVars>>,
           req[r].pc # "cas", stage \notin {"get", "cas"},
           req[r].user # NoSlot => \/ req[r].pc \in {"serve", "end"} /\ stage \in {"serve", "end"}
                                   \/ req[r].pc = "ucheck" /\ stage = "uremove",
           stage \in WithUser \ {"serve", "end"} => req[r].user # NoSlot,
           stage \in BeforePermit => req[r].pc \in BeforePermit,
           stage \in {"new", "key"} => req[r].pc \in {"new", "key"}
    PROVE  AdmissionInv'
  <1> DEFINE q == [req[r] EXCEPT !.pc = stage]
  <1>1. req \in [Requests -> RequestRecord] /\ req[r] \in RequestRecord
    BY TypesOfAdmission DEF AdmissionInv
  <1>2. req' = [req EXCEPT ![r] = q]
    BY <1>1 DEF To
  <1>3. /\ q \in RequestRecord /\ q.pc = stage /\ q.arc = req[r].arc /\ q.user = req[r].user
        /\ q.permit = req[r].permit
    BY <1>1 DEF RequestRecord
  <1> HIDE DEF q
  <1>4. Shape(req[r])
    BY DEF AdmissionInv, ShapeOK
  <1>5. Shape(q)
    BY <1>3, <1>4 DEF Shape, WithUser
  <1>6. /\ HasSlot(q) <=> HasSlot(req[r])
        /\ HasUser(q) <=> HasUser(req[r])
        /\ HasCount(q) <=> HasCount(req[r])
    BY <1>3 DEF HasSlot, HasUser, HasCount
  <1>7. AdmissionTypeOK'
    <2>1. req' \in [Requests -> RequestRecord]
      BY <1>1, <1>2, <1>3, Moved
    <2> QED BY <2>1, TypesOfAdmission DEF AdmissionInv, AdmissionTypeOK, RequestRecord, clientVars,
           userVars, mgmtVars
  <1>8. ShapeOK' /\ UsersExact' /\ TotalExact' /\ MapHeld' /\ PermitsExact'
    BY <1>2, <1>3, <1>5, <1>6, ShapeKept, UserKept, PermitKept
  <1>9. SlotsCover' /\ IdsGiven' /\ OneCall' /\ ReadersSynced' /\ KeyCovered' /\ KeyLimit'
    BY <1>2, <1>3, <1>6, ClientKept
  <1> QED BY <1>7, <1>8, <1>9 DEF AdmissionInv

LEMMA QuietSteps ==
    ASSUME AdmissionInv, NEW r \in Requests,
           Enter(r) \/ SlotGone(r) \/ SendRefusal(r) \/ Prepare(r) \/ Serve(r)
    PROVE  AdmissionInv'
  <1>1. Shape(req[r])
    BY DEF AdmissionInv, ShapeOK
  <1>2. PICK stage \in {"key", "end", "user", "serve"} :
            /\ To(r, stage) /\ UNCHANGED <<clientVars, sem, active, userVars, mgmtVars>>
            /\ req[r].pc \in {"new", "get", "refused", "domain", "serve"}
            /\ req[r].pc = "serve" => stage = "end"
            /\ stage = "key" => req[r].pc = "new"
    BY DEF Enter, SlotGone, SendRefusal, Prepare, Serve
  <1>3. /\ stage \in Stages /\ stage \notin {"get", "cas"} /\ req[r].pc # "cas"
        /\ stage \in BeforePermit => req[r].pc \in BeforePermit
        /\ stage \notin WithUser \ {"serve", "end"}
        /\ stage \in {"new", "key"} => req[r].pc \in {"new", "key"}
    BY <1>2 DEF Stages, BeforePermit, WithUser
  <1>4. req[r].user # NoSlot => req[r].pc = "serve" /\ stage = "end"
    BY <1>1, <1>2 DEF Shape, WithUser
  <1> QED BY <1>2, <1>3, <1>4, OnlyMoves

\* A step of a request that leaves the client key, its slots and the
\* management calls alone; its user id slot and its permit may change.
LEMMA UserSide ==
    ASSUME AdmissionInv, NEW r \in Requests, NEW q \in RequestRecord,
           req' = [req EXCEPT ![r] = q], UNCHANGED <<clientVars, mgmtVars>>, Shape(q),
           q.arc = req[r].arc, q.pc # "cas", q.pc # "get", req[r].pc # "cas",
           sem' \in 0..Permits, active' \in Int, PermitsExact',
           userMap' \in UserSlots \cup {NoSlot}, userSlot' \in [UserSlots -> Nat], total' \in Nat,
           UsersExact' /\ TotalExact' /\ MapHeld'
    PROVE  AdmissionInv'
  <1>1. AdmissionTypeOK'
    <2>1. req' \in [Requests -> RequestRecord]
      BY Moved, TypesOfAdmission DEF AdmissionInv
    <2> QED BY <2>1, TypesOfAdmission DEF AdmissionInv, AdmissionTypeOK, RequestRecord, clientVars,
           mgmtVars
  <1>2. SlotsCover' /\ IdsGiven' /\ OneCall' /\ ReadersSynced' /\ KeyCovered' /\ KeyLimit'
    BY ClientKept DEF HasSlot
  <1> QED BY <1>1, <1>2, ShapeKept DEF AdmissionInv

\* The types a step of request r starts from.
LEMMA TypesOfRequest ==
    ASSUME AdmissionInv, NEW r \in Requests
    PROVE  /\ req \in [Requests -> RequestRecord] /\ req[r] \in RequestRecord /\ Shape(req[r])
           /\ sem \in 0..Permits /\ active \in Int /\ total \in Nat /\ Permits \in Nat
           /\ userMap \in UserSlots \cup {NoSlot} /\ userSlot \in [UserSlots -> Nat]
           /\ current \in Slots \cup {NoSlot} /\ slot \in [Slots -> SlotRecord]
           /\ NoSlot \notin Slots /\ NoSlot \notin UserSlots
  BY TypesOfAdmission, AdmissionAssumption DEF AdmissionInv, ShapeOK

LEMMA GetSlotStep ==
    ASSUME AdmissionInv, NEW r \in Requests, GetSlot(r)
    PROVE  AdmissionInv'
  <1> DEFINE q == [req[r] EXCEPT !.pc = "cas", !.arc = current]
  <1>1. req' = [req EXCEPT ![r] = q]
    BY TypesOfRequest DEF GetSlot
  <1>2. /\ q \in RequestRecord /\ q.pc = "cas" /\ q.arc = current /\ q.user = req[r].user
        /\ q.permit = req[r].permit
    BY TypesOfRequest DEF RequestRecord, Stages
  <1> HIDE DEF q
  <1>3. req[r].pc = "get" /\ req[r].arc = NoSlot /\ current # NoSlot /\ req[r].user = NoSlot
    BY TypesOfRequest DEF GetSlot, Shape, WithUser
  <1>4. Shape(q)
    BY <1>2, <1>3, TypesOfRequest DEF Shape, WithUser, BeforePermit
  <1>5. /\ ~HasSlot(q) /\ ~HasSlot(req[r])
        /\ HasUser(q) <=> HasUser(req[r])
        /\ HasCount(q) <=> HasCount(req[r])
    BY <1>2, <1>3 DEF HasSlot, HasUser, HasCount
  <1>6. UNCHANGED <<clientVars, sem, active, userVars, mgmtVars>>
    BY DEF GetSlot
  <1>7. SlotsCover' /\ IdsGiven' /\ OneCall' /\ ReadersSynced' /\ KeyCovered' /\ KeyLimit'
    BY <1>1, <1>2, <1>3, <1>5, <1>6, ClientKept
  <1>8. ShapeOK' /\ UsersExact' /\ TotalExact' /\ MapHeld' /\ PermitsExact'
    BY <1>1, <1>2, <1>4, <1>5, <1>6, ShapeKept, UserKept, PermitKept
  <1>9. AdmissionTypeOK'
    <2>1. req' \in [Requests -> RequestRecord]
      BY <1>1, <1>2, Moved, TypesOfRequest
    <2> QED BY <1>6, <2>1, TypesOfAdmission DEF AdmissionInv, AdmissionTypeOK, RequestRecord,
           clientVars, userVars, mgmtVars
  <1> QED BY <1>7, <1>8, <1>9 DEF AdmissionInv

LEMMA RefuseSlotStep ==
    ASSUME AdmissionInv, NEW r \in Requests, RefuseSlot(r)
    PROVE  AdmissionInv'
  <1> DEFINE q == [req[r] EXCEPT !.pc = "refused", !.arc = NoSlot]
  <1>1. req' = [req EXCEPT ![r] = q]
    BY TypesOfRequest DEF RefuseSlot
  <1>2. /\ q \in RequestRecord /\ q.pc = "refused" /\ q.arc = NoSlot /\ q.user = req[r].user
        /\ q.permit = req[r].permit
    BY TypesOfRequest DEF RequestRecord, Stages
  <1> HIDE DEF q
  <1>3. req[r].pc = "cas" /\ req[r].user = NoSlot
    BY TypesOfRequest DEF RefuseSlot, Shape, WithUser
  <1>4. Shape(q)
    BY <1>2, <1>3, TypesOfRequest DEF Shape, WithUser, BeforePermit
  <1>5. /\ ~HasSlot(q) /\ ~HasSlot(req[r])
        /\ HasUser(q) <=> HasUser(req[r])
        /\ HasCount(q) <=> HasCount(req[r])
    BY <1>2, <1>3 DEF HasSlot, HasUser, HasCount
  <1>6. UNCHANGED <<clientVars, sem, active, userVars, mgmtVars>>
    BY DEF RefuseSlot
  <1>7. SlotsCover' /\ IdsGiven' /\ OneCall' /\ ReadersSynced' /\ KeyCovered' /\ KeyLimit'
    BY <1>1, <1>2, <1>5, <1>6, ClientKept
  <1>8. ShapeOK' /\ UsersExact' /\ TotalExact' /\ MapHeld' /\ PermitsExact'
    BY <1>1, <1>2, <1>4, <1>5, <1>6, ShapeKept, UserKept, PermitKept
  <1>9. AdmissionTypeOK'
    <2>1. req' \in [Requests -> RequestRecord]
      BY <1>1, <1>2, Moved, TypesOfRequest
    <2> QED BY <1>6, <2>1, TypesOfAdmission DEF AdmissionInv, AdmissionTypeOK, RequestRecord,
           clientVars, userVars, mgmtVars
  <1> QED BY <1>7, <1>8, <1>9 DEF AdmissionInv

LEMMA TakePermitStep ==
    ASSUME AdmissionInv, NEW r \in Requests, TakePermit(r)
    PROVE  AdmissionInv'
  <1>1. /\ req[r].pc = "permit" /\ req[r].user = NoSlot /\ ~req[r].permit
        /\ UNCHANGED <<clientVars, userVars, mgmtVars>>
    BY TypesOfRequest DEF TakePermit, Shape, WithUser, BeforePermit
  <1>2. CASE To(r, "end") /\ UNCHANGED <<sem, active>>
    BY <1>1, <1>2, OnlyMoves DEF Stages, BeforePermit, WithUser
  <1>3. CASE /\ sem > 0 /\ sem' = sem - 1 /\ active' = active + 1
             /\ req' = [req EXCEPT ![r].pc = "domain", ![r].permit = TRUE]
    <2> DEFINE q == [req[r] EXCEPT !.pc = "domain", !.permit = TRUE]
    <2>1. req' = [req EXCEPT ![r] = q]
      BY <1>3, TypesOfRequest
    <2>2. /\ q \in RequestRecord /\ q.pc = "domain" /\ q.arc = req[r].arc /\ q.user = req[r].user
          /\ q.permit = TRUE
      BY TypesOfRequest DEF RequestRecord, Stages
    <2> HIDE DEF q
    <2>3. Shape(q)
      BY <1>1, <2>2 DEF Shape, WithUser, BeforePermit
    <2>4. /\ HasUser(q) <=> HasUser(req[r])
          /\ HasCount(q) <=> HasCount(req[r])
      BY <1>1, <2>2 DEF HasUser, HasCount
    <2>5. sem' \in 0..Permits /\ active' \in Int
      BY <1>3, TypesOfRequest
    <2>6. PermitsExact'
      <3>1. Permitted' = Permitted \cup {r} /\ r \notin Permitted
        BY <1>1, <2>1, <2>2, SetsMoved, TypesOfRequest DEF Permitted
      <3>2. Cardinality(Permitted') = Cardinality(Permitted) + 1 /\ Cardinality(Permitted) \in Nat
        BY <3>1, OneMore, CountFacts, SetsOfRequests
      <3> QED BY <1>3, <3>2, TypesOfRequest DEF AdmissionInv, PermitsExact
    <2>7. UsersExact' /\ TotalExact' /\ MapHeld'
      BY <1>1, <2>1, <2>2, <2>4, UserKept
    <2>8. /\ userMap' \in UserSlots \cup {NoSlot} /\ userSlot' \in [UserSlots -> Nat]
          /\ total' \in Nat
      BY <1>1, TypesOfRequest DEF userVars
    <2> QED BY <1>1, <2>1, <2>2, <2>3, <2>5, <2>6, <2>7, <2>8, UserSide
  <1> QED BY <1>2, <1>3 DEF TakePermit

-----------------------------------------------------------------------------
(* UpstreamUserIdLimiter.                                                  *)

\* A step of a request on its user id slot.
LEMMA UserStep ==
    ASSUME AdmissionInv, NEW r \in Requests, NEW q \in RequestRecord,
           req' = [req EXCEPT ![r] = q], UNCHANGED <<clientVars, sem, active, mgmtVars>>, Shape(q),
           q.arc = req[r].arc, q.permit = req[r].permit, q.pc # "cas", q.pc # "get",
           req[r].pc # "cas",
           userMap' \in UserSlots \cup {NoSlot}, userSlot' \in [UserSlots -> Nat], total' \in Nat,
           UsersExact' /\ TotalExact' /\ MapHeld'
    PROVE  AdmissionInv'
  <1>1. sem' \in 0..Permits /\ active' \in Int
    BY TypesOfRequest
  <1>2. PermitsExact'
    BY PermitKept
  <1> QED BY <1>1, <1>2, UserSide

LEMMA SyncUserStep ==
    ASSUME AdmissionInv, NEW r \in Requests, SyncUser(r)
    PROVE  AdmissionInv'
  <1>1. PICK u \in UserSlots :
            /\ req' = [req EXCEPT ![r].pc = "ucas", ![r].user = u] /\ userMap' = u
            /\ \/ userMap = u /\ userSlot' = userSlot
               \/ /\ userMap = NoSlot /\ \A p \in Requests : req[p].user # u
                  /\ userSlot' = [userSlot EXCEPT ![u] = 0]
    BY TypesOfRequest DEF SyncUser
  <1> DEFINE q == [req[r] EXCEPT !.pc = "ucas", !.user = u]
  <1>2. req' = [req EXCEPT ![r] = q]
    BY <1>1, TypesOfRequest
  <1>3. /\ q \in RequestRecord /\ q.pc = "ucas" /\ q.arc = req[r].arc /\ q.user = u
        /\ q.permit = req[r].permit
    BY TypesOfRequest DEF RequestRecord, Stages
  <1> HIDE DEF q
  <1>4. /\ req[r].pc = "user" /\ req[r].user = NoSlot /\ u # NoSlot
        /\ UNCHANGED <<clientVars, sem, active, total, mgmtVars>>
    BY TypesOfRequest DEF SyncUser, Shape, WithUser
  <1>5. Shape(q)
    BY <1>3, <1>4 DEF Shape, WithUser, BeforePermit
  <1>6. ~HasUser(q) /\ ~HasCount(q) /\ ~HasUser(req[r]) /\ ~HasCount(req[r])
    BY <1>3, <1>4 DEF HasUser, HasCount
  <1>7. /\ req'[r] = q /\ \A p \in Requests : p # r => req'[p] = req[p]
    BY <1>2, <1>3, Moved, TypesOfRequest
  <1>8. \A v \in UserSlots : UserHolders(v)' = UserHolders(v)
    BY <1>6, <1>7 DEF UserHolders, HoldsUser, HasUser
  <1>9. Counted' = Counted
    BY <1>6, <1>7 DEF Counted
  <1>10. UsersExact'
    <2> SUFFICES ASSUME NEW v \in UserSlots, v = userMap' \/ \E p \in Requests : req'[p].user = v
                 PROVE  userSlot'[v] = Cardinality(UserHolders(v))
      BY <1>8 DEF UsersExact
    <2>1. CASE userMap = u /\ userSlot' = userSlot
      BY <1>1, <1>3, <1>7, <2>1 DEF AdmissionInv, UsersExact
    <2>2. CASE /\ userMap = NoSlot /\ \A p \in Requests : req[p].user # u
               /\ userSlot' = [userSlot EXCEPT ![u] = 0]
      <3>1. CASE v = u
        <4>1. UserHolders(v) = {}
          BY <2>2, <3>1 DEF UserHolders
        <4> QED BY <2>2, <3>1, <4>1, FS_EmptySet, TypesOfRequest
      <3>2. CASE v # u
        <4>1. userSlot'[v] = userSlot[v]
          BY <2>2, <3>2, TypesOfRequest
        <4>2. \E p \in Requests : req[p].user = v
          BY <1>1, <1>3, <1>7, <3>2
        <4> QED BY <4>1, <4>2 DEF AdmissionInv, UsersExact
      <3> QED BY <3>1, <3>2
    <2> QED BY <1>1, <2>1, <2>2
  <1>11. TotalExact' /\ MapHeld'
    BY <1>1, <1>3, <1>4, <1>7, <1>9 DEF AdmissionInv, TotalExact, MapHeld
  <1>12. /\ userMap' \in UserSlots \cup {NoSlot} /\ userSlot' \in [UserSlots -> Nat]
         /\ total' \in Nat
    BY <1>1, <1>4, TypesOfRequest
  <1> QED BY <1>2, <1>3, <1>4, <1>5, <1>10, <1>11, <1>12, UserStep

LEMMA TakeUserStep ==
    ASSUME AdmissionInv, NEW r \in Requests, TakeUser(r)
    PROVE  AdmissionInv'
  <1> DEFINE u == req[r].user
  <1>1. /\ req[r].pc = "ucas" /\ u \in UserSlots /\ u # NoSlot /\ userSlot[u] \in Nat
        /\ userSlot[u] = Cardinality(UserHolders(u))
        /\ UNCHANGED <<clientVars, sem, active, userMap, total, mgmtVars>>
    <2>1. req[r].pc = "ucas" /\ u \in UserSlots /\ u # NoSlot
      BY TypesOfRequest DEF TakeUser, Shape, WithUser, RequestRecord
    <2> QED BY <2>1, TypesOfRequest DEF TakeUser, AdmissionInv, UsersExact
  <1>2. CASE /\ UserLimit = 0 \/ userSlot[u] < UserLimit
             /\ To(r, "utotal")
             /\ userSlot' = [userSlot EXCEPT ![u] = @ + 1]
    <2> DEFINE q == [req[r] EXCEPT !.pc = "utotal"]
    <2>1. req' = [req EXCEPT ![r] = q]
      BY <1>2, TypesOfRequest DEF To
    <2>2. /\ q \in RequestRecord /\ q.pc = "utotal" /\ q.arc = req[r].arc /\ q.user = u
          /\ q.permit = req[r].permit
      BY TypesOfRequest DEF RequestRecord, Stages
    <2> HIDE DEF q
    <2>3. Shape(q)
      BY <1>1, <2>2 DEF Shape, WithUser, BeforePermit
    <2>4. HasUser(q) /\ ~HasCount(q) /\ ~HasUser(req[r]) /\ ~HasCount(req[r])
      BY <1>1, <2>2 DEF HasUser, HasCount
    <2>5. req'[r] = q /\ \A p \in Requests : p # r => req'[p] = req[p]
      BY <2>1, <2>2, Moved, TypesOfRequest
    <2>6. userSlot' \in [UserSlots -> Nat] /\ userSlot'[u] = userSlot[u] + 1
      BY <1>1, <1>2, TypesOfRequest
    <2>7. UsersExact'
      <3> SUFFICES ASSUME NEW v \in UserSlots, v = userMap' \/ \E p \in Requests : req'[p].user = v
                   PROVE  userSlot'[v] = Cardinality(UserHolders(v)')
        BY DEF UsersExact
      <3>1. CASE v = u
        <4>1. UserHolders(v)' = UserHolders(v) \cup {r} /\ r \notin UserHolders(v)
          BY <1>1, <2>2, <2>4, <2>5, <3>1 DEF UserHolders, HoldsUser, HasUser
        <4>2. Cardinality(UserHolders(v)') = Cardinality(UserHolders(v)) + 1
          BY <4>1, OneMore, SetsOfRequests
        <4> QED BY <1>1, <2>6, <3>1, <4>2
      <3>2. CASE v # u
        <4>1. userSlot'[v] = userSlot[v] /\ UserHolders(v)' = UserHolders(v)
          BY <1>2, <2>2, <2>5, <3>2, TypesOfRequest DEF UserHolders, HoldsUser
        <4>2. v = userMap \/ \E p \in Requests : req[p].user = v
          BY <1>1, <2>2, <2>5
        <4> QED BY <4>1, <4>2 DEF AdmissionInv, UsersExact
      <3> QED BY <3>1, <3>2
    <2>8. TotalExact'
      <3>1. Counted' = Counted
        BY <2>4, <2>5 DEF Counted
      <3> QED BY <1>1, <3>1 DEF AdmissionInv, TotalExact
    <2>9. MapHeld'
      BY <1>1, <2>2, <2>5 DEF AdmissionInv, MapHeld
    <2>10. userMap' \in UserSlots \cup {NoSlot} /\ total' \in Nat
      BY <1>1, TypesOfRequest
    <2> QED BY <1>1, <2>1, <2>2, <2>3, <2>6, <2>7, <2>8, <2>9, <2>10, UserStep
  <1>3. CASE /\ UserLimit > 0 /\ userSlot[u] >= UserLimit /\ UNCHANGED userSlot
             /\ req' = [req EXCEPT ![r].pc = "end", ![r].user = NoSlot]
    <2> DEFINE q == [req[r] EXCEPT !.pc = "end", !.user = NoSlot]
    <2>1. req' = [req EXCEPT ![r] = q]
      BY <1>3, TypesOfRequest
    <2>2. /\ q \in RequestRecord /\ q.pc = "end" /\ q.arc = req[r].arc /\ q.user = NoSlot
          /\ q.permit = req[r].permit
      BY TypesOfRequest DEF RequestRecord, Stages
    <2> HIDE DEF q
    <2>3. Shape(q)
      BY <2>2 DEF Shape, WithUser, BeforePermit
    <2>4. ~HasUser(q) /\ ~HasCount(q) /\ ~HasUser(req[r]) /\ ~HasCount(req[r])
      BY <1>1, <2>2 DEF HasUser, HasCount
    <2>5. req'[r] = q /\ \A p \in Requests : p # r => req'[p] = req[p]
      BY <2>1, <2>2, Moved, TypesOfRequest
    <2>6. \A v \in UserSlots : UserHolders(v)' = UserHolders(v)
      BY <2>4, <2>5 DEF UserHolders, HoldsUser, HasUser
    <2>7. UsersExact'
      <3> SUFFICES ASSUME NEW v \in UserSlots, v = userMap' \/ \E p \in Requests : req'[p].user = v
                   PROVE  userSlot'[v] = Cardinality(UserHolders(v)')
        BY DEF UsersExact
      <3>1. v = userMap \/ \E p \in Requests : req[p].user = v
        BY <1>1, <2>2, <2>5, TypesOfRequest
      <3> QED BY <1>3, <2>6, <3>1 DEF AdmissionInv, UsersExact
    <2>8. TotalExact'
      <3>1. Counted' = Counted
        BY <2>4, <2>5 DEF Counted
      <3> QED BY <1>1, <3>1 DEF AdmissionInv, TotalExact
    \* The slot is full: somebody holds it.
    <2>9. PICK p \in UserHolders(u) : p # r
      <3>1. UserHolders(u) # {}
        BY <1>1, <1>3, FS_EmptySet, AdmissionAssumption
      <3> QED BY <2>4, <3>1 DEF UserHolders, HoldsUser, HasUser
    <2>10. MapHeld'
      <3>1. CASE userMap = u
        BY <1>1, <2>5, <2>9, <3>1 DEF MapHeld, UserHolders
      <3>2. CASE userMap # u
        BY <1>1, <2>5, <3>2 DEF AdmissionInv, MapHeld
      <3> QED BY <3>1, <3>2
    <2>11. /\ userMap' \in UserSlots \cup {NoSlot} /\ total' \in Nat
           /\ userSlot' \in [UserSlots -> Nat]
      BY <1>1, <1>3, TypesOfRequest
    <2> QED BY <1>1, <2>1, <2>2, <2>3, <2>7, <2>8, <2>10, <2>11, UserStep
  <1> QED BY <1>2, <1>3 DEF TakeUser

LEMMA CountUserStep ==
    ASSUME AdmissionInv, NEW r \in Requests, CountUser(r)
    PROVE  AdmissionInv'
  <1> DEFINE q == [req[r] EXCEPT !.pc = "serve"]
  <1>1. req' = [req EXCEPT ![r] = q]
    BY TypesOfRequest DEF To, CountUser
  <1>2. /\ q \in RequestRecord /\ q.pc = "serve" /\ q.arc = req[r].arc /\ q.user = req[r].user
        /\ q.permit = req[r].permit
    BY TypesOfRequest DEF RequestRecord, Stages
  <1> HIDE DEF q
  <1>3. /\ req[r].pc = "utotal" /\ req[r].user # NoSlot /\ total' = total + 1
        /\ UNCHANGED <<clientVars, sem, active, userMap, userSlot, mgmtVars>>
    BY TypesOfRequest DEF CountUser, Shape, WithUser
  <1>4. Shape(q)
    BY <1>2, <1>3 DEF Shape, WithUser, BeforePermit
  <1>5. HasUser(q) /\ HasCount(q) /\ HasUser(req[r]) /\ ~HasCount(req[r])
    BY <1>2, <1>3 DEF HasUser, HasCount
  <1>6. req'[r] = q /\ \A p \in Requests : p # r => req'[p] = req[p]
    BY <1>1, <1>2, Moved, TypesOfRequest
  <1>7. \A p \in Requests : req'[p].user = req[p].user
    BY <1>2, <1>6
  <1>8. UsersExact' /\ MapHeld'
    <2>1. \A u \in UserSlots : UserHolders(u)' = UserHolders(u)
      BY <1>2, <1>5, <1>6 DEF UserHolders, HoldsUser, HasUser
    <2> QED BY <1>3, <1>7, <2>1 DEF AdmissionInv, UsersExact, MapHeld
  <1>9. TotalExact'
    <2>1. Counted' = Counted \cup {r} /\ r \notin Counted
      BY <1>5, <1>6 DEF Counted
    <2>2. Cardinality(Counted') = Cardinality(Counted) + 1
      BY <2>1, OneMore, SetsOfRequests
    <2> QED BY <1>3, <2>2 DEF AdmissionInv, TotalExact
  <1>10. /\ userMap' \in UserSlots \cup {NoSlot} /\ total' \in Nat
         /\ userSlot' \in [UserSlots -> Nat]
    BY <1>3, TypesOfRequest
  <1> QED BY <1>1, <1>2, <1>3, <1>4, <1>8, <1>9, <1>10, UserStep

LEMMA ReleaseUserStep ==
    ASSUME AdmissionInv, NEW r \in Requests, ReleaseUser(r)
    PROVE  AdmissionInv'
  <1>1. PICK u \in UserSlots : u = req[r].user /\ u # NoSlot
    BY TypesOfRequest DEF ReleaseUser, Shape, WithUser, RequestRecord
  <1> DEFINE q == [req[r] EXCEPT !.pc = "usubtotal"]
  <1>2. req' = [req EXCEPT ![r] = q]
    BY TypesOfRequest DEF To, ReleaseUser
  <1>3. /\ q \in RequestRecord /\ q.pc = "usubtotal" /\ q.arc = req[r].arc /\ q.user = u
        /\ q.permit = req[r].permit
    BY <1>1, TypesOfRequest DEF RequestRecord, Stages
  <1> HIDE DEF q
  <1>4. /\ req[r].pc = "usub" /\ userSlot' = [userSlot EXCEPT ![u] = userSlot[u] - 1]
        /\ UNCHANGED <<clientVars, sem, active, userMap, total, mgmtVars>>
    BY <1>1 DEF ReleaseUser
  <1>5. Shape(q)
    BY <1>1, <1>3 DEF Shape, WithUser, BeforePermit
  <1>6. ~HasUser(q) /\ HasCount(q) /\ HasUser(req[r]) /\ HasCount(req[r])
    BY <1>1, <1>3, <1>4 DEF HasUser, HasCount
  <1>7. req'[r] = q /\ \A p \in Requests : p # r => req'[p] = req[p]
    BY <1>2, <1>3, Moved, TypesOfRequest
  <1>8. \A p \in Requests : req'[p].user = req[p].user
    BY <1>1, <1>3, <1>7
  <1>9. /\ userSlot[u] = Cardinality(UserHolders(u)) /\ userSlot[u] - 1 = Cardinality(UserHolders(u)')
        /\ userSlot[u] - 1 \in Nat
    <2>1. UserHolders(u)' = UserHolders(u) \ {r} /\ r \in UserHolders(u)
      BY <1>1, <1>3, <1>6, <1>7 DEF UserHolders, HoldsUser, HasUser
    <2>2. Cardinality(UserHolders(u)') = Cardinality(UserHolders(u)) - 1
      BY <2>1, OneLess, SetsOfRequests
    <2>3. userSlot[u] = Cardinality(UserHolders(u))
      BY <1>1 DEF AdmissionInv, UsersExact
    <2>4. Cardinality(UserHolders(u)') \in Nat
      BY CountFacts, SetsOfRequests
    <2> QED BY <2>2, <2>3, <2>4
  <1>10. userSlot' \in [UserSlots -> Nat]
    BY <1>4, <1>9, TypesOfRequest
  <1>11. UsersExact'
    <2> SUFFICES ASSUME NEW v \in UserSlots, v = userMap' \/ \E p \in Requests : req'[p].user = v
                 PROVE  userSlot'[v] = Cardinality(UserHolders(v)')
      BY DEF UsersExact
    <2>1. CASE v = u
      BY <1>4, <1>9, <2>1, TypesOfRequest
    <2>2. CASE v # u
      <3>1. userSlot'[v] = userSlot[v] /\ UserHolders(v)' = UserHolders(v)
        BY <1>1, <1>3, <1>4, <1>7, <2>2, TypesOfRequest DEF UserHolders, HoldsUser
      <3>2. v = userMap \/ \E p \in Requests : req[p].user = v
        BY <1>4, <1>8
      <3> QED BY <3>1, <3>2 DEF AdmissionInv, UsersExact
    <2> QED BY <2>1, <2>2
  <1>12. TotalExact' /\ MapHeld'
    <2>1. Counted' = Counted
      BY <1>6, <1>7 DEF Counted
    <2> QED BY <1>4, <1>8, <2>1 DEF AdmissionInv, TotalExact, MapHeld
  <1>13. userMap' \in UserSlots \cup {NoSlot} /\ total' \in Nat
    BY <1>4, TypesOfRequest
  <1> QED BY <1>2, <1>3, <1>4, <1>5, <1>10, <1>11, <1>12, <1>13, UserStep

LEMMA UncountUserStep ==
    ASSUME AdmissionInv, NEW r \in Requests, UncountUser(r)
    PROVE  AdmissionInv'
  <1> DEFINE q == [req[r] EXCEPT !.pc = "ucheck"]
  <1>1. req' = [req EXCEPT ![r] = q]
    BY TypesOfRequest DEF To, UncountUser
  <1>2. /\ q \in RequestRecord /\ q.pc = "ucheck" /\ q.arc = req[r].arc /\ q.user = req[r].user
        /\ q.permit = req[r].permit
    BY TypesOfRequest DEF RequestRecord, Stages
  <1> HIDE DEF q
  <1>3. /\ req[r].pc = "usubtotal" /\ req[r].user # NoSlot /\ total' = total - 1
        /\ UNCHANGED <<clientVars, sem, active, userMap, userSlot, mgmtVars>>
    BY TypesOfRequest DEF UncountUser, Shape, WithUser
  <1>4. Shape(q)
    BY <1>2, <1>3 DEF Shape, WithUser, BeforePermit
  <1>5. ~HasUser(q) /\ ~HasCount(q) /\ ~HasUser(req[r]) /\ HasCount(req[r])
    BY <1>2, <1>3 DEF HasUser, HasCount
  <1>6. req'[r] = q /\ \A p \in Requests : p # r => req'[p] = req[p]
    BY <1>1, <1>2, Moved, TypesOfRequest
  <1>7. \A p \in Requests : req'[p].user = req[p].user
    BY <1>2, <1>6
  <1>8. UsersExact' /\ MapHeld'
    <2>1. \A u \in UserSlots : UserHolders(u)' = UserHolders(u)
      BY <1>2, <1>5, <1>6 DEF UserHolders, HoldsUser, HasUser
    <2> QED BY <1>3, <1>7, <2>1 DEF AdmissionInv, UsersExact, MapHeld
  <1>9. TotalExact' /\ total' \in Nat
    <2>1. Counted' = Counted \ {r} /\ r \in Counted
      BY <1>5, <1>6 DEF Counted
    <2>2. Cardinality(Counted') = Cardinality(Counted) - 1 /\ Cardinality(Counted') \in Nat
      BY <2>1, OneLess, CountFacts, SetsOfRequests
    <2> QED BY <1>3, <2>2 DEF AdmissionInv, TotalExact
  <1>10. userMap' \in UserSlots \cup {NoSlot} /\ userSlot' \in [UserSlots -> Nat]
    BY <1>3, TypesOfRequest
  <1> QED BY <1>1, <1>2, <1>3, <1>4, <1>8, <1>9, <1>10, UserStep

\* The request lets go of its user id slot: the map's slot, if it is that
\* one, is somebody else's too, or it leaves the map.
LEMMA GoneStep ==
    ASSUME AdmissionInv, NEW r \in Requests, Gone(r), req[r].pc \in {"ucheck", "uremove"},
           UNCHANGED <<clientVars, sem, active, userSlot, total, mgmtVars>>,
           \/ userMap' = NoSlot
           \/ UNCHANGED userMap /\ (userMap # req[r].user \/ userSlot[req[r].user] # 0)
    PROVE  AdmissionInv'
  <1>1. PICK u \in UserSlots : u = req[r].user /\ u # NoSlot
    BY TypesOfRequest DEF Shape, WithUser, RequestRecord
  <1> DEFINE q == [req[r] EXCEPT !.pc = "out", !.user = NoSlot]
  <1>2. req' = [req EXCEPT ![r] = q]
    BY TypesOfRequest DEF Gone
  <1>3. /\ q \in RequestRecord /\ q.pc = "out" /\ q.arc = req[r].arc /\ q.user = NoSlot
        /\ q.permit = req[r].permit
    BY TypesOfRequest DEF RequestRecord, Stages
  <1> HIDE DEF q
  <1>4. Shape(q)
    BY <1>3 DEF Shape, WithUser, BeforePermit
  <1>5. ~HasUser(q) /\ ~HasCount(q) /\ ~HasUser(req[r]) /\ ~HasCount(req[r])
    BY <1>3 DEF HasUser, HasCount
  <1>6. req'[r] = q /\ \A p \in Requests : p # r => req'[p] = req[p]
    BY <1>2, <1>3, Moved, TypesOfRequest
  <1>7. \A v \in UserSlots : UserHolders(v)' = UserHolders(v)
    BY <1>5, <1>6 DEF UserHolders, HoldsUser, HasUser
  <1>8. UsersExact'
    <2> SUFFICES ASSUME NEW v \in UserSlots, v = userMap' \/ \E p \in Requests : req'[p].user = v
                 PROVE  userSlot'[v] = Cardinality(UserHolders(v)')
      BY DEF UsersExact
    <2>1. v = userMap \/ \E p \in Requests : req[p].user = v
      BY <1>3, <1>6, TypesOfRequest
    <2> QED BY <1>7, <2>1 DEF AdmissionInv, UsersExact
  <1>9. TotalExact'
    <2>1. Counted' = Counted
      BY <1>5, <1>6 DEF Counted
    <2> QED BY <2>1 DEF AdmissionInv, TotalExact
  <1>10. MapHeld'
    <2>1. CASE userMap' = NoSlot
      BY <2>1 DEF MapHeld
    <2>2. CASE UNCHANGED userMap /\ userMap # u
      BY <1>1, <1>6, <2>2 DEF AdmissionInv, MapHeld
    <2>3. CASE UNCHANGED userMap /\ userMap = u /\ userSlot[u] # 0
      <3>1. UserHolders(u) # {}
        BY <1>1, <2>3, FS_EmptySet DEF AdmissionInv, UsersExact
      <3>2. PICK p \in Requests : p # r /\ req[p].user = u
        BY <1>5, <3>1 DEF UserHolders, HoldsUser, HasUser
      <3> QED BY <1>6, <2>3, <3>2 DEF MapHeld
    <2> QED BY <1>1, <2>1, <2>2, <2>3
  <1>11. /\ userMap' \in UserSlots \cup {NoSlot} /\ userSlot' \in [UserSlots -> Nat]
         /\ total' \in Nat
    BY TypesOfRequest
  <1> QED BY <1>2, <1>3, <1>4, <1>8, <1>9, <1>10, <1>11, UserStep

LEMMA CheckUserSlotStep ==
    ASSUME AdmissionInv, NEW r \in Requests, CheckUserSlot(r)
    PROVE  AdmissionInv'
  <1>1. req[r].pc = "ucheck" /\ UNCHANGED <<clientVars, sem, active, userVars, mgmtVars>>
    BY DEF CheckUserSlot
  <1>2. CASE To(r, "uremove")
    <2>1. req[r].user # NoSlot
      BY <1>1, TypesOfRequest DEF Shape, WithUser
    <2> QED BY <1>1, <1>2, <2>1, OnlyMoves DEF Stages, BeforePermit
  <1>3. CASE Gone(r) /\ ~(userSlot[req[r].user] = 0 /\ userMap = req[r].user)
    BY <1>1, <1>3, GoneStep DEF userVars
  <1> QED BY <1>2, <1>3 DEF CheckUserSlot

LEMMA RemoveUserSlotStep ==
    ASSUME AdmissionInv, NEW r \in Requests, RemoveUserSlot(r)
    PROVE  AdmissionInv'
  BY GoneStep DEF RemoveUserSlot

-----------------------------------------------------------------------------
(* ClientKeyLimiter.                                                       *)

\* KeyLimit, of the sets named here.
LEMMA KeyLimitSets ==
    /\ KeyLimit <=> (calm /\ 0 \notin Limits =>
          \A i \in 1..MaxKeys : Cardinality(KeyHolders(i)) <= MaxLimit)
    /\ KeyLimit' <=> (calm' /\ 0 \notin Limits =>
          \A i \in 1..MaxKeys : Cardinality(KeyHolders(i)') <= MaxLimit)
  BY DEF KeyLimit, KeyHolders

\* A slot record whose inflight changes.
LEMMA SlotChanged ==
    ASSUME slot \in [Slots -> SlotRecord], NEW s \in Slots, NEW n \in Nat,
           slot' = [slot EXCEPT ![s].inflight = n]
    PROVE  /\ slot' \in [Slots -> SlotRecord] /\ slot'[s].inflight = n
           /\ \A x \in Slots : slot'[x].key = slot[x].key
           /\ \A x \in Slots : x # s => slot'[x].inflight = slot[x].inflight
  <1> DEFINE c == [slot[s] EXCEPT !.inflight = n]
  <1>1. c \in SlotRecord /\ c.key = slot[s].key /\ c.inflight = n
    BY DEF SlotRecord
  <1>2. slot' = [slot EXCEPT ![s] = c]
    OBVIOUS
  <1> HIDE DEF c
  <1>3. slot'[s] = c /\ \A x \in Slots : x # s => slot'[x] = slot[x]
    BY <1>2
  <1> QED BY <1>1, <1>2, <1>3

\* sync_key: the map's slot has the key, no slot in use has another id or
\* another count than before, and a slot for another name starts with the
\* count of the one it replaces.
LEMMA SyncFacts ==
    ASSUME AdmissionInv, NEW k \in KeyRecord, k.id <= created, SyncKey(k)
    PROVE  /\ slot' \in [Slots -> SlotRecord] /\ current' \in Slots /\ slot'[current'].key = k
           /\ \A s \in Slots : slot'[s].key.id <= created
           /\ \A s \in Slots : \/ \A p \in Requests : req[p].arc # s
                               \/ /\ slot'[s].key.id = slot[s].key.id
                                  /\ slot'[s].inflight = slot[s].inflight
           /\ slot'[current'].inflight = IF current = NoSlot THEN 0 ELSE slot[current].inflight
           /\ (/\ current # NoSlot /\ slot[current].key.id = k.id /\ slot[current].key.name = k.name)
                 => current' = current
  <1>1. /\ slot \in [Slots -> SlotRecord] /\ current \in Slots \cup {NoSlot} /\ NoSlot \notin Slots
        /\ \A s \in Slots : slot[s].key.id <= created
    BY TypesOfAdmission, AdmissionAssumption DEF AdmissionInv, IdsGiven
  <1>2. CASE /\ current # NoSlot /\ slot[current].key.id = k.id /\ slot[current].key.name = k.name
             /\ slot' = [slot EXCEPT ![current].key = k] /\ UNCHANGED current
    <2> DEFINE c == [slot[current] EXCEPT !.key = k]
    <2>1. current \in Slots
      BY <1>1, <1>2
    <2>2. c \in SlotRecord /\ c.key = k /\ c.inflight = slot[current].inflight
      BY <1>1, <2>1 DEF SlotRecord
    <2>3. slot' = [slot EXCEPT ![current] = c]
      BY <1>2
    <2> HIDE DEF c
    <2>4. slot'[current] = c /\ \A s \in Slots : s # current => slot'[s] = slot[s]
      BY <1>1, <2>1, <2>3
    <2>5. slot' \in [Slots -> SlotRecord]
      BY <1>1, <2>2, <2>3
    <2> QED BY <1>1, <1>2, <2>1, <2>2, <2>4, <2>5
  <1>3. ASSUME NEW s \in Slots, Unused(s),
               current # NoSlot => slot[current].key.id # k.id \/ slot[current].key.name # k.name,
               slot' = [slot EXCEPT ![s] =
                 [key |-> k, inflight |-> IF current = NoSlot THEN 0 ELSE slot[current].inflight]],
               current' = s
        PROVE  /\ slot' \in [Slots -> SlotRecord] /\ current' \in Slots /\ slot'[current'].key = k
               /\ \A x \in Slots : slot'[x].key.id <= created
               /\ \A x \in Slots : \/ \A p \in Requests : req[p].arc # x
                                   \/ /\ slot'[x].key.id = slot[x].key.id
                                      /\ slot'[x].inflight = slot[x].inflight
               /\ slot'[current'].inflight = IF current = NoSlot THEN 0 ELSE slot[current].inflight
    <2> DEFINE n == IF current = NoSlot THEN 0 ELSE slot[current].inflight
               c == [key |-> k, inflight |-> n]
    <2>1. n \in Nat
      BY <1>1 DEF SlotRecord
    <2>2. c \in SlotRecord /\ c.key = k /\ c.inflight = n
      BY <2>1 DEF SlotRecord
    <2>3. slot' = [slot EXCEPT ![s] = c]
      BY <1>3
    <2> HIDE DEF c
    <2>4. slot'[s] = c /\ \A x \in Slots : x # s => slot'[x] = slot[x]
      BY <1>1, <2>3
    <2>5. slot' \in [Slots -> SlotRecord]
      BY <1>1, <2>2, <2>3
    <2>6. \A x \in Slots : \/ \A p \in Requests : req[p].arc # x
                           \/ /\ slot'[x].key.id = slot[x].key.id
                              /\ slot'[x].inflight = slot[x].inflight
      BY <1>3, <2>4 DEF Unused
    <2>7. \A x \in Slots : slot'[x].key.id <= created
      BY <1>1, <2>2, <2>4
    <2> QED BY <1>3, <2>2, <2>4, <2>5, <2>6, <2>7
  <1> QED BY <1>2, <1>3 DEF SyncKey

\* A step that syncs key k, which, while no two management calls overlap, is
\* the key of the table.
LEMMA SyncStep ==
    ASSUME AdmissionInv, NEW k \in KeyRecord, k.id <= created, SyncKey(k), UNCHANGED <<key, created>>,
           calm' => calm /\ k = key,
           \A p \in Requests : /\ req'[p].arc = req[p].arc
                               /\ req'[p].pc = "cas" <=> req[p].pc = "cas"
    PROVE  SlotsCover' /\ ReadersSynced' /\ KeyCovered' /\ KeyLimit'
  <1>1. /\ slot \in [Slots -> SlotRecord] /\ current \in Slots \cup {NoSlot} /\ NoSlot \notin Slots
        /\ req \in [Requests -> RequestRecord]
    BY TypesOfAdmission, AdmissionAssumption DEF AdmissionInv
  <1>2. \A p \in Requests : HoldsSlot(p)' <=> HoldsSlot(p)
    BY DEF HoldsSlot
  <1>3. SlotsCover'
    <2> SUFFICES ASSUME NEW s \in Slots PROVE slot'[s].inflight >= Cardinality(SlotHolders(s)')
      BY DEF SlotsCover
    <2>1. SlotHolders(s)' = SlotHolders(s)
      BY <1>2 DEF SlotHolders
    <2>2. CASE \A p \in Requests : req[p].arc # s
      <3>1. SlotHolders(s) = {} /\ slot'[s].inflight \in Nat
        BY <2>2, SyncFacts DEF SlotHolders, SlotRecord
      <3> QED BY <2>1, <3>1, FS_EmptySet
    <2>3. CASE slot'[s].inflight = slot[s].inflight
      BY <2>1, <2>3 DEF AdmissionInv, SlotsCover
    <2> QED BY <2>2, <2>3, SyncFacts
  <1>4. \A i : KeyHolders(i)' = KeyHolders(i)
    <2>1. ASSUME NEW p \in Requests, HoldsSlot(p)
          PROVE  slot'[req'[p].arc].key.id = slot[req[p].arc].key.id
      <3>1. req'[p].arc = req[p].arc /\ req[p].arc \in Slots
        BY <1>1, <2>1 DEF HoldsSlot, RequestRecord
      <3> QED BY <3>1, SyncFacts
    <2> QED BY <1>2, <2>1 DEF KeyHolders
  <1>5. ReadersSynced'
    <2> SUFFICES ASSUME calm, k = key, NEW p \in Requests
                 PROVE  /\ req'[p].pc \in {"get", "cas"} => Synced'
                        /\ req'[p].pc = "cas" => req'[p].arc = current'
      BY DEF ReadersSynced
    <2>1. Synced'
      BY <1>1, KeyFacts, SyncFacts DEF Synced
    <2>2. ASSUME req'[p].pc = "cas" PROVE req'[p].arc = current'
      <3>1. Synced /\ req[p].arc = current
        BY <2>2 DEF AdmissionInv, ReadersSynced
      <3>2. current' = current
        BY <3>1, SyncFacts DEF Synced
      <3> QED BY <3>1, <3>2
    <2> QED BY <2>1, <2>2
  <1>6. KeyCovered'
    <2> SUFFICES ASSUME calm, k = key
                 PROVE  /\ current' # NoSlot /\ slot'[current'].key.id = key'.id
                        /\ slot'[current'].inflight >= Cardinality(KeyHolders(k.id))
      BY <1>4, SyncFacts DEF KeyCovered
    <2>1. current' # NoSlot /\ slot'[current'].key.id = key'.id
      BY <1>1, SyncFacts
    <2>2. CASE KeyHolders(k.id) = {}
      <3>1. slot'[current'].inflight \in Nat
        BY SyncFacts DEF SlotRecord
      <3> QED BY <2>1, <2>2, <3>1, FS_EmptySet
    <2>3. CASE current # NoSlot /\ slot[current].key.id = k.id
      BY <2>1, <2>3, SyncFacts DEF AdmissionInv, KeyCovered
    <2>4. key # NoKey
      BY KeyFacts
    <2> QED BY <2>1, <2>2, <2>3, <2>4 DEF AdmissionInv, KeyCovered
  <1>7. KeyLimit'
    BY <1>4, KeyLimitSets DEF AdmissionInv
  <1> QED BY <1>3, <1>5, <1>6, <1>7

LEMMA FindKeyStep ==
    ASSUME AdmissionInv, NEW r \in Requests, FindKey(r)
    PROVE  AdmissionInv'
  <1>1. /\ req[r].pc = "key" /\ req[r].user = NoSlot /\ req[r].arc = NoSlot
        /\ UNCHANGED <<key, created, sem, active, userVars, mgmtVars>>
    BY TypesOfRequest DEF FindKey, Shape, WithUser
  <1>2. CASE To(r, "permit") /\ UNCHANGED <<current, slot>>
    BY <1>1, <1>2, OnlyMoves DEF Stages, BeforePermit, WithUser, clientVars
  <1>3. CASE key # NoKey /\ To(r, "get") /\ SyncKey(key)
    <2> DEFINE q == [req[r] EXCEPT !.pc = "get"]
    <2>1. req' = [req EXCEPT ![r] = q]
      BY <1>3, TypesOfRequest DEF To
    <2>2. /\ q \in RequestRecord /\ q.pc = "get" /\ q.arc = req[r].arc /\ q.user = req[r].user
          /\ q.permit = req[r].permit
      BY TypesOfRequest DEF RequestRecord, Stages
    <2> HIDE DEF q
    <2>3. Shape(q)
      BY <1>1, <2>2, TypesOfRequest DEF Shape, WithUser, BeforePermit
    <2>4. /\ HasUser(q) <=> HasUser(req[r])
          /\ HasCount(q) <=> HasCount(req[r])
      BY <1>1, <2>2 DEF HasUser, HasCount
    <2>5. /\ req' \in [Requests -> RequestRecord] /\ req'[r] = q
          /\ \A p \in Requests : p # r => req'[p] = req[p]
      BY <2>1, <2>2, Moved, TypesOfRequest
    <2>6. ShapeOK' /\ UsersExact' /\ TotalExact' /\ MapHeld' /\ PermitsExact'
      BY <1>1, <2>1, <2>2, <2>3, <2>4, ShapeKept, UserKept, PermitKept
    <2>7. key \in KeyRecord /\ key.id <= created
      BY <1>3, KeyFacts, TypesOfAdmission DEF AdmissionInv, IdsGiven
    <2>8. \A p \in Requests : /\ req'[p].arc = req[p].arc
                              /\ req'[p].pc = "cas" <=> req[p].pc = "cas"
      BY <1>1, <2>2, <2>5
    <2>9. SlotsCover' /\ ReadersSynced' /\ KeyCovered' /\ KeyLimit'
      BY <1>1, <1>3, <2>7, <2>8, SyncStep DEF mgmtVars
    <2>10. IdsGiven' /\ OneCall'
      BY <1>1, <1>3, <2>7, SyncFacts DEF AdmissionInv, IdsGiven, OneCall, mgmtVars
    <2>11. AdmissionTypeOK'
      BY <1>1, <1>3, <2>5, <2>7, SyncFacts, TypesOfAdmission DEF AdmissionInv, AdmissionTypeOK,
         SlotRecord, RequestRecord, userVars, mgmtVars
    <2> QED BY <2>6, <2>9, <2>10, <2>11 DEF AdmissionInv
  <1> QED BY <1>2, <1>3 DEF FindKey

LEMMA TakeSlotStep ==
    ASSUME AdmissionInv, NEW r \in Requests, TakeSlot(r)
    PROVE  AdmissionInv'
  <1>1. PICK s \in Slots : s = req[r].arc
    BY TypesOfRequest DEF TakeSlot, Shape, RequestRecord
  <1> DEFINE q == [req[r] EXCEPT !.pc = "permit"]
  <1>2. req' = [req EXCEPT ![r] = q]
    BY TypesOfRequest DEF TakeSlot, To
  <1>3. /\ q \in RequestRecord /\ q.pc = "permit" /\ q.arc = s /\ q.user = req[r].user
        /\ q.permit = req[r].permit
    BY <1>1, TypesOfRequest DEF RequestRecord, Stages
  <1> HIDE DEF q
  <1>4. /\ req[r].pc = "cas" /\ req[r].user = NoSlot /\ ~Full(s)
        /\ slot' = [slot EXCEPT ![s].inflight = slot[s].inflight + 1] /\ slot[s].inflight \in Nat
        /\ UNCHANGED <<key, created, current, sem, active, userVars, mgmtVars>>
    BY <1>1, TypesOfRequest DEF TakeSlot, Shape, WithUser, SlotRecord
  <1>5. Shape(q)
    BY <1>3, <1>4, TypesOfRequest DEF Shape, WithUser, BeforePermit
  <1>6. /\ HasSlot(q) /\ ~HasSlot(req[r])
        /\ HasUser(q) <=> HasUser(req[r])
        /\ HasCount(q) <=> HasCount(req[r])
    BY <1>3, <1>4, TypesOfRequest DEF HasSlot, HasUser, HasCount
  <1>7. /\ req' \in [Requests -> RequestRecord] /\ req'[r] = q
        /\ \A p \in Requests : p # r => req'[p] = req[p]
    BY <1>2, <1>3, Moved, TypesOfRequest
  <1>8. /\ slot' \in [Slots -> SlotRecord] /\ slot'[s].inflight = slot[s].inflight + 1
        /\ \A x \in Slots : slot'[x].key = slot[x].key
        /\ \A x \in Slots : x # s => slot'[x].inflight = slot[x].inflight
    <2>1. slot[s].inflight + 1 \in Nat
      BY <1>4
    <2> QED BY <1>4, <2>1, SlotChanged, TypesOfRequest
  <1>9. ShapeOK' /\ UsersExact' /\ TotalExact' /\ MapHeld' /\ PermitsExact'
    BY <1>2, <1>3, <1>4, <1>5, <1>6, ShapeKept, UserKept, PermitKept
  <1>10. AdmissionTypeOK'
    BY <1>4, <1>7, <1>8, TypesOfAdmission DEF AdmissionInv, AdmissionTypeOK,
       SlotRecord, RequestRecord, userVars, mgmtVars
  <1>11. SlotsCover'
    <2> SUFFICES ASSUME NEW x \in Slots PROVE slot'[x].inflight >= Cardinality(SlotHolders(x)')
      BY DEF SlotsCover
    <2>0. slot[x].inflight >= Cardinality(SlotHolders(x)) /\ Cardinality(SlotHolders(x)) \in Nat
      BY CountFacts, SetsOfRequests DEF AdmissionInv, SlotsCover
    <2>1. CASE x = s
      <3>1. SlotHolders(x)' = SlotHolders(x) \cup {r} /\ r \notin SlotHolders(x)
        BY <1>3, <1>6, <1>7, <2>1 DEF SlotHolders, HoldsSlot, HasSlot
      <3>2. Cardinality(SlotHolders(x)') = Cardinality(SlotHolders(x)) + 1
        BY <3>1, OneMore, SetsOfRequests
      <3> QED BY <1>4, <1>8, <2>0, <2>1, <3>2
    <2>2. CASE x # s
      <3>1. SlotHolders(x)' = SlotHolders(x)
        BY <1>1, <1>3, <1>7, <2>2 DEF SlotHolders, HoldsSlot
      <3> QED BY <1>8, <2>0, <2>2, <3>1
    <2> QED BY <2>1, <2>2
  <1>12. IdsGiven' /\ OneCall'
    BY <1>4, <1>8 DEF AdmissionInv, IdsGiven, OneCall, mgmtVars
  <1>13. ReadersSynced'
    <2>1. ASSUME Synced PROVE Synced'
      <3>1. current \in Slots
        BY <2>1, TypesOfRequest DEF Synced
      <3> QED BY <1>4, <1>8, <2>1, <3>1 DEF Synced
    <2> QED BY <1>3, <1>4, <1>7, <2>1 DEF AdmissionInv, ReadersSynced, mgmtVars
  <1>14. ASSUME NEW i, i = slot[s].key.id
         PROVE  /\ Cardinality(KeyHolders(i)') = Cardinality(KeyHolders(i)) + 1
                /\ Cardinality(KeyHolders(i)) \in Nat
    <2>1. \A p \in Requests : HoldsSlot(p) => req[p].arc \in Slots
      BY TypesOfRequest DEF HoldsSlot, RequestRecord
    <2>2. KeyHolders(i)' = KeyHolders(i) \cup {r} /\ r \notin KeyHolders(i)
      BY <1>3, <1>6, <1>7, <1>8, <1>14, <2>1 DEF KeyHolders, HoldsSlot, HasSlot
    <2> QED BY <2>2, OneMore, CountFacts, SetsOfRequests
  <1>15. \A i : i # slot[s].key.id => KeyHolders(i)' = KeyHolders(i)
    <2>1. \A p \in Requests : HoldsSlot(p) => req[p].arc \in Slots
      BY TypesOfRequest DEF HoldsSlot, RequestRecord
    <2> QED BY <1>1, <1>3, <1>6, <1>7, <1>8, <2>1 DEF KeyHolders, HoldsSlot, HasSlot
  <1>16. ASSUME calm
         PROVE  /\ s = current /\ s # NoSlot /\ Synced /\ slot[s].key \in KeyRecord
                /\ slot[s].inflight >= Cardinality(KeyHolders(slot[s].key.id))
    <2>1. Synced /\ s = current
      BY <1>1, <1>4, <1>16 DEF AdmissionInv, ReadersSynced
    <2>2. slot[s].key \in KeyRecord \cup {NoKey} /\ key \in KeyRecord \cup {NoKey}
      BY TypesOfAdmission DEF AdmissionInv, SlotRecord
    <2>3. slot[s].key \in KeyRecord
      BY <2>1, <2>2, KeyFacts DEF Synced
    <2> QED BY <1>16, <2>1, <2>3 DEF AdmissionInv, KeyCovered, Synced
  <1>17. KeyCovered'
    <2> SUFFICES ASSUME calm, NEW i, i = slot'[current'].key.id
                 PROVE  /\ current' # NoSlot /\ slot'[current'].key.id = key'.id
                        /\ slot'[current'].inflight >= Cardinality(KeyHolders(i)')
      BY <1>4 DEF KeyCovered, KeyHolders, mgmtVars
    <2>1. current' = s /\ s # NoSlot /\ slot'[s].key = slot[s].key /\ slot[s].key.id = key.id
      BY <1>4, <1>8, <1>16 DEF Synced
    <2>2. slot'[s].inflight >= Cardinality(KeyHolders(i)')
      BY <1>4, <1>8, <1>14, <1>16, <2>1
    <2> QED BY <1>4, <2>1, <2>2
  <1>18. KeyLimit'
    <2> SUFFICES ASSUME calm, 0 \notin Limits, NEW i \in 1..MaxKeys
                 PROVE  Cardinality(KeyHolders(i)') <= MaxLimit
      BY <1>4, KeyLimitSets DEF mgmtVars
    <2>1. CASE i # slot[s].key.id
      BY <1>15, <2>1, KeyLimitSets DEF AdmissionInv
    <2>2. CASE i = slot[s].key.id
      <3>1. slot[s].key.max \in Limits /\ slot[s].key.max \in 1..MaxLimit /\ MaxLimit \in Nat
        <4>1. slot[s].key.max \in Limits
          BY <1>16, KeyFacts
        <4>2. slot[s].key.max \in 0..MaxLimit /\ slot[s].key.max # 0 /\ MaxLimit \in Nat
          BY <4>1, AdmissionAssumption
        <4> QED BY <4>1, <4>2
      <3>2. slot[s].inflight < slot[s].key.max
        BY <1>4, <3>1 DEF Full
      <3> QED BY <1>4, <1>14, <1>16, <2>2, <3>1, <3>2
    <2> QED BY <2>1, <2>2
  <1> QED BY <1>9, <1>10, <1>11, <1>12, <1>13, <1>17, <1>18 DEF AdmissionInv

\* The context is dropped: the guard lowers the slot it was taken from,
\* whichever the map holds.
LEMMA FinishStep ==
    ASSUME AdmissionInv, NEW r \in Requests, Finish(r)
    PROVE  AdmissionInv'
  <1> DEFINE p0 == IF req[r].user = NoSlot THEN "out" ELSE "usub"
             q == [Fresh EXCEPT !.pc = p0, !.user = req[r].user]
  <1>1. req' = [req EXCEPT ![r] = q]
    BY DEF Finish
  <1>2. /\ q \in RequestRecord /\ q.pc = p0 /\ q.arc = NoSlot /\ q.user = req[r].user
        /\ q.permit = FALSE
    <2>1. p0 \in Stages /\ req[r].user \in UserSlots \cup {NoSlot}
      BY TypesOfRequest DEF Stages, RequestRecord
    <2> QED BY <2>1, FreshTyped
  <1>3. /\ req[r].pc = "end"
        /\ UNCHANGED <<key, created, current, userVars, mgmtVars>>
        /\ active' \in Int
    BY TypesOfRequest DEF Finish
  <1> HIDE DEF q
  <1>4. Shape(q)
    BY <1>2 DEF Shape, WithUser, BeforePermit
  <1>5. /\ ~HasSlot(q)
        /\ HasUser(q) <=> HasUser(req[r])
        /\ HasCount(q) <=> HasCount(req[r])
    BY <1>2, <1>3 DEF HasSlot, HasUser, HasCount
  <1>6. /\ req' \in [Requests -> RequestRecord] /\ req'[r] = q
        /\ \A p \in Requests : p # r => req'[p] = req[p]
    BY <1>1, <1>2, Moved, TypesOfRequest
  <1>7. ShapeOK' /\ UsersExact' /\ TotalExact' /\ MapHeld'
    BY <1>1, <1>2, <1>3, <1>4, <1>5, ShapeKept, UserKept
  <1>8. PermitsExact' /\ sem' \in 0..Permits
    <2>0. sem = Permits - Cardinality(Permitted) /\ Cardinality(Permitted) \in Nat
      BY CountFacts, SetsOfRequests DEF AdmissionInv, PermitsExact
    <2>1. CASE req[r].permit
      <3>1. Permitted' = Permitted \ {r} /\ r \in Permitted
        BY <1>2, <1>6, <2>1 DEF Permitted
      <3>2. Cardinality(Permitted') = Cardinality(Permitted) - 1 /\ Cardinality(Permitted) > 0
        BY <3>1, OneLess, SetsOfRequests
      <3>3. sem' = sem + 1
        BY <2>1 DEF Finish
      <3> QED BY <2>0, <3>2, <3>3, TypesOfRequest DEF PermitsExact
    <2>2. CASE ~req[r].permit
      <3>1. Permitted' = Permitted
        BY <1>2, <1>6, <2>2 DEF Permitted
      <3>2. sem' = sem
        BY <2>2 DEF Finish
      <3> QED BY <2>0, <3>1, <3>2, TypesOfRequest DEF PermitsExact
    <2> QED BY <2>1, <2>2
  <1>9. \A p \in Requests : HoldsSlot(p) => req[p].arc \in Slots
    BY TypesOfRequest DEF HoldsSlot, RequestRecord
  \* What becomes of the slots.
  <1>10. /\ slot' \in [Slots -> SlotRecord]
         /\ \A x \in Slots : slot'[x].key = slot[x].key
         /\ \A x \in Slots : \/ slot'[x].inflight = slot[x].inflight /\ x # req[r].arc
                             \/ slot'[x].inflight = slot[x].inflight - 1 /\ x = req[r].arc
    <2>1. CASE req[r].arc = NoSlot
      BY <2>1, TypesOfRequest DEF Finish
    <2>2. CASE req[r].arc # NoSlot
      <3>1. PICK s \in Slots : s = req[r].arc
        BY <2>2, TypesOfRequest DEF RequestRecord
      <3>2. slot' = [slot EXCEPT ![s].inflight = slot[s].inflight - 1]
        BY <2>2, <3>1 DEF Finish
      <3>3. r \in SlotHolders(s)
        BY <1>3, <2>2, <3>1 DEF SlotHolders, HoldsSlot
      <3>4. slot[s].inflight - 1 \in Nat
        <4>1. /\ slot[s].inflight \in Nat /\ slot[s].inflight >= Cardinality(SlotHolders(s))
              /\ Cardinality(SlotHolders(s)) \in Nat
          BY CountFacts, SetsOfRequests, TypesOfRequest DEF AdmissionInv, SlotsCover, SlotRecord
        <4>2. Cardinality(SlotHolders(s)) > 0
          BY <3>3, OneLess, SetsOfRequests
        <4> QED BY <4>1, <4>2
      <3> QED BY <3>1, <3>2, <3>4, SlotChanged, TypesOfRequest
    <2> QED BY <2>1, <2>2
  <1>11. SlotsCover'
    <2> SUFFICES ASSUME NEW x \in Slots PROVE slot'[x].inflight >= Cardinality(SlotHolders(x)')
      BY DEF SlotsCover
    <2>0. /\ slot[x].inflight >= Cardinality(SlotHolders(x)) /\ Cardinality(SlotHolders(x)) \in Nat
          /\ slot[x].inflight \in Nat
      BY CountFacts, SetsOfRequests, TypesOfRequest DEF AdmissionInv, SlotsCover, SlotRecord
    <2>1. CASE x = req[r].arc
      <3>1. SlotHolders(x)' = SlotHolders(x) \ {r} /\ r \in SlotHolders(x)
        BY <1>3, <1>5, <1>6, <2>1, TypesOfRequest DEF SlotHolders, HoldsSlot, HasSlot
      <3>2. Cardinality(SlotHolders(x)') = Cardinality(SlotHolders(x)) - 1
        BY <3>1, OneLess, SetsOfRequests
      <3> QED BY <1>10, <2>0, <2>1, <3>2
    <2>2. CASE x # req[r].arc
      <3>1. SlotHolders(x)' = SlotHolders(x)
        BY <1>5, <1>6, <2>2 DEF SlotHolders, HoldsSlot, HasSlot
      <3> QED BY <1>10, <2>0, <2>2, <3>1
    <2> QED BY <2>1, <2>2
  <1>12. AdmissionTypeOK'
    BY <1>3, <1>6, <1>8, <1>10, TypesOfAdmission DEF AdmissionInv, AdmissionTypeOK,
       SlotRecord, RequestRecord, userVars, mgmtVars
  <1>13. IdsGiven' /\ OneCall'
    BY <1>3, <1>10 DEF AdmissionInv, IdsGiven, OneCall, mgmtVars
  <1>14. ReadersSynced'
    <2>1. ASSUME Synced PROVE Synced'
      <3>1. current \in Slots
        BY <2>1, TypesOfRequest DEF Synced
      <3> QED BY <1>3, <1>10, <2>1, <3>1 DEF Synced
    <2> QED BY <1>2, <1>3, <1>6, <2>1 DEF AdmissionInv, ReadersSynced, mgmtVars
  <1>15. \A i : KeyHolders(i)' = KeyHolders(i) \ {r}
    BY <1>5, <1>6, <1>9, <1>10 DEF KeyHolders, HoldsSlot, HasSlot
  <1>16. ASSUME NEW i
         PROVE  /\ Cardinality(KeyHolders(i)') <= Cardinality(KeyHolders(i))
                /\ r \in KeyHolders(i) => Cardinality(KeyHolders(i)') = Cardinality(KeyHolders(i)) - 1
                /\ Cardinality(KeyHolders(i)) \in Nat /\ Cardinality(KeyHolders(i)') \in Nat
    <2>1. Cardinality(KeyHolders(i)) \in Nat /\ Cardinality(KeyHolders(i)') \in Nat
      BY CountFacts, SetsOfRequests
    <2>2. CASE r \in KeyHolders(i)
      BY <1>15, <2>1, <2>2, OneLess, SetsOfRequests
    <2>3. CASE r \notin KeyHolders(i)
      <3>1. KeyHolders(i)' = KeyHolders(i)
        BY <1>15, <2>3
      <3> QED BY <2>1, <2>3, <3>1
    <2> QED BY <2>2, <2>3
  <1>17. KeyCovered'
    <2> SUFFICES ASSUME calm, NEW i, i = slot'[current'].key.id
                 PROVE  /\ key' # NoKey => \/ current' # NoSlot /\ slot'[current'].key.id = key'.id
                                           \/ (KeyHolders(key.id))' = {}
                        /\ current' # NoSlot =>
                              slot'[current'].inflight >= Cardinality(KeyHolders(i)')
      BY <1>3 DEF KeyCovered, KeyHolders, mgmtVars
    <2>1. CASE current = NoSlot
      <3>1. key # NoKey => KeyHolders(key.id) = {}
        BY <2>1 DEF AdmissionInv, KeyCovered
      <3>2. (KeyHolders(key.id))' \subseteq KeyHolders(key.id)
        BY <1>3, <1>15 DEF KeyHolders
      <3> QED BY <1>3, <2>1, <3>1, <3>2
    <2>2. CASE current # NoSlot
      <3>1. current \in Slots
        BY <2>2, TypesOfRequest
      <3>2. current' = current /\ slot'[current].key = slot[current].key /\ i = slot[current].key.id
        BY <1>3, <1>10, <3>1
      <3>3. key # NoKey => slot[current].key.id = key.id \/ KeyHolders(key.id) = {}
        BY DEF AdmissionInv, KeyCovered
      <3>4. (KeyHolders(key.id))' \subseteq KeyHolders(key.id)
        BY <1>3, <1>15 DEF KeyHolders
      <3>5. slot[current].inflight >= Cardinality(KeyHolders(i)) /\ slot[current].inflight \in Nat
        BY <2>2, <3>1, <3>2, TypesOfRequest DEF AdmissionInv, KeyCovered, SlotRecord
      <3>6. slot'[current].inflight >= Cardinality(KeyHolders(i)')
        <4>1. CASE current # req[r].arc
          BY <1>10, <1>16, <3>1, <3>5, <4>1
        <4>2. CASE current = req[r].arc
          <5>1. r \in KeyHolders(i)
            BY <1>3, <2>2, <3>2, <4>2 DEF KeyHolders, HoldsSlot
          <5> QED BY <1>10, <1>16, <3>1, <3>5, <4>2, <5>1
        <4> QED BY <4>1, <4>2
      <3> QED BY <1>3, <2>2, <3>2, <3>3, <3>4, <3>6
    <2> QED BY <2>1, <2>2
  <1>18. KeyLimit'
    <2> SUFFICES ASSUME calm, 0 \notin Limits, NEW i \in 1..MaxKeys
                 PROVE  Cardinality(KeyHolders(i)') <= MaxLimit
      BY <1>3, KeyLimitSets DEF mgmtVars
    <2>1. Cardinality(KeyHolders(i)) <= MaxLimit /\ MaxLimit \in Nat
      BY KeyLimitSets, AdmissionAssumption DEF AdmissionInv
    <2> QED BY <1>16, <2>1
  <1> QED BY <1>7, <1>8, <1>11, <1>12, <1>13, <1>14, <1>17, <1>18 DEF AdmissionInv

-----------------------------------------------------------------------------
(* The management API.                                                     *)

\* A management call takes a step: while calls have not overlapped, it is
\* the only one at work.
LEMMA ManagesFacts ==
    ASSUME AdmissionInv, NEW m \in Managers, NEW pc \in {"idle", "insert", "sync", "drop"},
           NEW k \in KeyRecord \cup {NoKey}, Manages(m, pc, k)
    PROVE  /\ mgr' \in [Managers -> ManagerRecord] /\ calm' \in BOOLEAN
           /\ mgr'[m].pc = pc /\ mgr'[m].key = k
           /\ \A n \in Managers : n # m => mgr'[n] = mgr[n]
           /\ calm' => calm /\ \A n \in Managers : n # m => mgr'[n].pc = "idle"
  <1>1. mgr \in [Managers -> ManagerRecord]
    BY TypesOfAdmission DEF AdmissionInv
  <1> DEFINE j == [pc |-> pc, key |-> k]
  <1>2. j \in ManagerRecord /\ j.pc = pc /\ j.key = k
    BY DEF ManagerRecord
  <1>3. mgr' = [mgr EXCEPT ![m] = j] /\ calm' = (calm /\ \A n \in Managers \ {m} : mgr[n].pc = "idle")
    BY DEF Manages
  <1> HIDE DEF j
  <1>4. /\ mgr' \in [Managers -> ManagerRecord] /\ mgr'[m] = j
        /\ \A n \in Managers : n # m => mgr'[n] = mgr[n]
    BY <1>1, <1>2, <1>3
  <1>5. calm' \in BOOLEAN
    BY <1>3, Zenon
  <1> QED BY <1>2, <1>3, <1>4, <1>5

LEMMA OneCallKept ==
    ASSUME AdmissionInv, NEW m \in Managers, NEW pc \in {"idle", "insert", "sync", "drop"},
           NEW k \in KeyRecord \cup {NoKey}, Manages(m, pc, k),
           pc = "sync" => key' = k, pc = "drop" => key' = NoKey
    PROVE  OneCall'
  <1>1. /\ mgr'[m].pc = pc /\ mgr'[m].key = k
        /\ calm' => \A n \in Managers : n # m => mgr'[n].pc = "idle"
    BY ManagesFacts
  <1> QED BY <1>1 DEF OneCall

\* The requests take no step.
LEMMA RequestsStill ==
    ASSUME AdmissionInv, UNCHANGED <<sem, active, userVars, req>>
    PROVE  /\ ShapeOK' /\ UsersExact' /\ TotalExact' /\ MapHeld' /\ PermitsExact'
           /\ \A s : SlotHolders(s)' = SlotHolders(s)
           /\ slot' = slot => \A i : KeyHolders(i)' = KeyHolders(i)
  <1>1. UNCHANGED <<userMap, userSlot, total, sem, req>>
    BY DEF userVars
  <1>2. ShapeOK' /\ MapHeld'
    BY <1>1 DEF AdmissionInv, ShapeOK, MapHeld
  <1>3. /\ \A u : UserHolders(u)' = UserHolders(u)
        /\ Counted' = Counted
        /\ Permitted' = Permitted
        /\ \A s : SlotHolders(s)' = SlotHolders(s)
    BY <1>1 DEF UserHolders, HoldsUser, Counted, Permitted, SlotHolders, HoldsSlot
  <1>4. UsersExact' /\ TotalExact' /\ PermitsExact'
    BY <1>1, <1>3 DEF AdmissionInv, UsersExact, TotalExact, PermitsExact
  <1>5. slot' = slot => \A i : KeyHolders(i)' = KeyHolders(i)
    BY <1>1 DEF KeyHolders, HoldsSlot
  <1> QED BY <1>2, <1>3, <1>4, <1>5

\* A call that starts, changes the key or drops the slot, but syncs nothing.
LEMMA ManageOnly ==
    ASSUME AdmissionInv, NEW m \in Managers, NEW pc \in {"idle", "insert", "sync", "drop"},
           NEW k \in KeyRecord \cup {NoKey}, Manages(m, pc, k),
           UNCHANGED <<slot, sem, active, userVars, req>>,
           key' \in KeyRecord \cup {NoKey}, created' \in 0..MaxKeys, created <= created',
           current' \in Slots \cup {NoSlot}, key'.id <= created',
           pc = "sync" => key' = k /\ k # NoKey, pc = "drop" => key' = NoKey, k.id <= created',
           calm' => \/ UNCHANGED <<key, current>>
                    \/ \A r \in Requests : req[r].pc \notin {"get", "cas"},
           calm' => \/ current' = NoSlot /\ key' = NoKey
                    \/ /\ current' = current
                       /\ \/ key' = NoKey
                          \/ key # NoKey /\ key'.id = key.id
                          \/ KeyHolders(key'.id) = {}
    PROVE  AdmissionInv'
  <1>1. /\ mgr' \in [Managers -> ManagerRecord] /\ calm' \in BOOLEAN
        /\ mgr'[m].pc = pc /\ mgr'[m].key = k /\ (calm' => calm)
        /\ \A n \in Managers : n # m => mgr'[n] = mgr[n]
    BY ManagesFacts
  <1>2. AdmissionTypeOK'
    <2>1. /\ sem' \in 0..Permits /\ active' \in Int /\ slot' \in [Slots -> SlotRecord]
          /\ req' \in [Requests -> RequestRecord]
          /\ userMap' \in UserSlots \cup {NoSlot} /\ userSlot' \in [UserSlots -> Nat] /\ total' \in Nat
      BY TypesOfAdmission DEF AdmissionInv, userVars
    <2> QED BY <1>1, <2>1 DEF AdmissionTypeOK, SlotRecord, RequestRecord, ManagerRecord
  <1>3. OneCall'
    BY OneCallKept
  <1>4. IdsGiven'
    <2>1. /\ \A s \in Slots : slot[s].key.id \in 0..MaxKeys
          /\ \A n \in Managers : mgr[n].key.id \in 0..MaxKeys
      BY KeyFacts, TypesOfAdmission DEF AdmissionInv, SlotRecord, ManagerRecord
    <2>2. created \in Nat /\ created' \in Nat
      BY TypesOfAdmission DEF AdmissionInv
    <2>3. \A s \in Slots : slot'[s].key.id <= created'
      BY <2>1, <2>2 DEF AdmissionInv, IdsGiven
    <2>4. \A n \in Managers : mgr'[n].key.id <= created'
      BY <1>1, <2>1, <2>2 DEF AdmissionInv, IdsGiven
    <2>5. \A n \in Managers : mgr'[n].pc = "sync" => mgr'[n].key # NoKey
      BY <1>1 DEF AdmissionInv, IdsGiven
    <2> QED BY <2>3, <2>4, <2>5 DEF IdsGiven
  <1>5. SlotsCover'
    BY RequestsStill DEF AdmissionInv, SlotsCover
  <1>6. ReadersSynced'
    BY <1>1 DEF AdmissionInv, ReadersSynced, Synced
  <1>7. KeyCovered'
    <2> SUFFICES ASSUME calm', NEW i, i = slot'[current'].key.id, NEW j, j = key'.id
                 PROVE  /\ key' # NoKey => \/ current' # NoSlot /\ slot'[current'].key.id = key'.id
                                           \/ KeyHolders(j)' = {}
                        /\ current' # NoSlot =>
                              slot'[current'].inflight >= Cardinality(KeyHolders(i)')
      BY DEF KeyCovered, KeyHolders
    <2>1. KeyHolders(i)' = KeyHolders(i) /\ KeyHolders(j)' = KeyHolders(j)
      BY RequestsStill
    <2> QED BY <1>1, <2>1 DEF AdmissionInv, KeyCovered
  <1>8. KeyLimit'
    BY <1>1, RequestsStill, KeyLimitSets DEF AdmissionInv
  <1> QED BY <1>2, <1>3, <1>4, <1>5, <1>6, <1>7, <1>8, RequestsStill DEF AdmissionInv

\* The types a management call starts from.
LEMMA TypesOfCall ==
    ASSUME AdmissionInv
    PROVE  /\ key \in KeyRecord \cup {NoKey} /\ created \in 0..MaxKeys /\ MaxKeys \in Nat
           /\ current \in Slots \cup {NoSlot} /\ key.id <= created
           /\ NoKey \in KeyRecord \cup {NoKey} /\ NoKey.id <= created
  BY TypesOfAdmission, KeyFacts, AdmissionAssumption DEF AdmissionInv, IdsGiven

LEMMA CreateKeyStep ==
    ASSUME AdmissionInv, NEW m \in Managers, CreateKey(m)
    PROVE  AdmissionInv'
  <1>1. /\ Manages(m, "insert", NoKey) /\ UNCHANGED <<key, created, current, slot>>
        /\ UNCHANGED <<slot, sem, active, userVars, req>> /\ key = NoKey
    BY DEF CreateKey, clientVars
  <1> QED BY <1>1, ManageOnly, TypesOfCall

LEMMA InsertKeyStep ==
    ASSUME AdmissionInv, NEW m \in Managers, InsertKey(m)
    PROVE  AdmissionInv'
  <1>1. PICK name \in Names, max \in Limits :
            LET k == [id |-> created + 1, name |-> name, max |-> max]
            IN  /\ key' = k /\ Manages(m, "sync", k)
    BY DEF InsertKey
  <1>2. /\ created < MaxKeys /\ created' = created + 1 /\ Writable
        /\ UNCHANGED <<current, slot, sem, active, userVars, req>>
    BY DEF InsertKey
  <1> DEFINE k == [id |-> created + 1, name |-> name, max |-> max]
  <1>3. created + 1 \in 1..MaxKeys /\ created' \in 0..MaxKeys /\ created \in Nat /\ created <= created'
    BY <1>2, TypesOfCall
  <1>4. k \in KeyRecord /\ k.id = created + 1
    BY <1>3 DEF KeyRecord
  <1>5. key' = k /\ Manages(m, "sync", k)
    BY <1>1
  <1> HIDE DEF k
  <1>6. KeyHolders(key'.id) = {}
    <2>1. ASSUME NEW p \in Requests, HoldsSlot(p) PROVE slot[req[p].arc].key.id # created + 1
      <3>1. req[p].arc \in Slots
        BY <2>1, TypesOfRequest DEF HoldsSlot, RequestRecord
      <3>2. slot[req[p].arc].key.id <= created /\ slot[req[p].arc].key.id \in 0..MaxKeys
        BY <3>1, KeyFacts, TypesOfAdmission DEF AdmissionInv, IdsGiven, SlotRecord
      <3> QED BY <1>3, <3>2
    <2> QED BY <1>4, <1>5, <2>1 DEF KeyHolders
  <1>7. \A r \in Requests : req[r].pc \notin {"get", "cas"}
    BY <1>2 DEF Writable, Reads
  <1>8. k # NoKey
    BY <1>4, KeyFacts
  <1>9. k.id <= created' /\ key'.id <= created'
    BY <1>2, <1>3, <1>4, <1>5
  <1> QED BY <1>2, <1>3, <1>4, <1>5, <1>6, <1>7, <1>8, <1>9, ManageOnly, TypesOfCall

LEMMA PatchedKey ==
    ASSUME AdmissionInv, key # NoKey, NEW name \in Names, NEW max \in Limits
    PROVE  /\ [key EXCEPT !.name = name, !.max = max] \in KeyRecord
           /\ [key EXCEPT !.name = name, !.max = max].id = key.id
           /\ [key EXCEPT !.name = name] \in KeyRecord
           /\ [key EXCEPT !.name = name].id = key.id
  <1>1. key \in KeyRecord
    BY KeyFacts, TypesOfCall
  <1> QED BY <1>1 DEF KeyRecord

LEMMA PatchKeyStep ==
    ASSUME AdmissionInv, NEW m \in Managers, PatchKey(m)
    PROVE  AdmissionInv'
  <1>1. PICK name \in Names, max \in Limits :
            LET k == [key EXCEPT !.name = name, !.max = max]
            IN  key' = k /\ Manages(m, "sync", k)
    BY DEF PatchKey
  <1>2. /\ key # NoKey /\ Writable
        /\ UNCHANGED <<created, current, slot, sem, active, userVars, req>>
    BY DEF PatchKey
  <1> DEFINE k == [key EXCEPT !.name = name, !.max = max]
  <1>3. k \in KeyRecord /\ k.id = key.id /\ key' = k /\ Manages(m, "sync", k)
    BY <1>1, <1>2, PatchedKey
  <1> HIDE DEF k
  <1>4. \A r \in Requests : req[r].pc \notin {"get", "cas"}
    BY <1>2 DEF Writable, Reads
  <1>5. k # NoKey /\ created <= created'
    BY <1>2, <1>3, KeyFacts, TypesOfCall
  <1> QED BY <1>2, <1>3, <1>4, <1>5, ManageOnly, TypesOfCall

LEMMA PatchRejectedStep ==
    ASSUME AdmissionInv, NEW m \in Managers, PatchRejected(m)
    PROVE  AdmissionInv'
  <1>1. PICK name \in Names : key' = [key EXCEPT !.name = name]
    BY DEF PatchRejected
  <1>2. /\ key # NoKey /\ Writable /\ Manages(m, "idle", NoKey)
        /\ UNCHANGED <<created, current, slot, sem, active, userVars, req>>
    BY DEF PatchRejected
  <1>3. key' \in KeyRecord /\ key'.id = key.id
    <2>1. key \in KeyRecord
      BY <1>2, KeyFacts, TypesOfCall
    <2> QED BY <1>1, <2>1 DEF KeyRecord
  <1>4. \A r \in Requests : req[r].pc \notin {"get", "cas"}
    BY <1>2 DEF Writable, Reads
  <1>5. created <= created'
    BY <1>2, TypesOfCall
  <1> QED BY <1>2, <1>3, <1>4, <1>5, ManageOnly, TypesOfCall

LEMMA RevokeKeyStep ==
    ASSUME AdmissionInv, NEW m \in Managers, RevokeKey(m)
    PROVE  AdmissionInv'
  <1>1. /\ key' = NoKey /\ Writable /\ Manages(m, "drop", NoKey)
        /\ UNCHANGED <<created, current, slot, sem, active, userVars, req>>
    BY DEF RevokeKey
  <1>2. \A r \in Requests : req[r].pc \notin {"get", "cas"}
    BY <1>1 DEF Writable, Reads
  <1>3. created <= created'
    BY <1>1, TypesOfCall
  <1> QED BY <1>1, <1>2, <1>3, ManageOnly, TypesOfCall

LEMMA RemoveSlotStep ==
    ASSUME AdmissionInv, NEW m \in Managers, RemoveSlot(m)
    PROVE  AdmissionInv'
  <1>1. /\ mgr[m].pc = "drop" /\ current' = NoSlot /\ Manages(m, "idle", NoKey)
        /\ UNCHANGED <<key, created, slot, sem, active, userVars, req>>
    BY DEF RemoveSlot
  <1>2. calm' => calm /\ key = NoKey
    BY <1>1, ManagesFacts DEF AdmissionInv, OneCall
  <1>3. calm' => \A r \in Requests : req[r].pc \notin {"get", "cas"}
    BY <1>2 DEF AdmissionInv, ReadersSynced, Synced
  <1>4. created <= created'
    BY <1>1, TypesOfCall
  <1> QED BY <1>1, <1>2, <1>3, <1>4, ManageOnly, TypesOfCall

LEMMA SyncPatchedStep ==
    ASSUME AdmissionInv, NEW m \in Managers, SyncPatched(m)
    PROVE  AdmissionInv'
  <1> DEFINE k == mgr[m].key
  <1>1. /\ mgr[m].pc = "sync" /\ SyncKey(k) /\ Manages(m, "idle", NoKey)
        /\ UNCHANGED <<key, created, sem, active, userVars, req>>
    BY DEF SyncPatched
  <1>2. k \in KeyRecord /\ k.id <= created
    BY <1>1, KeyFacts, TypesOfAdmission DEF AdmissionInv, IdsGiven, ManagerRecord
  <1>3. /\ mgr' \in [Managers -> ManagerRecord] /\ calm' \in BOOLEAN
        /\ mgr'[m].pc = "idle" /\ mgr'[m].key = NoKey /\ (calm' => calm)
        /\ \A n \in Managers : n # m => mgr'[n] = mgr[n]
    BY <1>1, ManagesFacts, TypesOfCall
  <1>4. calm' => calm /\ k = key
    BY <1>1, <1>3 DEF AdmissionInv, OneCall
  <1>5. \A p \in Requests : /\ req'[p].arc = req[p].arc
                            /\ req'[p].pc = "cas" <=> req[p].pc = "cas"
    BY <1>1
  <1>6. SlotsCover' /\ ReadersSynced' /\ KeyCovered' /\ KeyLimit'
    <2> HIDE DEF k
    <2> QED BY <1>1, <1>2, <1>4, <1>5, SyncStep
  <1>7. /\ slot' \in [Slots -> SlotRecord] /\ current' \in Slots
        /\ \A s \in Slots : slot'[s].key.id <= created
    <2> HIDE DEF k
    <2> QED BY <1>1, <1>2, SyncFacts
  <1>8. IdsGiven'
    BY <1>1, <1>3, <1>7, TypesOfCall DEF AdmissionInv, IdsGiven
  <1>9. OneCall'
    BY <1>1, OneCallKept, TypesOfCall
  <1>10. AdmissionTypeOK'
    <2>1. /\ sem' \in 0..Permits /\ active' \in Int
          /\ key' \in KeyRecord \cup {NoKey} /\ created' \in 0..MaxKeys
          /\ req' \in [Requests -> RequestRecord]
          /\ userMap' \in UserSlots \cup {NoSlot} /\ userSlot' \in [UserSlots -> Nat] /\ total' \in Nat
      BY <1>1, TypesOfAdmission DEF AdmissionInv, userVars
    <2> QED BY <1>3, <1>7, <2>1 DEF AdmissionTypeOK, SlotRecord, RequestRecord, ManagerRecord
  <1> QED BY <1>1, <1>6, <1>8, <1>9, <1>10, RequestsStill DEF AdmissionInv
-----------------------------------------------------------------------------
(* The theorems.                                                           *)

LEMMA AdmissionStarts == AdmissionInit => AdmissionInv
  <1> SUFFICES ASSUME AdmissionInit PROVE AdmissionInv
    OBVIOUS
  <1>1. /\ \A r \in Requests : req[r] = Fresh
        /\ Cardinality({}) = 0
    BY FS_EmptySet DEF AdmissionInit
  <1>2. AdmissionTypeOK
    <2>1. req \in [Requests -> RequestRecord]
      BY FreshTyped DEF AdmissionInit
    <2>2. slot \in [Slots -> SlotRecord] /\ mgr \in [Managers -> ManagerRecord]
      BY DEF AdmissionInit, SlotRecord, ManagerRecord
    <2>3. sem \in 0..Permits /\ created \in 0..MaxKeys
      BY AdmissionAssumption DEF AdmissionInit
    <2> QED BY <2>1, <2>2, <2>3 DEF AdmissionTypeOK, AdmissionInit, SlotRecord, RequestRecord,
           ManagerRecord
  <1>3. ShapeOK /\ MapHeld
    BY <1>1, FreshTyped DEF ShapeOK, Shape, WithUser, BeforePermit, MapHeld, AdmissionInit
  <1>4. /\ \A s : SlotHolders(s) = {}
        /\ \A u : UserHolders(u) = {}
        /\ Counted = {} /\ Permitted = {}
        /\ \A i : KeyHolders(i) = {}
    BY <1>1, FreshTyped DEF SlotHolders, UserHolders, Counted, HasCount, Permitted, KeyHolders,
       HoldsSlot, HoldsUser
  <1>5. SlotsCover /\ UsersExact /\ TotalExact /\ PermitsExact
    <2>1. \A s \in Slots : slot[s].inflight = 0
      BY DEF AdmissionInit
    <2>2. SlotsCover
      BY <1>1, <1>4, <2>1 DEF SlotsCover
    <2>3. UsersExact
      <3>1. \A u \in UserSlots : userSlot[u] = 0
        BY DEF AdmissionInit
      <3> QED BY <1>1, <1>4, <3>1 DEF UsersExact
    <2>4. TotalExact
      BY <1>1, <1>4 DEF TotalExact, AdmissionInit
    <2>5. PermitsExact
      <3>1. sem = Permits /\ Permits \in Nat
        BY AdmissionAssumption DEF AdmissionInit
      <3> QED BY <1>1, <1>4, <3>1 DEF PermitsExact
    <2> QED BY <2>2, <2>3, <2>4, <2>5
  <1>6. IdsGiven /\ OneCall
    BY KeyFacts DEF IdsGiven, OneCall, AdmissionInit
  <1>7. ReadersSynced
    BY <1>1, FreshTyped DEF ReadersSynced
  <1>8. KeyCovered
    BY DEF KeyCovered, AdmissionInit
  <1>9. KeyLimit
    BY <1>1, <1>4, KeyLimitSets, AdmissionAssumption
  <1> QED BY <1>2, <1>3, <1>5, <1>6, <1>7, <1>8, <1>9 DEF AdmissionInv

LEMMA AdmissionKept == AdmissionInv /\ [AdmissionNext]_admissionVars => AdmissionInv'
  <1> SUFFICES ASSUME AdmissionInv, [AdmissionNext]_admissionVars PROVE AdmissionInv'
    OBVIOUS
  <1>1. ASSUME NEW r \in Requests, RequestStep(r) PROVE AdmissionInv'
    BY <1>1, QuietSteps, FindKeyStep, GetSlotStep, TakeSlotStep, RefuseSlotStep, TakePermitStep,
       SyncUserStep, TakeUserStep, CountUserStep, FinishStep, ReleaseUserStep, UncountUserStep,
       CheckUserSlotStep, RemoveUserSlotStep DEF RequestStep
  <1>2. ASSUME NEW m \in Managers, Manage(m) PROVE AdmissionInv'
    BY <1>2, CreateKeyStep, InsertKeyStep, PatchKeyStep, PatchRejectedStep, SyncPatchedStep,
       RevokeKeyStep, RemoveSlotStep DEF Manage
  <1>3. CASE UNCHANGED admissionVars
    <2>1. UNCHANGED <<key, created, current, slot, sem, active, userVars, req, mgr, calm>>
      BY <1>3 DEF admissionVars, userVars
    <2>2. AdmissionTypeOK'
      BY <2>1, TypesOfAdmission DEF AdmissionInv, AdmissionTypeOK, userVars
    <2>3. SlotsCover' /\ IdsGiven' /\ OneCall' /\ ReadersSynced'
      BY <2>1, RequestsStill DEF AdmissionInv, SlotsCover, IdsGiven, OneCall, ReadersSynced, Synced
    <2>4. KeyCovered'
      BY <2>1 DEF AdmissionInv, KeyCovered, KeyHolders, HoldsSlot
    <2>5. KeyLimit'
      BY <2>1, RequestsStill, KeyLimitSets DEF AdmissionInv
    <2> QED BY <2>1, <2>2, <2>3, <2>4, <2>5, RequestsStill DEF AdmissionInv
  <1> QED BY <1>1, <1>2, <1>3 DEF AdmissionNext

LEMMA AdmissionInvariance == AdmissionSpec => []AdmissionInv
  BY AdmissionStarts, AdmissionKept, PTL DEF AdmissionSpec

\* The slots, counters, requests and management calls of request_filter.rs
\* keep their types: in particular no counter goes below zero.
THEOREM AdmissionTyped == AdmissionSpec => []AdmissionTypeOK
  <1>1. AdmissionInv => AdmissionTypeOK
    BY DEF AdmissionInv
  <1> QED BY <1>1, AdmissionInvariance, PTL

\* Every permit and every slot a request took is given back once, to the
\* counter it was taken from (the guards of client_key_limiter.rs and
\* upstream_user_id_limiter.rs), for any number of requests and of renames,
\* patches and revocations on the way.
THEOREM NothingIsLost == AdmissionSpec => []NothingLost
  <1>1. AdmissionInv => NothingLost
    <2> SUFFICES ASSUME AdmissionInv PROVE NothingLost
      OBVIOUS
    <2>1. Counted = {r \in Requests : req[r].user # NoSlot
                              /\ req[r].pc \notin {"ucas", "utotal", "ucheck", "uremove"}}
      BY DEF Counted, HasCount
    <2>2. total = Cardinality({r \in Requests : req[r].user # NoSlot
                              /\ req[r].pc \notin {"ucas", "utotal", "ucheck", "uremove"}})
      BY <2>1 DEF AdmissionInv, TotalExact
    <2>3. \A s \in Slots : slot[s].inflight >=
              Cardinality({r \in Requests : HoldsSlot(r) /\ req[r].arc = s})
      BY DEF AdmissionInv, SlotsCover, SlotHolders
    <2>4. \A u \in UserSlots : (u = userMap \/ \E r \in Requests : req[r].user = u)
              => userSlot[u] = Cardinality({r \in Requests : HoldsUser(r) /\ req[r].user = u})
      BY DEF AdmissionInv, UsersExact, UserHolders
    <2>5. sem = Permits - Cardinality({r \in Requests : req[r].permit})
      BY DEF AdmissionInv, PermitsExact, Permitted
    <2> QED BY <2>2, <2>3, <2>4, <2>5 DEF NothingLost
  <1> QED BY <1>1, AdmissionInvariance, PTL

\* max_concurrent of a client key holds across renames (sync_key) as long as
\* no two management calls overlap, for any number of requests and slots.
THEOREM KeyLimitHolds == AdmissionSpec => []KeyLimit
  <1>1. AdmissionInv => KeyLimit
    BY DEF AdmissionInv
  <1> QED BY <1>1, AdmissionInvariance, PTL

\* The map of user id slots is empty when no request is at work with one
\* (release of upstream_user_id_limiter.rs), whoever was refused or removed a
\* slot that was no longer its own.
THEOREM SlotsLeave == AdmissionSpec => []NoSlotLeft
  <1>1. AdmissionInv => NoSlotLeft
    <2> SUFFICES ASSUME AdmissionInv, userMap # NoSlot
                 PROVE  \E r \in Requests : req[r].pc \in {"ucas", "utotal", "serve", "end", "usub",
                                                           "usubtotal", "ucheck", "uremove"}
      BY DEF NoSlotLeft
    <2>1. PICK r \in Requests : req[r].user = userMap
      BY DEF AdmissionInv, MapHeld
    <2> QED BY <2>1 DEF AdmissionInv, ShapeOK, Shape, WithUser
  <1> QED BY <1>1, AdmissionInvariance, PTL
=============================================================================
